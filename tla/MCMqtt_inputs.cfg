SPECIFICATION InputsSpec
CONSTANTS
    TopicChars = {"a", "/", "."}
    FilterChars = {"a", "/", ".", "+", "#"}
    MaxTopic = 5
    MaxFilter = 5
    MaxName = 1
    MaxSent = 2
CHECK_DEADLOCK FALSE
INVARIANTS
    RoundTrips
    LiveIsMqtt
    LiveIsRetained
    WholePacketsAreRead
    PersistedIsKept
