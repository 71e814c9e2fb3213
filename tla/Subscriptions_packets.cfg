SPECIFICATION Spec
CONSTANTS
    Filters = {"f", "g"}
    MaxTopics = 2
    MaxPackets = 3
    MaxMade = 4
CHECK_DEADLOCK FALSE
INVARIANTS
    AcksAreTrue
    LiveIsKnown
PROPERTIES
    OthersUndisturbed
