SPECIFICATION FairSpec
CONSTANTS
    ClientIds = {c1}
    Conns = {k1}
    PacketIds = {p1}
    Dotted = {}
    CleanFlags = {TRUE, FALSE}
    Takeover = FALSE
    MaxReplies = 1
    MaxSeed = 2
    MaxMsgs = 2
    MaxRestarts = 1
    MaxCrashes = 1
    None = None
CHECK_DEADLOCK FALSE
INVARIANTS
    EntriesNameTheirSession
PROPERTIES
    AwaitedUntilReplied
    PublishedIsAcked
