SPECIFICATION Spec
CONSTANTS
    ClientIds = {c1}
    Conns = {k1}
    PacketIds = {p1, p2}
    Dotted = {}
    CleanFlags = {TRUE, FALSE}
    Takeover = FALSE
    MaxReplies = 1
    MaxSeed = 2
    MaxMsgs = 3
    MaxRestarts = 0
    MaxCrashes = 0
    None = None
CHECK_DEADLOCK FALSE
INVARIANTS
    NoPrematureAck
    NoLeakedSubscription
PROPERTIES
    AwaitedUntilReplied
    RepliesFindTheirSession
