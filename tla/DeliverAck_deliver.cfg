SPECIFICATION FairSpec
CONSTANTS
    ClientIds = {c1}
    Conns = {k1}
    Ids = {1}
    Messages <- EachKind
    CleanFlags = {TRUE, FALSE}
    Takeover = FALSE
    MaxSeed = 2
    MaxRestarts = 1
    MaxCrashes = 1
    None = None
CHECK_DEADLOCK FALSE
INVARIANTS
    TypeOK
    NoFalseReply
    OwedIdsAreReserved
PROPERTIES
    KeepsTheContract
    
