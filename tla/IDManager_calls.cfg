SPECIFICATION FairSpec
CONSTANTS
    Callers = {c1, c2}
    MaxId = 3
    ForeignIds = {2}
    MaxCommitted = 2
    RaceAndStop = FALSE
    NoOne = NoOne
INVARIANTS
    UniqueWhenSerial
    ZeroNeverReserved
PROPERTIES
    CallReturns
