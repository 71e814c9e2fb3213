SPECIFICATION Spec
CONSTANTS
    Callers = {c1, c2}
    MaxId = 3
    ForeignIds = {}
    MaxCommitted = 3
    RaceAndStop = TRUE
    NoOne = NoOne
INVARIANTS
    UniqueIds
