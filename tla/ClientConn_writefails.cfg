SPECIFICATION FairSpec
CONSTANTS
    Producers = {p1}
    Cap = 1
    KeepAlive = FALSE
    HasWill = FALSE
    WriteFails = TRUE
    MaxReads = 3
    MaxMsgs = 2
CHECK_DEADLOCK FALSE
PROPERTIES
    ServeEnds
