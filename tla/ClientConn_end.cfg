SPECIFICATION FairSpec
CONSTANTS
    Producers = {p1}
    Cap = 2
    KeepAlive = TRUE
    HasWill = TRUE
    WriteFails = TRUE
    MaxReads = 3
    MaxMsgs = 1
CHECK_DEADLOCK FALSE
INVARIANTS
    FlushedInOrder
    

    
