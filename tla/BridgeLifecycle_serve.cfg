SPECIFICATION FairSpec
CONSTANTS
    Conns = {k1, k2}
    Ticks = {t1}
    Boot = Boot
    MaxDials = 2
    RetainedTopic = TRUE
    Storage = TRUE
    BootFails = TRUE
    MaxCalls = 1
    MaxSignals = 1
CHECK_DEADLOCK FALSE
INVARIANTS
    NothingCutOff
    ManagedIsKept
    OneServerConn
    RetainedAnsweredOnce
PROPERTIES
    LoadsWhatWasPersisted
    
    CallReturns
