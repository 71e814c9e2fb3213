SPECIFICATION FairSpec
CONSTANTS
    Wills = {w1,w2,w3}
    RetainedWills = {w3}
    Ticks = {t1,t2}
    Storage = TRUE
    QuietShutdown = TRUE
    MaxRestarts = 2
    MaxCrashes = 1
    None = None
CHECK_DEADLOCK FALSE
INVARIANTS
    TimerRunsWhileTracking
PROPERTIES
    TrackedUntilAcked
    TrackedIsAcked
