SPECIFICATION Spec
CONSTANTS
    Topics = {t1,t2}
    Publishers = {p1,p2}
    Subscribers = {s1}
    WillTopics = {t2}
    MaxMsgs = 3
    MaxStops = 1
CHECK_DEADLOCK FALSE
INVARIANTS
    TypeOK
    StoreAgrees
    NothingMissed
    DropIsHeard
