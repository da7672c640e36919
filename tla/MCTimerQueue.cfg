SPECIFICATION FairSpec
CONSTANTS
    t1 = t1
    a1 = a1
    a2 = a2
    Others = {t1}
    Addresses = {a1, a2}
    Delays = {2}
    Intervals = {0, 1}
    MaxDelay = 2
    MaxTimers = 3
    MaxQueue = 1
INVARIANTS
    SetsAgree
    Accounted
    Armed
    CancelHolds
PROPERTIES
    EveryTimerExpires
