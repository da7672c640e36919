SPECIFICATION Spec
CONSTANTS
    t1 = t1
    a1 = a1
    a2 = a2
    Others = {t1}
    Addresses = {a1}
    Delays = {0, 2}
    Intervals = {0, 1}
    MaxDelay = 2
    MaxTimers = 2
    MaxQueue = 2
INVARIANTS
    IdsAreTrue
