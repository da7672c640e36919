SPECIFICATION FairSpec
CONSTANTS
    o = o
    t1 = t1
    t2 = t2
    f1 = f1
    f2 = f2
    c1 = c1
    c2 = c2
    wfd = wfd
    Owner = o
    Others = {t1, t2}
    Functors = {f1, f2}
    Channels = {c1, c2}
    WakeupChannel = wfd
    InitListSize = 1
    EventFdMax = 2
INVARIANTS
    SleepsOnNothing
PROPERTIES
    TaskQueueSafe
    PromptRun
    ReadyIsHandled
