SPECIFICATION FairSpec
CONSTANTS
    BufferSize = 3
    MaxBuffers = 2
    MaxLines = 6
    RollSize = 2
    FlushInterval = 0
    CheckEveryN = 2
    Day = 2
    kSmallBuffer = 32
    kMaxNumericSize = 5
    Hours = 2
    Offset = 1
    Messages <- MCMessages
    WaitSeconds = 3
    Nano = 10
    MaxTime = 3
INVARIANTS
    NoAbort
    LinesInOrder
    NoLostNotify
    DeadlineHolds
PROPERTIES
    LineIsTrue
    RollsInTime
    EveryLineOnDisk
    StopCompletes
