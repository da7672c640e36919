SPECIFICATION Spec
CONSTANTS
    u1 = u1
    Conns = {1}
    Users = {}
    Setups <- SendSetups
    MaxSend = 2
    MaxData = 3
    HighWaterMark = 1
INVARIANTS
    SendWritesSome
CHECK_DEADLOCK FALSE
