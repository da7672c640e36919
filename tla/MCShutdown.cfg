SPECIFICATION Spec
CONSTANTS
    u1 = u1
    Conns = {1}
    Users = {}
    Setups <- SendSetups
    MaxSend = 2
    MaxData = 2
    HighWaterMark = 1
PROPERTIES
    ShutdownWhenNotWriting
CHECK_DEADLOCK FALSE
