SPECIFICATION Spec
CONSTANTS
    u1 = u1
    Conns = {1}
    Users = {u1}
    Setups <- ThreadSetups
    MaxSend = 2
    MaxData = 2
    HighWaterMark = 1
INVARIANTS
    ThreadsAreSafe
CHECK_DEADLOCK FALSE
