SPECIFICATION FairSpec
CONSTANTS
    u1 = u1
    Conns = {1, 2}
    Users = {u1}
    Setups <- AllSetups
    MaxSend = 2
    MaxData = 3
    HighWaterMark = 1
INVARIANTS
    NoFault
    ActiveAreAlive
    PollerConsistent
    WireInOrder
PROPERTIES
    LivesAsPromised
    CloseCompletes
CHECK_DEADLOCK FALSE
