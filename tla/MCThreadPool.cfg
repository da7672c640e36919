SPECIFICATION FairSpec
CONSTANTS
  Callers = {c1, c2}
  MaxThreads = 2
  MaxSizes = {0, 1, 2}
  MaxTasks = 2
INVARIANTS BoundedFifo NoLostNotify StartedAndStopped
PROPERTIES TasksStart CallsReturn
CHECK_DEADLOCK FALSE
