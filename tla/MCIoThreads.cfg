SPECIFICATION FairSpec
CONSTANTS
  MaxThreads = 3
  MaxFds = 2
  MaxArrivals = 4
INVARIANTS NoFault EvenSpread
PROPERTIES StartsAndStops WaitingAnswered
CHECK_DEADLOCK FALSE
