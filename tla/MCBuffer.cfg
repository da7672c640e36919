SPECIFICATION Spec
CONSTANTS
  Data <- MCData
  Base = 2
  CR = 1
  LF = 0
  kCheapPrepend = 2
  kInitialSize = 1
  InitialSizes = {0, 1, 2}
  ExtraSize = 2
  Widths = {1, 2}
  MaxSize = 6
INVARIANTS NeverAborts
PROPERTIES HeaderRoomKept CallsActOnQueue
