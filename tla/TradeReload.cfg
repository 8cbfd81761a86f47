SPECIFICATION ReloadSpec
CONSTANTS
  Size = 2
  StopOnExchange = FALSE
  ExitTimeouts = 0
  MaxOrders = 4
  MaxCrashes = 0
INVARIANT OnlyZeroCloses
CHECK_DEADLOCK FALSE
