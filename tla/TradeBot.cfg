SPECIFICATION FairSpec
CONSTANTS
  Size = 2
  StopOnExchange = TRUE
  ExitTimeouts = 1
  MaxOrders = 5
  MaxCrashes = 1
INVARIANTS AmountAgrees EndedIsFlat OneSeller NotStranded
PROPERTIES Unwinds TradeSpec
CHECK_DEADLOCK FALSE
