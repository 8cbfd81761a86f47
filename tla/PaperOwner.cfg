SPECIFICATION FairSpec
CONSTANTS
  t1 = t1
  Tickers = {t1}
  Actions = {"pause", "resume", "stop", "reset"}
  Gaps = TRUE
  Prices = {1, 2}
  Capital = 2
  MaxCandle = 3
  MaxAsked = 3
  MaxCrashes = 1
CHECK_DEADLOCK FALSE
INVARIANT TypeOK
INVARIANT OneOpen
PROPERTY CatchesUp
