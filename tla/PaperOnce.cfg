SPECIFICATION Spec
CONSTANTS
  t1 = t1 t2 = t2
  Tickers = {t1, t2}
  Actions = {"pause", "resume"}
  Gaps = TRUE
  Prices = {1, 2}
  Capital = 2
  MaxCandle = 3
  MaxAsked = 1
  MaxCrashes = 1
CHECK_DEADLOCK FALSE
INVARIANT BalanceAgrees
INVARIANT EntryNext
PROPERTY SessionSpec
