SPECIFICATION Spec
CONSTANTS
  Pairs = {btc}
  Keys = {k1, k2}
  SafeKeys = {k1}
  NoKey = NoKey
  NoPair = NoPair
  Outcomes = {"filled", "expired"}
  Switch = {TRUE}
  CrashPoints <- Anywhere
  MaxCandle = 1
  MaxMinute = 0
  MaxAuth = 1
  MaxKills = 1
  MaxCrashes = 1
INVARIANT TypeOK
INVARIANT LedgerAgrees
INVARIANT OrderInv
PROPERTY FinalForever
PROPERTY SentOnce
PROPERTY LedgerSpec
