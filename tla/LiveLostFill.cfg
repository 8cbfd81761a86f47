SPECIFICATION Spec
CONSTANTS
  Pairs = {btc}
  Keys = {k1}
  SafeKeys = {k1}
  NoKey = NoKey
  NoPair = NoPair
  Outcomes = {"filled"}
  Switch = {TRUE}
  CrashPoints <- Booking
  MaxCandle = 1
  MaxMinute = 0
  MaxAuth = 1
  MaxKills = 0
  MaxCrashes = 1
INVARIANT PositionKnown
