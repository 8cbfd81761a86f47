SPECIFICATION Spec
CONSTANTS
  Pairs = {btc}
  Keys = {k1}
  SafeKeys = {k1}
  NoKey = NoKey
  NoPair = NoPair
  Outcomes = {"filled"}
  Switch = {TRUE}
  CrashPoints <- NotBooking
  MaxCandle = 2
  MaxMinute = 0
  MaxAuth = 1
  MaxKills = 1
  MaxCrashes = 1
INVARIANT AtMostOneUnresolved
INVARIANT PositionKnown
INVARIANT OnePosition
INVARIANT LateEntryBound
