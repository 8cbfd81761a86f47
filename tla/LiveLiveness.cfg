SPECIFICATION FairSpec
CONSTANTS
  Pairs = {btc}
  Keys = {k1}
  SafeKeys = {k1}
  NoKey = NoKey
  NoPair = NoPair
  Outcomes = {"filled"}
  Switch = {TRUE}
  CrashPoints <- Anywhere
  MaxCandle = 1
  MaxMinute = 1
  MaxAuth = 1
  MaxKills = 0
  MaxCrashes = 1
PROPERTY UnresolvedResolves
PROPERTY StopActs
