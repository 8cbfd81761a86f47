SPECIFICATION FairSpec
CONSTANTS
  Problems = {"market", "disk"}
  Silence <- MCSilence
  Limit = 2
  Repeat = 2
  MaxPosts = 1
  MaxTurns = 1
  MaxTime = 3
  MaxDisk = 1
INVARIANT DeliveryInv
PROPERTIES NotTooOften ProblemTold EverythingSettles
CHECK_DEADLOCK FALSE
