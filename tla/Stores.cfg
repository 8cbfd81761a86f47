SPECIFICATION MCSpec
CONSTANTS
  Readers = {r1, r2}
  Writers = {w1}
  SnapshotTTL = 1
  MaxVersion = 3
  MaxNow = 1
  Syncers = {"market", "jobs"}
  Listed <- MCListed
  MarketStart = 1
  Starts = {0, 3}
  FirstFetch = 1
  MaxClosed = 4
  MaxJobs = 1
  MaxDeaths = 1
INVARIANTS CacheInv StoreInv
PROPERTIES NothingForgotten NewestArrives
CHECK_DEADLOCK FALSE
