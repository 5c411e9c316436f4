SPECIFICATION FairSpec
CONSTANTS
  Calls = {c1, c2}
  Sources <- MixedSources
  PoolSize = 2
  MaxActive = 2
  DiskMayFail = FALSE
  ReadMayFail = TRUE
INVARIANTS BlocksInPlace
PROPERTIES EveryCallReturns
CHECK_DEADLOCK FALSE
