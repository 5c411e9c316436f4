SPECIFICATION Spec
CONSTANTS
  Calls = {c1, c2}
  Sources <- PlainSources
  PoolSize = 2
  MaxActive = 2
  DiskMayFail = FALSE
  ReadMayFail = FALSE
INVARIANTS SuccessIsExact
CHECK_DEADLOCK FALSE
