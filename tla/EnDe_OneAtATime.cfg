SPECIFICATION Spec
CONSTANTS
  Calls = {c1, c2, c3}
  Sources <- RejectedSources
  PoolSize = 2
  MaxActive = 1
  DiskMayFail = TRUE
  ReadMayFail = FALSE
INVARIANTS OwnBlocksFirst SuccessIsExact
SYMMETRY CallSymmetry
CHECK_DEADLOCK FALSE
