SPECIFICATION Spec
CONSTANTS
  u1 = u1
  u2 = u2
  u3 = u3
  u4 = u4
  Users = {u1, u2, u3, u4}
  Paths <- MCPaths
  Attr <- MCAttr
  Settings <- AllSettings
SYMMETRY UserSymmetry
INVARIANTS IndexExact DownloadReadable
PROPERTIES ReportedWhole
CHECK_DEADLOCK FALSE
