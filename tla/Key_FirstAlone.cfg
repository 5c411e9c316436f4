SPECIFICATION Spec
CONSTANTS
  Calls = {c1, c2, c3}
  OldKey = OldKey
  Absent = Absent
  NoKey = NoKey
  AtStart <- AnyStart
  Blocks = 2
  MaxFirst = 1
  MaxCrashes = 2
INVARIANTS StoredReadable DownloadReadsUpload
PROPERTIES KeyKept
CHECK_DEADLOCK FALSE
