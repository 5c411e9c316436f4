SPECIFICATION Spec
CONSTANTS
  Root = "/"
  Names = {a, n}
  Fresh = {n}
  Sample = Sample
  None = None
  Rows = {r1, r2, r3}
  MaxHits = 1
  Starts <- MCStarts
  a = a
  Uploaded = {a}
  u1 = u1
  u2 = u2
  Calls = {c1, c2, u1, u2}
  Uploads = {u1, u2}
  Polls = {q1}
  Total = 1
INVARIANTS RowsUnderLabel WaitingUserSeesDrive ProgressIsOwn
PROPERTIES UploadIsReported
VIEW View
CHECK_DEADLOCK FALSE
