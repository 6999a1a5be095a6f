SPECIFICATION MCSpec
CONSTANTS
  f1 = f1  f2 = f2  f3 = f3  f4 = f4  a1 = a1  a2 = a2  a3 = a3  m1 = m1
  Scenarios <- GroupOnly
  Upload = {f1, f2, f3, f4}
  Photos = {f3}
  Avatar = {a1, a2, a3}
  Message = {m1}
  FilesOf <- OneMessage
  Req = {r1, r2}
  Run = {j1, j2}
  Quota = 2
  Mishaps = 1
  None = None
INVARIANT GroupPhotoKept
CHECK_DEADLOCK FALSE
