SPECIFICATION MCFairSpec
CONSTANTS
  Scenarios <- Revocations
  Device = {d1}
  Session = {s1}
  Token = {t1, t2}
  Req = {r1, r2}
  Socket = {k1}
  None = None
  MaxEra = 1
  Expiring = {t1}
  Timely = TRUE
INVARIANTS
  WriteEndsOldSessions
PROPERTY SocketsEventuallyDrop
CHECK_DEADLOCK FALSE
