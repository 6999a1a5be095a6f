SPECIFICATION MCSpec
CONSTANTS
  u1 = u1  u2 = u2  a1 = a1  b1 = b1
  Scenarios <- GlareOnly
  User = {u1, u2}
  Req = {r1}
  Cand = {c1, c2}
  Description = description
  MaxCalls = 2
  None = None
  Device = {a1, b1}
  Owner <- Owners
  Flaky = {}
  Mishaps = 0
VIEW GlareView
PROPERTY OneCallAtATime
CHECK_DEADLOCK FALSE
