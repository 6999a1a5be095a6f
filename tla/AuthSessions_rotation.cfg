SPECIFICATION MCSpec
CONSTANTS
  Scenarios <- Rotations
  Device = {d1}
  Session = {s1, s2}
  Token = {t1, t2, t3}
  Req = {r1, r2}
  Socket = {}
  None = None
  MaxEra = 0
  Expiring = {}
  Timely = TRUE
SYMMETRY Symmetry
VIEW ReuseView
INVARIANTS
  RefreshAfterEndRefused
  ReuseHasCause
PROPERTY ImplementsChain
CHECK_DEADLOCK FALSE
