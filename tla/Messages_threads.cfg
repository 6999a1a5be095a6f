SPECIFICATION MCSpec
CONSTANTS
  a = a  b = b  k1 = k1  k2 = k2  k3 = k3  t1 = t1  t2 = t2
  Scenarios <- AllScenarios
  User = {a, b}
  Key = {k1, k2, k3}
  Author <- Authors
  Text = {t1, t2}
  Req = {r1, r2}
  None = None
  Reactions = 3
  Mishaps = 2
  Presses = 3
  Visits = 1
  Drops = 2
SYMMETRY Symmetry
INVARIANTS
  ToldIsTrue
  ThreadSettles
  UnreadSettles
  SentOnce
CHECK_DEADLOCK FALSE
