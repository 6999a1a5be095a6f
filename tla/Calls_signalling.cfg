SPECIFICATION MCFairSpec
CONSTANTS
  u1 = u1  u2 = u2  a1 = a1  b1 = b1
  Scenarios <- Signalling
  User = {u1, u2}
  Req = {r1, r2}
  Cand = {c1, c2}
  Description = description
  MaxCalls = 1
  None = None
  Device = {a1, b1}
  Owner <- Owners
  Flaky = {a1}
  Mishaps = 1
INVARIANTS
  EndedIsPosted
  NobodyTalksAlone
  CandidatesArrive
PROPERTIES
  ServerIsCallRecords
  RingingStops
CHECK_DEADLOCK FALSE
