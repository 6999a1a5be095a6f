SPECIFICATION MCSpec
CONSTANTS
  Scenarios = {"password", "codes", "links", "deletion", "guarded", "bucket", "form"}
  Req = {h1, h2}
  Tries = 2
  MaxTries <- TriesOf
  MaxSecrets = 4
  MaxFaults = 1
  q1 = q1  q2 = q2  v1 = v1  v2 = v2
  Capacity = 5
  Cost = 2
  Rate = 1
  Second = 3
  Request = {q1, q2}
  Server = {v1, v2}
  ServerOf <- Homes
  MaxTime = 6
  MaxOutages = 1
  Name = {n1, n2, n3, n4}
  Short = {n4}
  Nobody = nobody
  MaxTyped = 4
INVARIANTS
  LimitsNearlyHold
  UsedIsDead
  RestoredIsSafe
  LimitHolds
  NameIsVouched
PROPERTY ScrubbedInTheEnd
CHECK_DEADLOCK FALSE
