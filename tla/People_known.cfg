SPECIFICATION MCFairSpec
CONSTANTS
  Scenarios = {"leases", "orderly", "requests", "lists", "suggestions", "redis", "pages"}
  s1 = s1  s2 = s2  s3 = s3  v1 = v1  v2 = v2
  Socket = {s1, s2, s3}
  Server = {v1, v2}
  Node = {v1, v2}
  Home <- Homes
  Ttl = 2
  Outages = 1
  Drops = 1
  f1 = f1  f2 = f2  q1 = q1  q2 = q2  c1 = c1  c2 = c2
  User = {f1, f2}
  Key <- Keys
  Req = {q1, q2}
  Runs <- Run
  Clear = {c1, c2}
  Missing = missing
  Me = f1
  Mine = q1
  Faults = 2
INVARIANTS
  IndexCoversLeases
  DotIsRight
  CacheIsFresh
  SkippedIsRemembered
  OfferedIsGood
PROPERTIES
  GoneIsSwept
  CacheComesBack
CHECK_DEADLOCK FALSE
