SPECIFICATION MCSpec
CONSTANTS
  Tab = {t1, t2}
  Locks = TRUE
  MaxSession = 2
  MaxEvents = 3
  User = {x}
  Chat = {A, B}
  None = None
  MaxStrokes = 3
  MaxVisits = 2
INVARIANTS
  AliveIsNotKicked
PROPERTIES
  RequestSettles
  TypingFades
CHECK_DEADLOCK FALSE
