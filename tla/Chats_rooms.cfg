SPECIFICATION MCSpec
CONSTANTS
  u1 = u1  u2 = u2
  k2 = k2
  j1 = j1  j2 = j2
  Scenarios = {"group", "direct", "page", "list", "push"}
  User = {u1, u2}
  Creator = u1
  Pair = {u1, u2}
  Socket = {k2}
  Owner <- Owners
  Job = {j1, j2}
  MaxSeats = 2
  Nobody = nobody
  Mishaps = 1
  A = A  a1 = a1
  Chat = {A, B}
  Message = {a1}
  ChatOf <- Homes
  Key = {c1, c2}
  Text = {x, y}
  None = None
  MaxActs = 4
  ChatId = {A}
  NoChatId = none
  MaxMessages = 3
  MaxMoves = 3
  MaxLists = 2
  Person = {u1, u2}
  NoOne = None
  Tab = {t1, t2}
  MaxPushActs = 3
  MaxEndpoints = 2
  MaxFailures = 1
INVARIANTS
  RoomIsMembers
  LeaverIsTold
  PageIsOneChat
  KeyIsOneMessage
  
  PushSettles
SYMMETRY Symmetry
CHECK_DEADLOCK FALSE
