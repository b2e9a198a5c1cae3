SPECIFICATION PusherSpec
CONSTANTS
  Size = 3
  DoTypeCheck = FALSE
  w1 = w1
  w2 = w2
  Writers = {w1, w2}
  Clients = {c1, c2}
  Times <- MCTimes
  MaxWrites = 3
  MaxCalls = 3
  FewWrites = 2
  FewCalls = 2
INVARIANTS
  PushesRecords
  NeverTwice
PROPERTIES
  QueueDrains
  JoinReturns
CHECK_DEADLOCK FALSE
