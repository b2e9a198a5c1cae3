SPECIFICATION LoopSpec
CONSTANTS
  Callers = {owner, writer}
  MaxThreads = 2
  MaxMessages = 2
  MaxClients = 3
  PipeRoom = 2
  NoThread = NoThread
INVARIANTS
  OneLoop
  FramesKept
  ClientsServed
PROPERTIES
  DeadTakenOut
  StopReturns
CHECK_DEADLOCK FALSE
