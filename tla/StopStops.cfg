SPECIFICATION Spec
CONSTANTS
  Callers = {owner, writer}
  MaxThreads = 2
  MaxMessages = 1
  MaxClients = 1
  PipeRoom = 3
  NoThread = NoThread
PROPERTY
  StopStops
CHECK_DEADLOCK FALSE
