SPECIFICATION FairSpec
CONSTANTS
  Writers = {w1, w2}
  Ports <- MCPorts
  OutSpace <- MCOutSpace
  OwnSpace <- MCOwnSpace
  ReconfigLive = FALSE
  MaxWrites = 2
INVARIANTS
  PauseExcludesPush
PROPERTIES
  MergeSpec
  EveryDatumPushed
  StopReturns
CHECK_DEADLOCK FALSE
