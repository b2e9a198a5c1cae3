SPECIFICATION FiltersSpec
CONSTANTS
  Files <- MCFiles
  TypeOf <- MCTypeOf
  OdomFiles <- MCOdomFiles
  DataFiles <- MCDataFiles
  Sequencing <- MCSequencing
  FakeTargets = {"none", "meas", "other"}
  MaxTick = 4
  Size = 2
  DoTypeCheck = FALSE
  Ins = 2
  Triggers <- MCTriggers
  Configs <- MCConfigs
  Wirings <- MCWirings
  MaxTime = 3
  MaxTriggers = 3
  Users = {planner, joystick}
  Nobody = Nobody
  MaxPriority = 3
  MaxTimeout = 3
INVARIANTS
  NothingRefused
  OutputsInStep
  StoppedIsStopped
PROPERTIES
  OutInOrder
  OdomAhead
  PushedInOrder
  GivenUpForReason
  MotionEnds
CHECK_DEADLOCK FALSE
