SPECIFICATION Spec
CONSTANTS
  Addrs = {a1, a2, a3}
  Sizes = {1, 2, 4}
  InitSize = 2
  MaxIndex = 4
  None = None
  Null = Null
  MaxClients = 2
SYMMETRY Symmetry
INVARIANTS
  PinnedStaysFirst
  RegisteredIsFound
PROPERTIES
  RegistrySpec
  ReachesOnlySubscribers
CHECK_DEADLOCK FALSE
