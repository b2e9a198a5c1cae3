SPECIFICATION GridsSpec
CONSTANTS
  WordBits = 3
  LongBits = 3
  Starts <- MCStarts
  MaxCalls = 2
  Rows = 3
  Columns = 3
  Given <- MCGiven
  Adjacencies = {4, 8}
  Radii = {1, 2, 3}
  Sigs = {0, 1, 2, 3, 4, 5, 6, 7, 8, 9}
  MaxRows = 10
INVARIANTS
  AnswersRight
  RegionFilled
  QueuedOnce
  BoundaryAtZero
  DisksFilled
PROPERTIES
  CellsAsPromised
  RowsIncrease
CHECK_DEADLOCK FALSE
