SPECIFICATION RowsSpec
CONSTANTS
  Sigs = {0, 1, 2, 3, 4, 5, 6}
  MaxRows = 7
INVARIANT
  NoDuplicates
CHECK_DEADLOCK FALSE
