SPECIFICATION Spec
CONSTANTS
  Size = 4
  DoTypeCheck = TRUE
  MaxTime = 5
  MaxWrites = 6
PROPERTIES
  LateIsSorted
CHECK_DEADLOCK FALSE
