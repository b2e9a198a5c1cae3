SPECIFICATION DataSpec
CONSTANTS
  Size = 4
  DoTypeCheck = TRUE
  Gaps = {1, 2}
  MaxTime = 7
  MaxLate = 5
  MaxWrites = 6
  Modes = {"exact", "forward", "backward", "latest"}
  DataNeeded = TRUE
INVARIANTS
  RingInTimeOrder
  ReadGivesWanted
PROPERTIES
  WindowSpec
  NextInOrder
  NoMoreMeansCaughtUp
CHECK_DEADLOCK FALSE
