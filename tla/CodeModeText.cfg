SPECIFICATION Spec
CONSTANTS
  MaxCells = 1
  MaxEvents = 2
  MaxMarks = 1
  Moves = {"timer", "autoflush", "deadline"}
INVARIANT TextPublished
CHECK_DEADLOCK FALSE
