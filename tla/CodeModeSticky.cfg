SPECIFICATION Spec
CONSTANTS
  MaxCells = 1
  MaxEvents = 0
  MaxMarks = 2
  Moves = {"flush", "deadline"}
PROPERTY EndCollected
CHECK_DEADLOCK FALSE
