SPECIFICATION Spec
CONSTANTS
  MaxCells = 2
  MaxEvents = 0
  MaxMarks = 1
  Moves = {"flush", "tool", "interrupt", "deadline", "flood"}
INVARIANTS
  NoRunawayWorker
PROPERTIES
  CellsKept
CHECK_DEADLOCK FALSE
