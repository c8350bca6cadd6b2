SPECIFICATION FairSpec
CONSTANTS
  MaxCells = 1
  MaxEvents = 2
  MaxMarks = 2
  Moves = {"flush", "timer", "tool", "autoflush", "limit", "interrupt", "deadline"}
INVARIANTS
  OutputSound
  SummariesHonest
PROPERTIES
  ResultDecidedOnce
  Answers
CHECK_DEADLOCK FALSE
