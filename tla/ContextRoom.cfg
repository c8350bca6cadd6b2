CONSTANTS
  Window = 20
  Static = 2
  Task = 1
  Extras <- OneExtra
  Status = 3
  Tomb = 1
  Evicted = 1
  Sizes = {1, 9}
  Safe = 1
  Reach = 2
  Old = 2
  Stripped = 1
  Clip = 3
  TurnLimit = 6
  ResultLimit = 7
  Kinds = {"diagnostic", "file"}
  Keep = 1
  MaxTurns = 3
  MaxMessages = 6
  MaxEdits = 1
SPECIFICATION ContextSpec
INVARIANT RoomIsUsed
CHECK_DEADLOCK FALSE
