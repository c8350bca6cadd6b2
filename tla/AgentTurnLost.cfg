SPECIFICATION Spec
CONSTANTS
  Modes = {"main", "auto"}
  Kinds = {"todo", "ask"}
  Budget = 2
  Energy = 2
  MaxAttempts = 2
  MaxEmpty = 2
  Repeats = 2
  Keep = 1
  MaxTurns = 2
  MaxCalls = 1
  MaxTodos = 1
  MaxRestarts = 0
INVARIANTS
  TurnsSerialized
