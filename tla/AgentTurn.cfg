SPECIFICATION FairSpec
CONSTANTS
  Modes = {"main", "auto", "sub"}
  Kinds = {"todo", "ask", "exec", "ghost"}
  Budget = 2
  Energy = 2
  MaxAttempts = 2
  MaxEmpty = 2
  Repeats = 2
  Keep = 1
  MaxTurns = 2
  MaxCalls = 2
  MaxTodos = 1
  MaxRestarts = 1
INVARIANTS
  HistorySound
  EnergyAudit
  PromptCancel
PROPERTIES
  TurnsKept
  TurnEnds
