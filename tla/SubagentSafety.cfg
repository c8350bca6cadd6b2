SPECIFICATION Spec
CONSTANTS
  Parents = {p1, p2}
  Ticker = ticker
  Jobs = {j1}
  NoJob = NoJob
  Moves = {"spawn", "run", "cancel", "consume", "list", "wait", "take", "drop", "panic", "tick"}
  MaxConcurrent = 1
  ConsumedTTL = 1
  UnconsumedTTL = 2
SYMMETRY Symmetry
INVARIANTS
  CounterExact
  JobsReported
PROPERTIES
  ImplementsLifecycle
  JobsEndOnce
CHECK_DEADLOCK FALSE
