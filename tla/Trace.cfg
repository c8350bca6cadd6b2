SPECIFICATION Spec
CONSTANTS
  Jobs = 1
  Turns = 1
  Iters <- MCIters
  Attempts <- MCAttempts
  Failures = 1
  Nil = Nil
INVARIANTS
  CountsAgree
  QueriesTrue
  SettledIsClosed
PROPERTIES
  SettledStays
CHECK_DEADLOCK FALSE
