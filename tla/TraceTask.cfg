\* A run whose sub-agent works on a task of its own.
SPECIFICATION Spec
CONSTANTS
  Jobs = 1
  Turns = 1
  Iters <- MCIters
  Attempts <- MCAttempts
  Failures = 0
  Nil = Nil
INVARIANT TaskFindsRun
CHECK_DEADLOCK FALSE
