SPECIFICATION Spec
CONSTANTS
  Parents = {p1, p2}
  Ticker = ticker
  Jobs = {j1, j2}
  NoJob = NoJob
  Moves = {"spawn"}
  MaxConcurrent = 1
  ConsumedTTL = 1
  UnconsumedTTL = 2
INVARIANT LimitRespected
CHECK_DEADLOCK FALSE
