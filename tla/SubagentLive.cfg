SPECIFICATION FairSpec
CONSTANTS
  Parents = {p1, p2}
  Ticker = ticker
  Jobs = {j1}
  NoJob = NoJob
  Moves = {"spawn", "cancel", "wait", "drop", "panic"}
  MaxConcurrent = 1
  ConsumedTTL = 1
  UnconsumedTTL = 2
PROPERTIES
  Progress
CHECK_DEADLOCK FALSE
