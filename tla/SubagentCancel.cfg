SPECIFICATION FairSpec
CONSTANTS
  Parents = {p1, p2}
  Ticker = ticker
  Jobs = {j1}
  NoJob = NoJob
  Moves = {"spawn", "cancel"}
  MaxConcurrent = 1
  ConsumedTTL = 1
  UnconsumedTTL = 2
PROPERTY CancelSettles
CHECK_DEADLOCK FALSE
