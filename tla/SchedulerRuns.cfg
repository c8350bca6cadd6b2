SPECIFICATION Spec
CONSTANTS
  Ids = {i1}
  Callers = {c1}
  Loop = loop
  Nil = Nil
  Crons <- MCCrons
  Delays = {2}
  Minute = 4
  Period = 2
  Slack = 1
  Horizon = 12
  MaxCalls = 1
  MaxFaults = 1
  MaxKills = 1
INVARIANTS
  RunsSound
  DueStarted
CHECK_DEADLOCK FALSE
