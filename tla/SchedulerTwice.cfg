SPECIFICATION Spec
CONSTANTS
  Ids = {i1}
  Callers = {c1}
  Loop = loop
  Nil = Nil
  Crons <- MCCrons
  Delays = {2}
  Minute = 4
  Period = 2
  Slack = 1
  Horizon = 12
  MaxCalls = 0
  MaxFaults = 0
  MaxKills = 0
CHECK_DEADLOCK FALSE
INVARIANT NotRunYet
