CONSTANTS
  plan = plan
  review = review
  office = office
  hint = hint
  Skills = {plan, review, office}
  Def <- MCDef
  NotASkill = NotASkill
  Nil = Nil
  N = 2
  MaxCalls = 2
  MaxDepth = 2
  Energy = 4
  Slots = 2
  Turns = 3
  Requested = {9}
SPECIFICATION Spec
INVARIANT NoticeReachesPrompt
CHECK_DEADLOCK FALSE
