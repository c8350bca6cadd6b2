CONSTANTS
  plan = plan
  review = review
  office = office
  hint = hint
  Skills = {plan, review, office}
  Def <- MCDef
  NotASkill = NotASkill
  Nil = Nil
  N = 4
  MaxCalls = 2
  MaxDepth = 2
  Energy = 8
  Slots = 2
  Turns = 1
  Requested = {9}
SPECIFICATION Spec
INVARIANT CallsWithinBudget
CHECK_DEADLOCK FALSE
