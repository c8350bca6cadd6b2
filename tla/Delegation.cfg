CONSTANTS
  plan = plan
  review = review
  office = office
  hint = hint
  Skills = {plan, review, office, hint}
  Def <- MCDef
  NotASkill = NotASkill
  Nil = Nil
  N = 2
  MaxCalls = 1
  MaxDepth = 2
  Energy = 5
  Slots = 1
  Turns = 2
  Requested = {9}
SPECIFICATION Spec
INVARIANTS
  DelegationBounded
  EveryCallCounted
  CalleeLives
PROPERTIES
  ReplyResumes
CHECK_DEADLOCK FALSE
