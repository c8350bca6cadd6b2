SPECIFICATION Spec
CONSTANTS
  Tasks = {t1}
  Kinds = {"scheduled"}
  Old = Old
  Nil = Nil
INVARIANT EveryLoopHasTool
