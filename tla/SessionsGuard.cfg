SPECIFICATION Spec
CONSTANTS
  Tasks = {t1, t2, t3}
  Kinds = {"acp", "guard"}
  Old = Old
  Nil = Nil
INVARIANT OnlyLostClients
