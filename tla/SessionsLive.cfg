SPECIFICATION FairSpec
CONSTANTS
  Tasks = {t1, t2}
  Kinds = {"chat", "cli", "acp", "agent", "scheduled", "command", "cancel",
           "new", "guard", "shell", "model"}
  Old = Old
  Nil = Nil
PROPERTY PermitReturned
