SPECIFICATION Spec
CONSTANTS
  Tasks = {t1, t2, t3}
  Kinds = {"chat", "acp", "scheduled", "agent", "cancel",
           "cancel_task", "new", "guard", "shell", "command", "model"}
  Old = Old
  Nil = Nil
SYMMETRY Interchangeable
INVARIANTS
  SessionsSound
  AnswersSender
  CancelReaches
  ResetForgets
  ModelTakesEffect
