SPECIFICATION FairSpec
CONSTANTS
  Tasks = {t1, t2}
  Kinds = {"shell", "cancel"}
  Old = Old
  Nil = Nil
PROPERTY CancelFreesShell
