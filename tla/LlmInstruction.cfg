SPECIFICATION Spec
CONSTANTS
  Instructions = {"short", "long", "longer"}
  Large = {"long", "longer"}
  Calls = {"a", "b", "c"}
  Parts <- MCParts
  Spelling <- MCSpelling
  Replies <- MCReplies
  MaxAttempts = 3
  Requests = 2
  Nil = Nil
INVARIANT
  InstructionReaches
CHECK_DEADLOCK FALSE
