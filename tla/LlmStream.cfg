SPECIFICATION FairSpec
CONSTANTS
  Instructions = {"short", "long", "longer"}
  Large = {"long", "longer"}
  Calls = {"a", "b", "c"}
  Parts <- MCParts
  Spelling <- MCSpelling
  Replies <- MCReplies
  MaxAttempts = 3
  Requests = 2
  Nil = Nil
INVARIANTS
  ReplyHeard
  StreamSound
  RequestSound
PROPERTIES
  Answered
CHECK_DEADLOCK FALSE
