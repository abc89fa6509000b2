SPECIFICATION FairSpec
CONSTANTS
  Plans <- AllPlans
  Kinds <- BothKinds
  SlowReplies <- SlowOrNot
  Crashes = TRUE
  Fallback = TRUE
  Echoes <- Marks
  Rests <- SomeRests
  MaxSent = 5
  MaxAttempts = 3
INVARIANTS  SocketOwned CommitAnswerTrue RetryKeepsContext
PROPERTY CallsEnd
CHECK_DEADLOCK FALSE
