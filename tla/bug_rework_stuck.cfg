CONSTANTS
  None = None
  Activity <- LoopActivity
  User <- Staff
  Valuation <- Single
  Template <- LoopTemplate
  Depth = 0
  MaxDepth = 1
  Worker = {w1}
  MaxAttempts = 2
  MaxItems = 3
  MaxTokens = 2
  MaxRounds = 6
  MaxChildren = 1
SPECIFICATION InboxSpec
CHECK_DEADLOCK FALSE
INVARIANTS RunningHasWork
