CONSTANTS
  None = None
  Activity <- WaitActivity
  User <- Writer
  Valuation <- Single
  Template <- WaitTemplate
  Depth = 0
  MaxDepth = 1
  Worker = {w1, w2}
  MaxAttempts = 2
  MaxItems = 2
  MaxTokens = 2
  MaxRounds = 6
  MaxChildren = 1
SPECIFICATION SteadySpec
CHECK_DEADLOCK FALSE
INVARIANTS TypeOK
PROPERTIES TimeoutJoinFires FailureIsHandled DiligenceFinishes
