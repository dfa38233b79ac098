CONSTANTS
  None = None
  Activity <- RaceActivity
  User <- Staff
  Valuation <- Choice
  Template <- RaceTemplate
  Depth = 0
  MaxDepth = 1
  Worker = {w1}
  MaxAttempts = 2
  MaxItems = 2
  MaxTokens = 2
  MaxRounds = 6
  MaxChildren = 1
SPECIFICATION RequestSpec
CHECK_DEADLOCK FALSE
INVARIANTS NoLostActivation WaitingJoinHasClock
PROPERTIES CancelledIsFinal LifecycleSpec
