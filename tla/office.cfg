CONSTANTS
  None = None
  Activity <- OfficeActivity
  User <- Staff
  Valuation <- Single
  Template <- OfficeTemplate
  Depth = 0
  MaxDepth = 1
  Worker = {w1}
  MaxAttempts = 2
  MaxItems = 3
  MaxTokens = 2
  MaxRounds = 6
  MaxChildren = 1
SPECIFICATION ManagedSpec
CHECK_DEADLOCK FALSE
INVARIANTS SequentialTurns SuspendedOnlyWhileHalted AndJoinComplete ActiveManualHasWork OpenItemsAreLive
PROPERTIES SettledItemsStay
