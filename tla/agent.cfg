CONSTANTS
  None = None
  Activity <- AutoActivity
  User <- Staff
  Valuation <- Single
  Template <- AutoTemplate
  Depth = 0
  MaxDepth = 1
  Worker = {w1, w2}
  MaxAttempts = 2
  MaxItems = 2
  MaxTokens = 2
  MaxRounds = 4
  MaxChildren = 1
SPECIFICATION UnattendedSpec
CHECK_DEADLOCK FALSE
INVARIANTS GivesUpAfterMaxAttempts
PROPERTIES FinishedIsFinal AutoActivityEnds
