CONSTANTS
  w1 = w1
  w2 = w2
  w3 = w3
  Request = {r1, r2}
  Worker = {w1, w2, w3}
  Serves <- Deployed
  Loss <- AnyLoss
  MaxFailures = 2
  Uploads = {r1}
SPECIFICATION Spec
CHECK_DEADLOCK FALSE
INVARIANTS QuietChainVerifies ReadyHasObject
PROPERTIES EveryRecordIsChained ProcessingEnds
