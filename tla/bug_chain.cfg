CONSTANTS
  w1 = w1
  w2 = w2
  w3 = w3
  Request = {r1, r2}
  Worker = {w1, w2, w3}
  Serves <- Deployed
  Loss = {}
  MaxFailures = 0
  Uploads = {r1}
SPECIFICATION Spec
CHECK_DEADLOCK FALSE
INVARIANT ChainVerifies
