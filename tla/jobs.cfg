CONSTANTS
  Request = {j1, j2}
  Worker = {w1, w2}
  Serves <- BothCelery
  Loss <- Losses
  MaxFailures = 1
  Offer <- Meeting
  Library <- Pair
SPECIFICATION Spec
CHECK_DEADLOCK FALSE
INVARIANT ArchivesAreThere
PROPERTIES  JobsSettle
