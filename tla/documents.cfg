CONSTANTS
  u1 = u1
  u2 = u2
  r1 = r1
  r2 = r2
  c1 = c1
  c2 = c2
  User = {u1, u2}
  Content = {c1, c2}
  Request = {r1, r2}
  Protection = {"hold"}
  Nobody = Nobody
  MaxUploads = 3
  MaxMajor = 2
  MaxSigned = 1
SPECIFICATION Spec
CHECK_DEADLOCK FALSE
SYMMETRY Symmetry
INVARIANTS NoGaps EveryVersionHasContent NoRepeatedContent CurrentIsLatestDraft
