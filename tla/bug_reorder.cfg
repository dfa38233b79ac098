CONSTANTS
  Document = {d1, d2, d3}
  Request = {r1}
  Key = {1, 2, 3}
  Position = {0, 1, 2}
SPECIFICATION Spec
CHECK_DEADLOCK FALSE
INVARIANT AnyOrderCanBeGiven
