CONSTANTS
  u1 = u1
  u2 = u2
  staff = staff
  Document = {d1}
  r1 = r1
  r2 = r2
  Request = {r1, r2}
  User = {u1, u2}
  Group = {staff}
  MemberOf <- MCMemberOf
  Rules <- MCRules
  Performer = {u2}
  Level = {"READ", "ADMIN"}
  FolderLevel = {"READ"}
  MaxFolders = 4
  MaxEntries = 2
SPECIFICATION Spec
CONSTRAINT Small
ACTION_CONSTRAINTS TreeFirst Overlap
SYMMETRY MCSymmetry
CHECK_DEADLOCK FALSE
INVARIANTS Acyclic NoOrphans FiledInFolders ReadableIsReachable SourceExplains
PROPERTY TransitionsNarrow
