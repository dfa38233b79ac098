CONSTANTS
  start = start
  work = work
  call = call
  end = end
  w1 = w1
  Slot <- MCSlot
  TypeOf <- MCTypeOf
  Workflow = {w1}
  Drafts <- MCDrafts
  NewFlows <- MCNewFlows
  Unset = Unset
  Given = Given
  MaxDepth = 2
  MaxTemplates = 3
  MaxEdits = 2
SPECIFICATION Spec
CHECK_DEADLOCK FALSE
INVARIANTS OneActive DeprecatedHasSuccessor ActiveIsSound CirclesGoThroughOldVersions
PROPERTY InstalledWhileInUse
