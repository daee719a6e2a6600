SPECIFICATION Spec
CONSTANTS
  None = None
  e1 = e1
  e2 = e2
  Editors = {e1, e2}
  MaxRows = 2
  MaxRequests = 1
  Times <- MCTimes
  Kinds <- MCAlone
  Hour = 4
CHECK_DEADLOCK FALSE
INVARIANTS RefusedChangesNothing
