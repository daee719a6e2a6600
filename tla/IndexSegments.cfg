SPECIFICATION Spec
CONSTANTS
  None = None
  e1 = e1
  e2 = e2
  Editors = {e1, e2}
  MaxRows = 3
  MaxRequests = 2
  Times <- MCTimes
  Kinds <- MCKinds
  Hour = 4
CHECK_DEADLOCK FALSE
INVARIANTS TypeOK CreateAndDestroyTile SegmentsStayApart TwinsStayAligned
