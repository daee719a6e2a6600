SPECIFICATION Spec
CONSTANTS
  Users = {u1, u2}
  Resources = {1}
  Files = {1, 2}
  Owner <- MCOwner
  Length <- MCLength
  Clips = {1}
  MaxRequests = 3
  None = None
  u1 = u1
  u2 = u2
SYMMETRY MCSymmetry
INVARIANTS TypeOK SoloChangeTotals NumbersKept LastItemStays
CHECK_DEADLOCK FALSE
