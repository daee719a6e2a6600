SPECIFICATION Spec
CONSTANTS
  None = None
  a = a
  b = b
  Windows = {w1}
  Ids = {a, b}
  Found = {b}
  Pages <- MCPages
  MaxClicks = 6
  SearchClicks = 1
  MaxWire = 2
  MaxFaults = 0
  MaxHandlers = 2
CHECK_DEADLOCK FALSE
INVARIANTS ListedIsActedOn
