SPECIFICATION FairSpec
CONSTANTS
  None = None
  c1 = c1
  c2 = c2
  r1 = r1
  r2 = r2
  f1 = f1
  f2 = f2
  Collections = {c1, c2}
  Resources = {r1, r2}
  Files = {f1, f2}
  Home <- MCHome
  Owner <- MCOwner
  Turn <- MCTurn
  Users = {u1}
  Workers = {w1}
  MaxWork = 1
  MaxFaults = 0
CHECK_DEADLOCK FALSE
PROPERTY CollectionsGo
