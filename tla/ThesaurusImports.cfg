SPECIFICATION FairSpec
CONSTANTS
  None = None
  Bad = Bad
  i1 = i1
  i2 = i2
  t1 = t1
  t2 = t2
  Imports = {i1, i2}
  Contents <- MCContents
  Terms = {t1, t2}
  MaxSeconds = 2
  MaxRestarts = 1
  MaxFaults = 1
CHECK_DEADLOCK FALSE
INVARIANTS TypeOK ImportExact CountRight AppendsKept FilesOwned
PROPERTIES ImportsEnd
