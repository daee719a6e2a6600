SPECIFICATION FairSpec
CONSTANTS
  None = None
  t1 = t1
  t2 = t2
  s1 = s1
  s2 = s2
  v1 = v1
  Users = {u1, u2}
  Transcripts = {t1, t2}
  Saves = {s1}
  Uploads = {}
  Titles = {TRUE}
  Text <- MCText
  Paragraphs <- MCParagraphs
  MaxParallel = 1
  MaxRetries = 1
  MaxFaults = 1
  MaxVisits = 2
CHECK_DEADLOCK FALSE
PROPERTIES SavesSettle LocksReleased
