SPECIFICATION Spec
CONSTANTS
  None = None
  t1 = t1
  t2 = t2
  s1 = s1
  s2 = s2
  v1 = v1
  Users = {u1}
  Transcripts = {t1}
  Saves = {s1, s2}
  Uploads = {}
  Text <- MCText
  Paragraphs <- MCParagraphs
  Titles = {TRUE, FALSE}
  MaxParallel = 2
  MaxRetries = 1
  MaxFaults = 1
  MaxVisits = 1
CHECK_DEADLOCK FALSE
INVARIANTS TypeOK MissingFileIsOwed SoloWriterPublishes
PROPERTIES StepsKeepPointIds
