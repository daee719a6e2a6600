SPECIFICATION Spec
CONSTANTS
  None = None
  t1 = t1
  t2 = t2
  s1 = s1
  s2 = s2
  v1 = v1
  Users = {u1}
  Transcripts = {t1}
  Saves = {s1}
  Uploads = {v1}
  Text <- MCText
  Paragraphs <- MCParagraphs
  Titles = {TRUE}
  MaxParallel = 1
  MaxRetries = 1
  MaxFaults = 1
  MaxVisits = 2
CHECK_DEADLOCK FALSE
INVARIANTS SoloWriterPublishes
PROPERTIES LeaseKept
