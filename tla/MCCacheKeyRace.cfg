SPECIFICATION Spec
CONSTANTS
  Procs = {p1, p2}
  Tokens = {t1}
  Projects = {prj}
  None = None
  TTL = 1
  Skew = 1
  Faults = FALSE
  Edits = FALSE
  MaxTime = 1
  MaxKeys = 2
  MaxWrites = 1
PROPERTIES
  FreshEntryUsed
CHECK_DEADLOCK FALSE
