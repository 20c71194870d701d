SPECIFICATION Spec
CONSTANTS
  Procs = {p1}
  Tokens = {t1, t2}
  Projects = {prj}
  None = None
  TTL = 1
  Skew = 1
  Faults = TRUE
  Edits = TRUE
  MaxTime = 2
  MaxKeys = 1
  MaxWrites = 2
SYMMETRY Symmetry
PROPERTIES
  CacheIsBound
  ReadYourWrites
  FreshEntryUsed
