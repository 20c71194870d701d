SPECIFICATION Spec
CONSTANTS
  Tokens = {t1, t2}
  Names = {n1}
  Projects = {prj1, prj2}
  Slots = {c1}
  None = None
  ClientOps = {"create", "get", "put", "delete", "token_create", "token_list", "token_revoke", "list_projects", "health", "unmatched"}
  Flaws = {"bad_key"}
  Faults = TRUE
  TTLs = {0, 1}
  MaxDate = 1
  MaxTime = 1
  MaxRequests = 2
SYMMETRY Symmetry
INVARIANTS
  TypeOK
  DeadOnArrival
  AnswersAudited
PROPERTIES
  Confinement
CHECK_DEADLOCK FALSE
