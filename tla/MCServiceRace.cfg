SPECIFICATION Spec
CONSTANTS
  Projects = {prj, other}
  SecretKeys = {k1}
  Values = {v1}
  Passphrases = {pw1, pw2}
  Salts = {s1}
  Procs = {p1}
  Slots = {c1, c2}
  None = None
  MaxVersion = 1
  Tokens = {t1}
  Names = {n1}
  ClientOps = {"create", "put", "token_revoke", "token_list", "list_projects", "health"}
  Flaws = {}
  Faults = FALSE
  TTLs = {1}
  MaxDate = 3
  MaxTime = 1
  MaxRequests = 2
SYMMETRY Symmetry
INVARIANTS
  DeadOnArrival
PROPERTIES
  WritesAuthorized
