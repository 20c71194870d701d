SPECIFICATION Spec
CONSTANTS
  Projects = {prj}
  SecretKeys = {k1}
  Values = {v1}
  Passphrases = {pw1, pw2}
  Salts = {s1}
  Procs = {p1}
  Slots = {c1}
  None = None
  MaxVersion = 1
  Tokens = {t1, t2}
  Names = {n1}
  ClientOps = {"create","put","delete","token_create"}
  Flaws = {"bad_key"}
  Faults = TRUE
  TTLs = {9}
  MaxDate = 3
  MaxTime = 0
  MaxRequests = 2
SYMMETRY Symmetry
INVARIANTS
  AuditTruthful
PROPERTIES
  ImplementsAccess
