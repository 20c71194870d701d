SPECIFICATION FairSpec
CONSTANTS
  Projects = {prj}
  SecretKeys = {k1, k2}
  Values = {v1}
  Passphrases = {pw1, pw2}
  Salts = {s1, s2}
  Procs = {p1, p2}
  Slots = {c1}
  None = None
  MaxVersion = 2
INVARIANTS
  TypeOK
  AllRowsDecrypt
  ServingKeyCurrent
  SaltMatchesVerifier
  OneOwner
PROPERTIES
  ImplementsStore
  MutexReleased
  LockNotWedged
