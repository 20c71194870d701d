SPECIFICATION Spec
CONSTANTS
  Projects = {prj}
  SecretKeys = {k1, k2}
  Values = {v1, v2}
  Passphrases = {pw1}
  Salts = {s1}
  Procs = {p1}
  Slots = {c1, c2}
  None = None
  MaxVersion = 2
SYMMETRY Symmetry
INVARIANTS
  Inv
PROPERTIES
  ImplementsStore
