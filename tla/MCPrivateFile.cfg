SPECIFICATION Spec
CONSTANTS
  Old = {f1, f2}
  New = {n1, n2}
  None = None
SYMMETRY Symmetry
INVARIANTS
  UsedIsVetted
  KeyFilesWhole
PROPERTIES
  NoLinkFollowed
