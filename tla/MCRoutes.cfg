SPECIFICATION Spec
CONSTANTS
  Names <- SomeNames
  Urls <- SomeUrls
  MaxProject = 2
  MaxKey = 3
  MaxStored = 1
  MaxNames = 2
  None = None
  Empty = Empty
  Broken = Broken
  Failed = Failed
INVARIANTS
  TokenStaysSafe
  ValidNamesArrive
  NamesUsable
  ProjectsReadable
