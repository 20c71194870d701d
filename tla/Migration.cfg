SPECIFICATION FairSpec
CONSTANTS
  Openers = {o1, o2, o3}
  OldTokens = {old}
  NewTokens = {new}
  None = None
INVARIANTS
  OpenedIsReady
  OldTokensKeepWorking
  ClashAtMostOnce
PROPERTIES
  OpenEnds
