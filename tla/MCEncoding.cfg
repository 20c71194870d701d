SPECIFICATION ESpec
CONSTANTS
  NameBytes <- SomeNameBytes
  MaxName = 2
  Hashes <- SomeHashes
  Moments = {0, 1, 256}
  ValueChars <- SomeValueChars
  MaxValue = 4
  LogLimit = 3
INVARIANTS
  AadUnique
  CacheNamesUnique
  ValuesSurvive
  LogShowsText
CHECK_DEADLOCK FALSE
