SPECIFICATION Spec
CONSTANTS
  Letters = {a}
  Words <- MCWords
  None = None
  Unset = Unset
  Refused = Refused
  Garbled = Garbled
INVARIANTS
  CostBounded
PROPERTIES
  SamePassphraseStarts
  OnlyItsPassphrase
  RekeyRenews
