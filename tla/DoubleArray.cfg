SPECIFICATION Spec
CONSTANTS
  Width = 2
  Keys <- MCKeys
  KeysUnder <- MCKeysUnder
  NoPath = 1000
  NoValue = 1001
INVARIANTS
  TypeOK
  RingsSound
  BlocksListed
  TreeSound
  WalkComplete
PROPERTIES
  ImplementsTrie
  UpdateAdvances
