SPECIFICATION Spec
CONSTANTS
  Unset = Unset
  Refused = Refused
  Null = Null
  KeyId = "id"
  IntBits = 8
  UnitBits <- MCUnitBits
  CommandLines <- PlainLines
  Files <- PlainFiles
  PrefixMinLen = 1
  PrefixMaxLen = 2
  Prefixes <- PlainPrefixes
  Conditions <- PlainConditions
  FieldLists <- MCFieldLists
  Nums <- MCNums
  Stored <- MCStored
INVARIANT InvisibleNotListed
CHECK_DEADLOCK FALSE
