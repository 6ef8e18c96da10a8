SPECIFICATION Spec
CONSTANTS
  Unset = Unset
  Refused = Refused
  Null = Null
  KeyId = "id"
  IntBits = 8
  UnitBits <- MCUnitBits
  CommandLines <- MCCommandLines
  Files <- MCFiles
  PrefixMinLen = 1
  PrefixMaxLen = 2
  Prefixes <- MCPrefixes
  Conditions <- MCConditions
  FieldLists <- MCFieldLists
  Nums <- MCNums
  Stored <- MCStored
INVARIANTS
  TypeOK
  OptionsTakeEffect
  SizesExact
  ChainMeansConditions
  AllowedFieldsKept
  FeedsSeeker
  DiesOnlyWhereUndefined
CHECK_DEADLOCK FALSE
