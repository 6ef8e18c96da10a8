SPECIFICATION Spec
CONSTANTS
  zero = zero
  one = one
  two = two
  list = list
  odd = odd
  blank = blank
  item = item
  array = array
  object = object
  query = query
  hiding = hiding
  junk = junk
  Connections = {c1, c2}
  Cells = {m1, m2}
  Null = Null
  Text <- MCText
  Zero = zero
  Requests <- MCRequests
  Lists <- MCLists
  Items <- MCItems
  Numerals <- MCNumerals
  Objects <- MCObjects
  Queries <- MCQueries
  OddLists <- MCOddLists
  BlankLists <- MCBlankLists
  NoObjects <- MCNoObjects
  FatalQueries <- MCFatalQueries
  OddQueries <- MCOddQueries
  QueryDataMaxSize = 1
INVARIANTS
  TypeOK
  ClosureOwned
  NoMixing
  ActedAsMeant
  DiesOnlyOfFatalRequests
PROPERTY EveryClosureFreed
CHECK_DEADLOCK FALSE
