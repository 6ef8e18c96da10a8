---------------------------- MODULE OptionsProofs ---------------------------
(***************************************************************************)
(* Theorems about the start-up of taboo for any command lines and files:   *)
(* what the options were given is what the fields hold, though options are *)
(* stored and notified more than once, and quantities are read exactly.    *)
(***************************************************************************)
EXTENDS Predicter, TLAPS

-----------------------------------------------------------------------------
(* The table of options *)

LEMMA Rows ==
  /\ DOMAIN initDesc = 1 .. 13
  /\ \A i \in 1 .. 13 :
       initDesc[i] = [option |-> initDesc[i].option, field |-> initDesc[i].field,
                      kind |-> initDesc[i].kind, default |-> initDesc[i].default]
BY DEF initDesc, Row

\* No option has two rows.
LEMMA RowOfIs ==
  ASSUME NEW i \in 1 .. 13
  PROVE  initDesc[i].option \in OptionNames /\ RowOf(initDesc[i].option) = initDesc[i]
<1>0. /\ initDesc[1].option = "check-signature" /\ initDesc[2].option = "connection-max-idle"
      /\ initDesc[3].option = "default-matches"
      /\ initDesc[4].option = "items-allocate-step"
      /\ initDesc[5].option = "key-manage-response-expire"
      /\ initDesc[6].option = "key-manage-response-payload"
      /\ initDesc[7].option = "key-manage-response-token"
      /\ initDesc[8].option = "manage-key" /\ initDesc[9].option = "manage-secret"
      /\ initDesc[10].option = "max-matches" /\ initDesc[11].option = "query-data-max-bytes"
      /\ initDesc[12].option = "query-invisible-fields"
      /\ initDesc[13].option = "query-visible-fields"
  BY DEF initDesc, Row
<1>1. \A j \in 1 .. 13 : initDesc[j].option = initDesc[i].option => j = i
  BY <1>0
<1>2. initDesc[i].option \in OptionNames
  BY Rows DEF OptionNames
<1>3. (CHOOSE j \in DOMAIN initDesc : initDesc[j].option = initDesc[i].option) = i
  BY <1>1, Rows
<1>4. QED
  BY <1>2, <1>3 DEF RowOf

\* Which rows write a field that an option is named after.
Writes(f) == {i \in 1 .. 13 : initDesc[i].field = f /\ initDesc[i].kind # "list"}

LEMMA FieldWriters ==
  /\ Writes("itemsAllocStep") = {2, 4}
  /\ Writes("checkSign") = {1} /\ Writes("defaultMatches") = {3}
  /\ Writes("manageKey") = {8} /\ Writes("manageSecret") = {9}
  /\ Writes("maxMatches") = {10} /\ Writes("queryDataMaxSize") = {11}
<1>1. /\ initDesc[1].field = "checkSign" /\ initDesc[2].field = "itemsAllocStep"
      /\ initDesc[3].field = "defaultMatches" /\ initDesc[4].field = "itemsAllocStep"
      /\ initDesc[5].field = "keyMDPayload" /\ initDesc[6].field = "keyMDPayload"
      /\ initDesc[7].field = "keyMDPayload" /\ initDesc[8].field = "manageKey"
      /\ initDesc[9].field = "manageSecret" /\ initDesc[10].field = "maxMatches"
      /\ initDesc[11].field = "queryDataMaxSize" /\ initDesc[12].field = "queryInvisibleFields"
      /\ initDesc[13].field = "queryVisibleFields"
  BY DEF initDesc, Row
<1>2. /\ \A i \in 1 .. 11 : initDesc[i].kind # "list"
      /\ initDesc[12].kind = "list" /\ initDesc[13].kind = "list"
  BY DEF initDesc, Row
<1>3. Writes("itemsAllocStep") = {2, 4}
  BY <1>1, <1>2 DEF Writes
<1>4. Writes("checkSign") = {1}
  BY <1>1, <1>2 DEF Writes
<1>5. Writes("defaultMatches") = {3}
  BY <1>1, <1>2 DEF Writes
<1>6. Writes("manageKey") = {8}
  BY <1>1, <1>2 DEF Writes
<1>7. Writes("manageSecret") = {9}
  BY <1>1, <1>2 DEF Writes
<1>8. Writes("maxMatches") = {10}
  BY <1>1, <1>2 DEF Writes
<1>9. Writes("queryDataMaxSize") = {11}
  BY <1>1, <1>2 DEF Writes
<1>10. QED
  BY <1>3, <1>4, <1>5, <1>6, <1>7, <1>8, <1>9

-----------------------------------------------------------------------------
(* Quantities *)

Bits == 0 .. 2 * IntBits \cup {UnitBits[u] : u \in DOMAIN UnitBits}

LEMMA Units ==
  /\ IntBits \in Nat /\ IntBits # 0
  /\ \A u \in DOMAIN UnitBits : UnitBits[u] \in Nat /\ UnitBits[u] # 0
BY OptionsAssumption, Zenon

LEMMA BitsAreNat == \A n \in Bits : n \in Nat /\ n \in 0 .. n
BY Units DEF Bits

LEMMA Powers ==
  ASSUME NEW n \in Bits, NEW m \in 0 .. n
  PROVE  2^m \in Nat \ {0} /\ 2^n \in Nat \ {0} /\ 2^n = 2^m * 2^(n - m)
<1>1. n \in Nat /\ n \in 0 .. n
  BY BitsAreNat
<1>2. QED
  BY <1>1, PowersAssumption DEF Bits

\* Multiplication keeps the order.
LEMMA TimesMonotonic ==
  ASSUME NEW a \in Nat, NEW b \in Nat, NEW c \in Nat \ {0}
  PROVE  a < b <=> a * c < b * c
OBVIOUS

\* A shift of what is below the bound stays below the width: nothing wraps.
LEMMA ShiftFits ==
  ASSUME NEW width \in Bits, NEW bits \in 0 .. width, NEW n \in Nat
  PROVE  /\ n < 2^(width - bits) <=> n * 2^bits < 2^width
         /\ n < 2^(width - bits) => (n * 2^bits) % 2^width = n * 2^bits
<1>1. width \in Nat /\ width - bits \in 0 .. width /\ width - (width - bits) = bits
  BY BitsAreNat
<1>2. /\ 2^width \in Nat \ {0} /\ 2^bits \in Nat \ {0} /\ 2^(width - bits) \in Nat \ {0}
      /\ 2^width = 2^(width - bits) * 2^bits
  BY <1>1, Powers
<1> DEFINE w == 2^width
           b == 2^bits
           r == 2^(width - bits)
<1>3. w \in Nat \ {0} /\ b \in Nat \ {0} /\ r \in Nat \ {0} /\ w = r * b
  BY <1>2
<1> HIDE DEF w, b, r
<1>4. n < r <=> n * b < w
  BY <1>3, TimesMonotonic
<1>5. n * b \in Nat
  BY <1>3
<1>6. n * b < w => (n * b) % w = n * b
  BY <1>3, <1>5
<1>7. QED
  BY <1>4, <1>6 DEF w, b, r

\* The bound is never above the real one, and is it where an int can hold it.
LEMMA BoundIsLow ==
  ASSUME NEW rest \in 0 .. 2 * IntBits, NEW max \in Max1(rest)
  PROVE  /\ max \in Nat /\ max <= 2^rest
         /\ rest < IntBits => max = 2^rest
<1>1. IntBits \in Nat /\ IntBits # 0 /\ rest \in Nat /\ rest \in Bits
  BY Units DEF Bits
<1>2. CASE rest < IntBits
  <2>1. max = 2^rest
    BY <1>2 DEF Max1
  <2>2. 2^rest \in Nat
    BY <1>1, Powers
  <2>3. QED
    BY <2>1, <2>2
<1>3. CASE ~ rest < IntBits
  <2> DEFINE m == rest % IntBits
  <2>1. m \in 0 .. rest /\ rest - m \in 0 .. rest
    BY <1>1, <1>3
  <2>2. max \in {2^m, 0}
    BY <1>3 DEF Max1
  <2> HIDE DEF m
  <2>3. 2^m \in Nat \ {0} /\ 2^rest \in Nat \ {0} /\ 2^(rest - m) \in Nat \ {0}
        /\ 2^rest = 2^m * 2^(rest - m)
    BY <1>1, <2>1, Powers
  <2>4. ASSUME NEW x \in Nat \ {0}, NEW y \in Nat \ {0} PROVE x <= x * y
    OBVIOUS
  <2>5. 2^m <= 2^rest
    BY <2>3, <2>4
  <2>6. QED
    BY <1>1, <1>3, <2>2, <2>3, <2>5
<1>4. QED
  BY <1>2, <1>3

\* A text without a unit.
Bare == ""

LEMMA NoBareUnit == Bare \notin DOMAIN UnitBits
BY OptionsAssumption, Zenon DEF Bare

\* What toInteger and the exact reading do, case by case.
LEMMA ReadingCases ==
  ASSUME NEW text, NEW width, NEW v \in toInteger(text, width)
  PROVE  LET read == ~ text.minus /\ text.number \in 0 .. 2^width - 1
             bits == UnitBits[text.unit]
         IN  \/ read /\ text.unit = Bare /\ v = text.number
             \/ /\ read /\ text.unit \in DOMAIN UnitBits /\ bits <= width
                /\ \E max \in Max1(width - bits) :
                     v = IF text.number < max THEN (text.number * 2^bits) % 2^width ELSE Refused
             \/ /\ ~ (read /\ text.unit = Bare)
                /\ ~ (read /\ text.unit \in DOMAIN UnitBits /\ bits <= width)
                /\ v = Refused
<1> DEFINE read == ~ text.minus /\ text.number \in 0 .. 2^width - 1
           bits == UnitBits[text.unit]
           shifted == {IF text.number < max THEN (text.number * 2^bits) % 2^width ELSE Refused :
                         max \in Max1(width - bits)}
<1>1. toInteger(text, width) =
        CASE read /\ text.unit = Bare -> {text.number}
          [] read /\ text.unit \in DOMAIN UnitBits /\ bits <= width -> shifted
          [] OTHER -> {Refused}
  BY Zenon DEF toInteger, Bare
<1>2. v \in shifted =>
        \E max \in Max1(width - bits) :
          v = IF text.number < max THEN (text.number * 2^bits) % 2^width ELSE Refused
  BY Zenon
<1>3. ~ (text.unit = Bare /\ text.unit \in DOMAIN UnitBits)
  BY NoBareUnit, Zenon
<1> HIDE DEF read, bits, shifted, Bare
<1>4. \/ read /\ text.unit = Bare /\ v \in {text.number}
      \/ read /\ text.unit \in DOMAIN UnitBits /\ bits <= width /\ v \in shifted
      \/ /\ ~ (read /\ text.unit = Bare)
         /\ ~ (read /\ text.unit \in DOMAIN UnitBits /\ bits <= width)
         /\ v \in {Refused}
  BY <1>1, <1>3
<1>5. QED
  BY <1>2, <1>4, Zenon DEF read, bits

LEMMA ExactlyCases ==
  ASSUME NEW text
  PROVE  Exactly(text) = IF text.unit = Bare THEN text.number
                                             ELSE text.number * 2^UnitBits[text.unit]
BY Zenon DEF Exactly, Bare

\* Whether a quantity fits a width.
Fits(text, width) ==
  /\ ~ text.minus /\ text.number \in Nat
  /\ text.unit \in DOMAIN UnitBits \cup {Bare} /\ Exactly(text) < 2^width

\* A shift out of bounds leaves room for 0 only.
LEMMA ShiftTooFar ==
  ASSUME NEW width \in Bits, NEW bits \in Bits, bits > width,
         NEW n \in Nat, n * 2^bits < 2^width
  PROVE  n = 0
<1>1. width \in Nat /\ bits \in Nat /\ width \in 0 .. bits
      /\ bits - width \in 0 .. bits
  BY BitsAreNat
<1>2. /\ 2^bits = 2^width * 2^(bits - width)
      /\ 2^width \in Nat \ {0} /\ 2^(bits - width) \in Nat \ {0}
  BY <1>1, Powers
<1>3. ASSUME NEW x \in Nat \ {0}, NEW y \in Nat \ {0}, NEW z \in Nat \ {0}
      PROVE  ~ (z * (x * y) < x)
  <2>1. x * y >= x /\ x * y \in Nat
    OBVIOUS
  <2>2. \A q \in Nat : z * q >= q
    OBVIOUS
  <2>3. z * (x * y) >= x * y /\ z * (x * y) \in Nat
    BY <2>1, <2>2
  <2>4. QED
    BY <2>1, <2>3
<1>4. QED
  BY <1>2, <1>3

\* The number of a quantity that fits, fits.
LEMMA NumberFits ==
  ASSUME NEW text, NEW width \in Bits, Fits(text, width)
  PROVE  text.number \in 0 .. 2^width - 1
<1>1. 2^width \in Nat \ {0}
  BY BitsAreNat, Powers
<1>2. CASE text.unit = Bare
  BY <1>1, <1>2, ExactlyCases DEF Fits
<1>3. CASE text.unit \in DOMAIN UnitBits
  <2>1. UnitBits[text.unit] \in Bits
    BY <1>3 DEF Bits
  <2>2. 2^UnitBits[text.unit] \in Nat \ {0}
    BY <2>1, BitsAreNat, Powers
  <2>3. text.number * 2^UnitBits[text.unit] < 2^width /\ text.number \in Nat
    BY <1>3, NoBareUnit, ExactlyCases DEF Fits
  <2>4. ASSUME NEW x \in Nat, NEW y \in Nat \ {0}, NEW z \in Nat, x * y < z PROVE x < z
    <3>1. x <= x * y /\ x * y \in Nat
      OBVIOUS
    <3>2. QED
      BY <2>4, <3>1
  <2>5. QED
    BY <1>1, <2>2, <2>3, <2>4
<1>4. QED
  BY <1>2, <1>3 DEF Fits

\* toInteger returns the quantity written or refuses it.
LEMMA QuantityExact ==
  ASSUME NEW text, NEW width \in {IntBits, 2 * IntBits}, NEW v \in toInteger(text, width)
  PROVE  /\ v # Refused => v \in Nat /\ Fits(text, width) /\ v = Exactly(text)
         /\ v = Refused /\ Fits(text, width) =>
              text.unit # Bare /\ (width = 2 * IntBits \/ text.number = 0)
<1>1. IntBits \in Nat /\ IntBits # 0 /\ width \in Bits /\ width \in 0 .. 2 * IntBits
  BY Units DEF Bits
<1>2. width \in Nat /\ 2^width \in Nat \ {0}
  BY <1>1, BitsAreNat, Powers
<1> DEFINE n == text.number
           read == ~ text.minus /\ n \in 0 .. 2^width - 1
           bits == UnitBits[text.unit]
<1>3. Fits(text, width) => read
  BY <1>1, NumberFits DEF Fits
<1>4. read => n \in Nat /\ n < 2^width
  BY <1>2
<1>5. CASE read /\ text.unit = Bare /\ v = n
  <2>1. Exactly(text) = n
    BY <1>5, ExactlyCases
  <2>2. v # Refused
    BY <1>4, <1>5, OptionsAssumption
  <2>3. QED
    BY <1>4, <1>5, <2>1, <2>2 DEF Fits
<1>6. CASE /\ ~ (read /\ text.unit = Bare)
           /\ ~ (read /\ text.unit \in DOMAIN UnitBits /\ bits <= width)
           /\ v = Refused
  <2>1. SUFFICES ASSUME Fits(text, width)
                 PROVE  text.unit # Bare /\ n = 0
    BY <1>6
  <2>2. text.unit \in DOMAIN UnitBits /\ text.unit # Bare /\ ~ bits <= width
    BY <1>3, <1>6, <2>1 DEF Fits
  <2>3. bits \in Bits /\ n \in Nat /\ n * 2^bits < 2^width
    BY <2>1, <2>2, ExactlyCases DEF Fits, Bits
  <2> HIDE DEF bits
  <2>4. bits > width
    BY <1>2, <2>2, <2>3, BitsAreNat
  <2>5. QED
    BY <1>1, <2>2, <2>3, <2>4, ShiftTooFar
<1>7. CASE /\ read /\ text.unit \in DOMAIN UnitBits /\ bits <= width
           /\ \E max \in Max1(width - bits) :
                v = IF n < max THEN (n * 2^bits) % 2^width ELSE Refused
  <2>1. text.unit # Bare /\ bits \in Bits /\ bits # 0 /\ bits \in Nat
    BY <1>7, NoBareUnit, Units DEF Bits
  <2>2. Exactly(text) = n * 2^bits
    BY <2>1, ExactlyCases
  <2>3. PICK max \in Max1(width - bits) :
          v = IF n < max THEN (n * 2^bits) % 2^width ELSE Refused
    BY <1>7
  <2> HIDE DEF bits
  <2>4. bits \in 0 .. width /\ width - bits \in 0 .. 2 * IntBits /\ width - bits \in 0 .. width
    BY <1>1, <1>2, <1>7, <2>1
  <2>5. /\ max \in Nat /\ max <= 2^(width - bits) /\ 2^(width - bits) \in Nat
        /\ width - bits < IntBits => max = 2^(width - bits)
    BY <1>1, <2>4, BoundIsLow, Powers
  <2>6. /\ n < 2^(width - bits) <=> n * 2^bits < 2^width
        /\ n < 2^(width - bits) => (n * 2^bits) % 2^width = n * 2^bits
    BY <1>1, <1>4, <1>7, <2>4, ShiftFits
  <2>7. n * 2^bits \in Nat
    <3>1. 2^bits \in Nat
      BY <1>1, <2>4, Powers
    <3>2. QED
      BY <1>4, <1>7, <3>1
  <2>8. CASE n < max
    <3>1. n < 2^(width - bits)
      BY <1>4, <1>7, <2>5, <2>8
    <3>2. v = n * 2^bits /\ n * 2^bits < 2^width
      BY <2>3, <2>6, <2>8, <3>1
    <3>3. v # Refused
      BY <2>7, <3>2, OptionsAssumption
    <3>4. QED
      BY <1>4, <1>7, <2>2, <2>7, <3>2, <3>3 DEF Fits
  <2>9. CASE ~ n < max
    <3>1. v = Refused
      BY <2>3, <2>9
    <3>2. width = IntBits => ~ n < 2^(width - bits)
      BY <1>1, <2>1, <2>4, <2>5, <2>9
    <3>3. width = IntBits => ~ Fits(text, width)
      BY <2>2, <2>6, <3>2 DEF Fits
    <3>4. QED
      BY <2>1, <3>1, <3>3
  <2>10. QED
    BY <2>8, <2>9
<1>8. QED
  BY <1>5, <1>6, <1>7, ReadingCases

\* A start's quantities are what they say.
LEMMA QuantitiesExact == SizesExact
<1> SUFFICES ASSUME NEW o \in DOMAIN invocation.line.given,
                    RowOf(o).kind \in DOMAIN Widths,
                    NEW v \in validate(o, invocation.line.given[o])
             PROVE  LET text  == invocation.line.given[o]
                        width == Widths[RowOf(o).kind]
                    IN  /\ v # Refused => Fits(text, width) /\ v = Exactly(text)
                        /\ v = Refused /\ Fits(text, width) =>
                             text.unit # Bare /\ (RowOf(o).kind = "size" \/ text.number = 0)
  BY Zenon DEF SizesExact, Fits, Bare
<1> DEFINE text == invocation.line.given[o]
           width == Widths[RowOf(o).kind]
<1>1. RowOf(o).kind \in {"int", "size"} /\ v \in toInteger(text, width)
  BY DEF Widths, validate
<1>2. width = IF RowOf(o).kind = "int" THEN IntBits ELSE 2 * IntBits
  BY <1>1 DEF Widths
<1>3. width \in {IntBits, 2 * IntBits} /\ (width = 2 * IntBits => RowOf(o).kind = "size")
  BY <1>1, <1>2, Units
<1> HIDE DEF text, width
<1>4. QED
  BY <1>1, <1>3, QuantityExact DEF text, width
\* What toInteger returns for an option is a quantity or refused.
LEMMA WidthIs ==
  ASSUME NEW o, RowOf(o).kind \in DOMAIN Widths
  PROVE  Widths[RowOf(o).kind] \in {IntBits, 2 * IntBits}
<1>1. RowOf(o).kind \in {"int", "size"}
  BY DEF Widths
<1>2. QED
  BY <1>1, Units DEF Widths

\* Quantities are read exactly, whatever an option was given.
THEOREM QuantitiesReadExactly == Spec => []SizesExact
BY QuantitiesExact, PTL

-----------------------------------------------------------------------------
(* Storing and notifying *)

\* The value an option may have got from a text.
ReadAs(value, o, text) == value \in validate(o, text) /\ value # Refused

LEMMA ParsedIsRead ==
  ASSUME NEW given, NEW parsed \in Parsed(given)
  PROVE  /\ DOMAIN parsed = DOMAIN given
         /\ Readable(parsed) => \A o \in DOMAIN given : ReadAs(parsed[o], o, given[o])
<1> DEFINE quantities == {o \in DOMAIN given : RowOf(o).kind \in DOMAIN Widths}
           read == [quantities -> UNION {validate(o, given[o]) : o \in quantities}]
           asRead == {q \in read : \A o \in quantities : q[o] \in validate(o, given[o])}
<1>1. Parsed(given) =
        {[o \in DOMAIN given |-> IF o \in quantities THEN q[o] ELSE given[o]] : q \in asRead}
  BY Zenon DEF Parsed
<1>2. PICK q \in asRead :
        parsed = [o \in DOMAIN given |-> IF o \in quantities THEN q[o] ELSE given[o]]
  BY <1>1, Zenon
<1>3. \A o \in quantities : q[o] \in validate(o, given[o])
  BY Zenon
<1>4. \A o \in DOMAIN given : o \notin quantities => validate(o, given[o]) = {given[o]}
  BY Zenon DEF validate
<1> HIDE DEF quantities, asRead
<1>5. DOMAIN parsed = DOMAIN given
  BY <1>2
<1>6. \A o \in DOMAIN given : parsed[o] \in validate(o, given[o])
  BY <1>2, <1>3, <1>4
<1>7. QED
  BY <1>5, <1>6 DEF Readable, ReadAs

\* What has been read is a value.
LEMMA ReadIsSet ==
  ASSUME NEW o, NEW text, text # Unset, NEW value, ReadAs(value, o, text)
  PROVE  value # Unset
<1>1. CASE RowOf(o).kind \in DOMAIN Widths
  <2>1. value \in toInteger(text, Widths[RowOf(o).kind])
    BY <1>1 DEF ReadAs, validate
  <2>2. value \in Nat
    BY <1>1, <2>1, WidthIs, QuantityExact DEF ReadAs
  <2>3. QED
    BY <2>2, OptionsAssumption
<1>2. CASE RowOf(o).kind \notin DOMAIN Widths
  BY <1>2 DEF ReadAs, validate
<1>3. QED
  BY <1>1, <1>2

\* Rows that have something to write to a field.
WritersOf(map, f) ==
  {i \in DOMAIN initDesc :
     /\ initDesc[i].field = f /\ initDesc[i].kind # "list"
     /\ map[initDesc[i].option].value # Unset}

LEMMA NotifyWrites ==
  ASSUME NEW map, NEW fields, NEW f \in Fields
  PROVE  notify(map, fields)[f] =
           IF WritersOf(map, f) = {} THEN fields[f]
           ELSE map[initDesc[CHOOSE i \in WritersOf(map, f) :
                               \A j \in WritersOf(map, f) : j <= i].option].value
BY Zenon DEF notify, WritersOf

\* The row written last.
LEMMA LastWins ==
  ASSUME NEW map, NEW fields, NEW f \in Fields, NEW i \in WritersOf(map, f),
         \A j \in WritersOf(map, f) : j <= i
  PROVE  notify(map, fields)[f] = map[initDesc[i].option].value
<1>1. \A j \in WritersOf(map, f) : j \in Nat
  BY Rows DEF WritersOf
<1>2. \A k \in WritersOf(map, f) : (\A j \in WritersOf(map, f) : j <= k) => k = i
  BY <1>1
<1>3. (CHOOSE k \in WritersOf(map, f) : \A j \in WritersOf(map, f) : j <= k) = i
  BY <1>2
<1>4. QED
  BY <1>3, NotifyWrites

\* notify with nothing to keep.
Written(map, f) == notify(map, [g \in Fields |-> Unset])[f]

\* Where no row writes a field, nothing did before.
LEMMA NotifyAlone ==
  ASSUME NEW map, NEW fields, NEW f \in Fields, WritersOf(map, f) = {} => fields[f] = Unset
  PROVE  notify(map, fields)[f] = Written(map, f)
<1> DEFINE none == [g \in Fields |-> Unset]
           last == map[initDesc[CHOOSE i \in WritersOf(map, f) :
                                  \A j \in WritersOf(map, f) : j <= i].option].value
<1>1. none[f] = Unset
  OBVIOUS
<1>2. notify(map, fields)[f] = IF WritersOf(map, f) = {} THEN fields[f] ELSE last
  BY NotifyWrites, Zenon
<1>3. Written(map, f) = IF WritersOf(map, f) = {} THEN none[f] ELSE last
  BY NotifyWrites, Zenon DEF Written
<1> HIDE DEF none, last
<1>4. QED
  BY <1>1, <1>2, <1>3

\* Notified again, options that have all the values they had, and maybe more, write
\* what they would have written alone.
LEMMA NotifyAgain ==
  ASSUME NEW map, NEW fields, NEW f \in Fields, NEW old,
         fields[f] = Written(old, f),
         \A i \in DOMAIN initDesc :
           old[initDesc[i].option].value # Unset => map[initDesc[i].option].value # Unset
  PROVE  notify(map, fields)[f] = Written(map, f)
<1> DEFINE none == [g \in Fields |-> Unset]
<1>1. none[f] = Unset
  OBVIOUS
<1>2. WritersOf(old, f) \subseteq WritersOf(map, f)
  BY DEF WritersOf
<1>3. WritersOf(old, f) = {} => Written(old, f) = none[f]
  BY NotifyWrites, Zenon DEF Written
<1> HIDE DEF none
<1>4. WritersOf(map, f) = {} => fields[f] = Unset
  BY <1>1, <1>2, <1>3
<1>5. QED
  BY <1>4, NotifyAlone

LEMMA NotifyDomain ==
  ASSUME NEW map, NEW fields
  PROVE  DOMAIN notify(map, fields) = Fields
BY Zenon DEF notify

-----------------------------------------------------------------------------
(* Starting up *)

Line == invocation.line
File == invocation.file

ListFields == {"queryVisibleFields", "queryInvisibleFields", "queryVisibleAll"}

Default(o) == [value |-> RowOf(o).default, from |-> "default"]

\* An option has what its sources gave it, of those read so far.
Kept(o) ==
  IF o \in DOMAIN Line.given
    THEN options[o].from = "command_line" /\ ReadAs(options[o].value, o, Line.given[o])
    ELSE IF startup # "file" /\ ~ Line.noFile /\ o \in DOMAIN File
      THEN options[o].from = "file" /\ ReadAs(options[o].value, o, File[o])
      ELSE options[o] = Default(o)

OptionsInv ==
  /\ startup \in {"command_line", "file", "load", "ready", "exit_success", "exit_failure"}
  /\ \E l \in CommandLines, f \in Files : invocation = [line |-> l, file |-> f]
  /\ DOMAIN options = OptionNames /\ DOMAIN config = Fields
  /\ \A o \in OptionNames : options[o].from \in {"default", "command_line", "file"}
  /\ startup = "command_line" =>
       /\ \A o \in OptionNames : options[o] = Default(o)
       /\ \A f \in Fields : config[f] = Unset
  /\ startup = "file" => ~ Line.noFile
  /\ startup \in {"file", "load", "ready"} =>
       /\ \A o \in OptionNames : Kept(o)
       /\ \A f \in Fields \ ListFields : config[f] = Written(options, f)

\* What is given for an option is not Unset.
LEMMA GivenIsSet ==
  ASSUME OptionsInv
  PROVE  /\ \A o \in DOMAIN Line.given : Line.given[o] # Unset
         /\ \A o \in DOMAIN File : File[o] # Unset
<1>1. PICK l \in CommandLines, f \in Files : invocation = [line |-> l, file |-> f]
  BY DEF OptionsInv
<1>2. Line = l /\ File = f
  BY <1>1 DEF Line, File
<1>3. /\ \A o \in DOMAIN l.given : l.given[o] # Unset
      /\ \A o \in DOMAIN f : f[o] # Unset
  BY OptionsAssumption, Zenon
<1>4. QED
  BY <1>2, <1>3

\* The value of an option that is kept is one, unless the table has none.
LEMMA KeptIsSet ==
  ASSUME OptionsInv, NEW o, Kept(o), RowOf(o).default # Unset
  PROVE  options[o].value # Unset
BY GivenIsSet, ReadIsSet DEF Kept, Default

LEMMA DefaultFrom == \A o : Default(o).from = "default"
BY DEF Default

\* What an option is once its sources, of those read so far, are known.
LEMMA KeptNext ==
  ASSUME UNCHANGED invocation, NEW o
  PROVE  Kept(o)' <=>
           IF o \in DOMAIN Line.given
             THEN options'[o].from = "command_line" /\ ReadAs(options'[o].value, o, Line.given[o])
             ELSE IF startup' # "file" /\ ~ Line.noFile /\ o \in DOMAIN File
               THEN options'[o].from = "file" /\ ReadAs(options'[o].value, o, File[o])
               ELSE options'[o] = Default(o)
BY DEF Kept, Line, File, Default, ReadAs

LEMMA InitOptions == Init => OptionsInv
<1> SUFFICES ASSUME Init PROVE OptionsInv
  OBVIOUS
<1>1. \E l \in CommandLines, f \in Files : invocation = [line |-> l, file |-> f]
  <2>1. invocation \in {[line |-> l, file |-> f] : l \in CommandLines, f \in Files}
    BY DEF Init, OptionsInit
  <2>2. QED
    BY <2>1
<1>2. /\ startup = "command_line"
      /\ options = [o \in OptionNames |-> Default(o)]
      /\ config = [f \in Fields |-> Unset]
  BY Zenon DEF Init, OptionsInit, Default
<1>3. \A o \in OptionNames : Default(o).from = "default"
  BY DEF Default
<1>4. QED
  BY <1>1, <1>2, <1>3 DEF OptionsInv

\* An option after a store.
LEMMA StoreKeeps ==
  ASSUME NEW map, NEW parsed, NEW from, NEW o \in OptionNames
  PROVE  /\ DOMAIN store(map, parsed, from) = OptionNames
         /\ o \in DOMAIN parsed => /\ store(map, parsed, from)[o].value = parsed[o]
                                   /\ store(map, parsed, from)[o].from = from
         /\ o \notin DOMAIN parsed => store(map, parsed, from)[o] = map[o]
BY DEF store

\* What a store reads is what no earlier one has a value for.
LEMMA OpenIs ==
  ASSUME NEW map, NEW given
  PROVE  /\ DOMAIN Open(map, given) = {o \in DOMAIN given : map[o].from = "default"}
         /\ \A o \in DOMAIN Open(map, given) : Open(map, given)[o] = given[o]
BY DEF Open, Restrict

\* The command line.
LEMMA StoreCommandLineKeeps ==
  ASSUME OptionsInv, StoreCommandLine
  PROVE  OptionsInv'
<1>1. PICK parsed \in Parsed(Open(options, Line.given)) :
        IF ~ Readable(parsed)
          THEN startup' = "exit_failure" /\ UNCHANGED <<options, config>>
          ELSE /\ options' = store(options, parsed, "command_line")
               /\ config' = notify(options', config)
               /\ startup' = CASE Line.help -> "exit_success"
                               [] ~ Line.help /\ Line.noFile -> "load"
                               [] OTHER -> "file"
  BY Zenon DEF StoreCommandLine, Line
<1>2. invocation' = invocation /\ Line' = Line /\ File' = File /\ startup = "command_line"
  BY DEF StoreCommandLine, Line, File
<1>3. /\ \A o \in OptionNames : options[o] = Default(o)
      /\ \A f \in Fields : config[f] = Unset
      /\ \E l \in CommandLines, f \in Files : invocation' = [line |-> l, file |-> f]
  BY <1>2 DEF OptionsInv
<1> DEFINE given == Line.given
           open  == Open(options, given)
<1>4. /\ DOMAIN open = {o \in DOMAIN given : options[o].from = "default"}
      /\ \A o \in DOMAIN open : open[o] = given[o]
  <2> HIDE DEF given
  <2>1. QED
    BY OpenIs
<1>5. /\ DOMAIN parsed = DOMAIN open
      /\ Readable(parsed) => \A o \in DOMAIN open : ReadAs(parsed[o], o, open[o])
  BY ParsedIsRead
<1> HIDE DEF open
<1>6. \A o \in OptionNames : o \in DOMAIN parsed <=> o \in DOMAIN Line.given
  BY <1>3, <1>4, <1>5, DefaultFrom
<1>7. CASE ~ Readable(parsed)
  BY <1>1, <1>2, <1>3, <1>7 DEF OptionsInv
<1>8. CASE Readable(parsed)
  <2>1. DOMAIN options' = OptionNames /\ DOMAIN config' = Fields
    BY <1>1, <1>8, StoreKeeps, NotifyDomain DEF store
  <2>2. \A o \in OptionNames :
          /\ o \in DOMAIN Line.given =>
               options'[o].value = parsed[o] /\ options'[o].from = "command_line"
          /\ o \notin DOMAIN Line.given => options'[o] = Default(o)
    <3>2. ASSUME NEW o \in OptionNames
          PROVE  /\ o \in DOMAIN parsed =>
                      options'[o].value = parsed[o] /\ options'[o].from = "command_line"
                 /\ o \notin DOMAIN parsed => options'[o] = Default(o)
      <4>1. options[o].from = "default" /\ options[o] = Default(o)
        BY <1>3, DefaultFrom
      <4>2. QED
        BY <1>1, <1>8, <4>1, StoreKeeps
    <3>3. QED
      BY <3>2, <1>6
  <2>3. \A o \in DOMAIN Line.given \cap OptionNames : ReadAs(parsed[o], o, Line.given[o])
    BY <1>6, <1>8, <1>4, <1>5
  <2>4. /\ startup' \in {"exit_success", "load", "file"}
        /\ startup' = "load" => Line.noFile
        /\ startup' = "file" => ~ Line.noFile
    BY <1>1, <1>8
  <2>5. ASSUME NEW o \in OptionNames, startup' # "exit_success" PROVE Kept(o)'
    BY <1>2, <2>2, <2>3, <2>4, <2>5, KeptNext
  <2>6. \A f \in Fields : config'[f] = Written(options', f)
    BY <1>1, <1>3, <1>8, NotifyAlone
  <2>7. \A o \in OptionNames : options'[o].from \in {"default", "command_line", "file"}
    BY <2>2, DefaultFrom
  <2>8. QED
    BY <1>2, <1>3, <2>1, <2>4, <2>5, <2>6, <2>7 DEF OptionsInv
<1>9. QED
  BY <1>7, <1>8

\* The file, whose options give way to those of the command line.
LEMMA LoadFileKeeps ==
  ASSUME OptionsInv, loadFile
  PROVE  OptionsInv'
<1>1. PICK parsed \in Parsed(Open(options, File)) :
        IF ~ Readable(parsed)
          THEN startup' = "exit_failure" /\ UNCHANGED <<options, config>>
          ELSE /\ options' = store(options, parsed, "file")
               /\ config' = notify(options', config)
               /\ startup' = "load"
  BY Zenon DEF loadFile, File
<1>2. invocation' = invocation /\ Line' = Line /\ File' = File /\ startup = "file"
  BY DEF loadFile, Line, File
<1>3. /\ \A o \in OptionNames : Kept(o)
      /\ \A o \in OptionNames : options[o].from \in {"default", "command_line", "file"}
      /\ \A f \in Fields \ ListFields : config[f] = Written(options, f)
      /\ \E l \in CommandLines, f \in Files : invocation' = [line |-> l, file |-> f]
      /\ DOMAIN options = OptionNames /\ DOMAIN config = Fields /\ ~ Line.noFile
  BY <1>2 DEF OptionsInv
<1> DEFINE open == Open(options, File)
<1>4. /\ DOMAIN open = {o \in DOMAIN File : options[o].from = "default"}
      /\ \A o \in DOMAIN open : open[o] = File[o]
  BY OpenIs
<1>5. /\ DOMAIN parsed = DOMAIN open
      /\ Readable(parsed) => \A o \in DOMAIN open : ReadAs(parsed[o], o, open[o])
  BY ParsedIsRead
<1> HIDE DEF open
<1>6. \A o \in OptionNames :
        o \in DOMAIN parsed <=> o \in DOMAIN File \ DOMAIN Line.given
  <2> SUFFICES ASSUME NEW o \in OptionNames
               PROVE  o \in DOMAIN parsed <=> o \in DOMAIN File \ DOMAIN Line.given
    OBVIOUS
  <2>1. options[o].from = "default" <=> o \notin DOMAIN Line.given
    BY <1>2, <1>3, DefaultFrom DEF Kept
  <2>2. QED
    BY <2>1, <1>4, <1>5
<1>7. CASE ~ Readable(parsed)
  BY <1>1, <1>2, <1>3, <1>7 DEF OptionsInv
<1>8. CASE Readable(parsed)
  <2>1. DOMAIN options' = OptionNames /\ DOMAIN config' = Fields
    BY <1>1, <1>8, StoreKeeps, NotifyDomain DEF store
  <2>2. \A o \in OptionNames :
          /\ o \in DOMAIN File \ DOMAIN Line.given =>
               options'[o].value = parsed[o] /\ options'[o].from = "file"
          /\ o \notin DOMAIN File \ DOMAIN Line.given => options'[o] = options[o]
    BY <1>1, <1>8, <1>6, StoreKeeps
  <2>3. \A o \in OptionNames :
          o \in DOMAIN File \ DOMAIN Line.given => ReadAs(parsed[o], o, File[o])
    BY <1>6, <1>8, <1>4, <1>5
  <2>4. startup' = "load"
    BY <1>1, <1>8
  <2>5. ASSUME NEW o \in OptionNames PROVE Kept(o)'
    <3>1. o \in DOMAIN Line.given \/ o \notin DOMAIN File => options'[o] = options[o]
      BY <2>2
    <3>2. Kept(o)
      BY <1>3
    <3>3. CASE o \in DOMAIN Line.given
      BY <1>2, <2>4, <3>1, <3>2, <3>3, KeptNext DEF Kept
    <3>4. CASE o \notin DOMAIN Line.given /\ o \notin DOMAIN File
      BY <1>2, <2>4, <3>1, <3>2, <3>4, KeptNext DEF Kept
    <3>5. CASE o \notin DOMAIN Line.given /\ o \in DOMAIN File
      BY <1>2, <1>3, <2>2, <2>3, <2>4, <3>5, KeptNext
    <3>6. QED
      BY <3>3, <3>4, <3>5
  <2>6. \A o \in OptionNames : options[o].value # Unset => options'[o].value # Unset
    <3>1. \A o \in OptionNames : o \in DOMAIN File \ DOMAIN Line.given => parsed[o] # Unset
      BY <2>3, GivenIsSet, ReadIsSet
    <3>2. QED
      BY <2>2, <3>1
  <2>7. \A i \in DOMAIN initDesc : initDesc[i].option \in OptionNames
    BY Zenon DEF OptionNames
  <2>8. \A f \in Fields \ ListFields : config'[f] = Written(options', f)
    BY <1>1, <1>3, <1>8, <2>6, <2>7, NotifyAgain
  <2>9. \A o \in OptionNames : options'[o].from \in {"default", "command_line", "file"}
    BY <1>3, <2>2
  <2>10. QED
    BY <1>2, <1>3, <2>1, <2>4, <2>5, <2>8, <2>9 DEF OptionsInv
<1>9. QED
  BY <1>7, <1>8

\* loadOptions writes the fields of the lists.
LEMMA LoadOptionsKeeps ==
  ASSUME OptionsInv, loadOptions
  PROVE  OptionsInv'
<1>1. invocation' = invocation /\ options' = options /\ startup = "load"
      /\ Line' = Line /\ File' = File
  BY DEF loadOptions, Line, File
<1>2. /\ DOMAIN config' = Fields
      /\ \A f \in Fields \ ListFields : config'[f] = config[f]
      /\ startup' \in {"exit_failure", "exit_success", "ready"}
  BY DEF loadOptions, OptionsInv, ListFields
<1>3. \A o \in OptionNames : startup' = "ready" /\ Kept(o) => Kept(o)'
  BY <1>1 DEF Kept, Default
<1>4. QED
  BY <1>1, <1>2, <1>3 DEF OptionsInv

LEMMA NextOptions == OptionsInv /\ [Next]_vars => OptionsInv'
<1> SUFFICES ASSUME OptionsInv, [Next]_vars PROVE OptionsInv'
  OBVIOUS
<1>1. CASE UNCHANGED optionVars
  <2>1. UNCHANGED <<startup, invocation, options, config>> /\ Line' = Line /\ File' = File
    BY <1>1 DEF optionVars, Line, File
  <2>2. \A o : Kept(o)' = Kept(o)
    BY <2>1 DEF Kept, Default
  <2>3. QED
    BY <2>1, <2>2 DEF OptionsInv
<1>2. CASE Startup
  BY <1>2, StoreCommandLineKeeps, LoadFileKeeps, LoadOptionsKeeps DEF Startup, StartupNext
<1>3. QED
  BY <1>1, <1>2 DEF Next, Parse, Build, predict, vars

LEMMA OptionsInvariance == Spec => []OptionsInv
BY InitOptions, NextOptions, PTL DEF Spec
-----------------------------------------------------------------------------
(* What the fields hold *)

\* Writers are among the rows of a field.
LEMMA WritersAreRows ==
  ASSUME NEW map, NEW f
  PROVE  WritersOf(map, f) =
           {i \in Writes(f) : map[initDesc[i].option].value # Unset}
BY Rows DEF WritersOf, Writes

\* A field that one row writes has that row's value.
LEMMA OneWriter ==
  ASSUME NEW map, NEW f \in Fields, NEW i \in 1 .. 13, Writes(f) = {i}
  PROVE  Written(map, f) = map[initDesc[i].option].value
<1> DEFINE none == [g \in Fields |-> Unset]
<1>1. none[f] = Unset
  OBVIOUS
<1>2. CASE map[initDesc[i].option].value = Unset
  <2>1. WritersOf(map, f) = {}
    BY <1>2, WritersAreRows
  <2>2. Written(map, f) = none[f]
    BY <2>1, NotifyWrites, Zenon DEF Written
  <2>3. QED
    BY <1>1, <1>2, <2>2, Zenon
<1>3. CASE map[initDesc[i].option].value # Unset
  <2>1. i \in WritersOf(map, f) /\ \A j \in WritersOf(map, f) : j <= i
    BY <1>3, WritersAreRows
  <2>2. QED
    BY <2>1, LastWins DEF Written
<1>4. QED
  BY <1>2, <1>3

\* A field that several rows write has the value of the last, if that is one.
LEMMA LastOfWriters ==
  ASSUME NEW map, NEW f \in Fields, NEW i \in Writes(f), \A j \in Writes(f) : j <= i,
         map[initDesc[i].option].value # Unset
  PROVE  Written(map, f) = map[initDesc[i].option].value
<1>1. i \in WritersOf(map, f) /\ \A j \in WritersOf(map, f) : j <= i
  BY WritersAreRows
<1>2. QED
  BY <1>1, LastWins DEF Written

\* The value of an option once the program serves.
Taken(o, value) ==
  IF RowOf(o).kind \in DOMAIN Widths /\ Given(o)
    THEN value \in toInteger(Effective(o), Widths[RowOf(o).kind]) /\ value # Refused
    ELSE value = Effective(o)

LEMMA OptionTaken ==
  ASSUME OptionsInv, Ready, NEW o \in OptionNames
  PROVE  Taken(o, options[o].value)
<1>1. Kept(o) /\ startup = "ready"
  BY DEF OptionsInv, Ready
<1>2. Given(o) <=> o \in DOMAIN Line.given \/ (~ Line.noFile /\ o \in DOMAIN File)
  BY DEF Given, Line, File
<1>3. Effective(o) = IF o \in DOMAIN Line.given THEN Line.given[o]
                     ELSE IF ~ Line.noFile /\ o \in DOMAIN File THEN File[o]
                     ELSE RowOf(o).default
  BY DEF Effective, Line, File
<1>4. CASE Given(o)
  <2>1. ReadAs(options[o].value, o, Effective(o))
    BY <1>1, <1>2, <1>3, <1>4 DEF Kept
  <2>2. QED
    BY <1>4, <2>1 DEF Taken, ReadAs, validate
<1>5. CASE ~ Given(o)
  <2>1. options[o] = Default(o)
    BY <1>1, <1>2, <1>5 DEF Kept
  <2>2. options[o].value = Effective(o)
    BY <1>2, <1>3, <1>5, <2>1 DEF Default
  <2>3. QED
    BY <1>5, <2>2 DEF Taken
<1>6. QED
  BY <1>4, <1>5

\* The options that the fields are named after.
LEMMA OwnRows ==
  /\ DOMAIN OwnOption =
       {"connectionMaxIdle", "itemsAllocStep", "keyMDPayload", "keyMDToken", "keyMDTokenExpire",
        "checkSign", "defaultMatches", "maxMatches", "queryDataMaxSize", "manageKey",
        "manageSecret"}
  /\ OwnOption.itemsAllocStep = initDesc[4].option
  /\ OwnOption.checkSign = initDesc[1].option
  /\ OwnOption.defaultMatches = initDesc[3].option
  /\ OwnOption.maxMatches = initDesc[10].option
  /\ OwnOption.queryDataMaxSize = initDesc[11].option
  /\ OwnOption.manageKey = initDesc[8].option
  /\ OwnOption.manageSecret = initDesc[9].option
  /\ initDesc[4].default = 100
  /\ \A i \in {3, 10} : initDesc[i].kind = "int" /\ initDesc[i].default \in Nat
BY DEF OwnOption, initDesc, Row

LEMMA OwnAreFields ==
  DOMAIN OwnOption \subseteq Fields \ ListFields
<1>1. {initDesc[i].field : i \in 1 .. 13} \subseteq Fields
  BY Rows DEF Fields
<1>2. /\ initDesc[2].field = "itemsAllocStep" /\ initDesc[5].field = "keyMDPayload"
      /\ initDesc[1].field = "checkSign" /\ initDesc[3].field = "defaultMatches"
      /\ initDesc[10].field = "maxMatches" /\ initDesc[11].field = "queryDataMaxSize"
      /\ initDesc[8].field = "manageKey" /\ initDesc[9].field = "manageSecret"
  BY DEF initDesc, Row
<1>3. /\ "itemsAllocStep" \in Fields /\ "keyMDPayload" \in Fields /\ "checkSign" \in Fields
      /\ "defaultMatches" \in Fields /\ "maxMatches" \in Fields
      /\ "queryDataMaxSize" \in Fields /\ "manageKey" \in Fields /\ "manageSecret" \in Fields
  BY <1>1, <1>2
<1>4. {"connectionMaxIdle", "keyMDToken", "keyMDTokenExpire"} \subseteq Fields
  BY DEF Fields
<1>5. QED
  BY <1>3, <1>4, OwnRows DEF ListFields

LEMMA FieldsTaken ==
  ASSUME OptionsInv, Ready
  PROVE  \A f \in {"checkSign", "itemsAllocStep", "defaultMatches", "maxMatches",
                "queryDataMaxSize", "manageKey", "manageSecret"} :
           Taken(OwnOption[f], config[f])
<1>1. \A f \in DOMAIN OwnOption : f \in Fields /\ config[f] = Written(options, f)
  BY OwnAreFields DEF OptionsInv, Ready
<1>2. \A i \in 1 .. 13 : /\ Taken(initDesc[i].option, options[initDesc[i].option].value)
                        /\ RowOf(initDesc[i].option) = initDesc[i]
                        /\ Kept(initDesc[i].option)
  BY RowOfIs, OptionTaken DEF OptionsInv, Ready
<1>3. OwnOption.itemsAllocStep = initDesc[4].option /\ initDesc[4].default = 100
  BY OwnRows, Zenon
<1>4. "itemsAllocStep" \in DOMAIN OwnOption /\ Writes("itemsAllocStep") = {2, 4}
  BY OwnRows, FieldWriters, Zenon
<1>5. Taken(OwnOption.itemsAllocStep, config["itemsAllocStep"])
  <2>1. RowOf(initDesc[4].option).default # Unset
    <3>1. Unset \notin Nat
      BY OptionsAssumption, Zenon
    <3>2. QED
      BY <1>2, <1>3, <3>1
  <2>2. options[initDesc[4].option].value # Unset
    BY <1>2, <2>1, KeptIsSet
  <2>3. Written(options, "itemsAllocStep") = options[initDesc[4].option].value
    BY <1>1, <2>2, <1>3, <1>4, LastOfWriters
  <2>4. config["itemsAllocStep"] = options[initDesc[4].option].value
    BY ONLY <1>1, <1>4, <2>3
  <2>5. Taken(initDesc[4].option, options[initDesc[4].option].value)
    BY ONLY <1>2
  <2>6. QED
    BY ONLY <1>3, <2>4, <2>5
<1> DEFINE ByRow(f, i) == /\ f \in DOMAIN OwnOption /\ OwnOption[f] = initDesc[i].option
                          /\ i \in 1 .. 13 /\ Writes(f) = {i}
<1>6. ASSUME NEW f, NEW i, ByRow(f, i) PROVE Taken(OwnOption[f], config[f])
  <2>1. config[f] = options[initDesc[i].option].value
    BY <1>6, <1>1, OneWriter
  <2>2. QED
    BY <1>6, <1>2, <2>1
<1>7. /\ ByRow("checkSign", 1) /\ ByRow("defaultMatches", 3) /\ ByRow("maxMatches", 10)
      /\ ByRow("queryDataMaxSize", 11) /\ ByRow("manageKey", 8) /\ ByRow("manageSecret", 9)
  BY OwnRows, FieldWriters
<1> HIDE DEF ByRow
<1>8. /\ Taken(OwnOption["checkSign"], config["checkSign"])
      /\ Taken(OwnOption["defaultMatches"], config["defaultMatches"])
      /\ Taken(OwnOption["maxMatches"], config["maxMatches"])
      /\ Taken(OwnOption["queryDataMaxSize"], config["queryDataMaxSize"])
      /\ Taken(OwnOption["manageKey"], config["manageKey"])
      /\ Taken(OwnOption["manageSecret"], config["manageSecret"])
  BY <1>6, <1>7, Zenon
<1>9. QED
  BY <1>5, <1>8

\* How many items a query may ask for, and gets if it does not say.
LEMMA MatchesAreNat ==
  ASSUME OptionsInv, Ready
  PROVE  config["maxMatches"] \in Nat /\ config["defaultMatches"] \in Nat
<1>1. ASSUME NEW i \in {3, 10}, NEW value, Taken(initDesc[i].option, value)
      PROVE  value \in Nat
  <2>1. /\ RowOf(initDesc[i].option) = initDesc[i]
        /\ initDesc[i].kind = "int" /\ initDesc[i].default \in Nat
    BY RowOfIs, OwnRows
  <2>2. initDesc[i].kind \in DOMAIN Widths
    BY <2>1 DEF Widths
  <2>3. CASE Given(initDesc[i].option)
    BY <1>1, <2>1, <2>2, <2>3, WidthIs, QuantityExact DEF Taken
  <2>4. CASE ~ Given(initDesc[i].option)
    BY <1>1, <2>1, <2>4 DEF Taken, Effective, Given
  <2>5. QED
    BY <2>3, <2>4
<1>2. /\ Taken(OwnOption["maxMatches"], config["maxMatches"])
      /\ Taken(OwnOption["defaultMatches"], config["defaultMatches"])
  BY FieldsTaken, Zenon
<1>3. QED
  BY <1>1, <1>2, OwnRows

\* Whatever options are given and where, these fields serve with what their own
\* options were given.
THEOREM OptionsHeld == Spec => []OptionsTakeEffect
<1>1. OptionsInv => OptionsTakeEffect
  BY FieldsTaken DEF OptionsTakeEffect, TakesEffect, Taken
<1>2. QED
  BY <1>1, OptionsInvariance, PTL
=============================================================================
