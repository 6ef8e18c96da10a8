-------------------------- MODULE DoubleArraySpace ---------------------------
(*****************************************************************************)
(* The inductive invariant of the double array and what its first half rests *)
(* on: the rings of empty nodes in their blocks and the rings of blocks in   *)
(* their lists, as the methods that take and give back nodes and blocks      *)
(* leave them, for every width of a label.                                   *)
(*****************************************************************************)
EXTENDS DoubleArray, FiniteSetTheorems, WellFoundedInduction, TLAPS

Labels == 0 .. B - 1

BlockOf(e) == e \div B

-----------------------------------------------------------------------------
(* Places, blocks and labels *)

LEMMA BIsNat == B \in Nat /\ B > 1
BY XorAssumption

LEMMA Division ==
  ASSUME NEW e \in Nat
  PROVE  /\ BlockOf(e) \in Nat /\ e % B \in Labels
         /\ e = BlockOf(e) * B + (e % B)
<1>1. ASSUME NEW b \in Nat, b > 1
      PROVE  /\ e \div b \in Nat /\ e % b \in 0 .. b - 1
             /\ e = (e \div b) * b + (e % b)
  BY <1>1
<1>2. QED
  BY <1>1, BIsNat DEF BlockOf, Labels

LEMMA DivisionUnique ==
  ASSUME NEW q \in Nat, NEW r \in Labels
  PROVE  /\ q * B + r \in Nat
         /\ BlockOf(q * B + r) = q /\ (q * B + r) % B = r
<1>1. ASSUME NEW b \in Nat, b > 1, NEW s \in 0 .. b - 1
      PROVE  /\ q * b + s \in Nat
             /\ (q * b + s) \div b = q /\ (q * b + s) % b = s
  <2> DEFINE n == q * b + s
             p == n \div b
             t == n % b
  <2>1. n \in Nat
    BY <1>1
  <2>2. p \in Nat /\ t \in 0 .. b - 1 /\ n = p * b + t
    BY <1>1, <2>1
  <2> HIDE DEF p, t
  <2>3. ASSUME p < q PROVE FALSE
    <3>1. q = p + 1 + (q - p - 1) /\ q - p - 1 \in Nat
      BY <2>2, <2>3
    <3>2. PICK d \in Nat : q = p + 1 + d
      BY <3>1
    <3>3. q * b = p * b + b + d * b
      BY <3>2, <2>2, <1>1
    <3>4. d * b \in Nat
      BY <3>2, <1>1
    <3>5. QED
      BY <3>3, <3>4, <2>2, <1>1
  <2>4. ASSUME q < p PROVE FALSE
    <3>1. p = q + 1 + (p - q - 1) /\ p - q - 1 \in Nat
      BY <2>2, <2>4
    <3>2. PICK d \in Nat : p = q + 1 + d
      BY <3>1
    <3>3. p * b = q * b + b + d * b
      BY <3>2, <2>2, <1>1
    <3>4. d * b \in Nat
      BY <3>2, <1>1
    <3>5. QED
      BY <3>3, <3>4, <2>2, <1>1
  <2>5. p = q
    BY <2>2, <2>3, <2>4
  <2>6. QED
    BY <2>1, <2>2, <2>5, <1>1 DEF p, t
<1>2. QED
  BY <1>1, BIsNat DEF BlockOf, Labels

\* The places of a block.
LEMMA BlockRange ==
  ASSUME NEW e \in Nat, NEW bi \in Nat
  PROVE  e \in bi * B .. bi * B + B - 1 <=> BlockOf(e) = bi
<1>1. ASSUME e \in bi * B .. bi * B + B - 1 PROVE BlockOf(e) = bi
  <2>1. e - bi * B \in Labels /\ e = bi * B + (e - bi * B)
    BY <1>1, BIsNat DEF Labels
  <2>2. QED
    BY <2>1, DivisionUnique
<1>2. ASSUME BlockOf(e) = bi PROVE e \in bi * B .. bi * B + B - 1
  <2>1. e % B \in Labels /\ e = bi * B + (e % B)
    BY <1>2, Division
  <2>2. bi * B \in Nat
    BY BIsNat
  <2>3. ASSUME NEW m \in Nat, NEW r \in Labels, e = m + r
        PROVE  e \in m .. m + B - 1
    BY <2>3, BIsNat DEF Labels
  <2>4. QED
    BY <2>1, <2>2, <2>3
<1>3. QED
  BY <1>1, <1>2

LEMMA RootBlock == BlockOf(0) = 0
<1>1. 0 \in Labels /\ 0 * B + 0 = 0
  BY BIsNat DEF Labels
<1>2. BlockOf(0 * B + 0) = 0
  BY <1>1, DivisionUnique
<1>3. QED
  BY <1>1, <1>2

\* The size of the array is that of its blocks.
LEMMA BlockInside ==
  ASSUME NEW e \in Nat, NEW n \in Nat
  PROVE  e < B * n <=> BlockOf(e) < n
<1>1. /\ BlockOf(e) \in Nat /\ e % B \in Nat /\ e % B < B
      /\ e = BlockOf(e) * B + (e % B)
  BY Division, BIsNat DEF Labels
<1>2. ASSUME NEW q \in Nat, NEW b \in Nat, NEW r \in Nat, r < b, q < n
      PROVE  q * b + r < b * n
  <2>1. PICK d \in Nat : n = q + 1 + d
    <3>1. n - q - 1 \in Nat /\ n = q + 1 + (n - q - 1)
      BY <1>2
    <3>2. QED
      BY <3>1
  <2>2. b * n = q * b + b + b * d /\ b * d \in Nat
    BY <2>1, <1>2
  <2>3. QED
    BY <2>2, <1>2
<1>3. ASSUME NEW q \in Nat, NEW b \in Nat, NEW r \in Nat, q >= n
      PROVE  q * b + r >= b * n
  <2>1. PICK d \in Nat : q = n + d
    <3>1. q - n \in Nat /\ q = n + (q - n)
      BY <1>3
    <3>2. QED
      BY <3>1
  <2>2. q * b = b * n + b * d /\ b * d \in Nat /\ b * n \in Nat
    BY <2>1, <1>3
  <2>3. QED
    BY <2>2, <1>3
<1>4. CASE BlockOf(e) < n
  BY <1>1, <1>2, <1>4, BIsNat
<1>5. CASE BlockOf(e) >= n
  <2>1. B * n \in Nat
    BY BIsNat
  <2>2. QED
    BY <1>1, <1>3, <1>5, <2>1, BIsNat
<1>6. QED
  BY <1>1, <1>4, <1>5

LEMMA XorFacts ==
  ASSUME NEW e \in Nat, NEW l \in Labels
  PROVE  /\ Xor(e, l) \in Nat /\ BlockOf(Xor(e, l)) = BlockOf(e)
         /\ Xor(Xor(e, l), l) = e
         /\ Xor(e, 0) = e
<1> DEFINE q == BlockOf(e)
           r == e % B
<1>1. q \in Nat /\ r \in Labels /\ e = q * B + r
  BY Division
<1>2. /\ XorTable[r][l] \in Labels /\ XorTable[XorTable[r][l]][l] = r
      /\ XorTable[r][0] = r
  BY <1>1, XorAssumption DEF Labels
<1>3. Xor(e, l) = q * B + XorTable[r][l] /\ Xor(e, 0) = e
  BY <1>1, <1>2 DEF Xor, BlockOf
<1> HIDE DEF q, r
<1>4. /\ Xor(e, l) \in Nat /\ BlockOf(Xor(e, l)) = q
      /\ Xor(e, l) % B = XorTable[r][l]
  BY <1>1, <1>2, <1>3, DivisionUnique
<1>5. Xor(Xor(e, l), l) = q * B + r
  BY <1>2, <1>4 DEF Xor, BlockOf
<1>6. QED
  BY <1>1, <1>3, <1>4, <1>5 DEF q

\* A place is at one label from another place, or from none.
LEMMA XorInjective ==
  ASSUME NEW e \in Nat, NEW l \in Labels, NEW m \in Labels, Xor(e, l) = Xor(e, m)
  PROVE  l = m
<1> DEFINE r == e % B
<1>1. r \in Labels
  BY Division
<1>2. XorTable[r][l] \in Labels /\ XorTable[r][m] \in Labels
  BY <1>1, XorAssumption DEF Labels
<1>3. (e \div B) * B \in Nat
  BY Division, BIsNat DEF BlockOf
<1>4. XorTable[r][l] = XorTable[r][m]
  BY <1>2, <1>3, BIsNat DEF Xor, Labels
<1>5. /\ XorTable[l][r] = XorTable[r][l] /\ XorTable[m][r] = XorTable[r][m]
      /\ XorTable[XorTable[l][r]][r] = l /\ XorTable[XorTable[m][r]][r] = m
  BY <1>1, XorAssumption DEF Labels
<1>6. QED
  BY <1>4, <1>5

\* Every place of a block is at some label from every other.
LEMMA XorReaches ==
  ASSUME NEW e \in Nat, NEW x \in Nat, BlockOf(e) = BlockOf(x)
  PROVE  \E l \in Labels : x = Xor(e, l)
<1> DEFINE r == e % B
           s == x % B
<1>1. r \in Labels /\ s \in Labels /\ x = BlockOf(x) * B + s
  BY Division
<1>2. /\ XorTable[s][r] \in Labels
      /\ XorTable[r][XorTable[s][r]] = XorTable[XorTable[s][r]][r]
      /\ XorTable[XorTable[s][r]][r] = s
  BY <1>1, XorAssumption DEF Labels
<1>3. Xor(e, XorTable[s][r]) = x
  BY <1>1, <1>2 DEF Xor, BlockOf
<1>4. QED
  BY <1>2, <1>3

-----------------------------------------------------------------------------
(* Rings *)

\* A set is one ring: next and prev are each other's inverses, and nothing less
\* than all of it is closed under next.
Cycle(S, next, prev) ==
  /\ \A x \in S : next[x] \in S /\ prev[x] \in S /\ prev[next[x]] = x /\ next[prev[x]] = x
  /\ \A X \in SUBSET S : X # {} /\ (\A x \in X : next[x] \in X) => X = S

LEMMA CycleSame ==
  ASSUME NEW S, NEW next, NEW prev, NEW next2, NEW prev2, Cycle(S, next, prev),
         \A x \in S : next2[x] = next[x] /\ prev2[x] = prev[x]
  PROVE  Cycle(S, next2, prev2)
<1>1. \A x \in S : next2[x] \in S /\ prev2[x] \in S /\ prev2[next2[x]] = x /\ next2[prev2[x]] = x
  BY DEF Cycle
<1>2. ASSUME NEW X \in SUBSET S, X # {}, \A x \in X : next2[x] \in X
      PROVE  X = S
  <2>1. \A x \in X : next[x] \in X
    BY <1>2
  <2>2. QED
    BY <1>2, <2>1 DEF Cycle
<1>3. QED
  BY <1>1, <1>2 DEF Cycle

LEMMA CycleAlone ==
  ASSUME NEW e, NEW next, NEW prev, next[e] = e, prev[e] = e
  PROVE  Cycle({e}, next, prev)
BY DEF Cycle

\* A ring of more than one has no node that is next to itself.
LEMMA CycleApart ==
  ASSUME NEW S, NEW next, NEW prev, Cycle(S, next, prev), NEW e \in S, next[e] = e \/ prev[e] = e
  PROVE  S = {e}
<1>1. next[e] = e
  BY DEF Cycle
<1>2. {e} \in SUBSET S /\ {e} # {} /\ \A x \in {e} : next[x] \in {e}
  BY <1>1
<1>3. QED
  BY <1>2 DEF Cycle

LEMMA CycleRemove ==
  ASSUME NEW S, NEW next, NEW prev, NEW next2, NEW prev2, Cycle(S, next, prev),
         NEW e \in S, next[e] # e,
         next2[prev[e]] = next[e], prev2[next[e]] = prev[e],
         \A x \in S \ {e, prev[e]} : next2[x] = next[x],
         \A x \in S \ {e, next[e]} : prev2[x] = prev[x]
  PROVE  Cycle(S \ {e}, next2, prev2)
<1>1. prev[e] # e /\ prev[e] \in S /\ next[e] \in S
  BY DEF Cycle
<1>2. \A x \in S : next[x] = e => x = prev[e]
  BY DEF Cycle
<1>3. \A x \in S : prev[x] = e => x = next[e]
  BY DEF Cycle
<1>4. ASSUME NEW x \in S \ {e}
      PROVE  /\ next2[x] \in S \ {e} /\ prev2[x] \in S \ {e}
             /\ prev2[next2[x]] = x /\ next2[prev2[x]] = x
  <2>1. next2[x] \in S \ {e} /\ prev2[next2[x]] = x
    <3>1. CASE x = prev[e]
      BY <1>1, <3>1
    <3>2. CASE x # prev[e]
      <4>1. next2[x] = next[x] /\ next[x] # e /\ next[x] \in S /\ prev[next[x]] = x
        BY <1>2, <3>2 DEF Cycle
      <4>2. next[x] # next[e]
        BY <4>1 DEF Cycle
      <4>3. QED
        BY <4>1, <4>2
    <3>3. QED
      BY <3>1, <3>2
  <2>2. prev2[x] \in S \ {e} /\ next2[prev2[x]] = x
    <3>1. CASE x = next[e]
      BY <1>1, <3>1
    <3>2. CASE x # next[e]
      <4>1. prev2[x] = prev[x] /\ prev[x] # e /\ prev[x] \in S /\ next[prev[x]] = x
        BY <1>3, <3>2 DEF Cycle
      <4>2. prev[x] # prev[e]
        BY <4>1 DEF Cycle
      <4>3. QED
        BY <4>1, <4>2
    <3>3. QED
      BY <3>1, <3>2
  <2>3. QED
    BY <2>1, <2>2
<1>5. ASSUME NEW X \in SUBSET (S \ {e}), X # {}, \A x \in X : next2[x] \in X
      PROVE  X = S \ {e}
  <2>1. CASE prev[e] \in X
    <3>1. \A x \in X \cup {e} : next[x] \in X \cup {e}
      <4>1. next[e] \in X
        BY <1>5, <2>1
      <4>2. next[prev[e]] = e
        BY DEF Cycle
      <4>3. QED
        BY <1>5, <4>1, <4>2
    <3>2. X \cup {e} = S
      <4>1. X \cup {e} \in SUBSET S /\ X \cup {e} # {}
        BY <1>5
      <4>2. QED
        BY <3>1, <4>1, Zenon DEF Cycle
    <3>3. QED
      BY <3>2, <1>5
  <2>2. CASE prev[e] \notin X
    <3>1. \A x \in X : next[x] \in X
      BY <1>5, <2>2
    <3>2. X = S
      BY <3>1, <1>5 DEF Cycle
    <3>3. QED
      BY <3>2, <1>5
  <2>3. QED
    BY <2>1, <2>2
<1>6. QED
  BY <1>4, <1>5 DEF Cycle

LEMMA CycleInsert ==
  ASSUME NEW S, NEW next, NEW prev, NEW next2, NEW prev2, Cycle(S, next, prev),
         NEW e, e \notin S, NEW p \in S,
         next2[p] = e, next2[e] = next[p], prev2[e] = p, prev2[next[p]] = e,
         \A x \in S \ {p} : next2[x] = next[x],
         \A x \in S \ {next[p]} : prev2[x] = prev[x]
  PROVE  Cycle(S \cup {e}, next2, prev2)
<1>1. next[p] \in S /\ prev[next[p]] = p
  BY DEF Cycle
<1>2. ASSUME NEW x \in S \cup {e}
      PROVE  /\ next2[x] \in S \cup {e} /\ prev2[x] \in S \cup {e}
             /\ prev2[next2[x]] = x /\ next2[prev2[x]] = x
  <2>1. CASE x = e
    BY <1>1, <2>1
  <2>2. CASE x \in S
    <3>1. next2[x] \in S \cup {e} /\ prev2[next2[x]] = x
      <4>1. CASE x = p
        BY <4>1
      <4>2. CASE x # p
        <5>1. next2[x] = next[x] /\ next[x] \in S /\ prev[next[x]] = x
          BY <2>2, <4>2 DEF Cycle
        <5>2. next[x] # next[p]
          BY <5>1, <1>1, <4>2
        <5>3. QED
          BY <5>1, <5>2
      <4>3. QED
        BY <4>1, <4>2
    <3>2. prev2[x] \in S \cup {e} /\ next2[prev2[x]] = x
      <4>1. CASE x = next[p]
        BY <4>1
      <4>2. CASE x # next[p]
        <5>1. prev2[x] = prev[x] /\ prev[x] \in S /\ next[prev[x]] = x
          BY <2>2, <4>2 DEF Cycle
        <5>2. prev[x] # p
          BY <5>1, <1>1, <4>2
        <5>3. QED
          BY <5>1, <5>2
      <4>3. QED
        BY <4>1, <4>2
    <3>3. QED
      BY <3>1, <3>2
  <2>3. QED
    BY <2>1, <2>2
<1>3. ASSUME NEW X \in SUBSET (S \cup {e}), X # {}, \A x \in X : next2[x] \in X
      PROVE  X = S \cup {e}
  <2> DEFINE Y == X \ {e}
  <2>1. Y # {}
    BY <1>1, <1>3
  <2>2. \A x \in Y : next[x] \in Y
    <3>1. CASE p \in Y
      <4>1. e \in X
        BY <1>3, <3>1
      <4>2. next[p] \in X
        BY <1>3, <4>1
      <4>3. QED
        BY <1>1, <1>3, <4>2 DEF Cycle
    <3>2. CASE p \notin Y
      BY <1>3, <3>2 DEF Cycle
    <3>3. QED
      BY <3>1, <3>2
  <2>3. Y \in SUBSET S
    BY <1>3
  <2>4. Y = S
    BY <2>1, <2>2, <2>3 DEF Cycle
  <2>5. e \in X
    BY <1>3, <2>4
  <2>6. QED
    BY <2>4, <2>5, <1>3
<1>4. QED
  BY <1>2, <1>3 DEF Cycle

LEMMA LeastNatural ==
  ASSUME NEW Z, Z \subseteq Nat, Z # {}
  PROVE  \E x \in Z : \A y \in Z : x <= y
<1>1. \E x \in Z : \A y \in Z : ~ (<<y, x>> \in OpToRel(<, Nat))
  BY NatLessThanWellFounded, WFMin, Zenon
<1>2. \E x \in Z : \A y \in Z : ~ (y < x)
  <2>1. ASSUME NEW x \in Z, NEW y \in Z, y < x
        PROVE  <<y, x>> \in OpToRel(<, Nat)
    BY <2>1, Zenon DEF OpToRel
  <2>2. QED
    BY <1>1, <2>1, Zenon
<1>3. QED
  BY <1>2

\* A new block is one ring: each place after the one before, the first after the last.
LEMMA CycleInterval ==
  ASSUME NEW lo \in Nat, NEW hi \in Nat, lo <= hi, NEW next, NEW prev,
         \A e \in lo .. hi : /\ next[e] = IF e = hi THEN lo ELSE e + 1
                             /\ prev[e] = IF e = lo THEN hi ELSE e - 1
  PROVE  Cycle(lo .. hi, next, prev)
<1>1. ASSUME NEW e \in lo .. hi
      PROVE  /\ next[e] \in lo .. hi /\ prev[e] \in lo .. hi
             /\ prev[next[e]] = e /\ next[prev[e]] = e
  <2>1. next[e] \in lo .. hi /\ prev[e] \in lo .. hi
    OBVIOUS
  <2>2. QED
    BY <2>1
<1>2. ASSUME NEW X \in SUBSET (lo .. hi), X # {}, \A x \in X : next[x] \in X
      PROVE  X = lo .. hi
  <2>1. ASSUME NEW x \in X
        PROVE  \A y \in x .. hi : y \in X
    <3> DEFINE Z == {y \in x .. hi : y \notin X}
    <3>1. SUFFICES ASSUME Z # {} PROVE FALSE
      OBVIOUS
    <3>2. Z \subseteq Nat
      OBVIOUS
    <3>3. PICK y \in Z : \A z \in Z : y <= z
      BY <3>1, <3>2, LeastNatural
    <3>4. y # x /\ y - 1 \in x .. hi /\ y - 1 \notin Z
      BY <3>3
    <3>5. next[y - 1] = y
      BY <3>3, <3>4
    <3>6. QED
      BY <3>3, <3>4, <3>5, <1>2
  <2>2. hi \in X
    <3>1. PICK x \in X : x \in lo .. hi
      BY <1>2
    <3>2. hi \in x .. hi
      BY <3>1
    <3>3. QED
      BY <2>1, <3>2
  <2>3. lo \in X
    BY <2>2, <1>2
  <2>4. QED
    BY <2>1, <2>3
<1>3. QED
  BY <1>1, <1>2 DEF Cycle

\* Whoever follows next as often as there are nodes has met all of them.
LEMMA CycleWalk ==
  ASSUME NEW S, IsFiniteSet(S), NEW next, NEW prev, Cycle(S, next, prev),
         NEW m \in Nat, Cardinality(S) <= m, NEW r, r[1] \in S,
         \A i \in 1 .. m - 1 : r[i + 1] = next[r[i]]
  PROVE  S = {r[i] : i \in 1 .. Cardinality(S)}
<1> DEFINE n == Cardinality(S)
<1>1. n \in Nat
  BY FS_CardinalityType
<1> HIDE DEF n
<1>2. \A i \in 1 .. m : r[i] \in S
  <2> DEFINE Z == {i \in 1 .. m : r[i] \notin S}
  <2>1. SUFFICES ASSUME Z # {} PROVE FALSE
    OBVIOUS
  <2>2. Z \subseteq Nat
    OBVIOUS
  <2>3. PICK i \in Z : \A k \in Z : i <= k
    BY <2>1, <2>2, LeastNatural
  <2>4. i # 1 /\ i - 1 \in 1 .. m - 1 /\ i - 1 \notin Z
    BY <2>3
  <2>5. r[i - 1] \in S /\ r[i - 1 + 1] = next[r[i - 1]] /\ i - 1 + 1 = i
    BY <2>3, <2>4
  <2>6. QED
    BY <2>3, <2>5 DEF Cycle
<1>3. ASSUME NEW i \in 1 .. n, NEW j \in 1 .. n, i < j, r[i] = r[j] PROVE FALSE
  <2> DEFINE f == [k \in 1 .. j - 1 |-> r[k]]
             X == {r[k] : k \in 1 .. j - 1}
  <2>1. X \in SUBSET S /\ r[1] \in X
    BY <1>1, <1>2, <1>3 DEF n
  <2>2. \A x \in X : next[x] \in X
    <3> SUFFICES ASSUME NEW k \in 1 .. j - 1 PROVE next[r[k]] \in X
      OBVIOUS
    <3>1. next[r[k]] = r[k + 1]
      BY <1>1, <1>3 DEF n
    <3>2. CASE k = j - 1
      BY <3>1, <3>2, <1>1, <1>3
    <3>3. CASE k # j - 1
      <4>1. k + 1 \in 1 .. j - 1
        BY <3>3, <1>1, <1>3
      <4>2. QED
        BY <3>1, <4>1
    <3>4. QED
      BY <3>2, <3>3
  <2>3. X = S
    BY <2>1, <2>2, Zenon DEF Cycle
  <2>4. f \in Surjection(1 .. j - 1, X)
    BY DEF Surjection
  <2>5. /\ IsFiniteSet(1 .. j - 1) /\ Cardinality(1 .. j - 1) = j - 1
    BY <1>1, <1>3, FS_Interval
  <2>6. Cardinality(X) <= Cardinality(1 .. j - 1)
    BY <2>4, <2>5, FS_Surjection
  <2>7. n <= j - 1
    BY <2>3, <2>5, <2>6 DEF n
  <2>8. QED
    BY <2>7, <1>1, <1>3
<1> DEFINE g == [k \in 1 .. n |-> r[k]]
<1>4. g \in Injection(1 .. n, S)
  <2>1. \A i \in 1 .. n : r[i] \in S
    BY <1>1, <1>2 DEF n
  <2>2. ASSUME NEW i \in 1 .. n, NEW j \in 1 .. n, r[i] = r[j] PROVE i = j
    <3>1. i < j \/ j < i \/ i = j
      BY <1>1
    <3>2. QED
      BY <1>3, <2>2, <3>1
  <2>3. QED
    BY <2>1, <2>2 DEF Injection, IsInjective
<1>5. Cardinality(1 .. n) = n
  BY <1>1, FS_Interval
<1>6. g \in Surjection(1 .. n, S)
  BY <1>4, <1>5, FS_Injection DEF n
<1>7. S = {r[i] : i \in 1 .. n}
  BY <1>6, <1>4 DEF Surjection, Injection
<1>8. QED
  BY <1>7 DEF n

-----------------------------------------------------------------------------
(* Space: rings of empty nodes, lists of blocks *)

Lists == {"F", "C", "O"}

ArrayFields == {"base", "check", "sibling", "child", "block", "head", "reject", "size"}

BlocksOf(d) == DOMAIN d.block

PlacesOf(d) == 0 .. d.size - 1

BlockType ==
  [prev : Nat, next : Nat, num : 0 .. B, reject : 0 .. B + 1, trial : 0 .. MaxTrial, ehead : Nat]

\* The arrays have the size of their blocks, and places and blocks are in them.
ArrayType(d) ==
  /\ DOMAIN d = ArrayFields
  /\ \E n \in Nat \ {0} : d.size = B * n /\ d.block \in [0 .. n - 1 -> BlockType]
  /\ d.base \in [PlacesOf(d) -> Int] /\ d.check \in [PlacesOf(d) -> Int]
  /\ d.sibling \in [PlacesOf(d) -> Labels] /\ d.child \in [PlacesOf(d) -> Labels]
  /\ d.head \in [Lists -> BlocksOf(d)] /\ d.reject \in [0 .. B -> 0 .. B + 1]
  /\ \A bi \in BlocksOf(d) :
       /\ d.block[bi].prev \in BlocksOf(d) /\ d.block[bi].next \in BlocksOf(d)
       /\ d.block[bi].ehead \in PlacesOf(d) /\ BlockOf(d.block[bi].ehead) = bi

EmptyIn(d, bi) == {e \in PlacesOf(d) : BlockOf(e) = bi /\ e # 0 /\ d.check[e] < 0}

NextEmpty(d) == [e \in PlacesOf(d) |-> -d.check[e]]
PrevEmpty(d) == [e \in PlacesOf(d) |-> -d.base[e]]

RingIn(d, bi) ==
  /\ d.block[bi].num = Cardinality(EmptyIn(d, bi)) + (IF bi = 0 THEN 1 ELSE 0)
  /\ EmptyIn(d, bi) # {} =>
       /\ d.block[bi].ehead \in EmptyIn(d, bi)
       /\ Cycle(EmptyIn(d, bi), NextEmpty(d), PrevEmpty(d))

NextBlock(d) == [bi \in BlocksOf(d) |-> d.block[bi].next]
PrevBlock(d) == [bi \in BlocksOf(d) |-> d.block[bi].prev]

\* Each list of blocks is a ring from its head.
Listed(d, list) ==
  \A l \in Lists :
    LET of == {bi \in BlocksOf(d) : list[bi] = l}
    IN  IF of = {} THEN d.head[l] = 0
        ELSE d.head[l] \in of /\ Cycle(of, NextBlock(d), PrevBlock(d))

\* The list a block with so many empty nodes and trials belongs to.
ListFor(bi, num, trial) ==
  IF bi = 0 \/ num = 0 THEN "F" ELSE IF num = 1 \/ trial = MaxTrial THEN "C" ELSE "O"

ListsIn(d) == [bi \in BlocksOf(d) |-> ListFor(bi, d.block[bi].num, d.block[bi].trial)]

SpaceInv(d) ==
  ArrayType(d) /\ (\A bi \in BlocksOf(d) : RingIn(d, bi)) /\ Listed(d, ListsIn(d))

-----------------------------------------------------------------------------
(* The tree *)

Used(d) == {0} \cup {e \in PlacesOf(d) : d.check[e] >= 0}

Moving(j) == j.pc = "update" /\ j.step = "move"

\* The newcomer among the labels of a move, which has no old place.
IsNewcomer(j, i) == j.place.newcomer /\ j.place.labels[i] = LabelOf(j)

\* The places the children of the mover have not left yet.
Unmoved(j) ==
  {Xor(j.place.old, j.place.labels[i]) :
     i \in {k \in j.place.at .. Len(j.place.labels) : ~ IsNewcomer(j, k)}}

\* A move: whose children move, from which base, and the places they have not left.
Still == [mover |-> -1, old |-> 0, left |-> {}]

MoveOf(j) == [mover |-> j.place.mover, old |-> j.place.old, left |-> Unmoved(j)]

\* The base a node is at a label from.
Hang(d, mv, n) ==
  IF d.check[n] = mv.mover /\ n \in mv.left THEN mv.old ELSE d.base[d.check[n]]

\* The root stands where its own terminal would.
Parent(d, n) == IF n = 0 THEN 0 ELSE d.check[n]

IsTerminal(P, n) == P[n] # <<>> /\ P[n][Len(P[n])] = 0

\* P gives for each of the nodes U the labels that lead to it.
Paths(d, U, mv, P) ==
  /\ P \in [U -> Seq(Labels)] /\ P[0] = <<>>
  /\ \A n, m \in U : P[n] = P[m] => n = m
  /\ \A n \in U \ {0} :
       /\ d.check[n] \in U /\ ~ IsTerminal(P, d.check[n])
       /\ \E l \in Labels : n = Xor(Hang(d, mv, n), l) /\ P[n] = Append(P[d.check[n]], l)

\* A terminal holds a value, another node the base of its children.
Based(d, n, P) ==
  IF IsTerminal(P, n) THEN d.base[n] \in Nat
  ELSE d.base[n] \in PlacesOf(d) /\ BlockOf(d.base[n]) # 0

\* A node that has no children yet.
Bare(d, U, n) == d.base[n] = -1 /\ d.child[n] = 0 /\ \A m \in U \ {0} : d.check[m] # n

\* All nodes have what they need, but for coming, which the update has just made.
Bases(d, U, coming, P) ==
  /\ d.check[0] < 0 /\ d.base[0] = 0
  /\ \A n \in U \ {0} : Based(d, n, P) \/ (n = coming /\ ~ IsTerminal(P, n) /\ Bare(d, U, n))

\* The children of n are at the labels s from its base, in this order.
IsChain(d, U, n, s) ==
  /\ s \in Seq(Labels) /\ s # <<>> /\ d.child[n] = s[1]
  /\ \A i, k \in 1 .. Len(s) : s[i] = s[k] => i = k
  /\ \A i \in 2 .. Len(s) : s[i] # 0
  /\ \A i \in 1 .. Len(s) :
       /\ Xor(d.base[n], s[i]) \in U /\ Parent(d, Xor(d.base[n], s[i])) = n
       /\ d.sibling[Xor(d.base[n], s[i])] = IF i < Len(s) THEN s[i + 1] ELSE 0
  /\ \A e \in U : Parent(d, e) = n => \E i \in 1 .. Len(s) : e = Xor(d.base[n], s[i])

Chains(d, U, mv, P) ==
  \A n \in U : ~ IsTerminal(P, n) /\ d.base[n] >= 0 /\ n # mv.mover => \E s : IsChain(d, U, n, s)

Tree(d, U, mv, coming, P) ==
  /\ U \subseteq PlacesOf(d) /\ 0 \in U
  /\ Paths(d, U, mv, P) /\ Bases(d, U, coming, P) /\ Chains(d, U, mv, P)

\* Places that are empty have no children.
Blank(d) == \A e \in PlacesOf(d) \ Used(d) : d.child[e] = 0

-----------------------------------------------------------------------------
(* The update in progress *)

Conflict(d, j) == Xor(d.base[j.from], LabelOf(j))

\* What is known of the labels a new base is sought for.
Asked(d, j, m) ==
  /\ d.base[j.from] >= 0 /\ m.conflict = Conflict(d, j)
  /\ m.conflict \in Used(d) \ {0} /\ d.check[m.conflict] # j.from
  /\ m.newcomer \in BOOLEAN
  /\ m.mover = IF m.newcomer THEN j.from ELSE d.check[m.conflict]
  /\ IF m.newcomer
       THEN \E t : IsChain(d, Used(d), m.mover, t) /\ m.labels = WithLabel(t, LabelOf(j))
       ELSE IsChain(d, Used(d), m.mover, m.labels)

PlaceInv(d, j) ==
  LET m == j.place
  IN  /\ m = [mover |-> m.mover, newcomer |-> m.newcomer, conflict |-> m.conflict,
              labels |-> m.labels, block |-> m.block, last |-> m.last]
      /\ Asked(d, j, m)
      /\ m.block \in BlocksOf(d) /\ ListsIn(d)[m.block] = "O"
      /\ m.last \in BlocksOf(d) /\ ListsIn(d)[m.last] = "O"

\* The labels of the children that have moved are those before m.at.
MoveInv(d, j, P) ==
  LET m == j.place
      s == m.labels
      label == LabelOf(j)
  IN  /\ m = [mover |-> m.mover, newcomer |-> m.newcomer, conflict |-> m.conflict,
              labels |-> s, old |-> m.old, base |-> m.base, at |-> m.at]
      /\ m.newcomer \in BOOLEAN /\ m.mover \in Used(d) \ {0} /\ ~ IsTerminal(P, m.mover)
      /\ m.newcomer <=> m.mover = j.from
      /\ d.base[m.mover] = m.base /\ m.base \in PlacesOf(d) /\ BlockOf(m.base) # 0
      /\ m.old \in PlacesOf(d) /\ BlockOf(m.old) # 0
      /\ s \in Seq(Labels) /\ s # <<>> /\ m.at \in 1 .. Len(s) + 1 /\ d.child[m.mover] = s[1]
      /\ \A i, k \in 1 .. Len(s) : s[i] = s[k] => i = k
      /\ \A i \in 2 .. Len(s) : s[i] # 0
      /\ \A i \in 1 .. m.at - 1 :
           /\ Xor(m.base, s[i]) \in Used(d) /\ d.check[Xor(m.base, s[i])] = m.mover
           /\ Xor(m.base, s[i]) \notin Unmoved(j)
           /\ d.sibling[Xor(m.base, s[i])] = IF i < Len(s) THEN s[i + 1] ELSE 0
      /\ \A i \in m.at .. Len(s) : d.check[Xor(m.base, s[i])] < 0
      /\ \A e \in Unmoved(j) : e \in Used(d) /\ d.check[e] = m.mover
      /\ \A e \in Used(d) \ {0} : d.check[e] = m.mover =>
           e \in Unmoved(j) \/ \E i \in 1 .. m.at - 1 : e = Xor(m.base, s[i])
      /\ d.base[j.from] >= 0 /\ m.conflict \in Used(d) \ {0}
      /\ IF m.newcomer
           THEN /\ \E c \in 1 .. Len(s) : s[c] = label
                /\ m.conflict = Xor(m.old, label) /\ d.check[m.conflict] # m.mover
           ELSE /\ m.conflict = Conflict(d, j)
                /\ \E c \in 1 .. Len(s) :
                     /\ m.conflict = Xor(m.old, s[c])
                     /\ d.check[m.conflict] = IF m.at <= c THEN m.mover ELSE j.from

\* The node an update has made and not yet arrived at, if any.
ComingOf(j) ==
  CASE j.pc = "update" /\ j.step = "follow" -> j.from
    [] Moving(j) /\ j.place.newcomer -> Xor(j.place.base, LabelOf(j))
    [] Moving(j) /\ ~ j.place.newcomer -> IF j.place.conflict \in Unmoved(j) THEN 0 ELSE j.place.conflict
    [] OTHER -> 0

JobType(j) ==
  /\ j = [pc |-> "update", step |-> j.step, key |-> j.key, pos |-> j.pos, from |-> j.from,
          val |-> j.val, place |-> j.place]
  /\ j.key \in Keys /\ j.pos \in 0 .. Len(j.key) /\ j.val \in Nat \ {NoValue}

\* The string k has the value that V gives for it: none, or what its terminal holds.
HasValue(d, U, P, V, k) ==
  IF V[k] = NoValue THEN \A n \in U : P[n] # Append(k, 0)
  ELSE \E n \in U : P[n] = Append(k, 0) /\ d.base[n] = V[k]

\* Terminals end strings.
Ended(U, P) == \A n \in U : IsTerminal(P, n) => \E k \in Keys : P[n] = Append(k, 0)

\* While the string key is updated: the others have the values they had when the
\* update began, its own terminal, once it is there, none but 0.
Values(d, U, P, V, key) ==
  /\ Ended(U, P)
  /\ \A k \in Keys \ {key} : HasValue(d, U, P, V, k)
  /\ \A n \in U : P[n] = Append(key, 0) => d.base[n] = 0

\* How far the update has come.
Reached(d, j, P, V) ==
  /\ j.from \in Used(d) /\ P[j.from] = SubSeq(j.key, 1, j.pos)
  /\ Values(d, Used(d), P, V, j.key)

JobInv(d, j, P, V) ==
  \/ /\ j = Idle \/ j.pc \in {"walk", "walked"}
     /\ Ended(Used(d), P) /\ \A k \in Keys : HasValue(d, Used(d), P, V, k)
  \/ /\ JobType(j) /\ Reached(d, j, P, V)
     /\ \/ j.step = "follow"
        \/ j.step = "place" /\ PlaceInv(d, j)
        \/ j.step = "move" /\ MoveInv(d, j, P) /\ j.place.at <= Len(j.place.labels)

TreeInv(d, j, P, V) ==
  /\ Tree(d, Used(d), IF Moving(j) THEN MoveOf(j) ELSE Still, ComingOf(j), P)
  /\ Blank(d) /\ JobInv(d, j, P, V)

-----------------------------------------------------------------------------
(* Lists of blocks *)

LEMMA ArrayFacts ==
  ASSUME NEW d, ArrayType(d)
  PROVE  /\ d.size \in Nat /\ d.size > 0
         /\ BlocksOf(d) \subseteq Nat /\ 0 \in BlocksOf(d) /\ IsFiniteSet(BlocksOf(d))
         /\ d.size = B * Cardinality(BlocksOf(d)) /\ Cardinality(BlocksOf(d)) \in Nat
         /\ BlocksOf(d) = 0 .. Cardinality(BlocksOf(d)) - 1
         /\ PlacesOf(d) \subseteq Nat /\ 0 \in PlacesOf(d)
         /\ \A e \in Nat : e \in PlacesOf(d) <=> BlockOf(e) \in BlocksOf(d)
         /\ d.block \in [BlocksOf(d) -> BlockType]
<1>1. PICK n \in Nat \ {0} : d.size = B * n /\ d.block \in [0 .. n - 1 -> BlockType]
  BY Zenon DEF ArrayType
<1>2. BlocksOf(d) = 0 .. n - 1
  BY <1>1 DEF BlocksOf
<1>3. IsFiniteSet(BlocksOf(d)) /\ Cardinality(BlocksOf(d)) = n
  BY <1>2, FS_Interval
<1>4. d.size \in Nat /\ d.size > 0
  <2>1. ASSUME NEW b \in Nat, b > 1 PROVE b * n \in Nat /\ b * n > 0
    <3>1. PICK m \in Nat : n = m + 1
      <4>1. n - 1 \in Nat /\ n = (n - 1) + 1
        OBVIOUS
      <4>2. QED
        BY <4>1
    <3>2. b * n = b * m + b /\ b * m \in Nat
      BY <3>1, <2>1
    <3>3. QED
      BY <3>2, <2>1
  <2>2. QED
    BY <1>1, <2>1, BIsNat
<1>5. ASSUME NEW e \in Nat
      PROVE  e \in PlacesOf(d) <=> BlockOf(e) \in BlocksOf(d)
  <2>1. e \in PlacesOf(d) <=> e < B * n
    BY <1>1, <1>4 DEF PlacesOf
  <2>2. BlockOf(e) \in BlocksOf(d) <=> BlockOf(e) < n
    BY <1>2, Division, SMTT(30)
  <2>3. QED
    BY <2>1, <2>2, BlockInside
<1>6. PlacesOf(d) \subseteq Nat /\ 0 \in PlacesOf(d)
  BY <1>4 DEF PlacesOf
<1>7. QED
  BY <1>1, <1>2, <1>3, <1>4, <1>5, <1>6

\* Two arrays that differ in nothing but the links between blocks.
SameButLinks(d, d2) ==
  /\ d2.base = d.base /\ d2.check = d.check /\ d2.sibling = d.sibling /\ d2.child = d.child
  /\ d2.size = d.size /\ d2.reject = d.reject /\ BlocksOf(d2) = BlocksOf(d)
  /\ \A b \in BlocksOf(d) :
       /\ d2.block[b].num = d.block[b].num /\ d2.block[b].reject = d.block[b].reject
       /\ d2.block[b].trial = d.block[b].trial /\ d2.block[b].ehead = d.block[b].ehead

Without(list, bi) == [b \in DOMAIN list |-> IF b = bi THEN "none" ELSE list[b]]

With(list, bi, to) == [b \in DOMAIN list |-> IF b = bi THEN to ELSE list[b]]

\* A change of nothing but links and heads, which keeps the array well formed.
LinksChange(d, d2) ==
  /\ DOMAIN d2 = ArrayFields
  /\ d2.base = d.base /\ d2.check = d.check /\ d2.sibling = d.sibling /\ d2.child = d.child
  /\ d2.size = d.size /\ d2.reject = d.reject
  /\ d2.head \in [Lists -> BlocksOf(d)] /\ d2.block \in [BlocksOf(d) -> BlockType]
  /\ \A x \in BlocksOf(d) :
       /\ d2.block[x].next \in BlocksOf(d) /\ d2.block[x].prev \in BlocksOf(d)
       /\ d2.block[x].num = d.block[x].num /\ d2.block[x].reject = d.block[x].reject
       /\ d2.block[x].trial = d.block[x].trial /\ d2.block[x].ehead = d.block[x].ehead

LEMMA LinksType ==
  ASSUME NEW d, ArrayType(d), NEW d2, LinksChange(d, d2)
  PROVE  ArrayType(d2) /\ SameButLinks(d, d2)
<1> USE DEF LinksChange
<1>1. BlocksOf(d2) = BlocksOf(d) /\ PlacesOf(d2) = PlacesOf(d)
  BY DEF BlocksOf, PlacesOf
<1>2. \E m \in Nat \ {0} : d2.size = B * m /\ d2.block \in [0 .. m - 1 -> BlockType]
  <2>1. PICK m \in Nat \ {0} : d.size = B * m /\ d.block \in [0 .. m - 1 -> BlockType]
    BY Zenon DEF ArrayType
  <2>2. BlocksOf(d) = 0 .. m - 1
    BY <2>1 DEF BlocksOf
  <2>3. QED
    BY <2>1, <2>2
<1>3. \A x \in BlocksOf(d) : d2.block[x].ehead \in PlacesOf(d) /\ BlockOf(d2.block[x].ehead) = x
  BY DEF ArrayType
<1>4. ArrayType(d2)
  BY <1>1, <1>2, <1>3 DEF ArrayType
<1>5. QED
  BY <1>1, <1>4 DEF SameButLinks

\* Lists that say where each block is; the first block is in the list of the full.
ListsType(d, list) ==
  list \in [BlocksOf(d) -> Lists \cup {"none"}] /\ list[0] = "F"

In(d, list, l) == {b \in BlocksOf(d) : list[b] = l}

\* f with the links of some blocks set: next of x1 to n and prev of x2 to p.
Relinked(f, x1, n, x2, p) == [f EXCEPT ![x1].next = n, ![x2].prev = p]

LinksSet(N, f, g, x1, n, x2, p) ==
  /\ g \in [N -> BlockType]
  /\ \A x \in N :
       /\ g[x].next = IF x = x1 THEN n ELSE f[x].next
       /\ g[x].prev = IF x = x2 THEN p ELSE f[x].prev
       /\ g[x].num = f[x].num /\ g[x].reject = f[x].reject
       /\ g[x].trial = f[x].trial /\ g[x].ehead = f[x].ehead

LEMMA LinkTwo ==
  ASSUME NEW N, N \subseteq Nat, NEW f \in [N -> BlockType],
         NEW x1 \in N, NEW x2 \in N, NEW n \in N, NEW p \in N
  PROVE  LinksSet(N, f, Relinked(f, x1, n, x2, p), x1, n, x2, p)
<1> DEFINE g == [f EXCEPT ![x1].next = n, ![x2].prev = p]
<1>1. g \in [N -> BlockType]
  BY DEF BlockType
<1>2. \A x \in N : g[x].next = IF x = x1 THEN n ELSE f[x].next
  BY DEF BlockType
<1>3. \A x \in N : g[x].prev = IF x = x2 THEN p ELSE f[x].prev
  BY DEF BlockType
<1>4. \A x \in N : /\ g[x].num = f[x].num /\ g[x].reject = f[x].reject
                   /\ g[x].trial = f[x].trial /\ g[x].ehead = f[x].ehead
  BY DEF BlockType
<1> HIDE DEF g
<1>5. Relinked(f, x1, n, x2, p) = g
  BY DEF Relinked, g
<1>6. QED
  BY <1>1, <1>2, <1>3, <1>4, <1>5 DEF LinksSet

LEMMA PopBlockLists ==
  ASSUME NEW d, ArrayType(d), NEW list, ListsType(d, list), Listed(d, list),
         NEW bi \in BlocksOf(d), bi # 0, list[bi] \in Lists,
         NEW d2, d2 = PopBlock(d, bi, list[bi], bi = d.block[bi].next)
  PROVE  /\ ArrayType(d2) /\ SameButLinks(d, d2)
         /\ Listed(d2, Without(list, bi))
<1> DEFINE l == list[bi]
           b == d.block[bi]
           N == BlocksOf(d)
           list2 == Without(list, bi)
<1>1. /\ DOMAIN d = ArrayFields /\ d.block \in [N -> BlockType] /\ N \subseteq Nat /\ 0 \in N
      /\ d.head \in [Lists -> N] /\ \A x \in N : d.block[x].next \in N /\ d.block[x].prev \in N
  BY ArrayFacts DEF ArrayType
<1>2. /\ d.head[l] \in In(d, list, l) /\ bi \in In(d, list, l)
      /\ Cycle(In(d, list, l), NextBlock(d), PrevBlock(d))
  BY DEF Listed, In
<1>3. /\ In(d, list2, l) = In(d, list, l) \ {bi}
      /\ \A k \in Lists \ {l} : In(d, list2, k) = In(d, list, k)
  BY DEF In, Without, ListsType, Lists
<1>4. \A x \in N : NextBlock(d)[x] = d.block[x].next /\ PrevBlock(d)[x] = d.block[x].prev
  BY DEF NextBlock, PrevBlock
<1>5. CASE bi = b.next
  <2>1. In(d, list, l) = {bi}
    BY <1>2, <1>4, <1>5, CycleApart
  <2>2. l # "F"
    BY <2>1, <1>1 DEF In, ListsType
  <2>3. d2 = [d EXCEPT !.head[l] = 0]
    BY <1>5 DEF PopBlock
  <2>4. /\ DOMAIN d2 = ArrayFields
        /\ d2.base = d.base /\ d2.check = d.check /\ d2.sibling = d.sibling
        /\ d2.child = d.child /\ d2.size = d.size /\ d2.reject = d.reject
        /\ d2.head = [d.head EXCEPT ![l] = 0] /\ d2.block = d.block
    BY <1>1, <2>3 DEF ArrayFields
  <2>5. ArrayType(d2) /\ SameButLinks(d, d2)
    BY <1>1, <2>4, LinksType, SMTT(30) DEF LinksChange
  <2>6. NextBlock(d2) = NextBlock(d) /\ PrevBlock(d2) = PrevBlock(d) /\ BlocksOf(d2) = N
    BY <2>4 DEF NextBlock, PrevBlock, BlocksOf
  <2>7. ASSUME NEW k \in Lists
        PROVE  IF In(d, list2, k) = {} THEN d2.head[k] = 0
               ELSE d2.head[k] \in In(d, list2, k) /\ Cycle(In(d, list2, k), NextBlock(d2), PrevBlock(d2))
    <3>1. CASE k = l
      BY <3>1, <1>1, <1>3, <2>1, <2>4
    <3>2. CASE k # l
      <4>1. In(d, list2, k) = In(d, list, k) /\ d2.head[k] = d.head[k]
        BY <3>2, <1>1, <1>3, <2>4
      <4>2. QED
        BY <4>1, <2>6 DEF Listed, In
    <3>3. QED
      BY <3>1, <3>2
  <2>8. QED
    BY <2>5, <2>6, <2>7 DEF Listed, In
<1>6. CASE bi # b.next
  <2> DEFINE h == IF d.head[l] = bi THEN b.next ELSE d.head[l]
  <2>1. d2 = [d EXCEPT !.block[b.prev].next = b.next, !.block[b.next].prev = b.prev,
                       !.head[l] = h]
    BY <1>6 DEF PopBlock
  <2>2. /\ DOMAIN d2 = ArrayFields
        /\ d2.base = d.base /\ d2.check = d.check /\ d2.sibling = d.sibling
        /\ d2.child = d.child /\ d2.size = d.size /\ d2.reject = d.reject
        /\ d2.head = [d.head EXCEPT ![l] = h]
        /\ d2.block = [d.block EXCEPT ![b.prev].next = b.next, ![b.next].prev = b.prev]
    BY <1>1, <2>1 DEF ArrayFields
  <2>3. b.prev \in N /\ b.next \in N /\ h \in N
    BY <1>1
  <2> HIDE DEF h
  <2>4. LinksSet(N, d.block, d2.block, b.prev, b.next, b.next, b.prev)
    <3>1. d2.block = Relinked(d.block, b.prev, b.next, b.next, b.prev)
      BY <2>2 DEF Relinked
    <3>2. LinksSet(N, d.block, Relinked(d.block, b.prev, b.next, b.next, b.prev),
                   b.prev, b.next, b.next, b.prev)
      BY <1>1, <2>3, LinkTwo, Zenon
    <3>3. QED
      BY <3>1, <3>2, Zenon
  <2>8. ArrayType(d2) /\ SameButLinks(d, d2)
    <3>1. d2.head \in [Lists -> N]
      <4>1. d.head \in [Lists -> N] /\ h \in N /\ d2.head = [d.head EXCEPT ![l] = h]
        BY <1>1, <2>2, <2>3
      <4> HIDE DEF l, N
      <4>2. QED
        BY ONLY <4>1
    <3>2. LinksChange(d, d2)
      BY <1>1, <2>2, <2>3, <2>4, <3>1, ZenonT(30) DEF LinksChange, LinksSet
    <3>3. QED
      BY <3>2, LinksType
  <2>9. BlocksOf(d2) = N
    BY <2>8 DEF SameButLinks
  <2>10. \A x \in N : /\ NextBlock(d2)[x] = IF x = b.prev THEN b.next ELSE d.block[x].next
                      /\ PrevBlock(d2)[x] = IF x = b.next THEN b.prev ELSE d.block[x].prev
    BY <2>4, <2>9 DEF NextBlock, PrevBlock, LinksSet
  <2>11. ASSUME NEW k \in Lists
        PROVE  IF In(d, list2, k) = {} THEN d2.head[k] = 0
               ELSE d2.head[k] \in In(d, list2, k) /\ Cycle(In(d, list2, k), NextBlock(d2), PrevBlock(d2))
    <3>1. CASE k = l
      <4>1. b.next \in In(d, list, l) /\ b.prev \in In(d, list, l)
        BY <1>2, <1>4 DEF Cycle
      <4>2. Cycle(In(d, list, l) \ {bi}, NextBlock(d2), PrevBlock(d2))
        <5>1. In(d, list, l) \subseteq N
          BY DEF In
        <5>2. /\ NextBlock(d2)[PrevBlock(d)[bi]] = NextBlock(d)[bi]
              /\ PrevBlock(d2)[NextBlock(d)[bi]] = PrevBlock(d)[bi]
              /\ NextBlock(d)[bi] # bi
          BY <1>4, <1>6, <2>3, <2>10
        <5>3. /\ \A x \in In(d, list, l) \ {bi, PrevBlock(d)[bi]} : NextBlock(d2)[x] = NextBlock(d)[x]
              /\ \A x \in In(d, list, l) \ {bi, NextBlock(d)[bi]} : PrevBlock(d2)[x] = PrevBlock(d)[x]
          BY <1>4, <2>10, <5>1
        <5>4. QED
          BY <1>2, <5>2, <5>3, CycleRemove
      <4>3. d2.head[l] = h /\ h \in In(d, list, l) \ {bi}
        BY <1>1, <1>2, <1>6, <2>2, <4>1 DEF h
      <4>4. QED
        BY <3>1, <1>3, <4>2, <4>3
    <3>2. CASE k # l
      <4>1. In(d, list2, k) = In(d, list, k) /\ d2.head[k] = d.head[k]
        BY <3>2, <1>1, <1>3, <2>2
      <4>2. CASE In(d, list, k) = {}
        BY <4>1, <4>2 DEF Listed, In
      <4>3. CASE In(d, list, k) # {}
        <5>1. d.head[k] \in In(d, list, k) /\ Cycle(In(d, list, k), NextBlock(d), PrevBlock(d))
          BY <4>3 DEF Listed, In
        <5>2. b.prev \notin In(d, list, k) /\ b.next \notin In(d, list, k)
          <6>1. b.next \in In(d, list, l) /\ b.prev \in In(d, list, l)
            BY <1>2, <1>4 DEF Cycle
          <6>2. QED
            BY <6>1, <3>2 DEF In
        <5>3. \A x \in In(d, list, k) : NextBlock(d2)[x] = NextBlock(d)[x] /\ PrevBlock(d2)[x] = PrevBlock(d)[x]
          BY <5>2, <1>4, <2>10 DEF In
        <5>4. QED
          BY <4>1, <5>1, <5>3, CycleSame
      <4>4. QED
        BY <4>2, <4>3
    <3>3. QED
      BY <3>1, <3>2
  <2>12. QED
    BY <2>8, <2>9, <2>11 DEF Listed, In
<1>7. QED
  BY <1>5, <1>6

\* f with block x joining a ring between head and tail.
Joined(f, x, head, tail) ==
  [f EXCEPT ![x].prev = tail, ![x].next = head, ![tail].next = x, ![head].prev = x]

JoinSet(N, f, g, x1, head, tail) ==
  /\ g \in [N -> BlockType]
  /\ \A x \in N :
       /\ g[x].next = IF x = tail THEN x1 ELSE IF x = x1 THEN head ELSE f[x].next
       /\ g[x].prev = IF x = head THEN x1 ELSE IF x = x1 THEN tail ELSE f[x].prev
       /\ g[x].num = f[x].num /\ g[x].reject = f[x].reject
       /\ g[x].trial = f[x].trial /\ g[x].ehead = f[x].ehead

LEMMA LinkFour ==
  ASSUME NEW N, N \subseteq Nat, NEW f \in [N -> BlockType],
         NEW x1 \in N, NEW head \in N, NEW tail \in N
  PROVE  JoinSet(N, f, Joined(f, x1, head, tail), x1, head, tail)
<1> DEFINE g == [f EXCEPT ![x1].prev = tail, ![x1].next = head,
                          ![tail].next = x1, ![head].prev = x1]
<1>1. g \in [N -> BlockType]
  BY DEF BlockType
<1>2. \A x \in N : g[x].next = IF x = tail THEN x1 ELSE IF x = x1 THEN head ELSE f[x].next
  BY DEF BlockType
<1>3. \A x \in N : g[x].prev = IF x = head THEN x1 ELSE IF x = x1 THEN tail ELSE f[x].prev
  BY DEF BlockType
<1>4. \A x \in N : /\ g[x].num = f[x].num /\ g[x].reject = f[x].reject
                   /\ g[x].trial = f[x].trial /\ g[x].ehead = f[x].ehead
  BY DEF BlockType
<1> HIDE DEF g
<1>5. Joined(f, x1, head, tail) = g
  BY DEF Joined, g
<1>6. QED
  BY <1>1, <1>2, <1>3, <1>4, <1>5 DEF JoinSet

LEMMA PushBlockLists ==
  ASSUME NEW d, ArrayType(d), NEW list, ListsType(d, list), Listed(d, list),
         NEW bi \in BlocksOf(d), bi # 0, list[bi] = "none", NEW to \in Lists,
         NEW empty, empty <=> In(d, list, to) = {},
         NEW d2, d2 = PushBlock(d, bi, to, empty)
  PROVE  /\ ArrayType(d2) /\ SameButLinks(d, d2)
         /\ Listed(d2, With(list, bi, to))
<1> DEFINE head == d.head[to]
           tail == d.block[head].prev
           N == BlocksOf(d)
           list2 == With(list, bi, to)
<1>1. /\ DOMAIN d = ArrayFields /\ d.block \in [N -> BlockType] /\ N \subseteq Nat /\ 0 \in N
      /\ d.head \in [Lists -> N] /\ \A x \in N : d.block[x].next \in N /\ d.block[x].prev \in N
  BY ArrayFacts DEF ArrayType
<1>2. head \in N /\ tail \in N
  BY <1>1
<1>3. /\ In(d, list2, to) = In(d, list, to) \cup {bi} /\ bi \notin In(d, list, to)
      /\ \A k \in Lists \ {to} : In(d, list2, k) = In(d, list, k) /\ bi \notin In(d, list, k)
  BY DEF In, With, ListsType, Lists
<1>4. \A x \in N : NextBlock(d)[x] = d.block[x].next /\ PrevBlock(d)[x] = d.block[x].prev
  BY DEF NextBlock, PrevBlock
<1>5. CASE empty
  <2>1. d2 = [d EXCEPT !.block[bi].prev = bi, !.block[bi].next = bi, !.head[to] = bi]
    BY <1>5 DEF PushBlock
  <2>2. /\ DOMAIN d2 = ArrayFields
        /\ d2.base = d.base /\ d2.check = d.check /\ d2.sibling = d.sibling
        /\ d2.child = d.child /\ d2.size = d.size /\ d2.reject = d.reject
        /\ d2.head = [d.head EXCEPT ![to] = bi]
        /\ d2.block = [d.block EXCEPT ![bi].prev = bi, ![bi].next = bi]
    BY <1>1, <2>1 DEF ArrayFields
  <2>3. LinksSet(N, d.block, d2.block, bi, bi, bi, bi)
    <3> DEFINE f == d.block
               g == [f EXCEPT ![bi].prev = bi, ![bi].next = bi]
    <3>1. f \in [N -> BlockType] /\ N \subseteq Nat /\ d2.block = g /\ bi \in N
      BY <1>1, <2>2
    <3> HIDE DEF f, N
    <3>2. g \in [N -> BlockType]
      BY <3>1 DEF BlockType
    <3>3. \A x \in N : g[x].next = IF x = bi THEN bi ELSE f[x].next
      BY <3>1 DEF BlockType
    <3>4. \A x \in N : g[x].prev = IF x = bi THEN bi ELSE f[x].prev
      BY <3>1 DEF BlockType
    <3>5. \A x \in N : /\ g[x].num = f[x].num /\ g[x].reject = f[x].reject
                       /\ g[x].trial = f[x].trial /\ g[x].ehead = f[x].ehead
      BY <3>1 DEF BlockType
    <3> HIDE DEF g
    <3>6. LinksSet(N, f, g, bi, bi, bi, bi)
      BY <3>2, <3>3, <3>4, <3>5 DEF LinksSet
    <3>7. QED
      BY <3>1, <3>6 DEF f
  <2>4. ArrayType(d2) /\ SameButLinks(d, d2)
    <3>1. d2.head \in [Lists -> N]
      BY <1>1, <2>2
    <3>2. LinksChange(d, d2)
      BY <1>1, <2>2, <2>3, <3>1 DEF LinksChange, LinksSet
    <3>3. QED
      BY <3>2, LinksType
  <2>5. BlocksOf(d2) = N
    BY <2>4 DEF SameButLinks
  <2>6. \A x \in N : /\ NextBlock(d2)[x] = IF x = bi THEN bi ELSE d.block[x].next
                     /\ PrevBlock(d2)[x] = IF x = bi THEN bi ELSE d.block[x].prev
    BY <2>3, <2>5 DEF NextBlock, PrevBlock, LinksSet
  <2>7. ASSUME NEW k \in Lists
        PROVE  IF In(d, list2, k) = {} THEN d2.head[k] = 0
               ELSE d2.head[k] \in In(d, list2, k) /\ Cycle(In(d, list2, k), NextBlock(d2), PrevBlock(d2))
    <3>1. CASE k = to
      <4>1. In(d, list2, k) = {bi} /\ d2.head[k] = bi
        BY <3>1, <1>1, <1>3, <1>5, <2>2
      <4>2. NextBlock(d2)[bi] = bi /\ PrevBlock(d2)[bi] = bi
        BY <2>6
      <4>3. Cycle({bi}, NextBlock(d2), PrevBlock(d2))
        BY <4>2, CycleAlone
      <4>4. QED
        BY <4>1, <4>3
    <3>2. CASE k # to
      <4>1. In(d, list2, k) = In(d, list, k) /\ d2.head[k] = d.head[k]
        BY <3>2, <1>1, <1>3, <2>2
      <4>2. CASE In(d, list, k) = {}
        BY <4>1, <4>2 DEF Listed, In
      <4>3. CASE In(d, list, k) # {}
        <5>1. d.head[k] \in In(d, list, k) /\ Cycle(In(d, list, k), NextBlock(d), PrevBlock(d))
          BY <4>3 DEF Listed, In
        <5>2. \A x \in In(d, list, k) : NextBlock(d2)[x] = NextBlock(d)[x] /\ PrevBlock(d2)[x] = PrevBlock(d)[x]
          BY <1>3, <1>4, <2>6, <3>2 DEF In
        <5>3. QED
          BY <4>1, <5>1, <5>2, CycleSame
      <4>4. QED
        BY <4>2, <4>3
    <3>3. QED
      BY <3>1, <3>2
  <2>8. QED
    BY <2>4, <2>5, <2>7 DEF Listed, In
<1>6. CASE ~ empty
  <2>1. d2 = [d EXCEPT !.block[bi].prev = tail, !.block[bi].next = head,
                       !.block[tail].next = bi, !.block[head].prev = bi, !.head[to] = bi]
    BY <1>6 DEF PushBlock
  <2>2. /\ DOMAIN d2 = ArrayFields
        /\ d2.base = d.base /\ d2.check = d.check /\ d2.sibling = d.sibling
        /\ d2.child = d.child /\ d2.size = d.size /\ d2.reject = d.reject
        /\ d2.head = [d.head EXCEPT ![to] = bi]
        /\ d2.block = Joined(d.block, bi, head, tail)
    <3>1. DOMAIN d = ArrayFields
      BY <1>1
    <3> HIDE DEF head, tail, N
    <3>2. /\ DOMAIN d2 = ArrayFields
          /\ d2.base = d.base /\ d2.check = d.check /\ d2.sibling = d.sibling
          /\ d2.child = d.child /\ d2.size = d.size /\ d2.reject = d.reject
          /\ d2.head = [d.head EXCEPT ![to] = bi]
      BY <2>1, <3>1 DEF ArrayFields
    <3>3. d2.block = Joined(d.block, bi, head, tail)
      BY <2>1, <3>1 DEF ArrayFields, Joined
    <3>4. QED
      BY <3>2, <3>3
  <2>3. JoinSet(N, d.block, d2.block, bi, head, tail)
    <3>1. JoinSet(N, d.block, Joined(d.block, bi, head, tail), bi, head, tail)
      BY <1>1, <1>2, LinkFour, Zenon
    <3>2. QED
      BY <2>2, <3>1, Zenon
  <2>4. ArrayType(d2) /\ SameButLinks(d, d2)
    <3>1. d2.head \in [Lists -> N]
      BY <1>1, <2>2
    <3>2. LinksChange(d, d2)
      <4>1. \A x \in N : /\ d2.block[x].next \in N /\ d2.block[x].prev \in N
                         /\ d2.block[x].num = d.block[x].num /\ d2.block[x].reject = d.block[x].reject
                         /\ d2.block[x].trial = d.block[x].trial /\ d2.block[x].ehead = d.block[x].ehead
        BY <1>1, <1>2, <2>3 DEF JoinSet
      <4>2. d2.block \in [N -> BlockType]
        BY <2>3 DEF JoinSet
      <4> HIDE DEF N
      <4>3. QED
        BY <2>2, <3>1, <4>1, <4>2, Zenon DEF LinksChange, N
    <3>3. QED
      BY <3>2, LinksType
  <2>5. BlocksOf(d2) = N
    BY <2>4 DEF SameButLinks
  <2>6. \A x \in N :
          /\ NextBlock(d2)[x] = IF x = tail THEN bi ELSE IF x = bi THEN head ELSE d.block[x].next
          /\ PrevBlock(d2)[x] = IF x = head THEN bi ELSE IF x = bi THEN tail ELSE d.block[x].prev
    BY <2>3, <2>5 DEF NextBlock, PrevBlock, JoinSet
  <2>7. /\ head \in In(d, list, to) /\ Cycle(In(d, list, to), NextBlock(d), PrevBlock(d))
        /\ tail \in In(d, list, to) /\ d.block[tail].next = head
    <3>1. head \in In(d, list, to) /\ Cycle(In(d, list, to), NextBlock(d), PrevBlock(d))
      BY <1>6 DEF Listed, In
    <3>2. QED
      BY <3>1, <1>2, <1>4 DEF Cycle
  <2>8. ASSUME NEW k \in Lists
        PROVE  IF In(d, list2, k) = {} THEN d2.head[k] = 0
               ELSE d2.head[k] \in In(d, list2, k) /\ Cycle(In(d, list2, k), NextBlock(d2), PrevBlock(d2))
    <3>1. CASE k = to
      <4>1. In(d, list2, k) = In(d, list, to) \cup {bi} /\ d2.head[k] = bi
        BY <3>1, <1>1, <1>3, <2>2
      <4>2. In(d, list, to) \subseteq N
        BY DEF In
      <4>3. /\ NextBlock(d2)[tail] = bi /\ NextBlock(d2)[bi] = NextBlock(d)[tail]
            /\ PrevBlock(d2)[bi] = tail /\ PrevBlock(d2)[NextBlock(d)[tail]] = bi
        <5>1. NextBlock(d)[tail] = head /\ bi \in N /\ tail # bi /\ head # bi
          BY <1>2, <1>3, <1>4, <2>7
        <5>2. QED
          BY <1>2, <2>6, <5>1
      <4>4. /\ \A x \in In(d, list, to) \ {tail} : NextBlock(d2)[x] = NextBlock(d)[x]
            /\ \A x \in In(d, list, to) \ {NextBlock(d)[tail]} : PrevBlock(d2)[x] = PrevBlock(d)[x]
        <5>1. NextBlock(d)[tail] = head /\ \A x \in In(d, list, to) : x \in N /\ x # bi
          BY <1>2, <1>3, <1>4, <2>7, <4>2
        <5>2. QED
          BY <1>4, <2>6, <5>1
      <4>5. Cycle(In(d, list, to) \cup {bi}, NextBlock(d2), PrevBlock(d2))
        <5>1. PICK S, nx, px, nx2, px2, t :
                /\ S = In(d, list, to) /\ nx = NextBlock(d) /\ px = PrevBlock(d)
                /\ nx2 = NextBlock(d2) /\ px2 = PrevBlock(d2) /\ t = tail
          OBVIOUS
        <5>2. /\ Cycle(S, nx, px) /\ bi \notin S /\ t \in S /\ nx2[t] = bi /\ nx2[bi] = nx[t]
              /\ px2[bi] = t /\ px2[nx[t]] = bi
              /\ \A x \in S \ {t} : nx2[x] = nx[x]
              /\ \A x \in S \ {nx[t]} : px2[x] = px[x]
          BY <1>3, <2>7, <4>3, <4>4, <5>1
        <5>3. Cycle(S \cup {bi}, nx2, px2)
          BY ONLY <5>2, CycleInsert
        <5>4. QED
          BY <5>1, <5>3
      <4>6. QED
        BY <4>1, <4>5
    <3>2. CASE k # to
      <4>1. In(d, list2, k) = In(d, list, k) /\ d2.head[k] = d.head[k]
        BY <3>2, <1>1, <1>3, <2>2
      <4>2. CASE In(d, list, k) = {}
        BY <4>1, <4>2 DEF Listed, In
      <4>3. CASE In(d, list, k) # {}
        <5>1. d.head[k] \in In(d, list, k) /\ Cycle(In(d, list, k), NextBlock(d), PrevBlock(d))
          BY <4>3 DEF Listed, In
        <5>2. head \notin In(d, list, k) /\ tail \notin In(d, list, k)
          BY <2>7, <3>2 DEF In
        <5>3. \A x \in In(d, list, k) : NextBlock(d2)[x] = NextBlock(d)[x] /\ PrevBlock(d2)[x] = PrevBlock(d)[x]
          BY <1>3, <1>4, <2>6, <3>2, <5>2 DEF In
        <5>4. QED
          BY <4>1, <5>1, <5>3, CycleSame
      <4>4. QED
        BY <4>2, <4>3
    <3>3. QED
      BY <3>1, <3>2
  <2>9. QED
    BY <2>4, <2>5, <2>8 DEF Listed, In
<1>7. QED
  BY <1>5, <1>6

\* A block changes lists.
LEMMA TransferBlockLists ==
  ASSUME NEW d, ArrayType(d), NEW list, ListsType(d, list), Listed(d, list),
         NEW bi \in BlocksOf(d), bi # 0, NEW from \in Lists, list[bi] = from,
         NEW to \in Lists, to # from, to = "F" <=> d.block[bi].num = 0,
         NEW d2, d2 = TransferBlock(d, bi, from, to)
  PROVE  /\ ArrayType(d2) /\ SameButLinks(d, d2)
         /\ Listed(d2, With(list, bi, to))
<1> DEFINE p == PopBlock(d, bi, from, bi = d.block[bi].next)
           list1 == Without(list, bi)
           empty == p.head[to] = 0 /\ p.block[bi].num # 0
<1>1. d2 = PushBlock(p, bi, to, empty)
  BY DEF TransferBlock
<1>2. p = PopBlock(d, bi, list[bi], bi = d.block[bi].next)
  OBVIOUS
<1> HIDE DEF p
<1>3. ArrayType(p) /\ SameButLinks(d, p) /\ Listed(p, list1)
  BY <1>2, PopBlockLists, Zenon
<1>4. BlocksOf(p) = BlocksOf(d) /\ p.block[bi].num = d.block[bi].num
  BY <1>3 DEF SameButLinks
<1>5. ListsType(p, list1) /\ list1[bi] = "none"
  BY <1>4, ArrayFacts DEF ListsType, Without
<1>6. empty <=> In(p, list1, to) = {}
  <2>1. CASE to = "F"
    <3>1. 0 \in In(p, list1, to)
      BY <1>3, <1>5, <2>1, ArrayFacts DEF In, ListsType, Lists
    <3>2. QED
      BY <3>1, <2>1, <1>4
  <2>2. CASE to # "F"
    <3>1. In(p, list1, to) = {} => p.head[to] = 0
      BY <1>3 DEF Listed, In
    <3>2. In(p, list1, to) # {} => p.head[to] \in In(p, list1, to)
      BY <1>3 DEF Listed, In
    <3>3. 0 \notin In(p, list1, to)
      BY <1>5, <2>2 DEF In, ListsType
    <3>4. QED
      BY <3>1, <3>2, <3>3, <1>4, <2>2
  <2>3. QED
    BY <2>1, <2>2
<1> HIDE DEF empty
<1>7. /\ ArrayType(d2) /\ SameButLinks(p, d2)
      /\ Listed(d2, With(list1, bi, to))
  BY <1>1, <1>3, <1>4, <1>5, <1>6, PushBlockLists
<1>8. With(list1, bi, to) = With(list, bi, to)
  BY DEF With, Without
<1>9. SameButLinks(d, d2)
  BY <1>3, <1>7 DEF SameButLinks
<1>10. QED
  BY <1>7, <1>8, <1>9

\* The others on a list a block leaves keep their next, but for the one before it.
LEMMA TransferNext ==
  ASSUME NEW d, ArrayType(d), NEW list, ListsType(d, list), Listed(d, list),
         NEW bi \in BlocksOf(d), bi # 0, NEW from \in Lists, list[bi] = from,
         NEW to \in Lists, to # from, to # "F", d.block[bi].num # 0, d.block[bi].next # bi,
         NEW d2, d2 = TransferBlock(d, bi, from, to),
         NEW x \in BlocksOf(d), list[x] = from, x # bi, d.block[x].next # bi
  PROVE  d2.block[x].next = d.block[x].next
<1> DEFINE N == BlocksOf(d)
           b == d.block[bi]
           p == PopBlock(d, bi, from, bi = d.block[bi].next)
<1>1. /\ DOMAIN d = ArrayFields /\ d.block \in [N -> BlockType] /\ N \subseteq Nat /\ 0 \in N
      /\ d.head \in [Lists -> N] /\ \A y \in N : d.block[y].next \in N /\ d.block[y].prev \in N
  BY ArrayFacts DEF ArrayType
<1>2. /\ bi \in In(d, list, from) /\ x \in In(d, list, from)
      /\ Cycle(In(d, list, from), NextBlock(d), PrevBlock(d))
      /\ In(d, list, to) = {} => d.head[to] = 0
      /\ In(d, list, to) # {} =>
           d.head[to] \in In(d, list, to) /\ Cycle(In(d, list, to), NextBlock(d), PrevBlock(d))
  BY DEF Listed, In
<1>3. \A y \in N : NextBlock(d)[y] = d.block[y].next /\ PrevBlock(d)[y] = d.block[y].prev
  BY DEF NextBlock, PrevBlock
<1>4. /\ b.prev \in In(d, list, from) /\ b.next \in In(d, list, from) /\ x # b.prev
      /\ b.prev \in N /\ b.next \in N
  <2>1. \A y \in In(d, list, from) :
          /\ NextBlock(d)[y] \in In(d, list, from) /\ PrevBlock(d)[y] \in In(d, list, from)
          /\ NextBlock(d)[PrevBlock(d)[y]] = y
    BY <1>2 DEF Cycle
  <2>2. /\ NextBlock(d)[bi] = b.next /\ PrevBlock(d)[bi] = b.prev /\ NextBlock(d)[x] = d.block[x].next
        /\ b.prev \in N /\ b.next \in N
    BY <1>1, <1>3
  <2>3. NextBlock(d)[b.prev] = bi
    BY <1>2, <2>1, <2>2
  <2>4. QED
    BY <1>2, <2>1, <2>2, <2>3
<1>5. /\ p.block = Relinked(d.block, b.prev, b.next, b.next, b.prev)
      /\ p.head[to] = d.head[to]
  <2> DEFINE h == IF d.head[from] = bi THEN b.next ELSE d.head[from]
  <2>1. p = [d EXCEPT !.block[b.prev].next = b.next, !.block[b.next].prev = b.prev, !.head[from] = h]
    BY DEF PopBlock
  <2> HIDE DEF h, p, b
  <2>2. QED
    BY <1>1, <2>1 DEF ArrayFields, Relinked
<1>6. LinksSet(N, d.block, p.block, b.prev, b.next, b.next, b.prev)
  <2>1. LinksSet(N, d.block, Relinked(d.block, b.prev, b.next, b.next, b.prev),
                 b.prev, b.next, b.next, b.prev)
    BY <1>1, <1>4, LinkTwo, Zenon
  <2>2. QED
    BY <1>5, <2>1, Zenon
<1>7. ArrayType(p) /\ SameButLinks(d, p)
  BY PopBlockLists
<1>8. d2 = PushBlock(p, bi, to, p.head[to] = 0 /\ p.block[bi].num # 0)
  BY DEF TransferBlock
<1> HIDE DEF p
<1>9. /\ p.block \in [N -> BlockType] /\ p.block[x].next = d.block[x].next
      /\ \A y \in N : y # b.next => p.block[y].prev = d.block[y].prev
      /\ p.block[bi].num # 0 /\ BlocksOf(p) = N /\ DOMAIN p = ArrayFields
  BY <1>1, <1>4, <1>6, <1>7 DEF LinksSet, SameButLinks, ArrayType
<1>10. CASE In(d, list, to) = {}
  <2>1. p.head[to] = 0 /\ p.block[bi].num # 0
    BY <1>2, <1>5, <1>9, <1>10
  <2>2. d2 = [p EXCEPT !.block[bi].prev = bi, !.block[bi].next = bi, !.head[to] = bi]
    BY <1>8, <2>1 DEF PushBlock
  <2>3. d2.block[x] = p.block[x]
    BY <1>9, <2>2 DEF ArrayFields
  <2>4. QED
    BY <1>9, <2>3
<1>11. CASE In(d, list, to) # {}
  <2> DEFINE head == d.head[to]
             tail == p.block[head].prev
  <2>1. head \in In(d, list, to) /\ PrevBlock(d)[head] \in In(d, list, to)
    BY <1>2, <1>11 DEF Cycle
  <2>2. list[0] = "F"
    BY DEF ListsType
  <2>3. head # 0 /\ head \in N /\ head # b.next
    BY <1>4, <2>1, <2>2 DEF In
  <2>4. tail = PrevBlock(d)[head]
    BY <1>3, <1>9, <2>3
  <2>5. tail # x /\ tail \in N
    BY <2>1, <2>4 DEF In
  <2>6. p.head[to] # 0 /\ p.head[to] = head
    BY <1>5, <2>3
  <2>7. d2 = [p EXCEPT !.block[bi].prev = tail, !.block[bi].next = head,
                       !.block[tail].next = bi, !.block[head].prev = bi, !.head[to] = bi]
    BY <1>8, <2>6 DEF PushBlock
  <2> HIDE DEF head, tail
  <2>8. d2.block = Joined(p.block, bi, head, tail)
    BY <1>9, <2>7 DEF ArrayFields, Joined
  <2>9. JoinSet(N, p.block, Joined(p.block, bi, head, tail), bi, head, tail)
    BY <1>1, <1>9, <2>3, <2>5, LinkFour
  <2>10. QED
    BY <1>9, <2>5, <2>8, <2>9 DEF JoinSet
<1>12. QED
  BY <1>10, <1>11

-----------------------------------------------------------------------------
(* Taking an empty node *)

LEMMA ListedSame ==
  ASSUME NEW d, NEW list, Listed(d, list), NEW d2, BlocksOf(d2) = BlocksOf(d), d2.head = d.head,
         \A x \in BlocksOf(d) : d2.block[x].next = d.block[x].next /\ d2.block[x].prev = d.block[x].prev
  PROVE  Listed(d2, list)
<1>1. NextBlock(d2) = NextBlock(d) /\ PrevBlock(d2) = PrevBlock(d)
  BY DEF NextBlock, PrevBlock
<1>2. QED
  BY <1>1 DEF Listed

\* f but for what it says of the empty nodes of block x.
DataSet(N, f, g, x1, num, reject, trial, ehead) ==
  /\ g \in [N -> BlockType]
  /\ \A x \in N :
       /\ g[x].next = f[x].next /\ g[x].prev = f[x].prev
       /\ g[x].num = IF x = x1 THEN num ELSE f[x].num
       /\ g[x].reject = IF x = x1 THEN reject ELSE f[x].reject
       /\ g[x].trial = IF x = x1 THEN trial ELSE f[x].trial
       /\ g[x].ehead = IF x = x1 THEN ehead ELSE f[x].ehead

NumSet(f, x1, num) == [f EXCEPT ![x1].num = num]
EheadSet(f, x1, ehead) == [f EXCEPT ![x1].ehead = ehead]
TrialSet(f, x1, trial) == [f EXCEPT ![x1].trial = trial]
RejectSet(f, x1, reject) == [f EXCEPT ![x1].reject = reject]

LEMMA DataOne ==
  ASSUME NEW N, N \subseteq Nat, NEW f \in [N -> BlockType], NEW x1 \in N
  PROVE  /\ \A num \in 0 .. B :
              DataSet(N, f, NumSet(f, x1, num), x1, num, f[x1].reject, f[x1].trial, f[x1].ehead)
         /\ \A ehead \in Nat :
              DataSet(N, f, EheadSet(f, x1, ehead), x1, f[x1].num, f[x1].reject, f[x1].trial, ehead)
         /\ \A trial \in 0 .. MaxTrial :
              DataSet(N, f, TrialSet(f, x1, trial), x1, f[x1].num, f[x1].reject, trial, f[x1].ehead)
         /\ \A reject \in 0 .. B + 1 :
              DataSet(N, f, RejectSet(f, x1, reject), x1, f[x1].num, reject, f[x1].trial, f[x1].ehead)
<1>1. ASSUME NEW num \in 0 .. B
      PROVE  DataSet(N, f, NumSet(f, x1, num), x1, num, f[x1].reject, f[x1].trial, f[x1].ehead)
  <2>1. NumSet(f, x1, num) \in [N -> BlockType]
    BY DEF BlockType, NumSet
  <2>2. QED
    BY <2>1 DEF BlockType, NumSet, DataSet
<1>2. ASSUME NEW ehead \in Nat
      PROVE  DataSet(N, f, EheadSet(f, x1, ehead), x1, f[x1].num, f[x1].reject, f[x1].trial, ehead)
  <2>1. EheadSet(f, x1, ehead) \in [N -> BlockType]
    BY DEF BlockType, EheadSet
  <2>2. QED
    BY <2>1 DEF BlockType, EheadSet, DataSet
<1>3. ASSUME NEW trial \in 0 .. MaxTrial
      PROVE  DataSet(N, f, TrialSet(f, x1, trial), x1, f[x1].num, f[x1].reject, trial, f[x1].ehead)
  <2>1. TrialSet(f, x1, trial) \in [N -> BlockType]
    BY DEF BlockType, TrialSet
  <2>2. QED
    BY <2>1 DEF BlockType, TrialSet, DataSet
<1>4. ASSUME NEW reject \in 0 .. B + 1
      PROVE  DataSet(N, f, RejectSet(f, x1, reject), x1, f[x1].num, reject, f[x1].trial, f[x1].ehead)
  <2>1. RejectSet(f, x1, reject) \in [N -> BlockType]
    BY DEF BlockType, RejectSet
  <2>2. QED
    BY <2>1 DEF BlockType, RejectSet, DataSet
<1>5. QED
  BY <1>1, <1>2, <1>3, <1>4

\* A change of what an array says of its nodes and of a block, links aside.
DataChange(d, d2) ==
  /\ DOMAIN d2 = ArrayFields /\ d2.size = d.size /\ d2.head = d.head
  /\ d2.base \in [PlacesOf(d) -> Int] /\ d2.check \in [PlacesOf(d) -> Int]
  /\ d2.sibling \in [PlacesOf(d) -> Labels] /\ d2.child \in [PlacesOf(d) -> Labels]
  /\ d2.reject \in [0 .. B -> 0 .. B + 1]
  /\ d2.block \in [BlocksOf(d) -> BlockType]
  /\ \A x \in BlocksOf(d) :
       /\ d2.block[x].next = d.block[x].next /\ d2.block[x].prev = d.block[x].prev
       /\ d2.block[x].ehead \in PlacesOf(d) /\ BlockOf(d2.block[x].ehead) = x

LEMMA DataType ==
  ASSUME NEW d, ArrayType(d), NEW d2, DataChange(d, d2)
  PROVE  /\ ArrayType(d2) /\ BlocksOf(d2) = BlocksOf(d) /\ PlacesOf(d2) = PlacesOf(d)
         /\ \A list : Listed(d, list) => Listed(d2, list)
<1> USE DEF DataChange
<1>1. BlocksOf(d2) = BlocksOf(d) /\ PlacesOf(d2) = PlacesOf(d)
  BY DEF BlocksOf, PlacesOf
<1>2. \E m \in Nat \ {0} : d2.size = B * m /\ d2.block \in [0 .. m - 1 -> BlockType]
  <2>1. PICK m \in Nat \ {0} : d.size = B * m /\ d.block \in [0 .. m - 1 -> BlockType]
    BY Zenon DEF ArrayType
  <2>2. BlocksOf(d) = 0 .. m - 1
    BY <2>1 DEF BlocksOf
  <2>3. QED
    BY <2>1, <2>2
<1>3. d2.head \in [Lists -> BlocksOf(d)]
      /\ \A x \in BlocksOf(d) : d2.block[x].next \in BlocksOf(d) /\ d2.block[x].prev \in BlocksOf(d)
  BY DEF ArrayType
<1>4. ArrayType(d2)
  BY <1>1, <1>2, <1>3 DEF ArrayType
<1>5. \A list : Listed(d, list) => Listed(d2, list)
  BY <1>1, ListedSame
<1>6. QED
  BY <1>1, <1>4, <1>5

\* Rings and their members.
LEMMA RingFacts ==
  ASSUME NEW d, ArrayType(d), NEW bi \in BlocksOf(d), RingIn(d, bi)
  PROVE  /\ IsFiniteSet(EmptyIn(d, bi)) /\ Cardinality(EmptyIn(d, bi)) \in Nat
         /\ d.block[bi].num \in 0 .. B
         /\ \A e \in EmptyIn(d, bi) :
              /\ -d.check[e] \in EmptyIn(d, bi) /\ -d.base[e] \in EmptyIn(d, bi)
              /\ d.base[-d.check[e]] = -e /\ d.check[-d.base[e]] = -e
              /\ d.check[e] = -(-d.check[e]) /\ d.base[e] = -(-d.base[e])
<1>1. d.size \in Nat /\ d.check \in [PlacesOf(d) -> Int] /\ d.base \in [PlacesOf(d) -> Int]
  BY ArrayFacts DEF ArrayType
<1>2. IsFiniteSet(PlacesOf(d)) /\ EmptyIn(d, bi) \in SUBSET PlacesOf(d)
  BY <1>1, FS_Interval DEF PlacesOf, EmptyIn
<1>3. IsFiniteSet(EmptyIn(d, bi)) /\ Cardinality(EmptyIn(d, bi)) \in Nat
  BY <1>2, FS_Subset, FS_CardinalityType
<1>4. d.block[bi].num \in 0 .. B
  BY ArrayFacts DEF BlockType
<1>5. ASSUME NEW e \in EmptyIn(d, bi)
      PROVE  /\ -d.check[e] \in EmptyIn(d, bi) /\ -d.base[e] \in EmptyIn(d, bi)
             /\ d.base[-d.check[e]] = -e /\ d.check[-d.base[e]] = -e
             /\ d.check[e] = -(-d.check[e]) /\ d.base[e] = -(-d.base[e])
  <2>1. Cycle(EmptyIn(d, bi), NextEmpty(d), PrevEmpty(d))
    BY <1>5 DEF RingIn
  <2>2. \A x \in EmptyIn(d, bi) : NextEmpty(d)[x] = -d.check[x] /\ PrevEmpty(d)[x] = -d.base[x]
    BY <1>2 DEF NextEmpty, PrevEmpty
  <2>3. /\ -d.check[e] \in EmptyIn(d, bi) /\ -d.base[e] \in EmptyIn(d, bi)
        /\ -d.base[-d.check[e]] = e /\ -d.check[-d.base[e]] = e
    BY <2>1, <2>2 DEF Cycle
  <2>4. \A x \in EmptyIn(d, bi) : d.check[x] \in Int /\ d.base[x] \in Int
    BY <1>1, <1>2
  <2>5. QED
    BY <2>3, <2>4
<1>6. QED
  BY <1>3, <1>4, <1>5

\* The array after e has become the child of from under label.
Popped(d, d2, e, label, from, based) ==
  /\ d2.sibling = d.sibling /\ d2.child = d.child /\ d2.size = d.size /\ d2.reject = d.reject
  /\ BlocksOf(d2) = BlocksOf(d)
  /\ \A x \in PlacesOf(d) :
       /\ d2.check[x] = IF x = e THEN from ELSE IF x = -d.base[e] THEN d.check[e] ELSE d.check[x]
       /\ d2.base[x] = IF x = from /\ ~ based THEN Xor(e, label)
                       ELSE IF x = e THEN (IF label # 0 THEN -1 ELSE 0)
                       ELSE IF x = -d.check[e] THEN d.base[e] ELSE d.base[x]
  /\ \A b \in BlocksOf(d) :
       /\ d2.block[b].num = IF b = BlockOf(e) THEN d.block[b].num - 1 ELSE d.block[b].num
       /\ d2.block[b].ehead = IF b = BlockOf(e) /\ d.block[b].ehead = e
                                THEN -d.check[e] ELSE d.block[b].ehead
       /\ d2.block[b].trial = d.block[b].trial /\ d2.block[b].reject = d.block[b].reject

LEMMA PopEnodeFields ==
  ASSUME NEW d, SpaceInv(d), NEW e \in PlacesOf(d), e # 0, d.check[e] < 0,
         NEW label \in Labels, NEW from \in PlacesOf(d), from # e, NEW based \in BOOLEAN,
         NEW d2, d2 = PopEnode(d, e, label, from, based)
  PROVE  /\ ArrayType(d2) /\ Listed(d2, ListsIn(d2))
         /\ Popped(d, d2, e, label, from, based)
<1> DEFINE bi == BlockOf(e)
           prev == -d.base[e]
           next == -d.check[e]
           N == BlocksOf(d)
           fewer == [d EXCEPT !.block[bi].num = @ - 1]
           b == fewer.block[bi]
           ring == [fewer EXCEPT !.check[prev] = -next, !.base[next] = -prev,
                                 !.block[bi].ehead = IF @ = e THEN next ELSE @]
           listed == CASE b.num = 0 /\ bi # 0 -> TransferBlock(fewer, bi, "C", "F")
                       [] b.num = 0 /\ bi = 0 -> fewer
                       [] b.num = 1 /\ bi # 0 /\ b.trial # MaxTrial ->
                            TransferBlock(ring, bi, "O", "C")
                       [] OTHER -> ring
           taken == [listed EXCEPT !.base[e] = IF label # 0 THEN -1 ELSE 0, !.check[e] = from]
<1>1. /\ ArrayType(d) /\ DOMAIN d = ArrayFields /\ d.block \in [N -> BlockType] /\ N \subseteq Nat
      /\ d.base \in [PlacesOf(d) -> Int] /\ d.check \in [PlacesOf(d) -> Int]
      /\ PlacesOf(d) \subseteq Nat
  BY ArrayFacts DEF SpaceInv, ArrayType
<1>2. bi \in N /\ e \in EmptyIn(d, bi) /\ RingIn(d, bi)
  BY <1>1, ArrayFacts DEF EmptyIn, SpaceInv
<1>3. /\ prev \in EmptyIn(d, bi) /\ next \in EmptyIn(d, bi)
      /\ d.check[e] = -next /\ d.base[e] = -prev /\ d.check[prev] = -e /\ d.base[next] = -e
      /\ d.block[bi].num \in 0 .. B /\ Cardinality(EmptyIn(d, bi)) \in Nat
      /\ IsFiniteSet(EmptyIn(d, bi))
  BY <1>1, <1>2, RingFacts
<1>4. prev \in PlacesOf(d) /\ next \in PlacesOf(d) /\ BlockOf(next) = bi
  BY <1>3 DEF EmptyIn
<1>5. /\ d.block[bi].num = Cardinality(EmptyIn(d, bi)) + (IF bi = 0 THEN 1 ELSE 0)
      /\ Cardinality(EmptyIn(d, bi)) > 0 /\ d.block[bi].ehead \in EmptyIn(d, bi)
      /\ Cardinality(EmptyIn(d, bi)) = 1 => EmptyIn(d, bi) = {e}
  <2>1. Cardinality(EmptyIn(d, bi)) # 0
    BY <1>2, <1>3, FS_EmptySet
  <2>2. Cardinality(EmptyIn(d, bi)) = 1 => \E x : EmptyIn(d, bi) = {x}
    BY <1>3, FS_Singleton
  <2>3. QED
    BY <1>2, <1>3, <2>1, <2>2 DEF RingIn
<1>6. d.block[bi].num - 1 \in 0 .. B
  <2> DEFINE c == Cardinality(EmptyIn(d, bi))
             n == d.block[bi].num
             z == IF bi = 0 THEN 1 ELSE 0
  <2>1. n \in 0 .. B /\ c \in Nat /\ c > 0 /\ n = c + z /\ z \in {0, 1}
    BY <1>3, <1>5
  <2> HIDE DEF c, n, z
  <2>2. n - 1 \in 0 .. B
    BY <2>1, BIsNat
  <2>3. QED
    BY <2>2 DEF n
<1>7. PopEnode(d, e, label, from, based)
        = IF based THEN taken ELSE [taken EXCEPT !.base[from] = Xor(e, label)]
  BY ZenonT(30) DEF PopEnode, BlockOf
<1> DEFINE num == d.block[bi].num - 1
           trial == d.block[bi].trial
<1>8. /\ DOMAIN fewer = ArrayFields
      /\ fewer.base = d.base /\ fewer.check = d.check /\ fewer.sibling = d.sibling
      /\ fewer.child = d.child /\ fewer.size = d.size /\ fewer.reject = d.reject
      /\ fewer.head = d.head /\ fewer.block = NumSet(d.block, bi, num)
  <2>1. DOMAIN d = ArrayFields
    BY <1>1
  <2> HIDE DEF bi, N
  <2>2. QED
    BY <2>1 DEF ArrayFields, NumSet
<1>9. DataSet(N, d.block, fewer.block, bi, num, d.block[bi].reject, trial, d.block[bi].ehead)
  <2> HIDE DEF fewer, bi, N
  <2>1. DataSet(N, d.block, NumSet(d.block, bi, num), bi, num, d.block[bi].reject, trial,
                d.block[bi].ehead)
    BY <1>1, <1>2, <1>6, DataOne
  <2>2. QED
    BY <1>8, <2>1

<1> DEFINE L == ListsIn(d)
           eh == IF d.block[bi].ehead = e THEN next ELSE d.block[bi].ehead
<1>10. ArrayType(fewer) /\ Listed(fewer, L) /\ BlocksOf(fewer) = N /\ PlacesOf(fewer) = PlacesOf(d)
  <2>1. /\ d.sibling \in [PlacesOf(d) -> Labels] /\ d.child \in [PlacesOf(d) -> Labels]
        /\ d.reject \in [0 .. B -> 0 .. B + 1]
        /\ \A x \in N : d.block[x].ehead \in PlacesOf(d) /\ BlockOf(d.block[x].ehead) = x
    BY <1>1 DEF ArrayType
  <2>2. DataChange(d, fewer)
    <3> HIDE DEF fewer, bi, num, trial
    <3>1. QED
      BY <2>1, <1>1, <1>8, <1>9 DEF DataChange, DataSet
  <2>3. Listed(d, L)
    BY DEF SpaceInv
  <2> HIDE DEF fewer, L
  <2>4. QED
    BY <1>1, <2>2, <2>3, DataType
<1>11. /\ DOMAIN ring = ArrayFields
       /\ ring.base = [d.base EXCEPT ![next] = -prev] /\ ring.check = [d.check EXCEPT ![prev] = -next]
       /\ ring.sibling = d.sibling /\ ring.child = d.child
       /\ ring.size = d.size /\ ring.reject = d.reject
       /\ ring.head = d.head /\ ring.block = EheadSet(fewer.block, bi, eh)
  <2>1. fewer.block[bi].ehead = d.block[bi].ehead
    <3> HIDE DEF fewer, bi, num, trial
    <3>1. QED
      BY <1>2, <1>9 DEF DataSet
  <2>2. ring = [fewer EXCEPT !.check[prev] = -next, !.base[next] = -prev, !.block[bi].ehead = eh]
    <3> HIDE DEF fewer, bi, prev, next
    <3>1. QED
      BY <2>1
  <2> HIDE DEF ring, prev, next, eh, bi, num
  <2>3. /\ DOMAIN ring = ArrayFields
        /\ ring.base = [fewer.base EXCEPT ![next] = -prev]
        /\ ring.check = [fewer.check EXCEPT ![prev] = -next]
        /\ ring.sibling = fewer.sibling /\ ring.child = fewer.child
        /\ ring.size = fewer.size /\ ring.reject = fewer.reject
        /\ ring.head = fewer.head /\ ring.block = EheadSet(fewer.block, bi, eh)
    <3>1. DOMAIN fewer = ArrayFields
      BY <1>8
    <3> HIDE DEF fewer
    <3>2. QED
      BY <2>2, <3>1 DEF ArrayFields, EheadSet
  <2>4. QED
    <3> HIDE DEF fewer
    <3>1. QED
      BY <2>3, <1>8
<1>12. eh \in PlacesOf(d) /\ BlockOf(eh) = bi /\ eh \in Nat
  <2>1. d.block[bi].ehead \in PlacesOf(d) /\ BlockOf(d.block[bi].ehead) = bi
    BY <1>2, <1>1 DEF ArrayType
  <2> HIDE DEF next, bi
  <2>2. QED
    BY <2>1, <1>1, <1>4
<1>13. DataSet(N, fewer.block, ring.block, bi, num, d.block[bi].reject, trial, eh)
  <2> HIDE DEF fewer, ring, bi, N, num, trial, eh
  <2>1. fewer.block \in [N -> BlockType] /\ fewer.block[bi].num = num
        /\ fewer.block[bi].reject = d.block[bi].reject /\ fewer.block[bi].trial = trial
    BY <1>2, <1>9 DEF DataSet
  <2>2. DataSet(N, fewer.block, EheadSet(fewer.block, bi, eh), bi, fewer.block[bi].num,
                fewer.block[bi].reject, fewer.block[bi].trial, eh)
    BY <1>1, <1>2, <1>12, <2>1, DataOne
  <2>3. QED
    BY <1>11, <2>1, <2>2
<1>14. ArrayType(ring) /\ Listed(ring, L) /\ BlocksOf(ring) = N /\ PlacesOf(ring) = PlacesOf(d)
  <2>1. -prev \in Int /\ -next \in Int
    <3> HIDE DEF prev, next
    <3>1. QED
      BY <1>1, <1>4
  <2>2. /\ d.sibling \in [PlacesOf(d) -> Labels] /\ d.child \in [PlacesOf(d) -> Labels]
        /\ d.reject \in [0 .. B -> 0 .. B + 1]
        /\ \A x \in N : d.block[x].ehead \in PlacesOf(d) /\ BlockOf(d.block[x].ehead) = x
    BY <1>1 DEF ArrayType
  <2>3. DataChange(fewer, ring)
    <3> HIDE DEF fewer, ring, bi, num, trial, prev, next, eh, N
    <3>1. /\ ring.base \in [PlacesOf(d) -> Int] /\ ring.check \in [PlacesOf(d) -> Int]
      BY <2>1, <1>1, <1>8, <1>11
    <3>2. \A x \in N : ring.block[x].ehead \in PlacesOf(d) /\ BlockOf(ring.block[x].ehead) = x
      BY <2>2, <1>9, <1>12, <1>13 DEF DataSet
    <3>3. \A x \in N : ring.block[x].next = fewer.block[x].next /\ ring.block[x].prev = fewer.block[x].prev
      BY <1>13 DEF DataSet
    <3>4. ring.block \in [N -> BlockType]
      BY <1>13 DEF DataSet
    <3>5. QED
      BY <2>2, <3>1, <3>2, <3>3, <3>4, <1>8, <1>10, <1>11 DEF DataChange
  <2> HIDE DEF fewer, ring, L
  <2>4. QED
    BY <1>10, <2>3, DataType
<1> DEFINE Mid(m) ==
             /\ ArrayType(m) /\ Listed(m, ListsIn(m)) /\ BlocksOf(m) = N
             /\ m.sibling = d.sibling /\ m.child = d.child /\ m.size = d.size
             /\ m.reject = d.reject
             /\ \A x \in PlacesOf(d) \ {e} :
                  /\ m.check[x] = IF x = prev THEN d.check[e] ELSE d.check[x]
                  /\ m.base[x] = IF x = next THEN d.base[e] ELSE d.base[x]
             /\ \A x \in N :
                  /\ m.block[x].num = IF x = bi THEN num ELSE d.block[x].num
                  /\ m.block[x].ehead = IF x = bi THEN eh ELSE d.block[x].ehead
                  /\ m.block[x].trial = d.block[x].trial /\ m.block[x].reject = d.block[x].reject
<1>15. /\ \A x \in N : /\ fewer.block[x].num = IF x = bi THEN num ELSE d.block[x].num
                       /\ fewer.block[x].ehead = d.block[x].ehead
                       /\ fewer.block[x].trial = d.block[x].trial
                       /\ fewer.block[x].reject = d.block[x].reject
       /\ \A x \in N : /\ ring.block[x].num = IF x = bi THEN num ELSE d.block[x].num
                       /\ ring.block[x].ehead = IF x = bi THEN eh ELSE d.block[x].ehead
                       /\ ring.block[x].trial = d.block[x].trial
                       /\ ring.block[x].reject = d.block[x].reject
  <2> HIDE DEF fewer, ring, bi, N, num, eh
  <2>1. QED
    BY <1>9, <1>13 DEF DataSet
<1>16. /\ num \in Nat /\ (num = 0 => bi # 0 /\ EmptyIn(d, bi) = {e}) /\ d.block[bi].num = num + 1
  <2> DEFINE c == Cardinality(EmptyIn(d, bi))
             n == d.block[bi].num
             z == IF bi = 0 THEN 1 ELSE 0
  <2>1. n \in 0 .. B /\ c \in Nat /\ c > 0 /\ n = c + z /\ z \in {0, 1} /\ (z = 0 <=> bi # 0)
    BY <1>3, <1>5
  <2>2. c = 1 => EmptyIn(d, bi) = {e}
    BY <1>5
  <2> HIDE DEF c, z
  <2>3. n - 1 \in Nat /\ (n - 1 = 0 => z = 0 /\ c = 1) /\ n = n - 1 + 1
    <3> HIDE DEF n
    <3>1. QED
      BY <2>1, BIsNat
  <2>4. QED
    BY <2>1, <2>2, <2>3
<1>17. ListsType(d, L)
  BY <1>1, ArrayFacts DEF ListsType, ListsIn, ListFor, Lists
<1>18. \A x \in PlacesOf(d) \ {e} :
         /\ ring.check[x] = IF x = prev THEN d.check[e] ELSE d.check[x]
         /\ ring.base[x] = IF x = next THEN d.base[e] ELSE d.base[x]
  <2>1. ring.base = [d.base EXCEPT ![next] = -prev] /\ ring.check = [d.check EXCEPT ![prev] = -next]
    BY <1>11
  <2>2. d.check[e] = -next /\ d.base[e] = -prev
    BY <1>3
  <2> HIDE DEF ring, prev, next
  <2>3. QED
    BY <2>1, <2>2, <1>1
<1>19. ASSUME num = 0 PROVE Mid(listed)
  <2>1. fewer.block[bi].num = 0 /\ bi # 0 /\ d.block[bi].num = 1
    <3> HIDE DEF fewer, bi, N, num
    <3>1. QED
      BY <1>2, <1>15, <1>16, <1>19
  <2>2. listed = TransferBlock(fewer, bi, "C", "F")
    <3> HIDE DEF fewer, bi, ring
    <3>1. QED
      BY <2>1
  <2>3. prev = e /\ next = e /\ eh = d.block[bi].ehead
    <3>1. prev = e /\ next = e
      BY <1>3, <1>16, <1>19
    <3> HIDE DEF prev, next, bi
    <3>2. QED
      BY <3>1
  <2>4. L[bi] = "C"
    <3> HIDE DEF bi
    <3>1. QED
      BY <1>1, <1>2, <2>1 DEF ListsIn, ListFor, MaxTrial
  <2>5. ArrayType(listed) /\ SameButLinks(fewer, listed) /\ Listed(listed, With(L, bi, "F"))
    <3>1. ListsType(fewer, L) /\ bi \in BlocksOf(fewer) /\ "C" \in Lists /\ "F" \in Lists /\ "F" # "C"
      BY <1>2, <1>10, <1>17 DEF ListsType, Lists
    <3> HIDE DEF listed, fewer, bi, L
    <3>2. QED
      BY <1>10, <2>1, <2>2, <2>4, <3>1, TransferBlockLists
  <2>6. BlocksOf(listed) = N /\ (\A x \in N : /\ listed.block[x].num = fewer.block[x].num
                                              /\ listed.block[x].ehead = fewer.block[x].ehead
                                              /\ listed.block[x].trial = fewer.block[x].trial
                                              /\ listed.block[x].reject = fewer.block[x].reject)
    <3>1. SameButLinks(fewer, listed) /\ BlocksOf(fewer) = N
      BY <1>10, <2>5
    <3> HIDE DEF listed, fewer, N
    <3>2. QED
      BY <3>1 DEF SameButLinks
  <2>7. With(L, bi, "F") = ListsIn(listed)
    <3>1. BlocksOf(listed) = N /\ \A x \in N : /\ listed.block[x].num = IF x = bi THEN 0 ELSE d.block[x].num
                                               /\ listed.block[x].trial = d.block[x].trial
      <4> HIDE DEF listed, fewer, ring, N, num, bi
      <4>1. QED
        BY <1>15, <1>19, <2>6
    <3>2. L = [x \in N |-> ListFor(x, d.block[x].num, d.block[x].trial)]
      BY DEF ListsIn
    <3> HIDE DEF listed, fewer, bi, L, N
    <3>3. QED
      BY <1>2, <2>1, <3>1, <3>2 DEF With, ListsIn, ListFor
  <2>8. /\ listed.base = d.base /\ listed.check = d.check /\ listed.sibling = d.sibling
        /\ listed.child = d.child /\ listed.size = d.size /\ listed.reject = d.reject
    <3>1. /\ fewer.base = d.base /\ fewer.check = d.check /\ fewer.sibling = d.sibling
          /\ fewer.child = d.child /\ fewer.size = d.size /\ fewer.reject = d.reject
      BY <1>8
    <3> HIDE DEF listed, fewer
    <3>2. QED
      BY <2>5, <3>1 DEF SameButLinks
  <2>9. \A x \in N : listed.block[x].ehead = IF x = bi THEN eh ELSE d.block[x].ehead
    <3> HIDE DEF listed, fewer, bi, N, eh
    <3>1. QED
      BY <2>3, <2>6, <1>15
  <2>10. QED
    <3> HIDE DEF listed, fewer, bi, N, eh, num, prev, next
    <3>1. QED
      BY <1>15, <2>3, <2>5, <2>6, <2>7, <2>8, <2>9
<1>20. ASSUME num = 1 /\ bi # 0 /\ trial # MaxTrial PROVE Mid(listed)
  <2>1. /\ fewer.block[bi].num = 1 /\ ring.block[bi].num = 1 /\ d.block[bi].num = 2
        /\ fewer.block[bi].trial = trial
    <3> HIDE DEF fewer, bi, N, num
    <3>1. QED
      BY <1>2, <1>15, <1>16, <1>20
  <2>2. listed = TransferBlock(ring, bi, "O", "C")
    <3> HIDE DEF fewer, bi, ring
    <3>1. QED
      BY <2>1, <1>20
  <2>4. L[bi] = "O"
    <3> HIDE DEF bi
    <3>1. QED
      BY <1>1, <1>2, <1>20, <2>1 DEF ListsIn, ListFor, MaxTrial
  <2>5. ArrayType(listed) /\ SameButLinks(ring, listed) /\ Listed(listed, With(L, bi, "C"))
    <3>1. ListsType(ring, L) /\ bi \in BlocksOf(ring) /\ "C" \in Lists /\ "O" \in Lists
          /\ "O" # "C" /\ "F" # "C"
      BY <1>2, <1>14, <1>17 DEF ListsType, Lists
    <3> HIDE DEF listed, ring, bi, L
    <3>2. QED
      BY <1>14, <1>20, <2>1, <2>2, <2>4, <3>1, TransferBlockLists
  <2>6. BlocksOf(listed) = N /\ (\A x \in N : /\ listed.block[x].num = ring.block[x].num
                                              /\ listed.block[x].ehead = ring.block[x].ehead
                                              /\ listed.block[x].trial = ring.block[x].trial
                                              /\ listed.block[x].reject = ring.block[x].reject)
    <3>1. SameButLinks(ring, listed) /\ BlocksOf(ring) = N
      BY <1>14, <2>5
    <3> HIDE DEF listed, ring, N
    <3>2. QED
      BY <3>1 DEF SameButLinks
  <2>7. With(L, bi, "C") = ListsIn(listed)
    <3>1. BlocksOf(listed) = N /\ \A x \in N : /\ listed.block[x].num = IF x = bi THEN 1 ELSE d.block[x].num
                                               /\ listed.block[x].trial = d.block[x].trial
      <4> HIDE DEF listed, fewer, ring, N, num, bi
      <4>1. QED
        BY <1>15, <1>20, <2>6
    <3>2. L = [x \in N |-> ListFor(x, d.block[x].num, d.block[x].trial)] /\ bi # 0
      BY <1>20 DEF ListsIn
    <3> HIDE DEF listed, ring, bi, L, N
    <3>3. QED
      BY <1>2, <2>1, <3>1, <3>2 DEF With, ListsIn, ListFor
  <2>8. /\ listed.base = ring.base /\ listed.check = ring.check /\ listed.sibling = d.sibling
        /\ listed.child = d.child /\ listed.size = d.size /\ listed.reject = d.reject
    <3>1. /\ ring.sibling = d.sibling
          /\ ring.child = d.child /\ ring.size = d.size /\ ring.reject = d.reject
      BY <1>11
    <3> HIDE DEF listed, ring
    <3>2. QED
      BY <2>5, <3>1 DEF SameButLinks
  <2>10. QED
    <3> HIDE DEF listed, ring, bi, N, eh, num, prev, next
    <3>1. QED
      BY <1>15, <1>18, <2>5, <2>6, <2>7, <2>8
<1>21. ASSUME num # 0, ~ (num = 1 /\ bi # 0 /\ trial # MaxTrial) PROVE Mid(listed)
  <2>1. fewer.block[bi].num = num /\ fewer.block[bi].trial = trial
    <3> HIDE DEF fewer, N, num
    <3>1. QED
      BY <1>2, <1>15
  <2>2. listed = ring
    <3> HIDE DEF fewer, bi, ring, num
    <3>1. QED
      BY <2>1, <1>21
  <2>3. L = ListsIn(ring)
    <3>1. L = [x \in N |-> ListFor(x, d.block[x].num, d.block[x].trial)]
      BY DEF ListsIn
    <3>2. ListsIn(ring) = [x \in N |-> ListFor(x, ring.block[x].num, ring.block[x].trial)]
      BY <1>14 DEF ListsIn
    <3>3. \A x \in N : ListFor(x, ring.block[x].num, ring.block[x].trial)
                         = ListFor(x, d.block[x].num, d.block[x].trial)
      <4> HIDE DEF ring, bi, N, num
      <4>1. \A x \in N \ {bi} : /\ ring.block[x].num = d.block[x].num
                                /\ ring.block[x].trial = d.block[x].trial
        BY <1>15
      <4>2. ring.block[bi].num = num /\ ring.block[bi].trial = trial
        BY <1>2, <1>15
      <4>3. ListFor(bi, num, trial) = ListFor(bi, num + 1, trial)
        BY <1>16, <1>21 DEF ListFor
      <4>4. QED
        BY <4>1, <4>2, <4>3, <1>16
    <3>4. QED
      BY <3>1, <3>2, <3>3, Zenon
  <2>4. QED
    <3>1. /\ ring.sibling = d.sibling
          /\ ring.child = d.child /\ ring.size = d.size /\ ring.reject = d.reject
      BY <1>11
    <3>2. ArrayType(ring) /\ Listed(ring, L) /\ BlocksOf(ring) = N
      BY <1>14
    <3> HIDE DEF listed, ring, bi, N, eh, num, prev, next
    <3>3. QED
      BY <1>15, <1>18, <2>2, <2>3, <3>1, <3>2
<1>22. Mid(listed)
  <2> HIDE DEF Mid, num, bi, trial
  <2>1. QED
    BY <1>19, <1>20, <1>21
<1> DEFINE c == IF label # 0 THEN -1 ELSE 0
           base2 == IF based THEN [listed.base EXCEPT ![e] = c]
                    ELSE [[listed.base EXCEPT ![e] = c] EXCEPT ![from] = Xor(e, label)]
<1>23. /\ DOMAIN d2 = ArrayFields
       /\ d2.base = base2 /\ d2.check = [listed.check EXCEPT ![e] = from]
       /\ d2.sibling = listed.sibling /\ d2.child = listed.child
       /\ d2.size = listed.size /\ d2.reject = listed.reject
       /\ d2.head = listed.head /\ d2.block = listed.block
  <2>1. DOMAIN listed = ArrayFields
    <3> HIDE DEF listed
    <3>1. QED
      BY <1>22 DEF Mid, ArrayType
  <2>2. d2 = IF based THEN taken ELSE [taken EXCEPT !.base[from] = Xor(e, label)]
    BY <1>7
  <2> HIDE DEF listed
  <2>3. /\ DOMAIN taken = ArrayFields
        /\ taken.base = [listed.base EXCEPT ![e] = c] /\ taken.check = [listed.check EXCEPT ![e] = from]
        /\ taken.sibling = listed.sibling /\ taken.child = listed.child
        /\ taken.size = listed.size /\ taken.reject = listed.reject
        /\ taken.head = listed.head /\ taken.block = listed.block
    BY <2>1 DEF ArrayFields
  <2> HIDE DEF taken, c
  <2>4. CASE based
    BY <2>2, <2>3, <2>4
  <2>5. CASE ~ based
    <3>1. d2 = [taken EXCEPT !.base[from] = Xor(e, label)]
      BY <2>2, <2>5
    <3>2. /\ DOMAIN d2 = ArrayFields
          /\ d2.base = [taken.base EXCEPT ![from] = Xor(e, label)] /\ d2.check = taken.check
          /\ d2.sibling = taken.sibling /\ d2.child = taken.child
          /\ d2.size = taken.size /\ d2.reject = taken.reject
          /\ d2.head = taken.head /\ d2.block = taken.block
      BY <3>1, <2>3 DEF ArrayFields
    <3>3. QED
      BY <3>2, <2>3, <2>5
  <2>6. QED
    BY <2>4, <2>5
<1>24. Xor(e, label) \in Nat /\ from \in Int /\ c \in Int
  BY <1>1, XorFacts
<1>25. /\ ArrayType(listed) /\ Listed(listed, ListsIn(listed))
       /\ BlocksOf(listed) = N /\ PlacesOf(listed) = PlacesOf(d)
       /\ listed.base \in [PlacesOf(d) -> Int] /\ listed.check \in [PlacesOf(d) -> Int]
  <2> HIDE DEF listed
  <2>1. ArrayType(listed) /\ Listed(listed, ListsIn(listed)) /\ BlocksOf(listed) = N
        /\ listed.size = d.size
    BY <1>22 DEF Mid
  <2>2. QED
    BY <2>1 DEF ArrayType, PlacesOf
<1>26. ArrayType(d2) /\ Listed(d2, ListsIn(d2)) /\ BlocksOf(d2) = N
  <2> HIDE DEF listed, c, N
  <2>1. d2.base \in [PlacesOf(d) -> Int] /\ d2.check \in [PlacesOf(d) -> Int]
    BY <1>23, <1>24, <1>25
  <2>2. /\ listed.sibling \in [PlacesOf(d) -> Labels] /\ listed.child \in [PlacesOf(d) -> Labels]
        /\ listed.reject \in [0 .. B -> 0 .. B + 1] /\ listed.block \in [N -> BlockType]
        /\ \A x \in N : listed.block[x].ehead \in PlacesOf(d) /\ BlockOf(listed.block[x].ehead) = x
    <3> HIDE DEF Mid
    <3>1. ArrayType(listed) /\ BlocksOf(listed) = N /\ PlacesOf(listed) = PlacesOf(d)
      BY <1>25
    <3>2. listed.block \in [N -> BlockType]
      BY <3>1, ArrayFacts
    <3>3. QED
      BY <3>1, <3>2 DEF ArrayType
  <2>3. DataChange(listed, d2)
    <3> HIDE DEF base2
    <3>1. QED
      BY <1>23, <1>25, <2>1, <2>2 DEF DataChange
  <2>4. ArrayType(d2) /\ BlocksOf(d2) = N /\ Listed(d2, ListsIn(listed))
    BY <1>25, <2>3, DataType
  <2>5. ListsIn(d2) = ListsIn(listed)
    <3> HIDE DEF base2
    <3>1. QED
      BY <1>23, <1>25, <2>4 DEF ListsIn
  <2>6. QED
    BY <2>4, <2>5
<1>27. Popped(d, d2, e, label, from, based)
  <2> HIDE DEF listed
  <2>1. /\ listed.sibling = d.sibling /\ listed.child = d.child /\ listed.size = d.size
        /\ listed.reject = d.reject
        /\ \A x \in PlacesOf(d) \ {e} :
             /\ listed.check[x] = IF x = prev THEN d.check[e] ELSE d.check[x]
             /\ listed.base[x] = IF x = next THEN d.base[e] ELSE d.base[x]
        /\ \A x \in N :
             /\ listed.block[x].num = IF x = bi THEN num ELSE d.block[x].num
             /\ listed.block[x].ehead = IF x = bi THEN eh ELSE d.block[x].ehead
             /\ listed.block[x].trial = d.block[x].trial /\ listed.block[x].reject = d.block[x].reject
    BY <1>22 DEF Mid
  <2> HIDE DEF Mid
  <2>2. \A x \in PlacesOf(d) :
          d2.check[x] = IF x = e THEN from ELSE IF x = prev THEN d.check[e] ELSE d.check[x]
    <3> HIDE DEF prev
    <3>1. QED
      BY <2>1, <1>23, <1>25
  <2>3. \A x \in PlacesOf(d) :
          d2.base[x] = IF x = from /\ ~ based THEN Xor(e, label)
                       ELSE IF x = e THEN c ELSE IF x = next THEN d.base[e] ELSE d.base[x]
    <3> HIDE DEF next, c
    <3>1. QED
      BY <2>1, <1>23, <1>25
  <2>4. \A x \in N :
          /\ d2.block[x].num = IF x = bi THEN d.block[x].num - 1 ELSE d.block[x].num
          /\ d2.block[x].ehead = IF x = bi /\ d.block[x].ehead = e THEN next ELSE d.block[x].ehead
          /\ d2.block[x].trial = d.block[x].trial /\ d2.block[x].reject = d.block[x].reject
    <3>1. d2.block = listed.block
      BY <1>23
    <3> HIDE DEF next, bi, N
    <3>2. QED
      BY <3>1, <2>1
  <2>5. /\ d2.sibling = d.sibling /\ d2.child = d.child /\ d2.size = d.size /\ d2.reject = d.reject
        /\ BlocksOf(d2) = BlocksOf(d)
    BY <1>23, <1>26, <2>1
  <2>6. QED
    BY <2>2, <2>3, <2>4, <2>5 DEF Popped
<1>28. QED
  BY <1>26, <1>27

\* What becomes of the array when e joins the nodes as a child of one, from.
PoppedNode(d, d2, e, label, from, based) ==
  /\ SpaceInv(d2) /\ Popped(d, d2, e, label, from, based)
  /\ PlacesOf(d2) = PlacesOf(d) /\ Used(d2) = Used(d) \cup {e}
  /\ \A n \in Used(d) : /\ d2.check[n] = d.check[n]
                        /\ n # from \/ based => d2.base[n] = d.base[n]

\* The rings stay rings, without e, if from was a node.
LEMMA PopEnodeSpace ==
  ASSUME NEW d, SpaceInv(d), NEW e \in PlacesOf(d), e # 0, d.check[e] < 0,
         NEW label \in Labels, NEW from \in Used(d), NEW based \in BOOLEAN,
         NEW d2, d2 = PopEnode(d, e, label, from, based)
  PROVE  PoppedNode(d, d2, e, label, from, based)
<1> DEFINE bi == BlockOf(e)
           prev == -d.base[e]
           next == -d.check[e]
           N == BlocksOf(d)
<1>1. /\ ArrayType(d) /\ PlacesOf(d) \subseteq Nat /\ 0 \in PlacesOf(d)
      /\ d.base \in [PlacesOf(d) -> Int] /\ d.check \in [PlacesOf(d) -> Int]
      /\ \A bj \in N : RingIn(d, bj)
  BY ArrayFacts DEF SpaceInv, ArrayType
<1>2. from \in PlacesOf(d) /\ from # e /\ from \in Nat /\ (from # 0 => ~ d.check[from] < 0)
  BY <1>1 DEF Used
<1>3. /\ ArrayType(d2) /\ Listed(d2, ListsIn(d2)) /\ Popped(d, d2, e, label, from, based)
  BY <1>2, PopEnodeFields
<1>4. PlacesOf(d2) = PlacesOf(d) /\ BlocksOf(d2) = N
  BY <1>3 DEF Popped, PlacesOf
<1>5. bi \in N /\ e \in EmptyIn(d, bi) /\ RingIn(d, bi)
  BY <1>1, ArrayFacts DEF EmptyIn
<1>6. /\ prev \in EmptyIn(d, bi) /\ next \in EmptyIn(d, bi) /\ prev \in PlacesOf(d)
      /\ d.check[e] = -next /\ d.base[e] = -prev /\ d.check[prev] = -e /\ d.base[next] = -e
      /\ prev # 0 /\ next # 0 /\ d.check[next] < 0 /\ next \in PlacesOf(d)
      /\ d.check[prev] < 0
  <2>1. /\ prev \in EmptyIn(d, bi) /\ next \in EmptyIn(d, bi)
        /\ d.check[e] = -next /\ d.base[e] = -prev /\ d.check[prev] = -e /\ d.base[next] = -e
    BY <1>1, <1>5, RingFacts
  <2> HIDE DEF prev, next, bi
  <2>2. QED
    BY <2>1 DEF EmptyIn
<1>7. /\ \A x \in PlacesOf(d) :
           /\ d2.check[x] = IF x = e THEN from ELSE IF x = prev THEN d.check[e] ELSE d.check[x]
           /\ x # from => d2.base[x] = IF x = e THEN (IF label # 0 THEN -1 ELSE 0)
                           ELSE IF x = next THEN d.base[e] ELSE d.base[x]
           /\ based => d2.base[x] = IF x = e THEN (IF label # 0 THEN -1 ELSE 0)
                         ELSE IF x = next THEN d.base[e] ELSE d.base[x]
      /\ \A b \in N :
           /\ d2.block[b].num = IF b = bi THEN d.block[b].num - 1 ELSE d.block[b].num
           /\ d2.block[b].ehead = IF b = bi /\ d.block[b].ehead = e THEN next ELSE d.block[b].ehead
  BY <1>3 DEF Popped
<1> HIDE DEF bi, prev, next, N
<1>8. \A x \in PlacesOf(d) \ {e} : d2.check[x] < 0 <=> d.check[x] < 0
  BY <1>6, <1>7
<1>9. ~ d2.check[e] < 0
  BY <1>2, <1>7
<1>10. \A b \in N : EmptyIn(d2, b) = EmptyIn(d, b) \ {e}
  BY <1>4, <1>8, <1>9 DEF EmptyIn
<1>11. \A x \in PlacesOf(d) : /\ NextEmpty(d2)[x] = -d2.check[x] /\ PrevEmpty(d2)[x] = -d2.base[x]
                              /\ NextEmpty(d)[x] = -d.check[x] /\ PrevEmpty(d)[x] = -d.base[x]
  BY <1>4 DEF NextEmpty, PrevEmpty
<1>12. ASSUME NEW b \in N PROVE RingIn(d2, b)
  <2>1. RingIn(d, b) /\ EmptyIn(d, b) \subseteq PlacesOf(d) /\ from \notin EmptyIn(d, b)
    BY <1>1, <1>2 DEF EmptyIn
  <2>2. CASE b # bi
    <3>1. EmptyIn(d2, b) = EmptyIn(d, b) /\ prev \notin EmptyIn(d, b) /\ next \notin EmptyIn(d, b)
          /\ e \notin EmptyIn(d, b)
      BY <1>5, <1>6, <1>10, <2>2 DEF EmptyIn
    <3>2. \A x \in EmptyIn(d, b) : NextEmpty(d2)[x] = NextEmpty(d)[x] /\ PrevEmpty(d2)[x] = PrevEmpty(d)[x]
      BY <1>7, <1>11, <2>1, <3>1
    <3>3. d2.block[b].num = d.block[b].num /\ d2.block[b].ehead = d.block[b].ehead
      BY <1>7, <2>2
    <3>4. QED
      BY <2>1, <3>1, <3>2, <3>3, CycleSame DEF RingIn
  <2>3. CASE b = bi
    <3> DEFINE S == EmptyIn(d, bi)
    <3>1. /\ EmptyIn(d2, b) = S \ {e} /\ e \in S /\ IsFiniteSet(S)
          /\ Cardinality(S) \in Nat /\ d.block[bi].num \in 0 .. B
      BY <1>1, <1>5, <1>10, <2>3, RingFacts DEF N
    <3>2. Cardinality(S \ {e}) = Cardinality(S) - 1
      BY <3>1, FS_RemoveElement
    <3>3. d2.block[b].num = d.block[bi].num - 1
          /\ d.block[bi].num = Cardinality(S) + (IF bi = 0 THEN 1 ELSE 0)
      BY <1>5, <1>7, <2>3 DEF RingIn
    <3>4. d2.block[b].num = Cardinality(S \ {e}) + (IF bi = 0 THEN 1 ELSE 0)
      <4> HIDE DEF S
      <4>1. QED
        BY <3>1, <3>2, <3>3
    <3>5. ASSUME S \ {e} # {}
          PROVE  /\ d2.block[b].ehead \in S \ {e}
                 /\ Cycle(S \ {e}, NextEmpty(d2), PrevEmpty(d2))
      <4>1. d.block[bi].ehead \in S /\ Cycle(S, NextEmpty(d), PrevEmpty(d))
        BY <1>5 DEF RingIn
      <4>2. NextEmpty(d)[e] = next /\ PrevEmpty(d)[e] = prev
        <5>1. NextEmpty(d)[e] = -d.check[e] /\ PrevEmpty(d)[e] = -d.base[e]
          BY <1>11
        <5>2. QED
          BY <5>1 DEF next, prev
      <4>3. next # e
        BY <3>1, <3>5, <4>1, <4>2, CycleApart
      <4>4. d2.block[b].ehead \in S \ {e}
        BY <1>6, <1>7, <2>3, <4>1, <4>3
      <4>5. prev # e
        BY <1>6, <4>1, <4>2, <4>3 DEF Cycle
      <4>6. /\ NextEmpty(d2)[prev] = next /\ PrevEmpty(d2)[next] = prev
        <5>1. NextEmpty(d2)[prev] = -d.check[e] /\ PrevEmpty(d2)[next] = -d.base[e]
          BY <1>6, <1>7, <1>11, <4>3, <4>5, <2>1, <2>3
        <5>2. QED
          BY <5>1 DEF prev, next
      <4>7. \A x \in S \ {e, prev} : NextEmpty(d2)[x] = NextEmpty(d)[x]
        BY <1>7, <1>11, <2>1, <2>3
      <4>8. \A x \in S \ {e, next} : PrevEmpty(d2)[x] = PrevEmpty(d)[x]
        BY <1>7, <1>11, <2>1, <2>3
      <4> HIDE DEF S
      <4>9. QED
        BY <3>1, <4>1, <4>2, <4>3, <4>4, <4>6, <4>7, <4>8, CycleRemove
    <3>6. QED
      BY <3>1, <3>4, <3>5, <2>3 DEF RingIn
  <2>4. QED
    BY <2>2, <2>3
<1>13. SpaceInv(d2)
  BY <1>3, <1>4, <1>12 DEF SpaceInv
<1>14. Used(d2) = Used(d) \cup {e}
  <2>1. d2.check \in [PlacesOf(d) -> Int]
    BY <1>3, <1>4 DEF ArrayType
  <2>2. \A x \in PlacesOf(d) \ {e} : d2.check[x] >= 0 <=> d.check[x] >= 0
    BY <1>1, <1>8, <2>1
  <2>3. d2.check[e] >= 0
    BY <1>9, <2>1
  <2>4. QED
    BY <1>4, <2>2, <2>3 DEF Used
<1>15. ASSUME NEW n \in Used(d)
       PROVE  /\ d2.check[n] = d.check[n]
              /\ n # from \/ based => d2.base[n] = d.base[n]
  <2>1. n \in PlacesOf(d) /\ n # e /\ n # next /\ n # prev
    BY <1>1, <1>6 DEF Used
  <2>2. QED
    BY <1>7, <2>1
<1>16. QED
  BY <1>3, <1>4, <1>13, <1>14, <1>15 DEF PoppedNode

-----------------------------------------------------------------------------
(* Giving a node back *)

LEMMA MaxOfTwo ==
  ASSUME NEW a \in Int, NEW b \in Int
  PROVE  Max({a, b}) \in {a, b} /\ Max({a, b}) >= a /\ Max({a, b}) >= b
<1>1. \E x \in {a, b} : \A y \in {a, b} : x >= y
  BY SMT
<1>2. Max({a, b}) \in {a, b} /\ \A y \in {a, b} : Max({a, b}) >= y
  BY <1>1, Zenon DEF Max
<1>3. QED
  BY <1>2

\* A block has room for the empty nodes it can have.
LEMMA RoomForOne ==
  ASSUME NEW d, ArrayType(d), NEW e \in Used(d), BlockOf(e) # 0, RingIn(d, BlockOf(e))
  PROVE  /\ BlockOf(e) \in BlocksOf(d) /\ d.block[BlockOf(e)].num + 1 \in 0 .. B
         /\ d.block[BlockOf(e)].num = Cardinality(EmptyIn(d, BlockOf(e)))
<1> DEFINE bi == BlockOf(e)
           S == EmptyIn(d, bi)
           m == bi * B
           Z == m .. m + B - 1
<1>1. PlacesOf(d) \subseteq Nat /\ e \in PlacesOf(d) /\ bi \in BlocksOf(d) /\ bi \in Nat /\ e \in Nat
  BY ArrayFacts DEF Used
<1>2. S \subseteq Z /\ e \in Z
  BY <1>1, BlockRange DEF EmptyIn
<1>3. e # 0 /\ e \notin S
  <2>1. e # 0 => d.check[e] >= 0
    BY DEF Used
  <2>2. d.check \in [PlacesOf(d) -> Int]
    BY DEF ArrayType
  <2>3. e # 0
    BY RootBlock
  <2>4. QED
    BY <2>1, <2>2, <2>3, <1>1 DEF EmptyIn
<1>4. IsFiniteSet(S) /\ Cardinality(S) \in Nat
  BY <1>1, RingFacts
<1>5. m \in Nat
  BY <1>1, BIsNat
<1>6. IsFiniteSet(Z) /\ Cardinality(Z) = B
  <2> HIDE DEF m
  <2> DEFINE hi == m + B - 1
  <2>1. m \in Int /\ hi \in Int /\ ~ m > hi /\ hi - m + 1 = B
    BY <1>5, BIsNat
  <2> HIDE DEF hi
  <2>2. /\ IsFiniteSet(m .. hi)
        /\ Cardinality(m .. hi) = IF m > hi THEN 0 ELSE hi - m + 1
    BY <2>1, FS_Interval
  <2>3. QED
    BY <2>1, <2>2 DEF hi
<1>7. S \cup {e} \subseteq Z /\ IsFiniteSet(S \cup {e}) /\ Cardinality(S \cup {e}) = Cardinality(S) + 1
  BY <1>2, <1>3, <1>4, FS_AddElement
<1>8. Cardinality(S) + 1 <= B
  <2> HIDE DEF S, Z
  <2>1. QED
    BY <1>6, <1>7, FS_Subset
<1>9. d.block[bi].num = Cardinality(S)
  <2>1. d.block[bi].num = Cardinality(S) + 0
    BY DEF RingIn
  <2> HIDE DEF S, bi
  <2>2. QED
    BY <1>4, <2>1
<1>10. QED
  <2> HIDE DEF S, Z
  <2>1. d.block[bi].num + 1 \in 0 .. B
    BY <1>4, <1>8, <1>9, BIsNat
  <2>2. QED
    BY <1>1, <1>9, <2>1 DEF S

\* The array after e has become empty.
Pushed(d, d2, e) ==
  LET bi == BlockOf(e)
      alone == d.block[bi].num = 0
      prev == d.block[bi].ehead
      next == -d.check[prev]
  IN  /\ d2.size = d.size /\ d2.reject = d.reject /\ BlocksOf(d2) = BlocksOf(d)
      /\ d2.sibling = [d.sibling EXCEPT ![e] = 0] /\ d2.child = [d.child EXCEPT ![e] = 0]
      /\ d2.check = IF alone THEN [d.check EXCEPT ![e] = -e]
                    ELSE [d.check EXCEPT ![e] = d.check[prev], ![prev] = -e]
      /\ d2.base = IF alone THEN [d.base EXCEPT ![e] = -e]
                   ELSE [d.base EXCEPT ![e] = -prev, ![next] = -e]
      /\ \A b \in BlocksOf(d) :
           /\ d2.block[b].num = IF b = bi THEN d.block[b].num + 1 ELSE d.block[b].num
           /\ d2.block[b].ehead = IF b = bi /\ alone THEN e ELSE d.block[b].ehead

LEMMA PushEnodeFields ==
  ASSUME NEW d, SpaceInv(d), NEW e \in Used(d), BlockOf(e) # 0,
         NEW d2, d2 = PushEnode(d, e)
  PROVE  ArrayType(d2) /\ Listed(d2, ListsIn(d2)) /\ Pushed(d, d2, e)
<1> DEFINE bi == BlockOf(e)
           num == d.block[bi].num
           trial == d.block[bi].trial
           prev == d.block[bi].ehead
           next == -d.check[prev]
           N == BlocksOf(d)
           more == [d EXCEPT !.block[bi].num = @ + 1]
           b == more.block[bi]
           alone == [more EXCEPT !.block[bi].ehead = e, !.base[e] = -e, !.check[e] = -e]
           ring == Insert(more, b.ehead, e)
           listed == CASE b.num = 1 -> IF bi = 0 THEN alone ELSE TransferBlock(alone, bi, "F", "C")
                       [] b.num > 1 /\ bi # 0 /\ (b.num = 2 \/ b.trial = MaxTrial) ->
                            [TransferBlock(ring, bi, "C", "O") EXCEPT !.block[bi].trial = 0]
                       [] OTHER -> [ring EXCEPT !.block[bi].trial = 0]
           L == ListsIn(d)
<1>1. /\ ArrayType(d) /\ DOMAIN d = ArrayFields /\ d.block \in [N -> BlockType] /\ N \subseteq Nat
      /\ d.base \in [PlacesOf(d) -> Int] /\ d.check \in [PlacesOf(d) -> Int]
      /\ PlacesOf(d) \subseteq Nat
  BY ArrayFacts DEF SpaceInv, ArrayType
<1>2. e \in PlacesOf(d) /\ e \in Nat /\ bi \in N /\ RingIn(d, bi)
  BY <1>1, ArrayFacts DEF Used, SpaceInv
<1>3. num + 1 \in 0 .. B /\ num \in Nat /\ bi # 0 /\ num = Cardinality(EmptyIn(d, bi))
  <2>1. num \in 0 .. B
    BY <1>1, <1>2 DEF BlockType
  <2>2. num + 1 \in 0 .. B /\ num = Cardinality(EmptyIn(d, bi))
    BY <1>1, <1>2, RoomForOne
  <2>3. QED
    BY <2>1, <2>2
<1>4. prev \in PlacesOf(d) /\ prev \in Nat /\ BlockOf(prev) = bi
  BY <1>1, <1>2 DEF ArrayType
<1>5. ASSUME num # 0 PROVE next \in PlacesOf(d) /\ next \in Nat /\ prev # e
  <2>1. EmptyIn(d, bi) # {}
    BY <1>3, <1>5, FS_EmptySet
  <2>2. prev \in EmptyIn(d, bi)
    BY <1>2, <2>1 DEF RingIn
  <2>3. next \in EmptyIn(d, bi)
    BY <1>1, <1>2, <2>2, RingFacts
  <2>4. prev # e
    <3>1. prev # 0 /\ d.check[prev] < 0
      BY <2>2 DEF EmptyIn
    <3> HIDE DEF prev
    <3>2. e = 0 \/ d.check[e] >= 0
      BY DEF Used
    <3>3. d.check[e] \in Int
      BY <1>1, <1>2
    <3>4. QED
      BY <3>1, <3>2, <3>3
  <2>5. QED
    BY <1>1, <2>3, <2>4 DEF EmptyIn
<1>6. /\ DOMAIN more = ArrayFields
      /\ more.base = d.base /\ more.check = d.check /\ more.sibling = d.sibling
      /\ more.child = d.child /\ more.size = d.size /\ more.reject = d.reject
      /\ more.head = d.head /\ more.block = NumSet(d.block, bi, num + 1)
  <2>1. DOMAIN d = ArrayFields
    BY <1>1
  <2> HIDE DEF bi, N
  <2>2. QED
    BY <2>1 DEF ArrayFields, NumSet
<1>7. DataSet(N, d.block, more.block, bi, num + 1, d.block[bi].reject, trial, prev)
  <2> HIDE DEF more, bi, N
  <2>1. DataSet(N, d.block, NumSet(d.block, bi, num + 1), bi, num + 1, d.block[bi].reject, trial,
                d.block[bi].ehead)
    BY <1>1, <1>2, <1>3, DataOne
  <2>2. QED
    BY <1>6, <2>1
<1> DEFINE base1 == IF num = 0 THEN [d.base EXCEPT ![e] = -e]
                    ELSE [d.base EXCEPT ![e] = -prev, ![next] = -e]
           check1 == IF num = 0 THEN [d.check EXCEPT ![e] = -e]
                     ELSE [d.check EXCEPT ![e] = d.check[prev], ![prev] = -e]
           eh1 == IF num = 0 THEN e ELSE prev
           linked == IF num = 0 THEN alone ELSE ring
<1>8. more.block[bi].ehead = prev /\ more.block[bi].num = num + 1 /\ more.block[bi].trial = trial
      /\ more.block[bi].reject = d.block[bi].reject /\ more.block \in [N -> BlockType]
  <2> HIDE DEF more, bi, num, trial, prev, N
  <2>1. QED
    BY <1>2, <1>7 DEF DataSet
<1>9. /\ DOMAIN linked = ArrayFields
      /\ linked.base = base1 /\ linked.check = check1
      /\ linked.sibling = d.sibling /\ linked.child = d.child
      /\ linked.size = d.size /\ linked.reject = d.reject /\ linked.head = d.head
      /\ linked.block = IF num = 0 THEN EheadSet(more.block, bi, e) ELSE more.block
  <2>1. DOMAIN more = ArrayFields
    BY <1>6
  <2>2. CASE num = 0
    <3>1. linked = [more EXCEPT !.block[bi].ehead = e, !.base[e] = -e, !.check[e] = -e]
      BY <2>2
    <3> HIDE DEF more, bi, linked
    <3>2. /\ DOMAIN linked = ArrayFields
          /\ linked.base = [more.base EXCEPT ![e] = -e] /\ linked.check = [more.check EXCEPT ![e] = -e]
          /\ linked.sibling = more.sibling /\ linked.child = more.child
          /\ linked.size = more.size /\ linked.reject = more.reject /\ linked.head = more.head
          /\ linked.block = EheadSet(more.block, bi, e)
      BY <2>1, <3>1 DEF ArrayFields, EheadSet
    <3>3. QED
      BY <3>2, <2>2, <1>6
  <2>3. CASE num # 0
    <3>1. linked = ring
      BY <2>3
    <3>2. ring = Insert(more, prev, e)
      BY <1>8
    <3>3. Insert(more, prev, e) = [more EXCEPT !.base[e] = -prev, !.check[e] = more.check[prev],
                     !.check[prev] = -e, !.base[-more.check[prev]] = -e]
      <4> HIDE DEF more, prev
      <4>1. QED
        BY DEF Insert
    <3>4. more.check = d.check
      BY <1>6
    <3> HIDE DEF ring
    <3>5. linked = [more EXCEPT !.base[e] = -prev, !.check[e] = d.check[prev],
                     !.check[prev] = -e, !.base[next] = -e]
      <4> HIDE DEF more, prev, linked
      <4>1. QED
        BY <3>1, <3>2, <3>3, <3>4
    <3> HIDE DEF more, prev, next, linked
    <3>6. /\ DOMAIN linked = ArrayFields
          /\ linked.base = [more.base EXCEPT ![e] = -prev, ![next] = -e]
          /\ linked.check = [more.check EXCEPT ![e] = d.check[prev], ![prev] = -e]
          /\ linked.sibling = more.sibling /\ linked.child = more.child
          /\ linked.size = more.size /\ linked.reject = more.reject /\ linked.head = more.head
          /\ linked.block = more.block
      BY <2>1, <3>5 DEF ArrayFields
    <3>7. QED
      BY <3>6, <2>3, <1>6
  <2>4. QED
    BY <2>2, <2>3
<1>10. DataSet(N, more.block, linked.block, bi, num + 1, d.block[bi].reject, trial, eh1)
  <2>1. CASE num = 0
    <3> HIDE DEF more, linked, bi, N, trial, prev, num
    <3>1. DataSet(N, more.block, EheadSet(more.block, bi, e), bi, more.block[bi].num,
                  more.block[bi].reject, more.block[bi].trial, e)
      BY <1>1, <1>2, <1>8, DataOne
    <3>2. QED
      BY <1>8, <1>9, <2>1, <3>1
  <2>2. CASE num # 0
    <3> HIDE DEF more, linked, bi, N, trial, prev, num
    <3>1. linked.block = more.block
      BY <1>9, <2>2
    <3>2. QED
      BY <1>8, <2>2, <3>1 DEF DataSet
  <2>3. QED
    BY <2>1, <2>2
<1>11. /\ linked.block \in [N -> BlockType]
       /\ \A x \in N : /\ linked.block[x].num = IF x = bi THEN num + 1 ELSE d.block[x].num
                       /\ linked.block[x].ehead = IF x = bi THEN eh1 ELSE d.block[x].ehead
                       /\ linked.block[x].trial = d.block[x].trial
                       /\ linked.block[x].reject = d.block[x].reject
                       /\ linked.block[x].next = d.block[x].next
                       /\ linked.block[x].prev = d.block[x].prev
  <2> HIDE DEF more, linked, bi, N, num, eh1, prev
  <2>1. QED
    BY <1>7, <1>10 DEF DataSet
<1>12. ArrayType(linked) /\ Listed(linked, L) /\ BlocksOf(linked) = N /\ PlacesOf(linked) = PlacesOf(d)
  <2>1. /\ d.sibling \in [PlacesOf(d) -> Labels] /\ d.child \in [PlacesOf(d) -> Labels]
        /\ d.reject \in [0 .. B -> 0 .. B + 1]
        /\ \A x \in N : d.block[x].ehead \in PlacesOf(d) /\ BlockOf(d.block[x].ehead) = x
    BY <1>1 DEF ArrayType
  <2>2. eh1 \in PlacesOf(d) /\ BlockOf(eh1) = bi
    BY <1>2, <1>4
  <2>3. base1 \in [PlacesOf(d) -> Int] /\ check1 \in [PlacesOf(d) -> Int]
    <3>1. CASE num = 0
      <4> HIDE DEF num
      <4>1. QED
        BY <1>1, <1>2, <3>1
    <3>2. CASE num # 0
      <4>1. next \in Int /\ prev \in Int
        BY <1>4, <1>5, <3>2
      <4>2. prev \in PlacesOf(d)
        BY <1>4
      <4> HIDE DEF num, next, prev
      <4>3. -prev \in Int /\ -e \in Int /\ d.check[prev] \in Int
        BY <1>1, <1>2, <4>1, <4>2
      <4>4. base1 = [d.base EXCEPT ![e] = -prev, ![next] = -e]
            /\ check1 = [d.check EXCEPT ![e] = d.check[prev], ![prev] = -e]
        BY <3>2
      <4> HIDE DEF base1, check1
      <4>5. base1 \in [PlacesOf(d) -> Int]
        BY <1>1, <4>3, <4>4
      <4>6. check1 \in [PlacesOf(d) -> Int]
        BY <1>1, <4>3, <4>4
      <4>7. QED
        BY <4>5, <4>6
    <3>3. QED
      BY <3>1, <3>2
  <2>4. DataChange(d, linked)
    <3> HIDE DEF linked, bi, num, trial, prev, next, eh1, N, base1, check1
    <3>1. \A x \in N : linked.block[x].ehead \in PlacesOf(d) /\ BlockOf(linked.block[x].ehead) = x
      BY <2>1, <2>2, <1>11
    <3>2. QED
      BY <2>1, <2>3, <3>1, <1>9, <1>11 DEF DataChange, N
  <2>5. Listed(d, L)
    BY DEF SpaceInv
  <2> HIDE DEF linked, L
  <2>6. QED
    BY <1>1, <2>4, <2>5, DataType
<1> DEFINE to == IF num = 0 THEN "C" ELSE "O"
           moved == IF num = 0 THEN TransferBlock(alone, bi, "F", "C")
                    ELSE IF num = 1 \/ trial = MaxTrial THEN TransferBlock(ring, bi, "C", "O")
                    ELSE ring
<1>13. /\ ListsType(linked, L)
       /\ L[bi] = IF num = 0 THEN "F" ELSE IF num = 1 \/ trial = MaxTrial THEN "C" ELSE "O"
       /\ L \in [N -> Lists]
  <2>1. L \in [N -> Lists] /\ (0 \in N => L[0] = "F")
    BY DEF ListsIn, ListFor, Lists
  <2>2. 0 \in N
    BY <1>1, ArrayFacts
  <2>3. L[bi] = ListFor(bi, num, trial)
    BY <1>2 DEF ListsIn
  <2>4. BlocksOf(linked) = N
    BY <1>12
  <2> HIDE DEF linked, L, bi, num, trial, N
  <2>5. QED
    BY <1>3, <2>1, <2>2, <2>3, <2>4 DEF ListsType, ListFor
<1>14. linked.block[bi].num = num + 1 /\ bi \in BlocksOf(linked)
  <2>1. BlocksOf(linked) = N
    BY <1>12
  <2> HIDE DEF linked, N, num, bi, eh1
  <2>2. QED
    BY <2>1, <1>2, <1>11
<1>15. ArrayType(moved) /\ SameButLinks(linked, moved) /\ Listed(moved, With(L, bi, to))
  <2>1. CASE num = 0
    <3>1. moved = TransferBlock(linked, bi, "F", "C") /\ to = "C"
      BY <2>1
    <3>2. L[bi] = "F"
      BY <1>13, <2>1
    <3>3. "F" \in Lists /\ "C" \in Lists /\ "C" # "F" /\ linked.block[bi].num # 0
      BY <1>14, <2>1 DEF Lists
    <3> HIDE DEF linked, moved, bi, L, to
    <3>4. QED
      BY <1>3, <1>12, <1>13, <1>14, <3>1, <3>2, <3>3, TransferBlockLists
  <2>2. CASE num # 0 /\ (num = 1 \/ trial = MaxTrial)
    <3>1. moved = TransferBlock(linked, bi, "C", "O") /\ to = "O"
      BY <2>2
    <3>2. L[bi] = "C"
      BY <1>13, <2>2
    <3>3. "O" \in Lists /\ "C" \in Lists /\ "O" # "C" /\ linked.block[bi].num # 0 /\ "O" # "F"
      <4> HIDE DEF linked, num
      <4>1. QED
        BY <1>3, <1>14 DEF Lists
    <3> HIDE DEF linked, moved, bi, L, to
    <3>4. QED
      BY <1>3, <1>12, <1>13, <1>14, <3>1, <3>2, <3>3, TransferBlockLists
  <2>3. CASE num # 0 /\ ~ (num = 1 \/ trial = MaxTrial)
    <3>1. moved = linked /\ to = "O"
      BY <2>3
    <3>2. L[bi] = "O"
      BY <1>13, <2>3
    <3> HIDE DEF linked, moved, bi, L, to, N
    <3>3. With(L, bi, to) = L
      BY <1>13, <3>1, <3>2 DEF With
    <3>4. SameButLinks(linked, linked)
      BY DEF SameButLinks
    <3>5. QED
      BY <1>12, <3>1, <3>3, <3>4
  <2>4. QED
    <3> HIDE DEF num, trial, linked, moved, to, bi, L
    <3>1. QED
      BY <2>1, <2>2, <2>3
<1>16. listed = IF num = 0 THEN moved ELSE [moved EXCEPT !.block[bi].trial = 0]
  <2>1. b.num = num + 1 /\ b.trial = trial
    BY <1>8
  <2> HIDE DEF b, num, trial, alone, ring, bi
  <2>2. QED
    BY <2>1, <1>3
<1> DEFINE reject == Max({listed.block[bi].reject, d.reject[b.num]})
<1>17. d2 = [listed EXCEPT !.block[bi].reject = reject, !.sibling[e] = 0, !.child[e] = 0]
  <2> HIDE DEF reject
  <2>1. d2 = [listed EXCEPT !.block[bi].reject = Max({listed.block[bi].reject, d.reject[b.num]}),
                     !.sibling[e] = 0, !.child[e] = 0]
    BY ZenonT(30) DEF PushEnode, BlockOf
  <2>2. QED
    BY <2>1 DEF reject
<1>18. /\ BlocksOf(moved) = N /\ PlacesOf(moved) = PlacesOf(d) /\ DOMAIN moved = ArrayFields
       /\ moved.base = base1 /\ moved.check = check1
       /\ moved.sibling = d.sibling /\ moved.child = d.child
       /\ moved.size = d.size /\ moved.reject = d.reject /\ moved.block \in [N -> BlockType]
       /\ \A x \in N : /\ moved.block[x].num = IF x = bi THEN num + 1 ELSE d.block[x].num
                       /\ moved.block[x].ehead = IF x = bi THEN eh1 ELSE d.block[x].ehead
                       /\ moved.block[x].trial = d.block[x].trial
                       /\ moved.block[x].reject = d.block[x].reject
  <2>1. BlocksOf(linked) = N /\ PlacesOf(linked) = PlacesOf(d)
    BY <1>12
  <2> HIDE DEF moved, linked, N, num, bi, eh1, base1, check1
  <2>2. BlocksOf(moved) = N /\ moved.size = linked.size
    BY <1>15, <2>1 DEF SameButLinks
  <2>3. moved.block \in [N -> BlockType] /\ DOMAIN moved = ArrayFields
    BY <1>15, <2>2, ArrayFacts DEF ArrayType
  <2>4. QED
    BY <1>9, <1>11, <1>15, <2>1, <2>2, <2>3, SMTT(30) DEF SameButLinks, PlacesOf
<1> DEFINE trial2 == IF num = 0 THEN trial ELSE 0
<1>19. /\ DOMAIN listed = ArrayFields /\ listed.base = base1 /\ listed.check = check1
       /\ listed.sibling = d.sibling /\ listed.child = d.child /\ listed.size = d.size
       /\ listed.reject = d.reject /\ listed.head = moved.head
       /\ DataSet(N, moved.block, listed.block, bi, num + 1, d.block[bi].reject, trial2, eh1)
  <2>1. /\ moved.block[bi].num = num + 1 /\ moved.block[bi].reject = d.block[bi].reject
        /\ moved.block[bi].trial = trial /\ moved.block[bi].ehead = eh1
    <3> HIDE DEF moved, N, num, bi, eh1, base1, check1
    <3>1. QED
      BY <1>2, <1>18
  <2>2. CASE num = 0
    <3>1. listed = moved /\ trial2 = trial
      BY <1>16, <2>2
    <3> HIDE DEF moved, listed, N, num, bi, trial, trial2, eh1, base1, check1
    <3>2. QED
      BY <1>18, <2>1, <3>1 DEF DataSet
  <2>3. CASE num # 0
    <3>1. listed = [moved EXCEPT !.block[bi].trial = 0] /\ trial2 = 0
      BY <1>16, <2>3
    <3> HIDE DEF moved, listed, N, num, bi, trial, trial2, eh1, base1, check1
    <3>2. /\ DOMAIN listed = ArrayFields
          /\ listed.base = moved.base /\ listed.check = moved.check
          /\ listed.sibling = moved.sibling /\ listed.child = moved.child
          /\ listed.size = moved.size /\ listed.reject = moved.reject /\ listed.head = moved.head
          /\ listed.block = TrialSet(moved.block, bi, 0)
      BY <1>18, <3>1 DEF ArrayFields, TrialSet
    <3>3. 0 \in 0 .. MaxTrial
      BY DEF MaxTrial
    <3>4. DataSet(N, moved.block, TrialSet(moved.block, bi, 0), bi, moved.block[bi].num,
                  moved.block[bi].reject, 0, moved.block[bi].ehead)
      BY <1>1, <1>2, <1>18, <3>3, DataOne
    <3>5. QED
      BY <1>18, <2>1, <3>1, <3>2, <3>4
  <2>4. QED
    BY <2>2, <2>3
<1>20. reject \in 0 .. B + 1
  <2>1. listed.block[bi].reject \in 0 .. B + 1
    <3> HIDE DEF listed, moved, N, num, bi, trial, trial2, eh1, base1, check1
    <3>1. QED
      BY <1>2, <1>19 DEF DataSet, BlockType
  <2>2. d.reject[b.num] \in 0 .. B + 1
    <3>1. b.num = num + 1
      BY <1>8
    <3>2. d.reject \in [0 .. B -> 0 .. B + 1]
      BY <1>1 DEF ArrayType
    <3> HIDE DEF b, num
    <3>3. QED
      BY <1>3, <3>1, <3>2
  <2>3. ASSUME NEW x \in 0 .. B + 1, NEW y \in 0 .. B + 1 PROVE Max({x, y}) \in 0 .. B + 1
    <3>1. x \in Int /\ y \in Int
      BY BIsNat
    <3>2. Max({x, y}) \in {x, y}
      BY <3>1, MaxOfTwo
    <3>3. QED
      BY <3>2
  <2> HIDE DEF listed, b
  <2>4. QED
    BY <2>1, <2>2, <2>3
<1>21. /\ DOMAIN d2 = ArrayFields /\ d2.base = base1 /\ d2.check = check1
       /\ d2.sibling = [d.sibling EXCEPT ![e] = 0] /\ d2.child = [d.child EXCEPT ![e] = 0]
       /\ d2.size = d.size /\ d2.reject = d.reject /\ d2.head = moved.head
       /\ DataSet(N, moved.block, d2.block, bi, num + 1, reject, trial2, eh1)
  <2> HIDE DEF moved, listed, N, num, bi, trial, trial2, eh1, base1, check1, reject
  <2>1. /\ DOMAIN d2 = ArrayFields /\ d2.base = listed.base /\ d2.check = listed.check
        /\ d2.sibling = [listed.sibling EXCEPT ![e] = 0] /\ d2.child = [listed.child EXCEPT ![e] = 0]
        /\ d2.size = listed.size /\ d2.reject = listed.reject /\ d2.head = listed.head
        /\ d2.block = RejectSet(listed.block, bi, reject)
    BY <1>17, <1>19 DEF ArrayFields, RejectSet
  <2>2. listed.block \in [N -> BlockType] /\ listed.block[bi].num = num + 1
        /\ listed.block[bi].trial = trial2 /\ listed.block[bi].ehead = eh1
    BY <1>2, <1>19 DEF DataSet
  <2>3. DataSet(N, listed.block, RejectSet(listed.block, bi, reject), bi, listed.block[bi].num,
                reject, listed.block[bi].trial, listed.block[bi].ehead)
    BY <1>1, <1>2, <1>20, <2>2, DataOne
  <2>4. DataSet(N, moved.block, d2.block, bi, num + 1, reject, trial2, eh1)
    BY <1>19, <2>1, <2>2, <2>3 DEF DataSet
  <2>5. QED
    BY <1>19, <2>1, <2>4
<1>22. ArrayType(d2) /\ Listed(d2, ListsIn(d2))
  <2>1. ArrayType(moved) /\ Listed(moved, With(L, bi, to)) /\ BlocksOf(moved) = N
        /\ PlacesOf(moved) = PlacesOf(d)
    BY <1>15, <1>18
  <2>2. moved.base \in [PlacesOf(d) -> Int] /\ moved.check \in [PlacesOf(d) -> Int]
    <3> HIDE DEF moved, N
    <3>1. QED
      BY <2>1 DEF ArrayType
  <2>3. \A x \in N : moved.block[x].ehead \in PlacesOf(d) /\ BlockOf(moved.block[x].ehead) = x
    <3> HIDE DEF moved, N
    <3>1. QED
      BY <2>1 DEF ArrayType
  <2>4. moved.block[bi].ehead = eh1
    <3> HIDE DEF moved, N, bi, eh1, num, base1, check1
    <3>1. QED
      BY <1>2, <1>18
  <2>5. DataChange(moved, d2)
    <3> HIDE DEF moved, N, bi, eh1, num, base1, check1, reject, trial2
    <3>1. 0 \in Labels
      BY BIsNat DEF Labels
    <3>2. /\ d.sibling \in [PlacesOf(d) -> Labels] /\ d.child \in [PlacesOf(d) -> Labels]
          /\ d.reject \in [0 .. B -> 0 .. B + 1]
      BY <1>1 DEF ArrayType
    <3>3. d2.sibling \in [PlacesOf(d) -> Labels] /\ d2.child \in [PlacesOf(d) -> Labels]
      BY <1>21, <3>1, <3>2
    <3>4. /\ d2.block \in [N -> BlockType]
          /\ \A x \in N : /\ d2.block[x].next = moved.block[x].next
                          /\ d2.block[x].prev = moved.block[x].prev
                          /\ d2.block[x].ehead = moved.block[x].ehead
      BY <1>21, <2>4 DEF DataSet
    <3>5. QED
      BY <1>18, <1>21, <2>1, <2>2, <2>3, <3>2, <3>3, <3>4, ZenonT(30) DEF DataChange
  <2>6. ArrayType(d2) /\ BlocksOf(d2) = N /\ Listed(d2, With(L, bi, to))
    <3> HIDE DEF moved, L, to, N
    <3>1. QED
      BY <2>1, <2>5, DataType
  <2>7. \A x \in N : /\ d2.block[x].num = IF x = bi THEN num + 1 ELSE d.block[x].num
                     /\ d2.block[x].trial = IF x = bi THEN trial2 ELSE d.block[x].trial
    <3> HIDE DEF moved, N, bi, eh1, num, base1, check1, reject, trial2
    <3>1. QED
      BY <1>18, <1>21 DEF DataSet
  <2>8. ListFor(bi, num + 1, trial2) = to
    <3>1. CASE num = 0
      <4>1. to = "C" /\ num + 1 = 1
        BY <3>1
      <4> HIDE DEF num, trial2, to, bi
      <4>2. QED
        BY <1>3, <4>1 DEF ListFor
    <3>2. CASE num # 0
      <4>1. to = "O" /\ trial2 = 0
        BY <3>2
      <4> HIDE DEF num, trial2, to, bi
      <4>2. QED
        BY <1>3, <3>2, <4>1 DEF ListFor, MaxTrial
    <3>3. QED
      BY <3>1, <3>2
  <2>9. L = [x \in N |-> ListFor(x, d.block[x].num, d.block[x].trial)]
    BY DEF ListsIn
  <2>10. ListsIn(d2) = With(L, bi, to)
    <3> HIDE DEF L, N, bi, num, trial2, to
    <3>1. ListsIn(d2) = [x \in N |-> ListFor(x, d2.block[x].num, d2.block[x].trial)]
      BY <2>6 DEF ListsIn
    <3>2. With(L, bi, to) = [x \in N |-> IF x = bi THEN to ELSE L[x]]
      BY <2>9 DEF With
    <3>3. \A x \in N : ListFor(x, d2.block[x].num, d2.block[x].trial) = IF x = bi THEN to ELSE L[x]
      BY <2>7, <2>8, <2>9
    <3>4. QED
      BY <3>1, <3>2, <3>3
  <2>11. QED
    <3> HIDE DEF L, to
    <3>1. QED
      BY <2>6, <2>10
<1>23. Pushed(d, d2, e)
  <2>1. /\ d2.base = base1 /\ d2.check = check1 /\ BlocksOf(d2) = N
        /\ d2.sibling = [d.sibling EXCEPT ![e] = 0] /\ d2.child = [d.child EXCEPT ![e] = 0]
        /\ d2.size = d.size /\ d2.reject = d.reject
    <3> HIDE DEF moved, N, base1, check1
    <3>1. BlocksOf(d2) = N
      BY <1>1, <1>18, <1>21, <1>22, ArrayFacts DEF DataSet
    <3>2. QED
      BY <1>21, <3>1
  <2>2. \A x \in N : /\ d2.block[x].num = IF x = bi THEN num + 1 ELSE d.block[x].num
                     /\ d2.block[x].ehead = IF x = bi THEN eh1 ELSE d.block[x].ehead
    <3> HIDE DEF moved, N, bi, eh1, num, base1, check1, reject, trial2
    <3>1. QED
      BY <1>18, <1>21 DEF DataSet
  <2>3. \A x \in N : /\ d2.block[x].num = IF x = bi THEN d.block[x].num + 1 ELSE d.block[x].num
                     /\ d2.block[x].ehead = IF x = bi /\ num = 0 THEN e ELSE d.block[x].ehead
    <3>1. \A x \in N : x = bi => d.block[x].num = num /\ d.block[x].ehead = prev
      OBVIOUS
    <3>2. eh1 = IF num = 0 THEN e ELSE prev
      OBVIOUS
    <3> HIDE DEF N, bi, num, prev, eh1
    <3>3. QED
      BY <2>2, <3>1, <3>2
  <2>4. QED
    BY <2>1, <2>3 DEF Pushed
<1>24. QED
  BY <1>22, <1>23

\* The rings stay rings, e among them.
LEMMA PushEnodeSpace ==
  ASSUME NEW d, SpaceInv(d), NEW e \in Used(d), BlockOf(e) # 0, NEW d2, d2 = PushEnode(d, e)
  PROVE  /\ SpaceInv(d2) /\ PlacesOf(d2) = PlacesOf(d) /\ Used(d2) = Used(d) \ {e}
         /\ d2.size = d.size /\ d2.check[e] < 0
         /\ d2.sibling = [d.sibling EXCEPT ![e] = 0] /\ d2.child = [d.child EXCEPT ![e] = 0]
         /\ \A n \in Used(d) \ {e} : d2.check[n] = d.check[n] /\ d2.base[n] = d.base[n]
<1> DEFINE bi == BlockOf(e)
           alone == d.block[bi].num = 0
           prev == d.block[bi].ehead
           next == -d.check[prev]
           N == BlocksOf(d)
           S == EmptyIn(d, bi)
<1>1. /\ ArrayType(d) /\ PlacesOf(d) \subseteq Nat /\ 0 \in PlacesOf(d)
      /\ d.base \in [PlacesOf(d) -> Int] /\ d.check \in [PlacesOf(d) -> Int]
      /\ \A bj \in N : RingIn(d, bj)
  BY ArrayFacts DEF SpaceInv, ArrayType
<1>2. e \in PlacesOf(d) /\ e \in Nat /\ e # 0 /\ d.check[e] >= 0 /\ bi \in N /\ RingIn(d, bi)
  BY <1>1, ArrayFacts, RootBlock DEF Used
<1>3. ArrayType(d2) /\ Listed(d2, ListsIn(d2)) /\ Pushed(d, d2, e)
  BY PushEnodeFields
<1>4. /\ d2.size = d.size /\ d2.reject = d.reject /\ BlocksOf(d2) = N
      /\ d2.sibling = [d.sibling EXCEPT ![e] = 0] /\ d2.child = [d.child EXCEPT ![e] = 0]
      /\ d2.check = IF alone THEN [d.check EXCEPT ![e] = -e]
                    ELSE [d.check EXCEPT ![e] = d.check[prev], ![prev] = -e]
      /\ d2.base = IF alone THEN [d.base EXCEPT ![e] = -e]
                   ELSE [d.base EXCEPT ![e] = -prev, ![next] = -e]
      /\ \A b \in N :
           /\ d2.block[b].num = IF b = bi THEN d.block[b].num + 1 ELSE d.block[b].num
           /\ d2.block[b].ehead = IF b = bi /\ alone THEN e ELSE d.block[b].ehead
  BY <1>3 DEF Pushed
<1>5. PlacesOf(d2) = PlacesOf(d)
  BY <1>4 DEF PlacesOf
<1>6. /\ d.block[bi].num = Cardinality(S) /\ IsFiniteSet(S) /\ Cardinality(S) \in Nat
      /\ e \notin S /\ S \subseteq PlacesOf(d)
  <2>1. e \notin S /\ S \subseteq PlacesOf(d)
    BY <1>1, <1>2 DEF EmptyIn
  <2>2. QED
    BY <1>1, <1>2, <2>1, RoomForOne, RingFacts
<1>7. alone => S = {}
  BY <1>6, FS_EmptySet
<1>8. ASSUME ~ alone
      PROVE  /\ prev \in S /\ next \in S /\ prev \in PlacesOf(d) /\ next \in PlacesOf(d)
             /\ prev # e /\ next # e /\ d.check[prev] < 0 /\ d.check[next] < 0
             /\ prev # 0 /\ next # 0 /\ Cycle(S, NextEmpty(d), PrevEmpty(d))
             /\ d.check[prev] = -next
  <2>1. S # {}
    BY <1>6, <1>8, FS_EmptySet
  <2>2. prev \in S /\ Cycle(S, NextEmpty(d), PrevEmpty(d))
    BY <1>2, <2>1 DEF RingIn
  <2>3. next \in S /\ d.check[prev] = -next
    BY <1>1, <1>2, <2>2, RingFacts
  <2>4. \A x \in S : x \in PlacesOf(d) /\ x # e /\ x # 0 /\ d.check[x] < 0
    BY <1>6 DEF EmptyIn
  <2> HIDE DEF S, prev, next
  <2>5. QED
    BY <2>2, <2>3, <2>4
<1> HIDE DEF prev, next, N, alone, bi
<1>9. /\ alone => \A x \in PlacesOf(d) :
           /\ d2.check[x] = IF x = e THEN -e ELSE d.check[x]
           /\ d2.base[x] = IF x = e THEN -e ELSE d.base[x]
      /\ ~ alone => \A x \in PlacesOf(d) :
           /\ d2.check[x] = IF x = e THEN d.check[prev] ELSE IF x = prev THEN -e ELSE d.check[x]
           /\ d2.base[x] = IF x = e THEN -prev ELSE IF x = next THEN -e ELSE d.base[x]
  <2>1. CASE alone
    BY <1>1, <1>2, <1>4, <2>1
  <2>2. CASE ~ alone
    <3> HIDE DEF S
    <3>1. /\ d2.check = [d.check EXCEPT ![e] = d.check[prev], ![prev] = -e]
          /\ d2.base = [d.base EXCEPT ![e] = -prev, ![next] = -e]
          /\ prev # e /\ next # e /\ prev \in PlacesOf(d) /\ next \in PlacesOf(d)
      BY <1>4, <1>8, <2>2
    <3>2. QED
      BY <1>1, <1>2, <2>2, <3>1
  <2>3. QED
    BY <2>1, <2>2
<1>10. d2.check[e] < 0
  <2>1. -e < 0
    BY <1>2
  <2>2. QED
    BY <1>2, <1>8, <1>9, <2>1
<1>11. \A x \in PlacesOf(d) \ {e} : d2.check[x] < 0 <=> d.check[x] < 0
  <2>1. -e < 0
    BY <1>2
  <2> HIDE DEF S
  <2>2. CASE alone
    BY <1>9, <2>2
  <2>3. CASE ~ alone
    BY <1>8, <1>9, <2>1, <2>3
  <2>4. QED
    BY <2>2, <2>3
<1>12. \A b \in N : EmptyIn(d2, b) = IF b = bi THEN S \cup {e} ELSE EmptyIn(d, b)
  BY <1>2, <1>5, <1>10, <1>11 DEF EmptyIn, bi
<1>13. \A x \in PlacesOf(d) : /\ NextEmpty(d2)[x] = -d2.check[x] /\ PrevEmpty(d2)[x] = -d2.base[x]
                              /\ NextEmpty(d)[x] = -d.check[x] /\ PrevEmpty(d)[x] = -d.base[x]
  BY <1>5 DEF NextEmpty, PrevEmpty
<1>14. ASSUME NEW b \in N PROVE RingIn(d2, b)
  <2>1. RingIn(d, b) /\ EmptyIn(d, b) \subseteq PlacesOf(d)
    BY <1>1 DEF EmptyIn
  <2>2. CASE b # bi
    <3>1. EmptyIn(d2, b) = EmptyIn(d, b) /\ e \notin EmptyIn(d, b)
          /\ (~ alone => prev \notin EmptyIn(d, b) /\ next \notin EmptyIn(d, b))
      BY <1>8, <1>12, <2>2 DEF EmptyIn, bi
    <3>2. \A x \in EmptyIn(d, b) : NextEmpty(d2)[x] = NextEmpty(d)[x] /\ PrevEmpty(d2)[x] = PrevEmpty(d)[x]
      BY <1>9, <1>13, <2>1, <3>1
    <3>3. d2.block[b].num = d.block[b].num /\ d2.block[b].ehead = d.block[b].ehead
      BY <1>4, <2>2
    <3>4. QED
      BY <2>1, <3>1, <3>2, <3>3, CycleSame DEF RingIn
  <2>3. CASE b = bi
    <3>1. Cardinality(S \cup {e}) = Cardinality(S) + 1 /\ EmptyIn(d2, b) = S \cup {e} /\ bi # 0
      BY <1>6, <1>12, <2>3, FS_AddElement DEF bi
    <3>2. d2.block[b].num = Cardinality(EmptyIn(d2, b)) + (IF b = 0 THEN 1 ELSE 0)
      <4>1. d2.block[b].num = Cardinality(S) + 1
        BY <1>4, <1>6, <2>3
      <4> HIDE DEF S
      <4>2. QED
        BY <1>6, <2>3, <3>1, <4>1
    <3>3. d2.block[b].ehead \in S \cup {e} /\ Cycle(S \cup {e}, NextEmpty(d2), PrevEmpty(d2))
      <4>1. CASE alone
        <5>1. S = {} /\ d2.block[b].ehead = e
          BY <1>4, <1>7, <2>3, <4>1
        <5>2. NextEmpty(d2)[e] = e /\ PrevEmpty(d2)[e] = e
          BY <1>2, <1>9, <1>13, <4>1
        <5>3. S \cup {e} = {e}
          BY <5>1
        <5> HIDE DEF S
        <5>4. QED
          BY <5>1, <5>2, <5>3, CycleAlone
      <4>2. CASE ~ alone
        <5>1. d2.block[b].ehead = prev
          BY <1>4, <2>3, <4>2 DEF prev
        <5>2. NextEmpty(d)[prev] = next
          BY <1>8, <1>13, <4>2 DEF next
        <5>3. NextEmpty(d2)[prev] = e /\ NextEmpty(d2)[e] = NextEmpty(d)[prev]
              /\ PrevEmpty(d2)[e] = prev /\ PrevEmpty(d2)[next] = e
          <6>1. prev \in Nat
            BY <1>1, <1>8, <4>2
          <6> HIDE DEF S
          <6>2. d2.check[prev] = -e /\ d2.check[e] = d.check[prev] /\ d2.base[e] = -prev
                /\ d2.base[next] = -e
            BY <1>2, <1>8, <1>9, <4>2
          <6>3. prev \in PlacesOf(d) /\ next \in PlacesOf(d)
            BY <1>8, <4>2
          <6>4. /\ NextEmpty(d2)[prev] = -d2.check[prev] /\ NextEmpty(d2)[e] = -d2.check[e]
                /\ NextEmpty(d)[prev] = -d.check[prev]
                /\ PrevEmpty(d2)[e] = -d2.base[e] /\ PrevEmpty(d2)[next] = -d2.base[next]
            BY <1>2, <1>13, <6>3
          <6>5. -(-e) = e /\ -(-prev) = prev
            BY <1>2, <6>1
          <6>6. QED
            BY <6>2, <6>4, <6>5
        <5>4. \A x \in S \ {prev} : NextEmpty(d2)[x] = NextEmpty(d)[x]
          BY <1>6, <1>9, <1>13, <4>2
        <5>5. \A x \in S \ {next} : PrevEmpty(d2)[x] = PrevEmpty(d)[x]
          BY <1>6, <1>9, <1>13, <4>2
        <5> HIDE DEF S
        <5>6. QED
          BY <1>6, <1>8, <4>2, <5>1, <5>2, <5>3, <5>4, <5>5, CycleInsert
      <4>3. QED
        BY <4>1, <4>2
    <3>4. QED
      BY <3>1, <3>2, <3>3 DEF RingIn
  <2>4. QED
    BY <2>2, <2>3
<1>15. SpaceInv(d2)
  BY <1>3, <1>4, <1>14 DEF SpaceInv
<1>16. Used(d2) = Used(d) \ {e}
  <2>1. d2.check \in [PlacesOf(d) -> Int]
    BY <1>3, <1>5 DEF ArrayType
  <2>2. \A x \in PlacesOf(d) \ {e} : d2.check[x] >= 0 <=> d.check[x] >= 0
    BY <1>1, <1>11, <2>1
  <2>3. ~ d2.check[e] >= 0
    BY <1>2, <1>10, <2>1
  <2>4. QED
    BY <1>2, <1>5, <2>2, <2>3 DEF Used
<1>17. ASSUME NEW n \in Used(d) \ {e} PROVE d2.check[n] = d.check[n] /\ d2.base[n] = d.base[n]
  <2>1. n \in PlacesOf(d) /\ (~ alone => n # prev /\ n # next)
    BY <1>1, <1>8 DEF Used
  <2>2. QED
    BY <1>9, <2>1
<1>18. QED
  BY <1>4, <1>5, <1>10, <1>15, <1>16, <1>17

-----------------------------------------------------------------------------
(* A new block *)

\* The array has grown by a block of empty nodes, and nothing else has changed.
Grown(d, d2) ==
  /\ d2.size = d.size + B
  /\ \A e \in PlacesOf(d) : /\ d2.base[e] = d.base[e] /\ d2.check[e] = d.check[e]
                            /\ d2.sibling[e] = d.sibling[e] /\ d2.child[e] = d.child[e]
  /\ \A e \in PlacesOf(d2) \ PlacesOf(d) :
       d2.check[e] < 0 /\ d2.sibling[e] = 0 /\ d2.child[e] = 0

LEMMA AddBlockSpace ==
  ASSUME NEW d, SpaceInv(d), NEW d2, d2 = AddBlock(d)
  PROVE  /\ SpaceInv(d2) /\ Grown(d, d2) /\ PlacesOf(d) \subseteq PlacesOf(d2)
         /\ d.size \in PlacesOf(d2) \ PlacesOf(d) /\ BlockOf(d.size) # 0
         /\ BlocksOf(d) \subseteq BlocksOf(d2)
         /\ \A b \in BlocksOf(d) : ListsIn(d2)[b] = ListsIn(d)[b] /\ b # BlockOf(d.size)
<1> DEFINE first == d.size
           last == d.size + B - 1
           n == Cardinality(BlocksOf(d))
           N == BlocksOf(d)
           zero == [e \in first .. last |-> 0]
           base1 == [e \in 0 .. last |-> IF e < first THEN d.base[e]
                       ELSE [x \in first .. last |-> IF x = first THEN -last ELSE 1 - x][e]]
           check1 == [e \in 0 .. last |-> IF e < first THEN d.check[e]
                        ELSE [x \in first .. last |-> IF x = last THEN -first ELSE -(x + 1)][e]]
           sibling1 == [e \in 0 .. last |-> IF e < first THEN d.sibling[e] ELSE zero[e]]
           child1 == [e \in 0 .. last |-> IF e < first THEN d.child[e] ELSE zero[e]]
           block1 == [b \in 0 .. n |-> IF b < n THEN d.block[b] ELSE NewBlock(first)]
           grown == [d EXCEPT !.base = base1, !.check = check1, !.sibling = sibling1,
                              !.child = child1, !.block = block1, !.size = last + 1]
           list == [b \in 0 .. n |-> IF b = n THEN "none" ELSE ListsIn(d)[b]]
<1>1. /\ ArrayType(d) /\ DOMAIN d = ArrayFields /\ d.block \in [N -> BlockType] /\ N \subseteq Nat
      /\ d.base \in [PlacesOf(d) -> Int] /\ d.check \in [PlacesOf(d) -> Int]
      /\ d.sibling \in [PlacesOf(d) -> Labels] /\ d.child \in [PlacesOf(d) -> Labels]
      /\ PlacesOf(d) = 0 .. first - 1 /\ first \in Nat /\ first > 0 /\ 0 \in N
      /\ first = B * n /\ n \in Nat /\ N = 0 .. n - 1
      /\ d.head \in [Lists -> N] /\ d.reject \in [0 .. B -> 0 .. B + 1]
      /\ \A bi \in N : /\ d.block[bi].prev \in N /\ d.block[bi].next \in N
                       /\ d.block[bi].ehead \in PlacesOf(d) /\ BlockOf(d.block[bi].ehead) = bi
  BY ArrayFacts DEF SpaceInv, ArrayType, PlacesOf
<1>2. BlockOf(first) = n /\ first \div B = n /\ n > 0
  <2>1. 0 \in Labels /\ n * B + 0 = first
    BY <1>1, BIsNat DEF Labels
  <2>2. BlockOf(n * B + 0) = n
    BY <1>1, <2>1, DivisionUnique
  <2>3. n > 0
    BY <1>1
  <2>4. QED
    BY <2>1, <2>2, <2>3 DEF BlockOf
<1>3. d2 = PushBlock(grown, n, "O", d.head["O"] = 0)
  <2>1. d2 = PushBlock(
        [d EXCEPT !.base = base1, !.check = check1, !.sibling = sibling1,
                  !.child = child1,
                  !.block = [b \in 0 .. first \div B |->
                          IF b < first \div B THEN d.block[b] ELSE NewBlock(first)],
                  !.size = last + 1], first \div B, "O", d.head["O"] = 0)
    BY DEF AddBlock
  <2> HIDE DEF first, n, last, base1, check1, sibling1, child1
  <2>2. QED
    BY <2>1, <1>2
<1>4. /\ DOMAIN grown = ArrayFields /\ grown.base = base1 /\ grown.check = check1
      /\ grown.sibling = sibling1 /\ grown.child = child1 /\ grown.block = block1
      /\ grown.size = last + 1 /\ grown.head = d.head /\ grown.reject = d.reject
  <2>1. DOMAIN d = ArrayFields
    BY <1>1
  <2> HIDE DEF last, base1, check1, sibling1, child1, block1
  <2>2. QED
    BY <2>1 DEF ArrayFields
<1>5. /\ last \in Nat /\ first <= last /\ last + 1 = B * (n + 1) /\ last + 1 = first + B
      /\ PlacesOf(grown) = 0 .. last /\ BlocksOf(grown) = 0 .. n
  <2>1. last \in Nat /\ first <= last /\ last + 1 = first + B
    BY <1>1, BIsNat, SMTT(30)
  <2>2. last + 1 = B * (n + 1)
    BY <1>1, <2>1, BIsNat
  <2>3. PlacesOf(grown) = 0 .. last
    <3> HIDE DEF last, grown
    <3>1. QED
      BY <1>4, <2>1 DEF PlacesOf
  <2>4. BlocksOf(grown) = 0 .. n
    <3> HIDE DEF grown
    <3>1. QED
      BY <1>4 DEF BlocksOf
  <2>5. QED
    BY <2>1, <2>2, <2>3, <2>4
<1>6. /\ \A e \in PlacesOf(d) : /\ base1[e] = d.base[e] /\ check1[e] = d.check[e]
                                /\ sibling1[e] = d.sibling[e] /\ child1[e] = d.child[e]
      /\ \A e \in first .. last : /\ base1[e] = IF e = first THEN -last ELSE 1 - e
                                  /\ check1[e] = IF e = last THEN -first ELSE -(e + 1)
                                  /\ sibling1[e] = 0 /\ child1[e] = 0
  <2>1. first \in Nat /\ last \in Nat /\ first <= last /\ PlacesOf(d) = 0 .. first - 1
    BY <1>1, <1>5
  <2> HIDE DEF first, last
  <2>2. QED
    BY <2>1
<1>7. 0 .. last = PlacesOf(d) \cup (first .. last) /\ PlacesOf(d) \cap (first .. last) = {}
  <2>1. first \in Nat /\ last \in Nat /\ first <= last /\ PlacesOf(d) = 0 .. first - 1
    BY <1>1, <1>5
  <2> HIDE DEF first, last
  <2>2. QED
    BY <2>1
<1>8. /\ base1 \in [0 .. last -> Int] /\ check1 \in [0 .. last -> Int]
      /\ sibling1 \in [0 .. last -> Labels] /\ child1 \in [0 .. last -> Labels]
  <2>1. 0 \in Labels /\ first \in Nat /\ last \in Nat
    BY <1>1, <1>5, BIsNat DEF Labels
  <2>2. \A e \in 0 .. last : e \in PlacesOf(d) \/ e \in first .. last
    BY <1>7
  <2>3. /\ DOMAIN base1 = 0 .. last /\ DOMAIN check1 = 0 .. last
        /\ DOMAIN sibling1 = 0 .. last /\ DOMAIN child1 = 0 .. last
        /\ base1 = [e \in 0 .. last |-> base1[e]] /\ check1 = [e \in 0 .. last |-> check1[e]]
        /\ sibling1 = [e \in 0 .. last |-> sibling1[e]] /\ child1 = [e \in 0 .. last |-> child1[e]]
    OBVIOUS
  <2> HIDE DEF first, last, base1, check1, sibling1, child1
  <2>4. \A e \in 0 .. last : base1[e] \in Int /\ check1[e] \in Int
    <3>1. \A e \in first .. last : /\ -last \in Int /\ 1 - e \in Int /\ -first \in Int
                                   /\ -(e + 1) \in Int
      BY <2>1
    <3>2. \A e \in first .. last : base1[e] \in Int /\ check1[e] \in Int
      BY <1>6, <3>1
    <3>3. \A e \in PlacesOf(d) : base1[e] \in Int /\ check1[e] \in Int
      BY <1>1, <1>6
    <3>4. QED
      BY <2>2, <3>2, <3>3
  <2>5. \A e \in 0 .. last : sibling1[e] \in Labels /\ child1[e] \in Labels
    BY <1>1, <1>6, <2>1, <2>2
  <2>6. QED
    BY <2>3, <2>4, <2>5
<1>9. /\ block1 \in [0 .. n -> BlockType] /\ 0 .. n = N \cup {n} /\ n \notin N
      /\ \A b \in N : block1[b] = d.block[b]
      /\ block1[n] = NewBlock(first)
  <2>1. n \in Nat /\ N = 0 .. n - 1
    BY <1>1
  <2>2. NewBlock(first) \in BlockType
    BY <1>1, BIsNat DEF NewBlock, BlockType, MaxTrial
  <2>3. 0 .. n = N \cup {n} /\ n \notin N
    <3> HIDE DEF N, n
    <3>1. QED
      BY <2>1
  <2>4. \A b \in 0 .. n : b < n <=> b \in N
    <3> HIDE DEF N, n
    <3>1. QED
      BY <2>1
  <2>5. /\ \A b \in N : block1[b] = d.block[b]
        /\ block1[n] = NewBlock(first) /\ \A b \in 0 .. n : block1[b] \in BlockType
    <3> HIDE DEF N, n, first
    <3>1. QED
      BY <1>1, <2>1, <2>2, <2>3, <2>4
  <2>6. block1 \in [0 .. n -> BlockType]
    <3>1. block1 = [b \in 0 .. n |-> block1[b]]
      OBVIOUS
    <3> HIDE DEF block1
    <3>2. QED
      BY <2>5, <3>1
  <2>7. QED
    BY <2>3, <2>5, <2>6
<1>10. ArrayType(grown)
  <2>1. \A b \in 0 .. n : /\ block1[b].prev \in 0 .. n /\ block1[b].next \in 0 .. n
                          /\ block1[b].ehead \in 0 .. last /\ BlockOf(block1[b].ehead) = b
    <3>1. \A b \in N : /\ block1[b].prev \in 0 .. n /\ block1[b].next \in 0 .. n
                       /\ block1[b].ehead \in 0 .. last /\ BlockOf(block1[b].ehead) = b
      <4> HIDE DEF block1, N, n, first, last
      <4>1. QED
        BY <1>1, <1>7, <1>9
    <3>2. /\ block1[n].prev \in 0 .. n /\ block1[n].next \in 0 .. n
          /\ block1[n].ehead \in 0 .. last /\ BlockOf(block1[n].ehead) = n
      <4>1. block1[n].prev = 0 /\ block1[n].next = 0 /\ block1[n].ehead = first
        <5>1. block1[n] = NewBlock(first)
          BY <1>9
        <5> HIDE DEF block1, first
        <5>2. QED
          BY <5>1 DEF NewBlock
      <4>2. first \in 0 .. last /\ 0 \in 0 .. n
        BY <1>1, <1>5
      <4> HIDE DEF block1, first, last, n
      <4>3. QED
        BY <1>2, <4>1, <4>2
    <3> HIDE DEF block1, n, N, last
    <3>3. QED
      BY <1>9, <3>1, <3>2
  <2>2. d.head \in [Lists -> 0 .. n]
    <3> HIDE DEF N, n
    <3>1. QED
      BY <1>1, <1>9
  <2>3. n + 1 \in Nat \ {0} /\ 0 .. n = 0 .. (n + 1) - 1
    <3>1. n \in Nat
      BY <1>1
    <3> HIDE DEF n
    <3>2. QED
      BY <3>1
  <2> HIDE DEF grown, block1, n, N, last, base1, check1, sibling1, child1
  <2>4. \E m \in Nat \ {0} : grown.size = B * m /\ grown.block \in [0 .. m - 1 -> BlockType]
    <3>1. grown.size = B * (n + 1) /\ grown.block \in [0 .. (n + 1) - 1 -> BlockType]
      BY <1>4, <1>5, <1>9, <2>3
    <3>2. QED
      BY <2>3, <3>1
  <2>5. QED
    BY <1>1, <1>4, <1>5, <1>8, <2>1, <2>2, <2>4 DEF ArrayType
<1>11. /\ ListsIn(d) \in [N -> Lists] /\ ListsIn(d)[0] = "F"
       /\ ListsType(grown, list) /\ list[n] = "none" /\ n \in BlocksOf(grown)
       /\ \A b \in N : list[b] = ListsIn(d)[b]
  <2>1. ListsIn(d) \in [N -> Lists] /\ ListsIn(d)[0] = "F"
    BY <1>1 DEF ListsIn, ListFor, Lists
  <2>2. n \in Nat /\ n # 0 /\ 0 \in N /\ 0 \in 0 .. n /\ n \in 0 .. n
    BY <1>1, <1>2
  <2> HIDE DEF grown, n, N
  <2>3. QED
    BY <1>5, <1>9, <2>1, <2>2 DEF ListsType
<1>12. \A l \in Lists : In(grown, list, l) = In(d, ListsIn(d), l) /\ "none" \notin Lists
  <2>1. BlocksOf(grown) = 0 .. n /\ N = BlocksOf(d)
    BY <1>5
  <2> HIDE DEF grown, n, N, list
  <2>2. QED
    BY <1>9, <1>11, <2>1 DEF In, Lists
<1>13. \A b \in N : /\ NextBlock(grown)[b] = NextBlock(d)[b] /\ PrevBlock(grown)[b] = PrevBlock(d)[b]
  <2>1. BlocksOf(grown) = 0 .. n /\ N = BlocksOf(d) /\ grown.block = block1
    BY <1>4, <1>5
  <2> HIDE DEF grown, n, N, list, block1
  <2>2. QED
    BY <1>9, <2>1 DEF NextBlock, PrevBlock
<1>14. Listed(grown, list)
  <2>1. SUFFICES ASSUME NEW l \in Lists
                 PROVE  IF In(grown, list, l) = {} THEN grown.head[l] = 0
                        ELSE /\ grown.head[l] \in In(grown, list, l)
                             /\ Cycle(In(grown, list, l), NextBlock(grown), PrevBlock(grown))
    <3> HIDE DEF grown, list
    <3>1. QED
      BY DEF Listed, In
  <2>2. /\ In(grown, list, l) = In(d, ListsIn(d), l) /\ grown.head = d.head
        /\ In(d, ListsIn(d), l) \subseteq N
    BY <1>4, <1>12 DEF In
  <2>3. IF In(d, ListsIn(d), l) = {} THEN d.head[l] = 0
        ELSE /\ d.head[l] \in In(d, ListsIn(d), l)
             /\ Cycle(In(d, ListsIn(d), l), NextBlock(d), PrevBlock(d))
    BY DEF SpaceInv, Listed, In
  <2> HIDE DEF grown, list, N
  <2>4. CASE In(d, ListsIn(d), l) = {}
    BY <2>2, <2>3, <2>4
  <2>5. CASE In(d, ListsIn(d), l) # {}
    <3>1. \A b \in In(d, ListsIn(d), l) : /\ NextBlock(grown)[b] = NextBlock(d)[b]
                                          /\ PrevBlock(grown)[b] = PrevBlock(d)[b]
      BY <1>13, <2>2
    <3>2. QED
      BY <2>2, <2>3, <2>5, <3>1, CycleSame
  <2>6. QED
    BY <2>4, <2>5
<1>15. d.head["O"] = 0 <=> In(grown, list, "O") = {}
  <2>1. "O" \in Lists /\ "O" # "F"
    BY DEF Lists
  <2>2. IF In(d, ListsIn(d), "O") = {} THEN d.head["O"] = 0 ELSE d.head["O"] \in In(d, ListsIn(d), "O")
    BY <2>1 DEF SpaceInv, Listed, In
  <2>3. 0 \notin In(d, ListsIn(d), "O")
    BY <1>11, <2>1 DEF In
  <2>4. In(grown, list, "O") = In(d, ListsIn(d), "O")
    BY <1>12, <2>1
  <2> HIDE DEF grown, list
  <2>5. QED
    BY <2>2, <2>3, <2>4
<1>16. ArrayType(d2) /\ SameButLinks(grown, d2) /\ Listed(d2, With(list, n, "O"))
  <2>1. "O" \in Lists /\ n # 0 /\ n \in BlocksOf(grown)
    BY <1>2, <1>11 DEF Lists
  <2> DEFINE empty == d.head["O"] = 0
  <2>2. /\ d2 = PushBlock(grown, n, "O", empty) /\ (empty <=> In(grown, list, "O") = {})
        /\ ArrayType(grown) /\ ListsType(grown, list) /\ Listed(grown, list) /\ list[n] = "none"
    BY <1>3, <1>10, <1>11, <1>14, <1>15
  <2> HIDE DEF grown, list, n, empty
  <2>3. QED
    BY <2>1, <2>2, PushBlockLists
<1>17. /\ BlocksOf(d2) = 0 .. n /\ d2.base = base1 /\ d2.check = check1 /\ d2.sibling = sibling1
       /\ d2.child = child1 /\ d2.size = last + 1 /\ PlacesOf(d2) = 0 .. last
       /\ \A b \in N : /\ d2.block[b].num = d.block[b].num /\ d2.block[b].ehead = d.block[b].ehead
                       /\ d2.block[b].trial = d.block[b].trial
       /\ d2.block[n].num = B /\ d2.block[n].trial = 0 /\ d2.block[n].ehead = first
  <2>1. BlocksOf(grown) = 0 .. n /\ PlacesOf(grown) = 0 .. last
    BY <1>5
  <2>2. block1[n].num = B /\ block1[n].trial = 0 /\ block1[n].ehead = first
    <3>1. block1[n] = NewBlock(first)
      BY <1>9
    <3> HIDE DEF block1, first
    <3>2. QED
      BY <3>1 DEF NewBlock
  <2>3. n \in BlocksOf(grown)
    BY <1>11
  <2> HIDE DEF grown, list, n, N, block1, base1, check1, sibling1, child1, first, last
  <2>4. BlocksOf(d2) = 0 .. n /\ PlacesOf(d2) = 0 .. last
    BY <1>16, <2>1 DEF SameButLinks, PlacesOf
  <2>5. QED
    BY <1>4, <1>9, <1>16, <2>1, <2>2, <2>3, <2>4 DEF SameButLinks
<1>18. With(list, n, "O") = ListsIn(d2) /\ \A b \in N : ListsIn(d2)[b] = ListsIn(d)[b]
  <2>1. ListsIn(d) = [b \in N |-> ListFor(b, d.block[b].num, d.block[b].trial)]
    BY DEF ListsIn
  <2>2. With(list, n, "O") = [b \in 0 .. n |-> IF b = n THEN "O" ELSE list[b]]
    BY DEF With
  <2>3. ListsIn(d2) = [b \in 0 .. n |-> ListFor(b, d2.block[b].num, d2.block[b].trial)]
    BY <1>17 DEF ListsIn
  <2>4. ListFor(n, B, 0) = "O"
    BY <1>2, BIsNat DEF ListFor, MaxTrial
  <2> HIDE DEF list, n, N, base1, check1, sibling1, child1, first, last
  <2>5. \A b \in 0 .. n : ListFor(b, d2.block[b].num, d2.block[b].trial)
                            = IF b = n THEN "O" ELSE list[b]
    BY <1>9, <1>11, <1>17, <2>1, <2>4
  <2>6. \A b \in N : ListsIn(d2)[b] = ListsIn(d)[b]
    BY <1>9, <1>17, <2>1, <2>3
  <2>7. QED
    BY <2>2, <2>3, <2>5, <2>6
<1>19. \A e \in PlacesOf(d2) : NextEmpty(d2)[e] = -d2.check[e] /\ PrevEmpty(d2)[e] = -d2.base[e]
  BY DEF NextEmpty, PrevEmpty
<1>20. \A e \in PlacesOf(d) : NextEmpty(d)[e] = -d.check[e] /\ PrevEmpty(d)[e] = -d.base[e]
  BY DEF NextEmpty, PrevEmpty
<1>21. /\ \A e \in PlacesOf(d) : /\ d2.base[e] = d.base[e] /\ d2.check[e] = d.check[e]
                                 /\ d2.sibling[e] = d.sibling[e] /\ d2.child[e] = d.child[e]
       /\ \A e \in first .. last : /\ d2.base[e] = IF e = first THEN -last ELSE 1 - e
                                   /\ d2.check[e] = IF e = last THEN -first ELSE -(e + 1)
                                   /\ d2.sibling[e] = 0 /\ d2.child[e] = 0
                                   /\ d2.check[e] < 0
  <2>1. first \in Nat /\ first > 0
    BY <1>1
  <2> HIDE DEF first, last, base1, check1, sibling1, child1
  <2>2. QED
    BY <1>6, <1>17, <2>1
<1>22. ASSUME NEW b \in N PROVE RingIn(d2, b)
  <2>1. RingIn(d, b) /\ EmptyIn(d, b) \subseteq PlacesOf(d)
    BY DEF SpaceInv, EmptyIn
  <2>2. EmptyIn(d2, b) = EmptyIn(d, b)
    <3>1. \A e \in PlacesOf(d2) : BlockOf(e) = b => e \in PlacesOf(d)
      <4>1. \A e \in Nat : e \in PlacesOf(d) <=> BlockOf(e) \in N
        BY <1>1, ArrayFacts
      <4>2. PlacesOf(d2) \subseteq Nat
        BY <1>16, ArrayFacts
      <4> HIDE DEF N
      <4>3. QED
        BY <4>1, <4>2
    <3>2. PlacesOf(d) \subseteq PlacesOf(d2)
      BY <1>7, <1>17
    <3> HIDE DEF first, last, N
    <3>3. QED
      BY <1>21, <3>1, <3>2 DEF EmptyIn
  <2>3. \A e \in EmptyIn(d, b) : NextEmpty(d2)[e] = NextEmpty(d)[e] /\ PrevEmpty(d2)[e] = PrevEmpty(d)[e]
    <3>1. \A e \in EmptyIn(d, b) : e \in PlacesOf(d) /\ e \in PlacesOf(d2)
      BY <1>7, <1>17, <2>1
    <3> HIDE DEF first, last, N
    <3>2. QED
      BY <1>19, <1>20, <1>21, <3>1
  <2>4. d2.block[b].num = d.block[b].num /\ d2.block[b].ehead = d.block[b].ehead
    BY <1>17
  <2> HIDE DEF N
  <2>5. QED
    BY <2>1, <2>2, <2>3, <2>4, CycleSame DEF RingIn
<1>23. RingIn(d2, n)
  <2>1. EmptyIn(d2, n) = first .. last
    <3>1. \A e \in Nat : e \in n * B .. n * B + B - 1 <=> BlockOf(e) = n
      BY <1>1, BlockRange
    <3>2. n * B = first /\ n * B + B - 1 = last /\ first > 0 /\ first \in Nat /\ last \in Nat
      BY <1>1, <1>5, BIsNat, SMTT(30)
    <3>3. PlacesOf(d2) = 0 .. last
      BY <1>17
    <3> HIDE DEF first, last, n
    <3>4. \A e \in first .. last : e \in PlacesOf(d2) /\ e \in Nat /\ e # 0
      BY <3>2, <3>3
    <3>5. \A e \in PlacesOf(d2) : e \in Nat
      BY <3>2, <3>3
    <3>6. QED
      BY <1>21, <3>1, <3>2, <3>4, <3>5 DEF EmptyIn
  <2>2. Cardinality(first .. last) = B
    <3>1. first \in Int /\ last \in Int /\ ~ first > last /\ last - first + 1 = B
      BY <1>1, <1>5, BIsNat, SMTT(30)
    <3> HIDE DEF first, last
    <3>2. Cardinality(first .. last) = IF first > last THEN 0 ELSE last - first + 1
      BY <3>1, FS_Interval
    <3>3. QED
      BY <3>1, <3>2
  <2>3. Cycle(first .. last, NextEmpty(d2), PrevEmpty(d2))
    <3>1. first \in Nat /\ last \in Nat /\ first <= last /\ first .. last \subseteq PlacesOf(d2)
      BY <1>1, <1>5, <1>7, <1>17
    <3> HIDE DEF first, last
    <3>2. \A e \in first .. last : /\ NextEmpty(d2)[e] = IF e = last THEN first ELSE e + 1
                                   /\ PrevEmpty(d2)[e] = IF e = first THEN last ELSE e - 1
      <4>1. \A e \in first .. last : /\ -(-first) = first /\ -(-(e + 1)) = e + 1
                                     /\ -(-last) = last /\ -(1 - e) = e - 1
        BY <3>1
      <4>2. \A e \in first .. last : /\ NextEmpty(d2)[e] = -d2.check[e]
                                     /\ PrevEmpty(d2)[e] = -d2.base[e]
        BY <1>19, <3>1
      <4>3. QED
        BY <1>21, <4>1, <4>2
    <3>3. QED
      BY <3>1, <3>2, CycleInterval
  <2>4. /\ d2.block[n].num = B /\ d2.block[n].ehead = first /\ first \in first .. last
        /\ n # 0 /\ B + 0 = B
    <3>1. d2.block[n].num = B /\ d2.block[n].ehead = first
      BY <1>17
    <3>2. first \in Nat /\ last \in Nat /\ first <= last /\ n > 0
      BY <1>1, <1>2, <1>5
    <3> HIDE DEF first, last, n
    <3>3. first \in first .. last /\ n # 0 /\ B + 0 = B
      BY <3>2, BIsNat
    <3>4. QED
      BY <3>1, <3>3
  <2> HIDE DEF first, last, n
  <2>5. QED
    BY <2>1, <2>2, <2>3, <2>4 DEF RingIn
<1>24. SpaceInv(d2)
  <2>1. Listed(d2, ListsIn(d2)) /\ ArrayType(d2)
    BY <1>16, <1>18
  <2>2. \A b \in BlocksOf(d2) : b \in N \/ b = n
    BY <1>9, <1>17
  <2> HIDE DEF N, n
  <2>3. QED
    BY <1>22, <1>23, <2>1, <2>2 DEF SpaceInv
<1>25. Grown(d, d2)
  <2>1. d2.size = d.size + B /\ \A e \in PlacesOf(d2) \ PlacesOf(d) : e \in first .. last
    <3>1. PlacesOf(d2) = PlacesOf(d) \cup (first .. last)
      BY <1>7, <1>17
    <3>2. d2.size = d.size + B
      BY <1>5, <1>17
    <3> HIDE DEF first, last
    <3>3. QED
      BY <3>1, <3>2
  <2> HIDE DEF first, last
  <2>2. QED
    BY <1>21, <2>1 DEF Grown
<1>26. /\ PlacesOf(d) \subseteq PlacesOf(d2) /\ d.size \in PlacesOf(d2) \ PlacesOf(d)
       /\ BlockOf(d.size) # 0 /\ BlocksOf(d) \subseteq BlocksOf(d2)
       /\ \A b \in BlocksOf(d) : b # BlockOf(d.size)
  <2>1. /\ PlacesOf(d2) = PlacesOf(d) \cup (first .. last) /\ first \in first .. last
        /\ PlacesOf(d) \cap (first .. last) = {} /\ BlocksOf(d2) = N \cup {n} /\ n \notin N
    BY <1>1, <1>5, <1>7, <1>9, <1>17
  <2>2. d.size = first /\ BlockOf(first) = n /\ n # 0 /\ N = BlocksOf(d)
    BY <1>2
  <2> HIDE DEF first, last, N, n
  <2>3. QED
    BY <2>1, <2>2
<1>27. QED
  BY <1>18, <1>24, <1>25, <1>26

-----------------------------------------------------------------------------
(* Changes that leave the empty nodes alone *)

LEMMA TouchSpace ==
  ASSUME NEW d, SpaceInv(d), NEW d2,
         DOMAIN d2 = ArrayFields, d2.size = d.size, d2.head = d.head, d2.block = d.block,
         d2.reject = d.reject,
         d2.base \in [PlacesOf(d) -> Int], d2.check \in [PlacesOf(d) -> Int],
         d2.sibling \in [PlacesOf(d) -> Labels], d2.child \in [PlacesOf(d) -> Labels],
         \A e \in PlacesOf(d) \ Used(d) : d2.base[e] = d.base[e] /\ d2.check[e] = d.check[e],
         \A e \in Used(d) \ {0} : d2.check[e] >= 0
  PROVE  /\ SpaceInv(d2) /\ Used(d2) = Used(d) /\ PlacesOf(d2) = PlacesOf(d)
         /\ BlocksOf(d2) = BlocksOf(d) /\ ListsIn(d2) = ListsIn(d)
<1>1. ArrayType(d) /\ d.check \in [PlacesOf(d) -> Int] /\ PlacesOf(d) \subseteq Nat
  BY ArrayFacts DEF SpaceInv, ArrayType
<1>2. DataChange(d, d2)
  BY <1>1, ArrayFacts DEF DataChange, ArrayType
<1>3. ArrayType(d2) /\ BlocksOf(d2) = BlocksOf(d) /\ PlacesOf(d2) = PlacesOf(d)
  BY <1>1, <1>2, DataType
<1>4. ListsIn(d2) = ListsIn(d)
  BY <1>3 DEF ListsIn
<1>5. Listed(d2, ListsIn(d2))
  BY <1>1, <1>2, <1>4, DataType DEF SpaceInv
<1>6. \A e \in PlacesOf(d) \ {0} : d2.check[e] < 0 <=> d.check[e] < 0
  <2>1. \A e \in PlacesOf(d) \ {0} : e \in Used(d) <=> d.check[e] >= 0
    BY DEF Used
  <2>2. \A x \in Int : x >= 0 <=> ~ x < 0
    OBVIOUS
  <2>3. \A e \in PlacesOf(d) : d.check[e] \in Int /\ d2.check[e] \in Int
    BY <1>1
  <2>4. QED
    BY <2>1, <2>2, <2>3
<1>7. \A b : EmptyIn(d2, b) = EmptyIn(d, b)
  BY <1>3, <1>6 DEF EmptyIn
<1>8. \A e \in PlacesOf(d) \ Used(d) : /\ NextEmpty(d2)[e] = NextEmpty(d)[e]
                                       /\ PrevEmpty(d2)[e] = PrevEmpty(d)[e]
  BY <1>3 DEF NextEmpty, PrevEmpty
<1>9. ASSUME NEW b \in BlocksOf(d) PROVE RingIn(d2, b)
  <2>1. RingIn(d, b)
    BY DEF SpaceInv
  <2>2. \A e \in EmptyIn(d, b) : e \in PlacesOf(d) \ Used(d)
    BY <1>1 DEF EmptyIn, Used
  <2>3. QED
    BY <1>7, <1>8, <2>1, <2>2, CycleSame DEF RingIn
<1>10. SpaceInv(d2)
  BY <1>3, <1>5, <1>9 DEF SpaceInv
<1>11. Used(d2) = Used(d)
  <2>1. \A x \in Int : x >= 0 <=> ~ x < 0
    OBVIOUS
  <2>2. \A e \in PlacesOf(d) : d.check[e] \in Int /\ d2.check[e] \in Int
    BY <1>1
  <2>3. QED
    BY <1>3, <1>6, <2>1, <2>2 DEF Used
<1>12. QED
  BY <1>3, <1>4, <1>10, <1>11

\* The nodes are what and where they were; there may be more that are empty.
Kept(d, d2) ==
  /\ PlacesOf(d) \subseteq PlacesOf(d2) /\ Used(d2) = Used(d)
  /\ \A e \in PlacesOf(d) : /\ d2.check[e] < 0 <=> d.check[e] < 0
                            /\ d2.sibling[e] = d.sibling[e] /\ d2.child[e] = d.child[e]
  /\ \A n \in Used(d) : d2.base[n] = d.base[n] /\ d2.check[n] = d.check[n]
  /\ \A e \in PlacesOf(d2) \ PlacesOf(d) : d2.check[e] < 0 /\ d2.child[e] = 0

LEMMA AddBlockKeeps ==
  ASSUME NEW d, SpaceInv(d), NEW d2, d2 = AddBlock(d)
  PROVE  Kept(d, d2)
<1>1. Grown(d, d2) /\ PlacesOf(d) \subseteq PlacesOf(d2) /\ SpaceInv(d2)
  BY AddBlockSpace
<1>2. Used(d2) = Used(d)
  <2>1. \A e \in PlacesOf(d2) \ PlacesOf(d) : ~ d2.check[e] >= 0
    <3>1. d2.check \in [PlacesOf(d2) -> Int]
      BY <1>1 DEF SpaceInv, ArrayType
    <3>2. QED
      BY <1>1, <3>1 DEF Grown
  <2>2. \A e \in PlacesOf(d) : d2.check[e] = d.check[e]
    BY <1>1 DEF Grown
  <2>3. QED
    BY <1>1, <2>1, <2>2 DEF Used
<1>3. Used(d) \subseteq PlacesOf(d)
  BY ArrayFacts DEF Used, SpaceInv
<1>4. QED
  BY <1>1, <1>2, <1>3 DEF Kept, Grown

\* A place to begin a new ring of siblings is empty and in no way the root's.
LEMMA FindPlaceSpace ==
  ASSUME NEW d, SpaceInv(d), NEW p, p = FindPlace(d)
  PROVE  /\ SpaceInv(p.da) /\ Kept(d, p.da)
         /\ p.e \in PlacesOf(p.da) /\ p.da.check[p.e] < 0 /\ BlockOf(p.e) # 0 /\ p.e # 0
<1>1. /\ ArrayType(d) /\ \A b \in BlocksOf(d) : RingIn(d, b)
      /\ PlacesOf(d) \subseteq Nat /\ d.check \in [PlacesOf(d) -> Int]
  BY ArrayFacts DEF SpaceInv, ArrayType
<1>2. ASSUME NEW l \in {"C", "O"}, d.head[l] # 0
      PROVE  /\ d.block[d.head[l]].ehead \in PlacesOf(d) /\ d.check[d.block[d.head[l]].ehead] < 0
             /\ BlockOf(d.block[d.head[l]].ehead) # 0
  <2> DEFINE b == d.head[l]
  <2>1. b \in In(d, ListsIn(d), l)
    BY <1>2 DEF SpaceInv, Listed, In, Lists
  <2>2. b \in BlocksOf(d) /\ ListsIn(d)[b] = l
    BY <2>1 DEF In
  <2>3. l # "F" /\ ListsIn(d)[b] = ListFor(b, d.block[b].num, d.block[b].trial)
    BY <2>2 DEF ListsIn
  <2>4. b # 0 /\ d.block[b].num # 0
    BY <2>2, <2>3 DEF ListFor
  <2>5. RingIn(d, b) /\ Cardinality(EmptyIn(d, b)) \in Nat
    BY <1>1, <2>2, RingFacts
  <2> HIDE DEF b
  <2>6. EmptyIn(d, b) # {}
    <3>1. d.block[b].num = Cardinality(EmptyIn(d, b)) + 0
      BY <2>4, <2>5 DEF RingIn
    <3>2. Cardinality(EmptyIn(d, b)) # 0
      BY <2>4, <2>5, <3>1
    <3>3. QED
      BY <3>2, FS_EmptySet
  <2>7. d.block[b].ehead \in EmptyIn(d, b)
    BY <2>5, <2>6 DEF RingIn
  <2>8. d.block[b].ehead \in PlacesOf(d) /\ d.check[d.block[b].ehead] < 0
        /\ BlockOf(d.block[b].ehead) # 0
    BY <2>4, <2>7 DEF EmptyIn
  <2>9. QED
    BY <2>8 DEF b
<1>3. Kept(d, d)
  BY <1>1 DEF Kept
<1>4. CASE d.head["C"] # 0
  <2>1. p = [da |-> d, e |-> d.block[d.head["C"]].ehead]
    BY <1>4 DEF FindPlace
  <2>2. QED
    BY <1>2, <1>3, <1>4, <2>1, RootBlock
<1>5. CASE d.head["C"] = 0 /\ d.head["O"] # 0
  <2>1. p = [da |-> d, e |-> d.block[d.head["O"]].ehead]
    BY <1>5 DEF FindPlace
  <2>2. QED
    BY <1>2, <1>3, <1>5, <2>1, RootBlock
<1>6. CASE d.head["C"] = 0 /\ d.head["O"] = 0
  <2>1. p = [da |-> AddBlock(d), e |-> d.size]
    BY <1>6 DEF FindPlace
  <2> DEFINE d2 == AddBlock(d)
  <2>2. p.da = d2 /\ p.e = d.size
    BY <2>1
  <2>3. /\ SpaceInv(d2) /\ Kept(d, d2) /\ Grown(d, d2)
        /\ d.size \in PlacesOf(d2) \ PlacesOf(d) /\ BlockOf(d.size) # 0
    BY AddBlockSpace, AddBlockKeeps
  <2> HIDE DEF d2
  <2>4. QED
    BY <2>2, <2>3, RootBlock DEF Grown
<1>7. QED
  BY <1>4, <1>5, <1>6

\* The ring of a block may begin anywhere.
LEMMA EheadSpace ==
  ASSUME NEW d, SpaceInv(d), NEW bi \in BlocksOf(d), NEW r \in EmptyIn(d, bi),
         NEW d2, d2 = [d EXCEPT !.block[bi].ehead = r]
  PROVE  SpaceInv(d2) /\ Kept(d, d2) /\ PlacesOf(d2) = PlacesOf(d) /\ d2.check = d.check
<1> DEFINE N == BlocksOf(d)
<1>1. /\ ArrayType(d) /\ DOMAIN d = ArrayFields /\ d.block \in [N -> BlockType] /\ N \subseteq Nat
      /\ PlacesOf(d) \subseteq Nat /\ 0 \in PlacesOf(d)
  BY ArrayFacts DEF SpaceInv, ArrayType
<1>2. r \in PlacesOf(d) /\ BlockOf(r) = bi /\ r \in Nat
  BY <1>1 DEF EmptyIn
<1>3. /\ DOMAIN d2 = ArrayFields /\ d2.base = d.base /\ d2.check = d.check
      /\ d2.sibling = d.sibling /\ d2.child = d.child /\ d2.size = d.size /\ d2.head = d.head
      /\ d2.reject = d.reject /\ d2.block = EheadSet(d.block, bi, r)
  BY <1>1 DEF ArrayFields, EheadSet
<1>4. DataSet(N, d.block, d2.block, bi, d.block[bi].num, d.block[bi].reject, d.block[bi].trial, r)
  BY <1>1, <1>2, <1>3, DataOne
<1>5. /\ d2.block \in [N -> BlockType]
      /\ \A x \in N : /\ d2.block[x].next = d.block[x].next /\ d2.block[x].prev = d.block[x].prev
                      /\ d2.block[x].num = d.block[x].num /\ d2.block[x].trial = d.block[x].trial
                      /\ d2.block[x].ehead = IF x = bi THEN r ELSE d.block[x].ehead
  BY <1>4 DEF DataSet
<1>6. DataChange(d, d2)
  <2>1. \A x \in N : d2.block[x].ehead \in PlacesOf(d) /\ BlockOf(d2.block[x].ehead) = x
    BY <1>1, <1>2, <1>5 DEF ArrayType
  <2>2. QED
    BY <1>1, <1>3, <1>5, <2>1 DEF DataChange, ArrayType
<1>7. ArrayType(d2) /\ BlocksOf(d2) = N /\ PlacesOf(d2) = PlacesOf(d) /\ Listed(d2, ListsIn(d))
  BY <1>1, <1>6, DataType DEF SpaceInv
<1>8. ListsIn(d2) = ListsIn(d)
  BY <1>5, <1>7 DEF ListsIn
<1>9. /\ \A b : EmptyIn(d2, b) = EmptyIn(d, b)
      /\ NextEmpty(d2) = NextEmpty(d) /\ PrevEmpty(d2) = PrevEmpty(d) /\ Used(d2) = Used(d)
  BY <1>3, <1>7 DEF EmptyIn, NextEmpty, PrevEmpty, Used
<1>10. ASSUME NEW b \in N PROVE RingIn(d2, b)
  <2>1. RingIn(d, b)
    BY DEF SpaceInv
  <2>2. QED
    BY <1>5, <1>9, <2>1 DEF RingIn
<1>11. QED
  BY <1>3, <1>7, <1>8, <1>9, <1>10 DEF SpaceInv, Kept

LEMMA MinOfTwo ==
  ASSUME NEW a \in Int, NEW b \in Int
  PROVE  Min({a, b}) \in {a, b}
<1>1. \E x \in {a, b} : \A y \in {a, b} : y >= x
  BY SMT
<1>2. QED
  BY <1>1, Zenon DEF Min

\* An open block in which there was no room for labels is closed.
Tried(d, bi, nc) ==
  [d EXCEPT !.block[bi].reject = nc, !.block[bi].trial = @ + 1,
            !.reject[d.block[bi].num] = Min({@, nc})]

Failed(d, bi, nc) ==
  IF d.block[bi].trial + 1 = MaxTrial THEN TransferBlock(Tried(d, bi, nc), bi, "O", "C")
  ELSE Tried(d, bi, nc)

LEMMA TriedSpace ==
  ASSUME NEW d, SpaceInv(d), NEW bi \in BlocksOf(d), ListsIn(d)[bi] = "O", NEW nc \in 0 .. B,
         NEW d2, d2 = Failed(d, bi, nc)
  PROVE  /\ SpaceInv(d2) /\ Kept(d, d2) /\ PlacesOf(d2) = PlacesOf(d) /\ BlocksOf(d2) = BlocksOf(d)
         /\ \A b \in BlocksOf(d) \ {bi} : ListsIn(d2)[b] = ListsIn(d)[b]
         /\ d.block[bi].next # bi =>
              \A b \in BlocksOf(d) : ListsIn(d)[b] = "O" /\ b # bi /\ d.block[b].next # bi =>
                d2.block[b].next = d.block[b].next
<1> DEFINE tried == Tried(d, bi, nc)
           N == BlocksOf(d)
           trial == d.block[bi].trial
           num == d.block[bi].num
           L == ListsIn(d)
<1>1. /\ ArrayType(d) /\ DOMAIN d = ArrayFields /\ d.block \in [N -> BlockType] /\ N \subseteq Nat
      /\ PlacesOf(d) \subseteq Nat /\ 0 \in PlacesOf(d) /\ d.reject \in [0 .. B -> 0 .. B + 1]
      /\ 0 \in N
  BY ArrayFacts DEF SpaceInv, ArrayType
<1>2. /\ bi # 0 /\ trial = 0 /\ num # 0 /\ num # 1 /\ num \in 0 .. B
      /\ L = [b \in N |-> ListFor(b, d.block[b].num, d.block[b].trial)]
  <2>1. L = [b \in N |-> ListFor(b, d.block[b].num, d.block[b].trial)]
    BY DEF ListsIn
  <2>2. ListFor(bi, num, trial) = "O"
    BY <2>1
  <2>3. num \in 0 .. B /\ trial \in 0 .. MaxTrial
    BY <1>1 DEF BlockType
  <2> HIDE DEF N, trial, num, L
  <2>4. QED
    BY <2>1, <2>2, <2>3 DEF ListFor, MaxTrial
<1>3. /\ DOMAIN tried = ArrayFields /\ tried.base = d.base /\ tried.check = d.check
      /\ tried.sibling = d.sibling /\ tried.child = d.child /\ tried.size = d.size
      /\ tried.head = d.head
      /\ tried.reject = [d.reject EXCEPT ![num] = Min({d.reject[num], nc})]
      /\ tried.block = TrialSet(RejectSet(d.block, bi, nc), bi, trial + 1)
  <2>1. tried = [d EXCEPT !.block = TrialSet(RejectSet(d.block, bi, nc), bi, trial + 1),
                          !.reject = [d.reject EXCEPT ![num] = Min({d.reject[num], nc})]]
    BY <1>1 DEF TrialSet, RejectSet, ArrayFields, Tried
  <2> HIDE DEF num, trial, tried
  <2>2. QED
    BY <1>1, <2>1 DEF ArrayFields
<1> HIDE DEF tried
<1>4. trial + 1 = 1 /\ 1 \in 0 .. MaxTrial /\ nc \in 0 .. B + 1
  BY <1>2, BIsNat DEF MaxTrial
<1>5. DataSet(N, d.block, RejectSet(d.block, bi, nc), bi, num, nc, trial, d.block[bi].ehead)
  BY <1>1, <1>4, DataOne
<1>6. DataSet(N, d.block, tried.block, bi, num, nc, 1, d.block[bi].ehead)
  <2> DEFINE f == RejectSet(d.block, bi, nc)
  <2>1. f \in [N -> BlockType] /\ f[bi].num = num /\ f[bi].reject = nc /\ f[bi].ehead = d.block[bi].ehead
    BY <1>5 DEF DataSet
  <2>2. tried.block = TrialSet(f, bi, 1)
    BY <1>3, <1>4
  <2> HIDE DEF f
  <2>3. DataSet(N, f, TrialSet(f, bi, 1), bi, f[bi].num, f[bi].reject, 1, f[bi].ehead)
    BY <1>1, <1>4, <2>1, DataOne
  <2>4. DataSet(N, f, tried.block, bi, num, nc, 1, d.block[bi].ehead)
    BY <2>1, <2>2, <2>3
  <2>5. DataSet(N, d.block, f, bi, num, nc, trial, d.block[bi].ehead)
    BY <1>5 DEF f
  <2> HIDE DEF N, num, trial
  <2>6. QED
    BY <2>4, <2>5 DEF DataSet
<1>7. /\ tried.block \in [N -> BlockType]
      /\ \A x \in N : /\ tried.block[x].next = d.block[x].next /\ tried.block[x].prev = d.block[x].prev
                      /\ tried.block[x].num = d.block[x].num /\ tried.block[x].ehead = d.block[x].ehead
                      /\ tried.block[x].trial = IF x = bi THEN 1 ELSE d.block[x].trial
  BY <1>6 DEF DataSet
<1>8. tried.reject \in [0 .. B -> 0 .. B + 1]
  <2>1. d.reject[num] \in 0 .. B + 1
    BY <1>1, <1>2
  <2>2. ASSUME NEW x \in 0 .. B + 1, NEW y \in 0 .. B + 1 PROVE Min({x, y}) \in 0 .. B + 1
    <3>1. x \in Int /\ y \in Int
      BY BIsNat
    <3>2. Min({x, y}) \in {x, y}
      BY <3>1, MinOfTwo
    <3>3. QED
      BY <3>2
  <2>3. Min({d.reject[num], nc}) \in 0 .. B + 1
    BY <1>4, <2>1, <2>2
  <2>4. d.reject \in [0 .. B -> 0 .. B + 1]
        /\ tried.reject = [d.reject EXCEPT ![num] = Min({d.reject[num], nc})]
    BY <1>1, <1>3
  <2> HIDE DEF num
  <2>5. QED
    BY <2>3, <2>4
<1>9. ArrayType(tried) /\ BlocksOf(tried) = N /\ PlacesOf(tried) = PlacesOf(d) /\ Listed(tried, L)
  <2>1. DataChange(d, tried)
    BY <1>1, <1>3, <1>7, <1>8 DEF DataChange, ArrayType
  <2>2. QED
    BY <1>1, <2>1, DataType DEF SpaceInv
<1>10. /\ ArrayType(d2) /\ SameButLinks(tried, d2) /\ Listed(d2, With(L, bi, "C"))
       /\ d2 = TransferBlock(tried, bi, "O", "C") /\ ListsType(tried, L)
       /\ bi \in BlocksOf(tried) /\ L[bi] = "O" /\ tried.block[bi].num # 0
  <2>1. d2 = TransferBlock(tried, bi, "O", "C")
    <3>1. trial = 0 /\ 0 + 1 = MaxTrial
      BY <1>2 DEF MaxTrial
    <3>2. QED
      BY <3>1 DEF Failed, tried
  <2>2. ListsType(tried, L) /\ bi \in BlocksOf(tried) /\ "O" \in Lists /\ "C" \in Lists
        /\ "C" # "O" /\ "C" # "F" /\ L[bi] = "O" /\ tried.block[bi].num # 0
    <3>1. bi \in BlocksOf(tried) /\ tried.block[bi].num # 0 /\ L[bi] = "O" /\ 0 \in N
      BY <1>1, <1>2, <1>7, <1>9
    <3>2. L \in [N -> Lists] /\ L[0] = "F" /\ BlocksOf(tried) = N
      BY <1>1, <1>2, <1>9 DEF ListFor, Lists
    <3> HIDE DEF L, N
    <3>3. QED
      BY <3>1, <3>2 DEF ListsType, Lists
  <2>3. bi # 0 /\ ArrayType(tried) /\ Listed(tried, L)
    BY <1>2, <1>9
  <2> HIDE DEF L
  <2>4. QED
    BY <2>1, <2>2, <2>3, TransferBlockLists
<1>11. /\ BlocksOf(d2) = N /\ PlacesOf(d2) = PlacesOf(d) /\ d2.base = d.base /\ d2.check = d.check
       /\ d2.sibling = d.sibling /\ d2.child = d.child
       /\ \A x \in N : /\ d2.block[x].num = d.block[x].num /\ d2.block[x].ehead = d.block[x].ehead
                       /\ d2.block[x].trial = IF x = bi THEN 1 ELSE d.block[x].trial
  <2>1. SameButLinks(tried, d2)
    BY <1>10
  <2>2. BlocksOf(tried) = N /\ PlacesOf(tried) = PlacesOf(d)
    BY <1>9
  <2> HIDE DEF N
  <2>3. BlocksOf(d2) = N /\ PlacesOf(d2) = PlacesOf(d)
    BY <2>1, <2>2 DEF SameButLinks, PlacesOf
  <2>4. \A x \in N : /\ d2.block[x].num = tried.block[x].num /\ d2.block[x].ehead = tried.block[x].ehead
                     /\ d2.block[x].trial = tried.block[x].trial
    BY <2>1, <2>2 DEF SameButLinks
  <2>5. /\ d2.base = d.base /\ d2.check = d.check
        /\ d2.sibling = d.sibling /\ d2.child = d.child
    BY <1>3, <2>1 DEF SameButLinks
  <2>6. QED
    BY <1>7, <2>3, <2>4, <2>5
<1>12. ListsIn(d2) = With(L, bi, "C")
  <2>1. ListsIn(d2) = [x \in N |-> ListFor(x, d2.block[x].num, d2.block[x].trial)]
    BY <1>11 DEF ListsIn
  <2> HIDE DEF N, L, num, trial
  <2>2. With(L, bi, "C") = [x \in N |-> IF x = bi THEN "C" ELSE L[x]]
    BY <1>2 DEF With
  <2>3. ListFor(bi, num, 1) = "C"
    BY <1>2 DEF ListFor, MaxTrial
  <2>4. \A x \in N : ListFor(x, d2.block[x].num, d2.block[x].trial) = IF x = bi THEN "C" ELSE L[x]
    <3>1. \A x \in N : L[x] = ListFor(x, d.block[x].num, d.block[x].trial)
      BY <1>2
    <3>2. d2.block[bi].num = num /\ d2.block[bi].trial = 1
      BY <1>11 DEF num, N
    <3>3. \A x \in N \ {bi} : d2.block[x].num = d.block[x].num /\ d2.block[x].trial = d.block[x].trial
      BY <1>11
    <3>4. QED
      BY <2>3, <3>1, <3>2, <3>3
  <2>5. QED
    BY <2>1, <2>2, <2>4
<1>13. /\ \A b : EmptyIn(d2, b) = EmptyIn(d, b)
       /\ NextEmpty(d2) = NextEmpty(d) /\ PrevEmpty(d2) = PrevEmpty(d) /\ Used(d2) = Used(d)
  <2>1. PlacesOf(d2) = PlacesOf(d) /\ d2.base = d.base /\ d2.check = d.check
    BY <1>11
  <2>2. QED
    BY <2>1 DEF EmptyIn, NextEmpty, PrevEmpty, Used
<1>14. ASSUME NEW b \in N PROVE RingIn(d2, b)
  <2>1. RingIn(d, b)
    BY DEF SpaceInv
  <2>2. QED
    BY <1>11, <1>13, <2>1 DEF RingIn
<1>15. \A b \in N \ {bi} : ListsIn(d2)[b] = ListsIn(d)[b]
  BY <1>2, <1>12 DEF With
<1>16. ASSUME NEW b \in N, L[b] = "O", b # bi, d.block[b].next # bi, d.block[bi].next # bi
       PROVE  d2.block[b].next = d.block[b].next
  <2>1. /\ ArrayType(tried) /\ ListsType(tried, L) /\ Listed(tried, L) /\ bi \in BlocksOf(tried)
        /\ b \in BlocksOf(tried) /\ L[bi] = "O" /\ tried.block[bi].num # 0
        /\ d2 = TransferBlock(tried, bi, "O", "C")
    BY <1>9, <1>10, <1>16
  <2>2. tried.block[bi].next # bi /\ tried.block[b].next # bi /\ tried.block[b].next = d.block[b].next
    BY <1>7, <1>16
  <2>3. "O" \in Lists /\ "C" \in Lists /\ "C" # "O" /\ "C" # "F" /\ bi # 0
    BY <1>2 DEF Lists
  <2> HIDE DEF L, N
  <2>4. d2.block[b].next = tried.block[b].next
    BY <1>16, <2>1, <2>2, <2>3, TransferNext
  <2>5. QED
    BY <2>2, <2>4
<1>17. QED
  BY <1>10, <1>11, <1>12, <1>13, <1>14, <1>15, <1>16 DEF SpaceInv, Kept
=============================================================================
