-------------------------- MODULE DoubleArrayProofs --------------------------
(*****************************************************************************)
(* What holds of the double array, for every set of strings, every width of  *)
(* a label and every sequence of updates: the rings of empty nodes, the      *)
(* lists of blocks and the tree agree at every step of an update.            *)
(*****************************************************************************)
EXTENDS DoubleArrayTree

-----------------------------------------------------------------------------
(* Moves *)

\* What is known of a round of moves: the place it fills is empty.
Round(d, j, P, V, m, p, to) ==
  /\ ArrayType(d) /\ JobType(j) /\ Reached(d, j, P, V) /\ Blank(d) /\ MoveInv(d, j, P)
  /\ Tree(d, Used(d), MoveOf(j), ComingOf(j), P)
  /\ j.step = "move" /\ m = j.place /\ m.at \in 1 .. Len(m.labels) /\ p = m.labels[m.at]
  /\ p \in Labels /\ to = Xor(m.base, p)
  /\ to \in PlacesOf(d) \ Used(d) /\ d.check[to] < 0 /\ to \in Nat \ {0} /\ BlockOf(to) # 0
  /\ to \notin Unmoved(j)

LEMMA RoundFacts ==
  ASSUME NEW d, SpaceInv(d), NEW j, NEW P, NEW V, TreeInv(d, j, P, V), j.pc = "update", j.step = "move",
         NEW m, m = j.place, NEW p, p = m.labels[m.at], NEW to, to = Xor(m.base, p)
  PROVE  Round(d, j, P, V, m, p, to)
<1>1. /\ JobType(j) /\ Reached(d, j, P, V) /\ Blank(d) /\ Tree(d, Used(d), MoveOf(j), ComingOf(j), P)
      /\ MoveInv(d, j, P) /\ m.at <= Len(m.labels)
  <2>1. Moving(j)
    BY DEF Moving
  <2>2. /\ JobType(j) /\ Reached(d, j, P, V) /\ MoveInv(d, j, P) /\ j.place.at <= Len(j.place.labels)
    BY DEF TreeInv, JobInv, Idle
  <2>3. QED
    BY <2>1, <2>2 DEF TreeInv
<1>2. /\ m.at \in 1 .. Len(m.labels) + 1 /\ m.labels \in Seq(Labels) /\ m.base \in PlacesOf(d)
      /\ BlockOf(m.base) # 0
  BY <1>1 DEF MoveInv
<1>3. m.at \in 1 .. Len(m.labels) /\ p \in Labels
  <2>1. Len(m.labels) \in Nat
    BY <1>2
  <2>2. QED
    BY <1>1, <1>2, <2>1
<1>4. d.check[to] < 0
  BY <1>1, <1>3 DEF MoveInv
<1>5. ArrayType(d) /\ m.base \in Nat
  <2>1. ArrayType(d)
    BY DEF SpaceInv
  <2>2. QED
    BY <1>2, <2>1, ArrayFacts
<1>6. to \in Nat /\ BlockOf(to) # 0
  BY <1>2, <1>3, <1>5, XorFacts
<1>7. to # 0
  BY <1>6, RootBlock
<1>8. to \in PlacesOf(d)
  BY <1>2, <1>3, <1>5, <1>6, ArrayFacts, XorFacts
<1>9. to \notin Used(d)
  <2>1. d.check[to] \in Int
    BY <1>5, <1>8 DEF ArrayType
  <2>2. QED
    BY <2>1, <1>4, <1>7 DEF Used
<1>10. to \notin Unmoved(j)
  BY <1>1, <1>9 DEF MoveInv
<1>11. QED
  BY <1>1, <1>3, <1>4, <1>5, <1>6, <1>7, <1>8, <1>9, <1>10 DEF Round

\* The job after a round.
NextRound(j, from) == [j EXCEPT !.from = from, !.place.at = @ + 1]

LEMMA NextRoundIs ==
  ASSUME NEW d, NEW j, NEW P, JobType(j), MoveInv(d, j, P), NEW from, NEW j2, j2 = NextRound(j, from),
         NEW m, m = j.place
  PROVE  /\ j2 = [x \in DOMAIN j |-> j2[x]]
         /\ j2.pc = j.pc /\ j2.key = j.key /\ j2.pos = j.pos /\ j2.val = j.val
         /\ j2.step = j.step /\ j2.from = from
         /\ j2.place = [mover |-> m.mover, newcomer |-> m.newcomer, conflict |-> m.conflict,
                        labels |-> m.labels, old |-> m.old, base |-> m.base, at |-> m.at + 1]
<1>1. j = [pc |-> "update", step |-> j.step, key |-> j.key, pos |-> j.pos, from |-> j.from,
           val |-> j.val, place |-> j.place]
  BY DEF JobType
<1>2. DOMAIN j = {"pc", "step", "key", "pos", "from", "val", "place"}
  BY <1>1
<1>3. m = [mover |-> m.mover, newcomer |-> m.newcomer, conflict |-> m.conflict,
           labels |-> m.labels, old |-> m.old, base |-> m.base, at |-> m.at]
  BY DEF MoveInv
<1>4. DOMAIN m = {"mover", "newcomer", "conflict", "labels", "old", "base", "at"}
  BY <1>3
<1> DEFINE q == [m EXCEPT !.at = @ + 1]
<1>5. /\ q = [y \in DOMAIN m |-> q[y]] /\ q.mover = m.mover /\ q.newcomer = m.newcomer
      /\ q.conflict = m.conflict /\ q.labels = m.labels /\ q.old = m.old /\ q.base = m.base
      /\ q.at = m.at + 1
  BY <1>4
<1>6. j2 = [j EXCEPT !.from = from, !.place = q]
  BY DEF NextRound
<1> HIDE DEF q
<1>7. q = [mover |-> m.mover, newcomer |-> m.newcomer, conflict |-> m.conflict,
           labels |-> m.labels, old |-> m.old, base |-> m.base, at |-> m.at + 1]
  BY <1>4, <1>5
<1>8. /\ j2 = [x \in DOMAIN j |-> j2[x]]
      /\ j2.pc = j.pc /\ j2.key = j.key /\ j2.pos = j.pos /\ j2.val = j.val
      /\ j2.step = j.step /\ j2.from = from /\ j2.place = q
  BY <1>2, <1>6
<1>9. QED
  BY <1>7, <1>8

\* The places that are still to be left after a round.
LEMMA UnmovedNext ==
  ASSUME NEW d, NEW j, NEW P, MoveInv(d, j, P), ArrayType(d), NEW m, m = j.place, m.at \in 1 .. Len(m.labels),
         NEW j2, LabelOf(j2) = LabelOf(j),
         j2.place = [mover |-> m.mover, newcomer |-> m.newcomer, conflict |-> m.conflict,
                     labels |-> m.labels, old |-> m.old, base |-> m.base, at |-> m.at + 1]
  PROVE  Unmoved(j2) = IF IsNewcomer(j, m.at) THEN Unmoved(j)
                       ELSE Unmoved(j) \ {Xor(m.old, m.labels[m.at])}
<1> DEFINE s == m.labels
           K == {k \in m.at .. Len(s) : ~ IsNewcomer(j, k)}
           K2 == {k \in m.at + 1 .. Len(s) : ~ IsNewcomer(j, k)}
<1>1. /\ s \in Seq(Labels) /\ m.old \in PlacesOf(d) /\ Len(s) \in Nat
      /\ \A i, k \in 1 .. Len(s) : s[i] = s[k] => i = k
  BY DEF MoveInv
<1>2. m.old \in Nat /\ \A i \in 1 .. Len(s) : s[i] \in Labels
  BY <1>1, ArrayFacts
<1>3. K2 = K \ {m.at}
  BY <1>1
<1>4. \A i, k \in 1 .. Len(s) : Xor(m.old, s[i]) = Xor(m.old, s[k]) => i = k
  BY <1>1, <1>2, XorInjective
<1>5. \A k : IsNewcomer(j2, k) <=> IsNewcomer(j, k)
  BY DEF IsNewcomer
<1>6. Unmoved(j) = {Xor(m.old, s[i]) : i \in K}
  BY DEF Unmoved
<1>7. Unmoved(j2) = {Xor(m.old, s[i]) : i \in K2}
  BY <1>5 DEF Unmoved
<1>8. K \subseteq 1 .. Len(s) /\ (m.at \in K <=> ~ IsNewcomer(j, m.at))
  BY <1>1
<1> HIDE DEF K, K2, s
<1>9. CASE IsNewcomer(j, m.at)
  BY <1>3, <1>6, <1>7, <1>8, <1>9
<1>10. CASE ~ IsNewcomer(j, m.at)
  BY <1>3, <1>4, <1>6, <1>7, <1>8, <1>10 DEF s
<1>11. QED
  BY <1>9, <1>10

\* What a round makes of the array d, where the place old is left, if left is {old},
\* and not if it is empty, and to is taken.
Advanced(d, j, m, to, left, d2, j2, P2) ==
  LET s == m.labels
  IN  /\ PlacesOf(d2) = PlacesOf(d)
      /\ Unmoved(j2) = Unmoved(j) \ left /\ m.mover \notin left
      /\ to \in Used(d2) /\ d2.check[to] = m.mover
      /\ d2.sibling[to] = (IF m.at = Len(s) THEN 0 ELSE s[m.at + 1])
      /\ Used(d2) \subseteq Used(d) \cup {to}
      /\ \A n \in Used(d) \ left :
           n \in Used(d2) /\ (d2.check[n] = m.mover <=> d.check[n] = m.mover)
      /\ \A n \in Used(d) \ (left \cup {0}) : d.check[n] = m.mover => d2.sibling[n] = d.sibling[n]
      /\ \A n \in left \cap Used(d2) : d2.check[n] # m.mover
      /\ left \subseteq Unmoved(j)
      /\ \A e \in PlacesOf(d) \ Used(d2) : d2.check[e] < 0
      /\ d2.base[m.mover] = d.base[m.mover] /\ d2.child[m.mover] = d.child[m.mover]
      /\ ~ IsTerminal(P2, m.mover) /\ (m.newcomer <=> m.mover = j2.from)
      /\ d2.base[j2.from] >= 0 /\ m.conflict \in Used(d2)
      /\ IF m.newcomer THEN d2.check[m.conflict] # m.mover
         ELSE /\ m.conflict = Conflict(d2, j2)
              /\ \E c \in 1 .. Len(s) :
                   /\ m.conflict = Xor(m.old, s[c])
                   /\ d2.check[m.conflict] = IF m.at + 1 <= c THEN m.mover ELSE j2.from

LEMMA MoveOn ==
  ASSUME NEW d, NEW j, NEW P, NEW V, NEW m, NEW p, NEW to, Round(d, j, P, V, m, p, to),
         NEW left, NEW d2, NEW j2, LabelOf(j2) = LabelOf(j),
         j2.place = [mover |-> m.mover, newcomer |-> m.newcomer, conflict |-> m.conflict,
                     labels |-> m.labels, old |-> m.old, base |-> m.base, at |-> m.at + 1],
         NEW P2, Advanced(d, j, m, to, left, d2, j2, P2)
  PROVE  MoveInv(d2, j2, P2)
<1> DEFINE s == m.labels
           label == LabelOf(j)
           m2 == j2.place
<1>1. /\ ArrayType(d) /\ MoveInv(d, j, P) /\ m = j.place /\ m.at \in 1 .. Len(s) /\ p = s[m.at]
      /\ p \in Labels /\ to = Xor(m.base, p) /\ to \notin Used(d) /\ to \notin Unmoved(j)
  BY DEF Round
<1>2. /\ m2.mover = m.mover /\ m2.newcomer = m.newcomer /\ m2.conflict = m.conflict
      /\ m2.labels = s /\ m2.old = m.old /\ m2.base = m.base /\ m2.at = m.at + 1
  OBVIOUS
<1>3. /\ s \in Seq(Labels) /\ s # <<>> /\ Len(s) \in Nat /\ d.child[m.mover] = s[1]
      /\ m.newcomer \in BOOLEAN /\ m.mover \in Used(d) \ {0} /\ d.base[m.mover] = m.base
      /\ m.base \in PlacesOf(d) /\ BlockOf(m.base) # 0 /\ m.old \in PlacesOf(d) /\ BlockOf(m.old) # 0
      /\ m.conflict # 0
      /\ \A i, k \in 1 .. Len(s) : s[i] = s[k] => i = k
      /\ \A i \in 2 .. Len(s) : s[i] # 0
  <2>1. m.conflict \in Used(d) \ {0}
    BY ONLY <1>1, Zenon DEF MoveInv
  <2>2. /\ s \in Seq(Labels) /\ s # <<>> /\ d.child[m.mover] = s[1] /\ m.newcomer \in BOOLEAN
        /\ m.mover \in Used(d) \ {0} /\ d.base[m.mover] = m.base /\ m.base \in PlacesOf(d)
        /\ BlockOf(m.base) # 0 /\ m.old \in PlacesOf(d) /\ BlockOf(m.old) # 0
    BY ONLY <1>1, Zenon DEF MoveInv
  <2>3. (\A i, k \in 1 .. Len(s) : s[i] = s[k] => i = k) /\ (\A i \in 2 .. Len(s) : s[i] # 0)
    BY ONLY <1>1, Zenon DEF MoveInv
  <2>4. QED
    BY ONLY <2>1, <2>2, <2>3
<1>4. \A i \in 1 .. m.at :
           /\ Xor(m.base, s[i]) \in Used(d2) /\ d2.check[Xor(m.base, s[i])] = m.mover
           /\ Xor(m.base, s[i]) \notin Unmoved(j2)
           /\ d2.sibling[Xor(m.base, s[i])] = IF i < Len(s) THEN s[i + 1] ELSE 0
  <2>1. ASSUME NEW i \in 1 .. m.at - 1
        PROVE  /\ Xor(m.base, s[i]) \in Used(d) \ left /\ d.check[Xor(m.base, s[i])] = m.mover
               /\ Xor(m.base, s[i]) \notin Unmoved(j) /\ Xor(m.base, s[i]) # 0
               /\ d.sibling[Xor(m.base, s[i])] = IF i < Len(s) THEN s[i + 1] ELSE 0
    <3>1. /\ Xor(m.base, s[i]) \in Used(d) /\ d.check[Xor(m.base, s[i])] = m.mover
          /\ Xor(m.base, s[i]) \notin Unmoved(j)
          /\ d.sibling[Xor(m.base, s[i])] = IF i < Len(s) THEN s[i + 1] ELSE 0
      BY <1>1 DEF MoveInv
    <3>2. left \subseteq Unmoved(j)
      BY <1>1 DEF Advanced
    <3>3. Xor(m.base, s[i]) # 0
      <4>1. i \in 1 .. Len(s) /\ m.base \in Nat
        <5>1. m.base \in Nat
          BY <1>1, <1>3, ArrayFacts
        <5>2. i \in 1 .. Len(s)
          BY <1>1, <1>3
        <5>3. QED
          BY <5>1, <5>2
      <4>2. s[i] \in Labels
        BY <1>3, <4>1
      <4>3. QED
        BY <1>3, <4>1, <4>2, XorFacts, RootBlock
    <3>4. QED
      BY <3>1, <3>2, <3>3
  <2>2. ASSUME NEW x, x \in Used(d) \ left, x # 0, d.check[x] = m.mover, x \notin Unmoved(j)
        PROVE  /\ x \in Used(d2) /\ d2.check[x] = m.mover /\ x \notin Unmoved(j2)
               /\ d2.sibling[x] = d.sibling[x]
    BY <1>1, <2>2 DEF Advanced
  <2>3. ASSUME NEW i \in 1 .. m.at, i # m.at
        PROVE  /\ Xor(m.base, s[i]) \in Used(d2) /\ d2.check[Xor(m.base, s[i])] = m.mover
               /\ Xor(m.base, s[i]) \notin Unmoved(j2)
               /\ d2.sibling[Xor(m.base, s[i])] = IF i < Len(s) THEN s[i + 1] ELSE 0
    <3>1. i \in 1 .. m.at - 1
      BY <1>1, <1>3, <2>3
    <3>2. PICK x : x = Xor(m.base, s[i])
      OBVIOUS
    <3>3. /\ x \in Used(d) \ left /\ d.check[x] = m.mover /\ x \notin Unmoved(j) /\ x # 0
          /\ d.sibling[x] = IF i < Len(s) THEN s[i + 1] ELSE 0
      BY <2>1, <3>1, <3>2
    <3>4. QED
      BY <2>2, <3>2, <3>3
  <2>4. /\ to \in Used(d2) /\ d2.check[to] = m.mover /\ to \notin Unmoved(j2)
        /\ d2.sibling[to] = IF m.at < Len(s) THEN s[m.at + 1] ELSE 0
    <3>1. d2.sibling[to] = IF m.at = Len(s) THEN 0 ELSE s[m.at + 1]
      BY <1>1 DEF Advanced
    <3>2. to \in Used(d2) /\ d2.check[to] = m.mover /\ to \notin Unmoved(j2)
      BY <1>1 DEF Advanced
    <3>3. m.at = Len(s) \/ m.at < Len(s)
      BY <1>1, <1>3
    <3>4. QED
      BY ONLY <1>1, <1>3, <3>1, <3>2, <3>3
  <2>5. to = Xor(m.base, s[m.at])
    BY <1>1
  <2> HIDE DEF s
  <2>6. QED
    BY <2>3, <2>4, <2>5
<1>5. \A i \in m.at + 1 .. Len(s) : d2.check[Xor(m.base, s[i])] < 0
  <2>1. SUFFICES ASSUME NEW i \in m.at + 1 .. Len(s), NEW x, x = Xor(m.base, s[i]) PROVE d2.check[x] < 0
    OBVIOUS
  <2>2. d.check[x] < 0 /\ i \in 1 .. Len(s) /\ i # m.at
    <3>1. i \in m.at .. Len(s) /\ i \in 1 .. Len(s) /\ i # m.at
      BY <1>1, <1>3, <2>1
    <3>2. QED
      BY <1>1, <2>1, <3>1 DEF MoveInv
  <2>3. s[i] \in Labels /\ m.base \in Nat /\ s[i] # p
    <3>1. m.base \in Nat
      BY <1>1, <1>3, ArrayFacts
    <3>2. QED
      BY <1>1, <1>3, <2>2, <3>1
  <2>4. x \in Nat /\ x \in PlacesOf(d) /\ x # to /\ x # 0
    <3>1. x \in Nat /\ BlockOf(x) = BlockOf(m.base)
      BY <2>1, <2>3, XorFacts
    <3>2. x \in PlacesOf(d) /\ x # 0
      BY <1>1, <1>3, <2>3, <3>1, ArrayFacts, RootBlock
    <3>3. x # to
      BY <1>1, <2>1, <2>3, XorInjective
    <3>4. QED
      BY <3>1, <3>2, <3>3
  <2>5. x \notin Used(d)
    <3>1. d.check[x] \in Int
      BY <1>1, <2>4 DEF ArrayType
    <3>2. QED
      BY <2>2, <2>4, <3>1 DEF Used
  <2>6. x \notin Used(d2) /\ \A e \in PlacesOf(d) \ Used(d2) : d2.check[e] < 0
    BY <2>4, <2>5 DEF Advanced
  <2>7. QED
    BY <2>4, <2>6
<1>6. \A e \in Unmoved(j2) : e \in Used(d2) /\ d2.check[e] = m.mover
  <2>1. \A e \in Unmoved(j) : e \in Used(d) /\ d.check[e] = m.mover
    BY <1>1 DEF MoveInv
  <2>2. QED
    BY <1>1, <2>1 DEF Advanced
<1>7. \A e \in Used(d2) \ {0} : d2.check[e] = m.mover =>
        e \in Unmoved(j2) \/ \E i \in 1 .. m.at : e = Xor(m.base, s[i])
  <2>1. SUFFICES ASSUME NEW e \in Used(d2) \ {0}, d2.check[e] = m.mover
                 PROVE  e \in Unmoved(j2) \/ \E i \in 1 .. m.at : e = Xor(m.base, s[i])
    OBVIOUS
  <2>2. CASE e = to
    BY ONLY <1>1, <1>3, <2>2
  <2>3. CASE e # to
    <3>1. e \in Used(d) \ left /\ d.check[e] = m.mover
      BY <1>1, <2>1, <2>3 DEF Advanced
    <3>2. e \in Unmoved(j) \/ \E i \in 1 .. m.at - 1 : e = Xor(m.base, s[i])
      BY ONLY <1>1, <2>1, <3>1, SMTT(30) DEF MoveInv
    <3>3. Unmoved(j2) = Unmoved(j) \ left
      BY <1>1 DEF Advanced
    <3>4. CASE e \in Unmoved(j)
      BY <3>1, <3>3, <3>4
    <3>5. CASE \E i \in 1 .. m.at - 1 : e = Xor(m.base, s[i])
      BY ONLY <1>1, <1>3, <3>5
    <3>6. QED
      BY <3>2, <3>4, <3>5
  <2>4. QED
    BY <2>2, <2>3
<1>8. /\ m.mover \in Used(d2) \ {0} /\ ~ IsTerminal(P2, m.mover) /\ (m.newcomer <=> m.mover = j2.from)
      /\ d2.base[m.mover] = m.base /\ d2.child[m.mover] = s[1] /\ PlacesOf(d2) = PlacesOf(d)
      /\ d2.base[j2.from] >= 0 /\ m.conflict \in Used(d2) \ {0}
  BY <1>1, <1>3 DEF Advanced
<1>9. IF m.newcomer
        THEN /\ \E c \in 1 .. Len(s) : s[c] = label
             /\ m.conflict = Xor(m.old, label) /\ d2.check[m.conflict] # m.mover
        ELSE /\ m.conflict = Conflict(d2, j2)
             /\ \E c \in 1 .. Len(s) :
                  /\ m.conflict = Xor(m.old, s[c])
                  /\ d2.check[m.conflict] = IF m.at + 1 <= c THEN m.mover ELSE j2.from
  <2>1. CASE m.newcomer
    <3>1. (\E c \in 1 .. Len(s) : s[c] = label) /\ m.conflict = Xor(m.old, label)
      BY <1>1, <2>1 DEF MoveInv
    <3>2. d2.check[m.conflict] # m.mover
      BY <1>1, <2>1 DEF Advanced
    <3>3. QED
      BY <2>1, <3>1, <3>2
  <2>2. CASE ~ m.newcomer
    <3>1. /\ m.conflict = Conflict(d2, j2)
          /\ \E c \in 1 .. Len(s) :
               /\ m.conflict = Xor(m.old, s[c])
               /\ d2.check[m.conflict] = IF m.at + 1 <= c THEN m.mover ELSE j2.from
      BY <1>1, <2>2 DEF Advanced
    <3>2. QED
      BY <2>2, <3>1
  <2>3. QED
    BY <2>1, <2>2
<1>10. m2.at \in 1 .. Len(s) + 1 /\ m2.at - 1 = m.at
  BY <1>1, <1>2, <1>3
<1>11. m2 = [mover |-> m2.mover, newcomer |-> m2.newcomer, conflict |-> m2.conflict,
             labels |-> m2.labels, old |-> m2.old, base |-> m2.base, at |-> m2.at]
  BY <1>2
<1>12. LabelOf(j2) = label
  OBVIOUS
<1> HIDE DEF m2, s, label
<1>13. /\ m2.newcomer \in BOOLEAN /\ m2.mover \in Used(d2) \ {0} /\ ~ IsTerminal(P2, m2.mover)
       /\ m2.newcomer <=> m2.mover = j2.from
       /\ d2.base[m2.mover] = m2.base /\ m2.base \in PlacesOf(d2) /\ BlockOf(m2.base) # 0
       /\ m2.old \in PlacesOf(d2) /\ BlockOf(m2.old) # 0
  BY ONLY <1>2, <1>3, <1>8
<1>14. /\ m2.labels \in Seq(Labels) /\ m2.labels # <<>> /\ m2.at \in 1 .. Len(m2.labels) + 1
       /\ d2.child[m2.mover] = m2.labels[1]
       /\ \A i, k \in 1 .. Len(m2.labels) : m2.labels[i] = m2.labels[k] => i = k
       /\ \A i \in 2 .. Len(m2.labels) : m2.labels[i] # 0
  BY ONLY <1>2, <1>3, <1>8, <1>10
<1>15. \A i \in 1 .. m2.at - 1 :
         /\ Xor(m2.base, m2.labels[i]) \in Used(d2)
         /\ d2.check[Xor(m2.base, m2.labels[i])] = m2.mover
         /\ Xor(m2.base, m2.labels[i]) \notin Unmoved(j2)
         /\ d2.sibling[Xor(m2.base, m2.labels[i])] =
              IF i < Len(m2.labels) THEN m2.labels[i + 1] ELSE 0
  BY ONLY <1>2, <1>4, <1>10
<1>16. \A i \in m2.at .. Len(m2.labels) : d2.check[Xor(m2.base, m2.labels[i])] < 0
  BY ONLY <1>2, <1>5
<1>17. /\ \A e \in Unmoved(j2) : e \in Used(d2) /\ d2.check[e] = m2.mover
       /\ \A e \in Used(d2) \ {0} : d2.check[e] = m2.mover =>
            e \in Unmoved(j2) \/ \E i \in 1 .. m2.at - 1 : e = Xor(m2.base, m2.labels[i])
       /\ d2.base[j2.from] >= 0 /\ m2.conflict \in Used(d2) \ {0}
  BY ONLY <1>2, <1>6, <1>7, <1>8, <1>10
<1>18. IF m2.newcomer
         THEN /\ \E c \in 1 .. Len(m2.labels) : m2.labels[c] = LabelOf(j2)
              /\ m2.conflict = Xor(m2.old, LabelOf(j2)) /\ d2.check[m2.conflict] # m2.mover
         ELSE /\ m2.conflict = Conflict(d2, j2)
              /\ \E c \in 1 .. Len(m2.labels) :
                   /\ m2.conflict = Xor(m2.old, m2.labels[c])
                   /\ d2.check[m2.conflict] = IF m2.at <= c THEN m2.mover ELSE j2.from
  BY ONLY <1>2, <1>9, <1>12
<1>19. QED
  BY ONLY <1>11, <1>13, <1>14, <1>15, <1>16, <1>17, <1>18, Zenon DEF MoveInv, m2

\* The place to becomes a child of the mover f, under label p, before the sibling sb.
TakenNext(d, d2, to, p, f, sb) ==
  /\ SpaceInv(d2) /\ PlacesOf(d2) = PlacesOf(d) /\ Used(d2) = Used(d) \cup {to}
  /\ d2.child = d.child /\ d2.sibling = [d.sibling EXCEPT ![to] = sb]
  /\ d2.check[to] = f /\ d2.base[to] = (IF p # 0 THEN -1 ELSE 0)
  /\ \A n \in Used(d) : d2.check[n] = d.check[n] /\ d2.base[n] = d.base[n]

LEMMA TakeNext ==
  ASSUME NEW d, SpaceInv(d), NEW to \in PlacesOf(d), to # 0, d.check[to] < 0, NEW p \in Labels,
         NEW f \in Used(d), NEW sb \in Labels,
         NEW d2, d2 = [PopEnode(d, to, p, f, TRUE) EXCEPT !.sibling[to] = sb]
  PROVE  TakenNext(d, d2, to, p, f, sb)
<1>1. PICK d1 : d1 = PopEnode(d, to, p, f, TRUE)
  OBVIOUS
<1>2. TakenBased(d, d1, to, p, f)
  BY <1>1, PopBased
<1>3. /\ SpaceInv(d1) /\ PlacesOf(d1) = PlacesOf(d) /\ Used(d1) = Used(d) \cup {to}
      /\ d1.sibling = d.sibling /\ d1.child = d.child
      /\ d1.check[to] = f /\ d1.base[to] = (IF p # 0 THEN -1 ELSE 0)
      /\ \A n \in Used(d) : d1.check[n] = d.check[n] /\ d1.base[n] = d.base[n]
  BY <1>2 DEF TakenBased, Taken
<1>4. /\ DOMAIN d1 = ArrayFields
      /\ d1.base \in [PlacesOf(d1) -> Int] /\ d1.check \in [PlacesOf(d1) -> Int]
      /\ d1.sibling \in [PlacesOf(d1) -> Labels] /\ d1.child \in [PlacesOf(d1) -> Labels]
  BY <1>3 DEF SpaceInv, ArrayType
<1>5. d2 = [d1 EXCEPT !.sibling[to] = sb]
  BY <1>1
<1>6. /\ DOMAIN d2 = ArrayFields /\ d2.sibling = [d1.sibling EXCEPT ![to] = sb]
      /\ d2.size = d1.size /\ d2.head = d1.head /\ d2.block = d1.block /\ d2.reject = d1.reject
      /\ d2.base = d1.base /\ d2.check = d1.check /\ d2.child = d1.child
  BY <1>4, <1>5 DEF ArrayFields
<1>7. /\ SpaceInv(d2) /\ Used(d2) = Used(d1) /\ PlacesOf(d2) = PlacesOf(d1)
  <2>1. d2.sibling \in [PlacesOf(d1) -> Labels]
    <3>1. \A x \in PlacesOf(d1) : d2.sibling[x] \in Labels
      BY <1>4, <1>6, ZenonT(30)
    <3>2. d2.sibling = [x \in PlacesOf(d1) |-> d2.sibling[x]]
      BY <1>4, <1>6, ZenonT(30)
    <3> HIDE DEF Labels
    <3>3. QED
      BY <3>1, <3>2
  <2>2. \A e \in Used(d1) \ {0} : d2.check[e] >= 0
    BY <1>6 DEF Used
  <2>3. \A e \in PlacesOf(d1) \ Used(d1) : d2.base[e] = d1.base[e] /\ d2.check[e] = d1.check[e]
    BY <1>6
  <2>4. /\ d2.base \in [PlacesOf(d1) -> Int] /\ d2.check \in [PlacesOf(d1) -> Int]
        /\ d2.child \in [PlacesOf(d1) -> Labels]
    BY <1>4, <1>6
  <2>5. SpaceInv(d1)
    BY <1>3
  <2>6. QED
    BY <1>6, <2>1, <2>2, <2>3, <2>4, <2>5, TouchSpace
<1>8. QED
  BY <1>3, <1>6, <1>7 DEF TakenNext

\* After a round: the array and the tree, with the job to go on with.
Went(d, j, P, V) ==
  /\ SpaceInv(d) /\ Blank(d) /\ Tree(d, Used(d), MoveOf(j), ComingOf(j), P)
  /\ JobType(j) /\ Reached(d, j, P, V) /\ MoveInv(d, j, P) /\ j.step = "move"

LEMMA WentOn ==
  ASSUME NEW d, NEW j, NEW P, NEW V, NEW m, NEW p, NEW to, Round(d, j, P, V, m, p, to),
         NEW from, NEW j2, j2 = NextRound(j, from), NEW left, NEW P2, NEW d2, SpaceInv(d2), Blank(d2),
         Advanced(d, j, m, to, left, d2, j2, P2),
         Tree(d2, Used(d2), [mover |-> m.mover, old |-> m.old, left |-> Unmoved(j) \ left], ComingOf(j2), P2),
         from \in Used(d2), P2[from] = P[j.from], Values(d2, Used(d2), P2, V, j.key)
  PROVE  Went(d2, j2, P2, V)
<1>1. JobType(j) /\ MoveInv(d, j, P) /\ m = j.place /\ j.step = "move" /\ Reached(d, j, P, V)
  BY DEF Round
<1>2. /\ j2 = [x \in DOMAIN j |-> j2[x]]
      /\ j2.pc = j.pc /\ j2.key = j.key /\ j2.pos = j.pos /\ j2.val = j.val
      /\ j2.step = j.step /\ j2.from = from
      /\ j2.place = [mover |-> m.mover, newcomer |-> m.newcomer, conflict |-> m.conflict,
                     labels |-> m.labels, old |-> m.old, base |-> m.base, at |-> m.at + 1]
  BY <1>1, NextRoundIs
<1>3. JobType(j2) /\ LabelOf(j2) = LabelOf(j)
  BY <1>1, <1>2, JobSame
<1>4. MoveInv(d2, j2, P2)
  BY <1>2, <1>3, MoveOn
<1>5. Unmoved(j2) = Unmoved(j) \ left
  BY DEF Advanced
<1>6. MoveOf(j2) = [mover |-> m.mover, old |-> m.old, left |-> Unmoved(j) \ left]
  BY <1>2, <1>5 DEF MoveOf
<1>7. Reached(d2, j2, P2, V)
  BY <1>1, <1>2 DEF Reached
<1>8. QED
  BY <1>1, <1>2, <1>3, <1>4, <1>6, <1>7 DEF Went

LEMMA BlankTaken ==
  ASSUME NEW d, Blank(d), NEW d2, PlacesOf(d2) = PlacesOf(d), Used(d) \subseteq Used(d2) \cup {0},
         0 \in Used(d2), \A e \in PlacesOf(d) \ Used(d2) : d2.child[e] = d.child[e]
  PROVE  Blank(d2)
BY DEF Blank

\* The round of the newcomer, which has no old place.
LEMMA NewRound ==
  ASSUME NEW d, SpaceInv(d), NEW j, NEW P, NEW V, NEW m, NEW p, NEW to, Round(d, j, P, V, m, p, to),
         IsNewcomer(j, m.at), NEW sb, sb = (IF m.at = Len(m.labels) THEN 0 ELSE m.labels[m.at + 1]),
         NEW d2, TakenNext(d, d2, to, p, m.mover, sb), NEW j2, j2 = NextRound(j, j.from),
         NEW U, U = Used(d), NEW P2, P2 = Grafted(P, U, to, m.mover, p)
  PROVE  Went(d2, j2, P2, V)
<1> DEFINE mv == MoveOf(j)
           f == m.mover
<1>1. /\ ArrayType(d) /\ JobType(j) /\ Reached(d, j, P, V) /\ Blank(d) /\ MoveInv(d, j, P)
      /\ Tree(d, U, mv, ComingOf(j), P) /\ m = j.place /\ m.at \in 1 .. Len(m.labels)
      /\ p \in Labels /\ to = Xor(m.base, p) /\ to \in PlacesOf(d) /\ to \notin U /\ to \notin Unmoved(j)
      /\ j.step = "move" /\ p = m.labels[m.at]
  BY DEF Round
<1>2. m.newcomer /\ p = LabelOf(j)
  BY <1>1 DEF IsNewcomer
<1>3. /\ f \in U \ {0} /\ ~ IsTerminal(P, f) /\ f = j.from /\ d.base[f] = m.base
      /\ m.base \in PlacesOf(d) /\ m.old \in PlacesOf(d)
      /\ m.conflict = Xor(m.old, p) /\ d.check[m.conflict] # f /\ m.conflict \in U \ {0}
      /\ Unmoved(j) \subseteq U /\ d.base[j.from] >= 0
  BY <1>1, <1>2 DEF MoveInv
<1>4. mv.mover = f /\ mv.old = m.old /\ mv.left = Unmoved(j) /\ ComingOf(j) = to
  <2>1. j.pc = "update"
    BY <1>1 DEF JobType
  <2>2. Moving(j)
    BY <2>1, <1>1 DEF Moving
  <2>3. mv.mover = f /\ mv.old = m.old /\ mv.left = Unmoved(j)
    BY <1>1 DEF MoveOf
  <2>4. ComingOf(j) = Xor(j.place.base, LabelOf(j))
    BY <2>2, <1>1, <1>2 DEF ComingOf, Moving
  <2>5. QED
    BY <2>3, <2>4, <1>1, <1>2
<1>5. /\ SpaceInv(d2) /\ PlacesOf(d2) = PlacesOf(d) /\ Used(d2) = U \cup {to}
      /\ d2.child = d.child /\ d2.sibling = [d.sibling EXCEPT ![to] = sb]
      /\ d2.check[to] = f /\ d2.base[to] = (IF p # 0 THEN -1 ELSE 0)
      /\ \A n \in U : d2.check[n] = d.check[n] /\ d2.base[n] = d.base[n]
  BY DEF TakenNext
<1>6. /\ \A n \in U : d2.sibling[n] = d.sibling[n]
      /\ d2.sibling[to] = sb
      /\ U \subseteq PlacesOf(d) /\ 0 \in U
  <2>1. d.sibling \in [PlacesOf(d) -> Labels]
    BY <1>1 DEF ArrayType
  <2>2. U \subseteq PlacesOf(d) /\ 0 \in U
    BY <1>1 DEF Tree
  <2>3. QED
    BY <1>1, <1>5, <2>1, <2>2
<1> HIDE DEF mv, f
<1>7. \A n \in U \ {0} : Based(d2, n, P)
  <2>1. SUFFICES ASSUME NEW n \in U \ {0} PROVE Based(d2, n, P)
    OBVIOUS
  <2>2. Based(d, n, P)
    <3>1. n # ComingOf(j)
      BY <1>1, <1>4
    <3>2. QED
      BY <1>1, <3>1, BasedIs
  <2>3. QED
    BY <1>5, <2>2 DEF Based
<1>8. \A x \in U : P[x] # Append(P[f], p)
  <2>1. SUFFICES ASSUME NEW x \in U, P[x] = Append(P[f], p) PROVE FALSE
    OBVIOUS
  <2>2. x # 0 /\ d.check[x] = f /\ x = Xor(Hang(d, mv, x), p)
    BY ONLY <1>1, <1>3, <2>1, AtPath, SMTT(30)
  <2>3. CASE x \in Unmoved(j)
    <3>1. Hang(d, mv, x) = m.old
      BY <1>4, <2>2, <2>3 DEF Hang
    <3>2. QED
      BY <1>3, <2>2, <3>1
  <2>4. CASE x \notin Unmoved(j)
    <3>1. Hang(d, mv, x) = d.base[f]
      BY <1>4, <2>2, <2>4 DEF Hang
    <3>2. QED
      BY <1>1, <1>3, <2>2, <3>1
  <2>5. QED
    BY <2>3, <2>4
<1>9. d.child[to] = 0
  BY <1>1 DEF Blank
<1>10. Plantable(d, U, mv, P, f, p, to, d2)
  <2>1. /\ \A n \in U \ {f} : d2.base[n] = d.base[n] /\ d2.child[n] = d.child[n]
        /\ d2.base[0] = d.base[0]
        /\ \A n \in U : Parent(d, n) # f => d2.sibling[n] = d.sibling[n]
    BY <1>5, <1>6
  <2>2. \A n \in U \ {0} : d2.base[d.check[n]] = d.base[d.check[n]]
    <3>1. \A n \in U \ {0} : d.check[n] \in U
      BY <1>1 DEF Tree, Paths
    <3>2. QED
      BY <1>5, <3>1
  <2>3. to = Xor(d2.base[f], p) /\ d2.child[to] = 0 /\ to \notin mv.left /\ f = mv.mover
    BY <1>1, <1>3, <1>4, <1>5, <1>9
  <2>4. PlacesOf(d) \subseteq PlacesOf(d2) /\ to \in PlacesOf(d2)
    BY <1>1, <1>5
  <2>5. QED
    BY <1>1, <1>3, <1>5, <1>7, <1>8, <2>1, <2>2, <2>3, <2>4 DEF Plantable
<1>11. Tree(d2, U \cup {to}, mv, to, P2)
  <2>1. P2 = Grafted(P, U, to, f, p)
    BY DEF f
  <2>2. QED
    BY ONLY <1>1, <1>10, <2>1, Plant, SMTT(30)
<1>12. P2[f] = P[f] /\ (IsTerminal(P2, f) <=> IsTerminal(P, f))
  <2>1. P2[f] = P[f]
    BY <1>1, <1>3 DEF Grafted, f
  <2>2. QED
    BY <2>1 DEF IsTerminal
<1>13. /\ j2.from = j.from /\ LabelOf(j2) = LabelOf(j) /\ ComingOf(j2) = to
       /\ Unmoved(j2) = Unmoved(j)
  <2>1. /\ j2 = [x \in DOMAIN j |-> j2[x]]
        /\ j2.pc = j.pc /\ j2.key = j.key /\ j2.pos = j.pos /\ j2.val = j.val
        /\ j2.step = j.step /\ j2.from = j.from
        /\ j2.place = [mover |-> m.mover, newcomer |-> m.newcomer, conflict |-> m.conflict,
                       labels |-> m.labels, old |-> m.old, base |-> m.base, at |-> m.at + 1]
    BY <1>1, NextRoundIs
  <2>2. LabelOf(j2) = LabelOf(j) /\ j2.pc = "update"
    BY <1>1, <2>1, JobSame
  <2>3. ComingOf(j2) = Xor(j2.place.base, LabelOf(j2))
    BY <2>1, <2>2, <1>1, <1>2, SMTT(30) DEF ComingOf, Moving
  <2>4. ComingOf(j2) = to
    BY <1>1, <1>2, <2>1, <2>2, <2>3
  <2>5. Unmoved(j2) = Unmoved(j)
    BY <1>1, <2>1, <2>2, UnmovedNext
  <2>6. QED
    BY <2>1, <2>2, <2>4, <2>5
<1>14. Advanced(d, j, m, to, {}, d2, j2, P2)
  <2>1. /\ Unmoved(j2) = Unmoved(j) \ {}
        /\ to \in Used(d2) /\ d2.check[to] = m.mover
        /\ d2.sibling[to] = (IF m.at = Len(m.labels) THEN 0 ELSE m.labels[m.at + 1])
        /\ Used(d2) \subseteq U \cup {to}
    BY <1>1, <1>5, <1>6, <1>13 DEF f
  <2>2. /\ \A n \in U : n \in Used(d2) /\ (d2.check[n] = m.mover <=> d.check[n] = m.mover)
        /\ \A n \in U : d2.sibling[n] = d.sibling[n]
    BY <1>5, <1>6
  <2>3. \A e \in PlacesOf(d) \ Used(d2) : d2.check[e] < 0
    <3>1. \A e \in PlacesOf(d2) : d2.check[e] \in Int
      BY <1>5 DEF SpaceInv, ArrayType
    <3>2. QED
      BY <1>5, <3>1 DEF Used
  <2>4. /\ d2.base[m.mover] = d.base[m.mover] /\ d2.child[m.mover] = d.child[m.mover]
        /\ ~ IsTerminal(P2, m.mover) /\ m.newcomer /\ m.mover = j2.from
        /\ d2.base[j2.from] >= 0 /\ m.conflict \in Used(d2)
    BY <1>1, <1>2, <1>3, <1>5, <1>12, <1>13 DEF f
  <2>5. d2.check[m.conflict] # m.mover
    BY <1>1, <1>3, <1>5 DEF f
  <2>6. QED
    BY <1>1, <1>5, <2>1, <2>2, <2>3, <2>4, <2>5 DEF Advanced
<1>15. Blank(d2)
  <2>1. \A e \in PlacesOf(d) \ Used(d2) : d2.child[e] = d.child[e]
    BY <1>5
  <2>2. QED
    BY <1>1, <1>5, <1>6, <2>1, BlankTaken
<1>16. mv = [mover |-> m.mover, old |-> m.old, left |-> Unmoved(j) \ {}]
  BY <1>1 DEF mv, MoveOf
<1>17. P2[j.from] = P[j.from] /\ j.from \in U \cup {to}
  BY <1>3, <1>12
<1>18. QED
  <2>1. Tree(d2, Used(d2), [mover |-> m.mover, old |-> m.old, left |-> Unmoved(j) \ {}], ComingOf(j2), P2)
    BY <1>5, <1>11, <1>13, <1>16
  <2>2. j.from \in Used(d2) /\ SpaceInv(d2)
    BY <1>5, <1>17
  <2>3. Values(d2, Used(d2), P2, V, j.key)
    <3>1. P[f] = SubSeq(j.key, 1, j.pos) /\ Values(d, U, P, V, j.key)
      BY <1>1, <1>3 DEF Reached
    <3>2. NodeMade(d, U, P, j, d2, to, f, p)
      BY <1>1, <1>2, <1>3, <1>5, <3>1 DEF NodeMade
    <3>3. P2 = Grafted(P, U, to, f, p)
      BY DEF f
    <3>4. Values(d2, U \cup {to}, P2, V, j.key)
      <4>1. JobType(j) /\ Values(d, U, P, V, j.key)
        BY <1>1, <3>1
      <4>2. QED
        BY ONLY <3>2, <3>3, <4>1, ValuesGrafted
    <3>5. QED
      BY <1>5, <3>4
  <2>4. QED
    BY <1>14, <1>15, <1>17, <2>1, <2>2, <2>3, WentOn, Zenon

\* A child that is to move: it is still at its old place.
OldPlace(d, j, P, m, p, to, old) ==
  /\ old \in Unmoved(j) /\ old \in Used(d) \ {0} /\ old \in Nat /\ BlockOf(old) # 0
  /\ d.check[old] = m.mover /\ old # m.mover /\ old # ComingOf(j) /\ old # to
  /\ (IsTerminal(P, old) <=> p = 0) /\ Based(d, old, P)
  /\ m.mover \in Used(d) \ {0} /\ m.old \in Nat

LEMMA OldFacts ==
  ASSUME NEW d, NEW j, NEW P, NEW V, NEW m, NEW p, NEW to, Round(d, j, P, V, m, p, to),
         ~ IsNewcomer(j, m.at), NEW old, old = Xor(m.old, p)
  PROVE  OldPlace(d, j, P, m, p, to, old)
<1> DEFINE U == Used(d)
           mv == MoveOf(j)
           s == m.labels
<1>1. /\ ArrayType(d) /\ JobType(j) /\ MoveInv(d, j, P)
      /\ Tree(d, U, mv, ComingOf(j), P) /\ m = j.place /\ m.at \in 1 .. Len(s) /\ p = s[m.at]
      /\ p \in Labels /\ to \notin U /\ j.step = "move"
  BY DEF Round
<1>2. /\ m.mover \in U \ {0} /\ m.old \in PlacesOf(d) /\ BlockOf(m.old) # 0 /\ s \in Seq(Labels)
      /\ \A e \in Unmoved(j) : e \in U /\ d.check[e] = m.mover
      /\ m.newcomer \in BOOLEAN
  BY <1>1 DEF MoveInv
<1>3. m.old \in Nat /\ old \in Nat /\ BlockOf(old) # 0 /\ old # 0
  <2>1. m.old \in Nat
    BY <1>1, <1>2, ArrayFacts
  <2>2. old \in Nat /\ BlockOf(old) = BlockOf(m.old)
    BY <1>1, <2>1, XorFacts
  <2>3. QED
    BY <1>2, <2>1, <2>2, RootBlock
<1>4. old \in Unmoved(j)
  <2>1. Len(s) \in Nat
    BY <1>2
  <2>2. m.at \in {k \in j.place.at .. Len(j.place.labels) : ~ IsNewcomer(j, k)}
    BY <1>1, <2>1
  <2>3. QED
    BY <1>1, <2>2 DEF Unmoved
<1>5. old \in U /\ d.check[old] = m.mover /\ old # to
  BY <1>1, <1>2, <1>4
<1>6. old # m.mover
  BY ONLY <1>1, <1>3, <1>5, NodeFacts
<1>7. IsTerminal(P, old) <=> p = 0
  <2>1. PICK l \in Labels : old = Xor(Hang(d, mv, old), l) /\ (IsTerminal(P, old) <=> l = 0)
    BY ONLY <1>1, <1>3, <1>5, NodeFacts, SMTT(30)
  <2>2. Hang(d, mv, old) = m.old
    BY <1>1, <1>4, <1>5 DEF Hang, MoveOf
  <2>3. l = p
    BY <1>1, <1>3, <2>1, <2>2, XorInjective
  <2>4. QED
    BY <2>1, <2>3
<1>8. old # ComingOf(j)
  <2>1. j.pc = "update" /\ Moving(j)
    BY <1>1 DEF JobType, Moving
  <2>2. CASE m.newcomer
    <3>1. ComingOf(j) = Xor(m.base, LabelOf(j))
      BY <1>1, <2>1, <2>2 DEF ComingOf, Moving
    <3>2. PICK c \in 1 .. Len(s) : s[c] = LabelOf(j)
      BY <1>1, <2>2 DEF MoveInv
    <3>3. CASE c \in 1 .. m.at - 1
      <4>1. Xor(m.base, s[c]) \notin Unmoved(j)
        BY <1>1, <3>3 DEF MoveInv
      <4>2. QED
        BY <1>4, <3>1, <3>2, <4>1
    <3>4. CASE c \in m.at .. Len(s)
      <4>1. d.check[Xor(m.base, s[c])] < 0
        BY <1>1, <3>4 DEF MoveInv
      <4>2. d.check[old] >= 0
        BY <1>3, <1>5 DEF Used
      <4>3. d.check[old] \in Int
        <5>1. old \in PlacesOf(d)
          BY <1>1, <1>5 DEF Tree
        <5>2. QED
          BY <1>1, <5>1 DEF ArrayType
      <4>4. QED
        BY <3>1, <3>2, <4>1, <4>2, <4>3
    <3>5. c \in 1 .. m.at - 1 \/ c \in m.at .. Len(s)
      BY <1>1, <1>2
    <3>6. QED
      BY <3>3, <3>4, <3>5
  <2>3. CASE ~ m.newcomer
    <3>1. ComingOf(j) = IF m.conflict \in Unmoved(j) THEN 0 ELSE m.conflict
      BY <1>1, <2>1, <2>3 DEF ComingOf, Moving
    <3>2. QED
      BY <1>3, <1>4, <3>1
  <2>4. QED
    BY <1>2, <2>2, <2>3
<1>9. Based(d, old, P)
  BY <1>1, <1>3, <1>5, <1>8, BasedIs
<1>10. QED
  BY <1>2, <1>3, <1>4, <1>5, <1>6, <1>7, <1>8, <1>9 DEF OldPlace

\* A node's children, as Adopt finds them from where it is now.
LEMMA KidsAre ==
  ASSUME NEW d, NEW U, NEW old, NEW ch, IsChain(d, U, old, ch), NEW d2, NEW to,
         d2.child[to] = d.child[old], d2.base[to] = d.base[old], \A n \in U : d2.sibling[n] = d.sibling[n]
  PROVE  {Xor(d2.base[to], c) : c \in Range(Children(d2, to))} = {n \in U : Parent(d, n) = old}
<1>1. /\ IsOrder(ch) /\ SiblingList(d, old, ch)
  BY ChainChildren
<1>2. /\ \A i \in 1 .. Len(ch) : Xor(d.base[old], ch[i]) \in U /\ Parent(d, Xor(d.base[old], ch[i])) = old
      /\ \A e \in U : Parent(d, e) = old => \E i \in 1 .. Len(ch) : e = Xor(d.base[old], ch[i])
  BY DEF IsChain
<1>3. SiblingList(d2, to, ch)
  BY <1>1, <1>2 DEF SiblingList
<1>4. Children(d2, to) = ch
  BY <1>1, <1>3, ChildrenAre
<1>5. Range(ch) = {ch[i] : i \in 1 .. Len(ch)}
  <2>1. ch \in Seq(Labels)
    BY <1>1 DEF IsOrder
  <2>2. DOMAIN ch = 1 .. Len(ch)
    BY <2>1
  <2>3. QED
    BY <2>2 DEF Range
<1>6. QED
  BY <1>2, <1>4, <1>5

\* A change that leaves empty places and the lists of blocks alone.
Touched(d, d2) ==
  /\ DOMAIN d2 = ArrayFields /\ d2.size = d.size /\ d2.head = d.head /\ d2.block = d.block
  /\ d2.reject = d.reject
  /\ d2.base \in [PlacesOf(d) -> Int] /\ d2.check \in [PlacesOf(d) -> Int]
  /\ d2.sibling \in [PlacesOf(d) -> Labels] /\ d2.child \in [PlacesOf(d) -> Labels]
  /\ \A e \in PlacesOf(d) \ Used(d) : d2.base[e] = d.base[e] /\ d2.check[e] = d.check[e]
  /\ \A e \in Used(d) \ {0} : d2.check[e] >= 0

LEMMA TouchedSpace ==
  ASSUME NEW d, SpaceInv(d), NEW d2, Touched(d, d2)
  PROVE  SpaceInv(d2) /\ Used(d2) = Used(d) /\ PlacesOf(d2) = PlacesOf(d)
BY TouchSpace DEF Touched

\* What _resolve copies, and the parent that the children K are told of.
Adopted(d, d2, old, to, p, K) ==
  /\ SpaceInv(d2) /\ PlacesOf(d2) = PlacesOf(d) /\ Used(d2) = Used(d) /\ d2.sibling = d.sibling
  /\ d2.base = [d.base EXCEPT ![to] = d.base[old]]
  /\ d2.child = IF p # 0 THEN [d.child EXCEPT ![to] = d.child[old]] ELSE d.child
  /\ d2.check = IF p # 0 THEN [e \in PlacesOf(d) |-> IF e \in K THEN to ELSE d.check[e]] ELSE d.check

LEMMA AdoptTerminal ==
  ASSUME NEW d, SpaceInv(d), NEW to \in Used(d), NEW old \in Used(d), NEW d2, d2 = Adopt(d, old, to, 0),
         NEW K
  PROVE  Adopted(d, d2, old, to, 0, K)
<1>1. /\ DOMAIN d = ArrayFields /\ ArrayType(d)
      /\ d.base \in [PlacesOf(d) -> Int] /\ d.check \in [PlacesOf(d) -> Int]
      /\ d.sibling \in [PlacesOf(d) -> Labels] /\ d.child \in [PlacesOf(d) -> Labels]
  BY DEF SpaceInv, ArrayType
<1>2. Used(d) \subseteq PlacesOf(d)
  BY <1>1, ArrayFacts DEF Used
<1>3. d2 = [d EXCEPT !.base[to] = d.base[old]]
  BY DEF Adopt
<1>4. /\ DOMAIN d2 = ArrayFields /\ d2.base = [d.base EXCEPT ![to] = d.base[old]]
      /\ d2.size = d.size /\ d2.head = d.head /\ d2.block = d.block /\ d2.reject = d.reject
      /\ d2.check = d.check /\ d2.child = d.child /\ d2.sibling = d.sibling
  BY <1>1, <1>3 DEF ArrayFields
<1>5. SpaceInv(d2) /\ Used(d2) = Used(d) /\ PlacesOf(d2) = PlacesOf(d)
  <2>1. d2.base \in [PlacesOf(d) -> Int]
    <3>1. d.base[old] \in Int
      BY <1>1, <1>2
    <3>2. QED
      BY <1>1, <1>4, <3>1
  <2>2. \A e \in PlacesOf(d) \ Used(d) : d2.base[e] = d.base[e] /\ d2.check[e] = d.check[e]
    BY <1>1, <1>4
  <2>3. \A e \in Used(d) \ {0} : d2.check[e] >= 0
    BY <1>4 DEF Used
  <2>4. /\ d2.check \in [PlacesOf(d) -> Int]
        /\ d2.sibling \in [PlacesOf(d) -> Labels] /\ d2.child \in [PlacesOf(d) -> Labels]
    BY <1>1, <1>4
  <2>5. QED
    BY <1>4, <2>1, <2>2, <2>3, <2>4, TouchSpace
<1>6. QED
  BY <1>4, <1>5 DEF Adopted

LEMMA AdoptInner ==
  ASSUME NEW d, SpaceInv(d), NEW to \in Used(d), NEW old \in Used(d), d.base[old] > 0,
         NEW p \in Labels, p # 0, NEW d2, d2 = Adopt(d, old, to, p),
         NEW K, K \subseteq Used(d) \ {0},
         \A d1 : d1.child[to] = d.child[old] /\ d1.base[to] = d.base[old] /\ d1.sibling = d.sibling
                   => K = {Xor(d1.base[to], c) : c \in Range(Children(d1, to))}
  PROVE  Adopted(d, d2, old, to, p, K)
<1>1. /\ DOMAIN d = ArrayFields /\ ArrayType(d)
      /\ d.base \in [PlacesOf(d) -> Int] /\ d.check \in [PlacesOf(d) -> Int]
      /\ d.sibling \in [PlacesOf(d) -> Labels] /\ d.child \in [PlacesOf(d) -> Labels]
  BY DEF SpaceInv, ArrayType
<1>2. Used(d) \subseteq PlacesOf(d) /\ to \in Nat
  <2>1. Used(d) \subseteq PlacesOf(d)
    BY <1>1, ArrayFacts DEF Used
  <2>2. QED
    BY <1>1, <2>1, ArrayFacts
<1>3. PICK d1 : d1 = [d EXCEPT !.base[to] = d.base[old], !.child[to] = d.child[old]]
  OBVIOUS
<1>4. /\ DOMAIN d1 = ArrayFields /\ d1.base = [d.base EXCEPT ![to] = d.base[old]]
      /\ d1.child = [d.child EXCEPT ![to] = d.child[old]]
      /\ d1.size = d.size /\ d1.head = d.head /\ d1.block = d.block /\ d1.reject = d.reject
      /\ d1.check = d.check /\ d1.sibling = d.sibling
  BY <1>1, <1>3 DEF ArrayFields
<1>5. K = {Xor(d1.base[to], c) : c \in Range(Children(d1, to))}
  BY <1>1, <1>2, <1>4
<1>6. d2 = [d1 EXCEPT !.check = [e \in DOMAIN @ |-> IF e \in K THEN to ELSE @[e]]]
  <2>1. d2 = [d1 EXCEPT !.check = [e \in DOMAIN @ |->
                 IF e \in {Xor(d1.base[to], c) : c \in Range(Children(d1, to))} THEN to ELSE @[e]]]
    BY <1>3 DEF Adopt
  <2>2. QED
    BY <1>5, <2>1
<1>7. /\ DOMAIN d2 = ArrayFields /\ d2.base = [d.base EXCEPT ![to] = d.base[old]]
      /\ d2.child = [d.child EXCEPT ![to] = d.child[old]]
      /\ d2.size = d.size /\ d2.head = d.head /\ d2.block = d.block /\ d2.reject = d.reject
      /\ d2.sibling = d.sibling
      /\ d2.check = [e \in PlacesOf(d) |-> IF e \in K THEN to ELSE d.check[e]]
  <2>1. DOMAIN d1.check = PlacesOf(d)
    BY <1>1, <1>4
  <2>2. d2.check = [e \in DOMAIN d1.check |-> IF e \in K THEN to ELSE d1.check[e]]
    BY <1>4, <1>6 DEF ArrayFields
  <2>3. /\ DOMAIN d2 = ArrayFields /\ d2.base = d1.base /\ d2.child = d1.child
        /\ d2.size = d1.size /\ d2.head = d1.head /\ d2.block = d1.block /\ d2.reject = d1.reject
        /\ d2.sibling = d1.sibling
    BY <1>4, <1>6 DEF ArrayFields
  <2>4. QED
    BY <1>4, <2>1, <2>2, <2>3
<1>8. SpaceInv(d2) /\ Used(d2) = Used(d) /\ PlacesOf(d2) = PlacesOf(d)
  <2>1. d2.base \in [PlacesOf(d) -> Int] /\ d2.child \in [PlacesOf(d) -> Labels]
    <3>1. d.base[old] \in Int /\ d.child[old] \in Labels
      BY <1>1, <1>2
    <3>2. d2.base \in [PlacesOf(d) -> Int]
      BY <1>1, <1>7, <3>1, ZenonT(30)
    <3>3. d2.child \in [PlacesOf(d) -> Labels]
      <4>1. \A e \in PlacesOf(d) : d2.child[e] \in Labels
        BY <1>1, <1>7, <3>1
      <4>2. d2.child = [e \in PlacesOf(d) |-> d2.child[e]]
        BY <1>1, <1>7
      <4> HIDE DEF Labels
      <4>3. QED
        BY <4>1, <4>2
    <3>4. QED
      BY <3>2, <3>3
  <2>2. \A e \in PlacesOf(d) \ Used(d) : d2.base[e] = d.base[e] /\ d2.check[e] = d.check[e]
    BY <1>1, <1>7
  <2>3. \A e \in Used(d) \ {0} : d2.check[e] >= 0
    <3>1. \A e \in Used(d) \ {0} : e \in PlacesOf(d) /\ d.check[e] >= 0
      BY DEF Used
    <3>2. QED
      BY <1>2, <1>7, <3>1
  <2>4. d2.check \in [PlacesOf(d) -> Int] /\ d2.sibling \in [PlacesOf(d) -> Labels]
    <3>1. \A e \in PlacesOf(d) : (IF e \in K THEN to ELSE d.check[e]) \in Int
      BY <1>1, <1>2
    <3>2. QED
      BY <1>1, <1>7, <3>1
  <2>5. QED
    <3>1. Touched(d, d2)
      BY <1>7, <2>1, <2>2, <2>3, <2>4 DEF Touched
    <3>2. QED
      BY <3>1, TouchedSpace
<1>9. QED
  BY <1>7, <1>8 DEF Adopted

\* After a child of the mover has gone from old to to, where its children know it.
Carries(d, d2, j, P, m, to, old, sb, P2) ==
  /\ SpaceInv(d2) /\ Blank(d2) /\ PlacesOf(d2) = PlacesOf(d) /\ Used(d2) = Used(d) \cup {to}
  /\ Tree(d2, Without1(Used(d), old, to),
          [mover |-> m.mover, old |-> m.old, left |-> Unmoved(j) \ {old}], ComingOf(j), P2)
  /\ \A n \in Used(d) : /\ d2.base[n] = d.base[n] /\ d2.child[n] = d.child[n]
                        /\ d2.sibling[n] = d.sibling[n]
  /\ \A n \in Used(d) \ {0} : d2.check[n] = IF d.check[n] = old THEN to ELSE d.check[n]
  /\ d2.check[0] = d.check[0]
  /\ d2.check[to] = m.mover /\ d2.sibling[to] = sb /\ d2.base[to] = d.base[old]

Kids(d, U, old) == {n \in U \ {0} : d.check[n] = old}

LEMMA AdoptRound ==
  ASSUME NEW d, NEW j, NEW P, NEW V, NEW m, NEW p, NEW to, Round(d, j, P, V, m, p, to),
         NEW old, OldPlace(d, j, P, m, p, to, old), NEW sb, NEW d1, TakenNext(d, d1, to, p, m.mover, sb),
         NEW d2, d2 = Adopt(d1, old, to, p)
  PROVE  /\ Adopted(d1, d2, old, to, p, Kids(d, Used(d), old))
         /\ p = 0 => Kids(d, Used(d), old) = {}
<1> DEFINE U == Used(d)
           K == Kids(d, U, old)
<1>1. /\ ArrayType(d) /\ Tree(d, U, MoveOf(j), ComingOf(j), P) /\ m = j.place
      /\ p \in Labels /\ to \notin U
  BY DEF Round
<1>2. /\ old \in U \ {0} /\ old # m.mover /\ (IsTerminal(P, old) <=> p = 0) /\ Based(d, old, P)
  BY DEF OldPlace
<1>3. /\ SpaceInv(d1) /\ Used(d1) = U \cup {to} /\ d1.child = d.child
      /\ d1.sibling = [d.sibling EXCEPT ![to] = sb]
      /\ \A n \in U : d1.check[n] = d.check[n] /\ d1.base[n] = d.base[n]
  BY DEF TakenNext
<1>4. CASE p = 0
  <2>1. K = {}
    <3>1. \A n \in U \ {0} : ~ IsTerminal(P, d.check[n])
      BY <1>1, NodeFacts
    <3>2. QED
      BY <1>2, <1>4, <3>1 DEF Kids
  <2>2. Adopted(d1, d2, old, to, p, K)
    <3>1. to \in Used(d1) /\ old \in Used(d1)
      BY <1>2, <1>3
    <3>2. d2 = Adopt(d1, old, to, 0)
      BY <1>4
    <3> HIDE DEF K
    <3>3. Adopted(d1, d2, old, to, 0, K)
      BY <1>3, <3>1, <3>2, AdoptTerminal
    <3>4. QED
      BY <1>4, <3>3
  <2>3. QED
    BY <2>1, <2>2
<1>5. CASE p # 0
  <2>1. d.base[old] > 0 /\ d.base[old] \in Nat
    <3>1. d.base[old] \in PlacesOf(d) /\ BlockOf(d.base[old]) # 0
      BY <1>2, <1>5 DEF Based
    <3>2. d.base[old] \in Nat
      BY <1>1, <3>1, ArrayFacts
    <3>3. d.base[old] # 0
      BY <3>1, RootBlock
    <3>4. QED
      BY <3>2, <3>3
  <2>2. PICK ch : IsChain(d, U, old, ch)
    <3>1. ~ IsTerminal(P, old) /\ d.base[old] >= 0 /\ old # MoveOf(j).mover
      BY <1>1, <1>2, <1>5, <2>1 DEF MoveOf
    <3>2. QED
      BY <1>1, <1>2, <3>1 DEF Tree, Chains
  <2>3. K = {n \in U : Parent(d, n) = old}
    BY <1>2 DEF Kids, Parent
  <2>4. \A n \in U : d1.sibling[n] = d.sibling[n]
    <3>1. U \subseteq PlacesOf(d) /\ d.sibling \in [PlacesOf(d) -> Labels]
      BY <1>1 DEF Tree, ArrayType
    <3>2. QED
      BY <1>1, <1>3, <3>1
  <2>5. \A d3 : d3.child[to] = d1.child[old] /\ d3.base[to] = d1.base[old] /\ d3.sibling = d1.sibling
                  => K = {Xor(d3.base[to], c) : c \in Range(Children(d3, to))}
    <3>1. SUFFICES ASSUME NEW d3, d3.child[to] = d1.child[old], d3.base[to] = d1.base[old],
                          d3.sibling = d1.sibling
                   PROVE  K = {Xor(d3.base[to], c) : c \in Range(Children(d3, to))}
      OBVIOUS
    <3>2. /\ d3.child[to] = d.child[old] /\ d3.base[to] = d.base[old]
          /\ \A n \in U : d3.sibling[n] = d.sibling[n]
      BY <1>2, <1>3, <2>4, <3>1
    <3>3. {Xor(d3.base[to], c) : c \in Range(Children(d3, to))} = {n \in U : Parent(d, n) = old}
      BY <2>2, <3>2, KidsAre
    <3>4. QED
      BY <2>3, <3>3
  <2>6. K \subseteq Used(d1) \ {0}
    BY <1>3 DEF Kids
  <2>7. to \in Used(d1) /\ old \in Used(d1) /\ d1.base[old] > 0
    BY <1>2, <1>3, <2>1
  <2> HIDE DEF K
  <2>8. Adopted(d1, d2, old, to, p, K)
    BY <1>1, <1>3, <1>5, <2>5, <2>6, <2>7, AdoptInner
  <2>9. QED
    BY <1>5, <2>8 DEF K
<1>6. QED
  BY <1>4, <1>5

CarriedFields(d, d2, m, to, old, sb) ==
  /\ SpaceInv(d2) /\ PlacesOf(d2) = PlacesOf(d) /\ Used(d2) = Used(d) \cup {to}
  /\ \A n \in Used(d) : /\ d2.base[n] = d.base[n] /\ d2.child[n] = d.child[n]
                        /\ d2.sibling[n] = d.sibling[n]
  /\ \A n \in Used(d) \ {0} : d2.check[n] = IF d.check[n] = old THEN to ELSE d.check[n]
  /\ d2.check[0] = d.check[0]
  /\ d2.check[to] = m.mover /\ d2.sibling[to] = sb /\ d2.base[to] = d.base[old]
  /\ \A e \in PlacesOf(d) \ {to} : d2.child[e] = d.child[e]

LEMMA CarryFields ==
  ASSUME NEW d, NEW j, NEW P, NEW V, NEW m, NEW p, NEW to, Round(d, j, P, V, m, p, to),
         NEW old, OldPlace(d, j, P, m, p, to, old), NEW sb, NEW d1, TakenNext(d, d1, to, p, m.mover, sb),
         NEW d2, d2 = Adopt(d1, old, to, p)
  PROVE  /\ CarriedFields(d, d2, m, to, old, sb)
         /\ ~ IsTerminal(P, old) => d2.child[to] = d.child[old]
<1> DEFINE U == Used(d)
           K == Kids(d, U, old)
<1>1. /\ ArrayType(d) /\ U \subseteq PlacesOf(d) /\ 0 \in U /\ p \in Labels /\ to \notin U
      /\ to \in PlacesOf(d)
  BY DEF Round, Tree
<1>2. old \in U \ {0} /\ old # to /\ (IsTerminal(P, old) <=> p = 0)
  BY DEF OldPlace
<1>3. /\ SpaceInv(d1) /\ Used(d1) = U \cup {to} /\ d1.child = d.child /\ PlacesOf(d1) = PlacesOf(d)
      /\ d1.sibling = [d.sibling EXCEPT ![to] = sb] /\ d1.check[to] = m.mover
      /\ \A n \in U : d1.check[n] = d.check[n] /\ d1.base[n] = d.base[n]
  BY DEF TakenNext
<1>4. Adopted(d1, d2, old, to, p, K) /\ (p = 0 => K = {})
  BY AdoptRound
<1>5. /\ SpaceInv(d2) /\ PlacesOf(d2) = PlacesOf(d1) /\ Used(d2) = Used(d1) /\ d2.sibling = d1.sibling
      /\ d2.base = [d1.base EXCEPT ![to] = d1.base[old]]
      /\ d2.child = (IF p # 0 THEN [d1.child EXCEPT ![to] = d1.child[old]] ELSE d1.child)
      /\ d2.check = (IF p # 0 THEN [e \in PlacesOf(d1) |-> IF e \in K THEN to ELSE d1.check[e]]
                     ELSE d1.check)
  BY <1>4 DEF Adopted
<1>6. /\ DOMAIN d1.base = PlacesOf(d) /\ DOMAIN d1.check = PlacesOf(d) /\ DOMAIN d.child = PlacesOf(d)
      /\ DOMAIN d.sibling = PlacesOf(d)
  <2>1. /\ DOMAIN d1.base = PlacesOf(d1) /\ DOMAIN d1.check = PlacesOf(d1)
    BY <1>3 DEF SpaceInv, ArrayType
  <2>2. DOMAIN d.child = PlacesOf(d) /\ DOMAIN d.sibling = PlacesOf(d)
    BY <1>1 DEF ArrayType
  <2>3. QED
    BY <1>3, <2>1, <2>2
<1>7. \A e \in U \cup {to} : d2.check[e] = IF e \in K THEN to ELSE d1.check[e]
  <2> HIDE DEF K, U
  <2>1. CASE p # 0
    BY <1>1, <1>3, <1>5, <2>1
  <2>2. CASE p = 0
    BY <1>1, <1>3, <1>4, <1>5, <2>2
  <2>3. QED
    BY <2>1, <2>2
<1>8. \A n \in U \ {0} : d2.check[n] = IF d.check[n] = old THEN to ELSE d.check[n]
  BY <1>3, <1>7 DEF Kids
<1>9. d2.check[0] = d.check[0] /\ d2.check[to] = m.mover
  <2>1. 0 \notin K /\ to \notin K
    BY <1>1 DEF Kids
  <2> HIDE DEF K, U
  <2>2. QED
    BY <1>1, <1>3, <1>7, <2>1
<1>10. /\ \A n \in U : d2.base[n] = d.base[n] /\ d2.sibling[n] = d.sibling[n]
       /\ d2.sibling[to] = sb /\ d2.base[to] = d.base[old]
  <2> HIDE DEF K, U
  <2>1. QED
    BY <1>1, <1>2, <1>3, <1>5, <1>6
<1>11. \A e \in PlacesOf(d) \ {to} : d2.child[e] = d.child[e]
  <2> HIDE DEF K, U
  <2>1. CASE p # 0
    BY <1>3, <1>5, <1>6, <2>1
  <2>2. CASE p = 0
    BY <1>3, <1>5, <1>6, <2>2
  <2>3. QED
    BY <2>1, <2>2
<1>12. ~ IsTerminal(P, old) => d2.child[to] = d.child[old]
  <2> HIDE DEF K, U
  <2>1. QED
    BY <1>1, <1>2, <1>3, <1>5, <1>6
<1>13. \A n \in U : d2.child[n] = d.child[n]
  BY <1>1, <1>11
<1>14. PlacesOf(d2) = PlacesOf(d) /\ Used(d2) = U \cup {to} /\ SpaceInv(d2)
  BY <1>3, <1>5
<1> HIDE DEF K
<1>15. QED
  BY <1>8, <1>9, <1>10, <1>11, <1>12, <1>13, <1>14 DEF CarriedFields

LEMMA CarryRound ==
  ASSUME NEW d, NEW j, NEW P, NEW V, NEW m, NEW p, NEW to, Round(d, j, P, V, m, p, to),
         NEW old, OldPlace(d, j, P, m, p, to, old), old = Xor(m.old, p),
         NEW d2, NEW sb, CarriedFields(d, d2, m, to, old, sb),
         ~ IsTerminal(P, old) => d2.child[to] = d.child[old],
         NEW P2, P2 = Carried(P, Used(d), old, to)
  PROVE  Carries(d, d2, j, P, m, to, old, sb, P2)
<1> DEFINE U == Used(d)
           mv == MoveOf(j)
           mv2 == [mover |-> m.mover, old |-> m.old, left |-> Unmoved(j) \ {old}]
<1>1. /\ ArrayType(d) /\ Tree(d, U, mv, ComingOf(j), P) /\ m = j.place /\ Blank(d) /\ MoveInv(d, j, P)
      /\ p \in Labels /\ to \notin U /\ to \in PlacesOf(d) /\ to \notin Unmoved(j) /\ to = Xor(m.base, p)
  BY DEF Round
<1>2. /\ old \in Unmoved(j) /\ old \in U \ {0} /\ d.check[old] = m.mover /\ old # m.mover
      /\ old # ComingOf(j) /\ old # to /\ m.mover \in U \ {0} /\ m.old \in Nat
  BY DEF OldPlace
<1>3. /\ SpaceInv(d2) /\ PlacesOf(d2) = PlacesOf(d) /\ Used(d2) = U \cup {to}
      /\ \A n \in U : /\ d2.base[n] = d.base[n] /\ d2.child[n] = d.child[n]
                      /\ d2.sibling[n] = d.sibling[n]
      /\ \A n \in U \ {0} : d2.check[n] = IF d.check[n] = old THEN to ELSE d.check[n]
      /\ d2.check[0] = d.check[0]
      /\ d2.check[to] = m.mover /\ d2.sibling[to] = sb /\ d2.base[to] = d.base[old]
      /\ \A e \in PlacesOf(d) \ {to} : d2.child[e] = d.child[e]
  BY DEF CarriedFields
<1>4. d.base[m.mover] = m.base
  BY <1>1 DEF MoveInv
<1>5. mv.mover = m.mover /\ mv.old = m.old /\ mv.left = Unmoved(j)
  BY <1>1 DEF MoveOf
<1>6. mv2.mover = mv.mover /\ mv2.old = mv.old /\ mv2.left = mv.left \ {old}
  BY <1>5
<1> HIDE DEF mv, mv2
<1>7. Movable(d, U, mv, ComingOf(j), P, old, to, p, d2)
  <2>1. to = Xor(d2.base[mv.mover], p) /\ d2.check[to] = mv.mover
    BY <1>1, <1>2, <1>3, <1>4, <1>5
  <2>2. \A n \in U \ {old, 0} : d2.check[n] = IF d.check[n] = old THEN to ELSE d.check[n]
    BY <1>3
  <2>3. PlacesOf(d) \subseteq PlacesOf(d2) /\ to \in PlacesOf(d2)
    BY <1>1, <1>3
  <2>4. QED
    BY <1>1, <1>2, <1>3, <1>5, <2>1, <2>2, <2>3 DEF Movable
<1>8. Tree(d2, Without1(U, old, to), mv2, ComingOf(j), P2)
  BY <1>1, <1>6, <1>7, Relocate
<1>9. Blank(d2)
  <2>1. \A e \in PlacesOf(d) \ Used(d2) : d2.child[e] = d.child[e]
    BY <1>3
  <2>2. 0 \in U
    BY <1>1 DEF Tree
  <2>3. QED
    BY <1>1, <1>3, <2>1, <2>2, BlankTaken
<1>10. QED
  BY <1>3, <1>8, <1>9 DEF Carries, mv2

\* Where the update is after a round, if it was at the child that moved.
Follows(d, d2, j, P, m, to, old, from, P2) ==
  /\ from \in Without1(Used(d), old, to) /\ P2[from] = P[j.from] /\ d2.base[from] = d.base[j.from]
  /\ d.base[j.from] >= 0 /\ (m.newcomer <=> m.mover = from) /\ from # old
  /\ m.mover \in Without1(Used(d), old, to) /\ m.mover # 0
  /\ ~ IsTerminal(P2, m.mover) /\ ~ IsTerminal(P2, from)
  /\ from = IF j.from = old THEN to ELSE j.from
  /\ m.newcomer => old # m.conflict
  /\ m.newcomer => d.check[m.conflict] # m.mover
  /\ m.conflict \in Used(d) \ {0}

LEMMA FromFacts ==
  ASSUME NEW d, NEW j, NEW P, NEW V, NEW m, NEW p, NEW to, Round(d, j, P, V, m, p, to),
         NEW old, OldPlace(d, j, P, m, p, to, old),
         NEW P2, P2 = Carried(P, Used(d), old, to), NEW d2, NEW sb, Carries(d, d2, j, P, m, to, old, sb, P2),
         NEW from, from = MovedFrom(m, j.from, old, to)
  PROVE  Follows(d, d2, j, P, m, to, old, from, P2)
<1> DEFINE U == Used(d)
<1>1. /\ JobType(j) /\ Reached(d, j, P, V) /\ MoveInv(d, j, P) /\ m = j.place /\ to \notin U
  BY DEF Round
<1>2. /\ old \in U \ {0} /\ d.check[old] = m.mover /\ old # m.mover /\ old # to
  BY DEF OldPlace
<1>3. /\ m.mover \in U \ {0} /\ ~ IsTerminal(P, m.mover) /\ (m.newcomer <=> m.mover = j.from)
      /\ d.base[j.from] >= 0 /\ m.conflict \in U \ {0} /\ m.newcomer \in BOOLEAN
      /\ m.newcomer => d.check[m.conflict] # m.mover
  BY <1>1 DEF MoveInv
<1>4. j.from \in U /\ ~ IsTerminal(P, j.from)
  <2>1. j.from \in U
    BY <1>1 DEF Reached
  <2>2. QED
    BY <1>1, <2>1, JobFacts
<1>5. P2[to] = P[old] /\ \A n \in U \ {old} : P2[n] = P[n]
  <2>1. \A n \in (U \cup {to}) \ {old} : P2[n] = IF n = to THEN P[old] ELSE P[n]
    BY DEF Carried, Without1
  <2> HIDE DEF U
  <2>2. QED
    BY <1>1, <1>2, <2>1
<1>6. /\ d2.base[to] = d.base[old] /\ \A n \in U : d2.base[n] = d.base[n]
  BY DEF Carries
<1>7. from = IF j.from = old THEN to ELSE j.from
  BY <1>2, <1>3 DEF MovedFrom
<1>8. from \in Without1(U, old, to) /\ m.mover \in Without1(U, old, to)
  BY <1>1, <1>2, <1>3, <1>4, <1>7 DEF Without1
<1>9. P2[from] = P[j.from] /\ d2.base[from] = d.base[j.from] /\ P2[m.mover] = P[m.mover]
  <2> HIDE DEF U
  <2>1. CASE j.from = old
    BY <1>2, <1>3, <1>5, <1>6, <1>7, <2>1
  <2>2. CASE j.from # old
    BY <1>2, <1>3, <1>4, <1>5, <1>6, <1>7, <2>2
  <2>3. QED
    BY <2>1, <2>2
<1>10. ~ IsTerminal(P2, m.mover) /\ ~ IsTerminal(P2, from)
  BY <1>3, <1>4, <1>9 DEF IsTerminal
<1>11. (m.newcomer <=> m.mover = from) /\ from # old
  BY <1>1, <1>2, <1>3, <1>7
<1>12. m.newcomer => old # m.conflict
  BY <1>2, <1>3
<1>13. QED
  BY <1>3, <1>7, <1>8, <1>9, <1>10, <1>11, <1>12 DEF Follows

\* The place conflict is whose it should be after a round, if nobody moves from it.
LEMMA ConflictStays ==
  ASSUME NEW d, NEW j, NEW P, NEW V, NEW m, NEW p, NEW to, Round(d, j, P, V, m, p, to),
         NEW old, OldPlace(d, j, P, m, p, to, old), old = Xor(m.old, p), old # m.conflict, ~ m.newcomer,
         NEW from, from = (IF j.from = old THEN to ELSE j.from), NEW d3,
         d3.check[m.conflict] = IF d.check[m.conflict] = old THEN to ELSE d.check[m.conflict]
  PROVE  \E c \in 1 .. Len(m.labels) :
           /\ m.conflict = Xor(m.old, m.labels[c])
           /\ d3.check[m.conflict] = IF m.at + 1 <= c THEN m.mover ELSE from
<1>1. MoveInv(d, j, P) /\ m = j.place /\ m.at \in 1 .. Len(m.labels) /\ p = m.labels[m.at]
  BY DEF Round
<1>2. PICK c \in 1 .. Len(m.labels) :
        /\ m.conflict = Xor(m.old, m.labels[c])
        /\ d.check[m.conflict] = IF m.at <= c THEN m.mover ELSE j.from
  BY <1>1 DEF MoveInv
<1>3. c # m.at /\ c \in Nat /\ m.at \in Nat
  <2>1. Len(m.labels) \in Nat
    BY ONLY <1>1, SMTT(30) DEF MoveInv
  <2>2. QED
    BY <1>1, <1>2, <2>1
<1>4. m.at <= c <=> m.at + 1 <= c
  BY <1>3
<1>5. old # m.mover
  BY DEF OldPlace
<1>6. d3.check[m.conflict] = IF m.at + 1 <= c THEN m.mover ELSE from
  <2>1. CASE m.at + 1 <= c
    BY <1>2, <1>4, <1>5, <2>1
  <2>2. CASE ~ m.at + 1 <= c
    BY <1>2, <1>4, <2>2
  <2>3. QED
    BY <2>1, <2>2
<1>7. QED
  BY <1>2, <1>6

\* The places that are empty are below 0 in check.
LEMMA EmptyBelow ==
  ASSUME NEW d, SpaceInv(d)
  PROVE  \A e \in PlacesOf(d) \ Used(d) : d.check[e] < 0
<1>1. \A e \in PlacesOf(d) : d.check[e] \in Int
  BY DEF SpaceInv, ArrayType
<1>2. QED
  BY <1>1 DEF Used

\* What is left to come after a round in which the place both want was not left.
LEMMA ComingNext ==
  ASSUME NEW d, NEW j, NEW P, NEW V, NEW m, NEW p, NEW to, Round(d, j, P, V, m, p, to), ~ IsNewcomer(j, m.at),
         NEW old, old = Xor(m.old, p), old # m.conflict,
         NEW from, NEW j2, j2 = NextRound(j, from)
  PROVE  /\ j2.from = from /\ LabelOf(j2) = LabelOf(j) /\ ComingOf(j2) = ComingOf(j)
         /\ Unmoved(j2) = Unmoved(j) \ {old}
<1>0. /\ JobType(j) /\ MoveInv(d, j, P) /\ ArrayType(d) /\ m = j.place /\ j.step = "move"
      /\ m.at \in 1 .. Len(m.labels) /\ p = m.labels[m.at]
  BY DEF Round
<1>1. /\ j2 = [x \in DOMAIN j |-> j2[x]]
      /\ j2.pc = j.pc /\ j2.key = j.key /\ j2.pos = j.pos /\ j2.val = j.val
      /\ j2.step = j.step /\ j2.from = from
      /\ j2.place = [mover |-> m.mover, newcomer |-> m.newcomer, conflict |-> m.conflict,
                     labels |-> m.labels, old |-> m.old, base |-> m.base, at |-> m.at + 1]
  BY <1>0, NextRoundIs
<1>2. LabelOf(j2) = LabelOf(j) /\ j2.pc = "update" /\ j.pc = "update"
  BY <1>0, <1>1, JobSame
<1>3. Unmoved(j2) = Unmoved(j) \ {old}
  BY <1>0, <1>1, <1>2, UnmovedNext
<1>4. m.newcomer \in BOOLEAN
  BY <1>0 DEF MoveInv
<1>5. CASE m.newcomer
  <2>1. ComingOf(j2) = Xor(m.base, LabelOf(j))
    BY <1>0, <1>1, <1>2, <1>5 DEF ComingOf, Moving
  <2>2. ComingOf(j) = Xor(m.base, LabelOf(j))
    BY <1>0, <1>2, <1>5 DEF ComingOf, Moving
  <2>3. QED
    BY <1>0, <1>1, <1>2, <1>3, <2>1, <2>2
<1>6. CASE ~ m.newcomer
  <2>1. ComingOf(j2) = IF m.conflict \in Unmoved(j2) THEN 0 ELSE m.conflict
    BY <1>0, <1>1, <1>2, <1>6 DEF ComingOf, Moving
  <2>2. ComingOf(j) = IF m.conflict \in Unmoved(j) THEN 0 ELSE m.conflict
    BY <1>0, <1>2, <1>6 DEF ComingOf, Moving
  <2>3. QED
    BY <1>0, <1>1, <1>2, <1>3, <2>1, <2>2
<1>7. QED
  BY <1>0, <1>1, <1>2, <1>3, <1>4, <1>5, <1>6

EmptiedOut(d, d2, e) ==
  /\ SpaceInv(d2) /\ PlacesOf(d2) = PlacesOf(d) /\ Used(d2) = Used(d) \ {e} /\ d2.check[e] < 0
  /\ d2.sibling = [d.sibling EXCEPT ![e] = 0] /\ d2.child = [d.child EXCEPT ![e] = 0]
  /\ \A n \in Used(d) \ {e} : d2.check[n] = d.check[n] /\ d2.base[n] = d.base[n]

LEMMA Emptied ==
  ASSUME NEW d, SpaceInv(d), NEW e \in Used(d), BlockOf(e) # 0
  PROVE  EmptiedOut(d, PushEnode(d, e), e)
<1>1. PICK d2 : d2 = PushEnode(d, e)
  OBVIOUS
<1>2. EmptiedOut(d, d2, e)
  BY <1>1, PushEnodeSpace DEF EmptiedOut
<1>3. QED
  BY <1>1, <1>2

\* The child that goes to its new place takes its value along.
LEMMA CarriedValues ==
  ASSUME NEW d, NEW j, NEW P, NEW V, NEW m, NEW p, NEW to, Round(d, j, P, V, m, p, to),
         NEW old, OldPlace(d, j, P, m, p, to, old), NEW sb,
         NEW P2, P2 = Carried(P, Used(d), old, to), NEW d2, Carries(d, d2, j, P, m, to, old, sb, P2)
  PROVE  Values(d2, Without1(Used(d), old, to), P2, V, j.key) /\ j.key \in Keys
<1>1. Values(d, Used(d), P, V, j.key) /\ j.key \in Keys /\ to \notin Used(d)
  BY DEF Round, Reached, JobType
<1>2. old \in Used(d)
  BY DEF OldPlace
<1>3. d2.base[to] = d.base[old] /\ \A n \in Used(d) : d2.base[n] = d.base[n]
  BY DEF Carries
<1>4. NodeCarried(d, Used(d), d2, old, to)
  BY <1>1, <1>2, <1>3 DEF NodeCarried
<1>5. QED
  BY <1>1, <1>4, ValuesCarried

\* A round of a child that goes to its new place and leaves the old one empty.
LEMMA PlainRound ==
  ASSUME NEW d, NEW j, NEW P, NEW V, NEW m, NEW p, NEW to, Round(d, j, P, V, m, p, to), ~ IsNewcomer(j, m.at),
         NEW old, OldPlace(d, j, P, m, p, to, old), old = Xor(m.old, p), old # m.conflict,
         NEW sb, sb = (IF m.at = Len(m.labels) THEN 0 ELSE m.labels[m.at + 1]),
         NEW P2, P2 = Carried(P, Used(d), old, to), NEW d2, Carries(d, d2, j, P, m, to, old, sb, P2),
         NEW from, from = MovedFrom(m, j.from, old, to), NEW j2, j2 = NextRound(j, from),
         NEW d3, d3 = PushEnode(d2, old)
  PROVE  Went(d3, j2, P2, V)
<1> DEFINE U == Used(d)
           U2 == Without1(U, old, to)
           mv2 == [mover |-> m.mover, old |-> m.old, left |-> Unmoved(j) \ {old}]
<1>1. /\ ArrayType(d) /\ JobType(j) /\ MoveInv(d, j, P) /\ m = j.place /\ to \notin U
      /\ m.at \in 1 .. Len(m.labels) /\ p = m.labels[m.at] /\ j.step = "move" /\ U \subseteq PlacesOf(d)
      /\ 0 \in U /\ to # 0 /\ to \notin Unmoved(j)
  BY DEF Round, Tree
<1>2. /\ old \in U \ {0} /\ d.check[old] = m.mover /\ old # m.mover /\ old # to /\ BlockOf(old) # 0
      /\ old \in Unmoved(j)
  BY DEF OldPlace
<1>3. /\ SpaceInv(d2) /\ Blank(d2) /\ PlacesOf(d2) = PlacesOf(d) /\ Used(d2) = U \cup {to}
      /\ Tree(d2, U2, mv2, ComingOf(j), P2)
      /\ \A n \in U : /\ d2.base[n] = d.base[n] /\ d2.child[n] = d.child[n]
                      /\ d2.sibling[n] = d.sibling[n]
      /\ \A n \in U \ {0} : d2.check[n] = IF d.check[n] = old THEN to ELSE d.check[n]
      /\ d2.check[0] = d.check[0]
      /\ d2.check[to] = m.mover /\ d2.sibling[to] = sb /\ d2.base[to] = d.base[old]
  BY DEF Carries
<1>4. Follows(d, d2, j, P, m, to, old, from, P2)
  BY FromFacts
<1>5. /\ SpaceInv(d3) /\ PlacesOf(d3) = PlacesOf(d) /\ Used(d3) = U2 /\ d3.check[old] < 0
      /\ d3.sibling = [d2.sibling EXCEPT ![old] = 0] /\ d3.child = [d2.child EXCEPT ![old] = 0]
      /\ \A n \in U2 : d3.check[n] = d2.check[n] /\ d3.base[n] = d2.base[n]
  <2>1. old \in Used(d2)
    BY <1>2, <1>3
  <2>2. /\ SpaceInv(d3) /\ PlacesOf(d3) = PlacesOf(d2) /\ Used(d3) = Used(d2) \ {old}
        /\ d3.check[old] < 0
        /\ d3.sibling = [d2.sibling EXCEPT ![old] = 0] /\ d3.child = [d2.child EXCEPT ![old] = 0]
        /\ \A n \in Used(d2) \ {old} : d3.check[n] = d2.check[n] /\ d3.base[n] = d2.base[n]
    <3>1. EmptiedOut(d2, PushEnode(d2, old), old)
      BY <1>2, <1>3, <2>1, Emptied
    <3>2. QED
      BY <3>1 DEF EmptiedOut
  <2>3. U2 = Used(d2) \ {old}
    BY <1>3 DEF Without1
  <2> HIDE DEF U2, U
  <2>4. QED
    BY <1>3, <2>2, <2>3
<1>6. /\ \A n \in U2 : d3.sibling[n] = d2.sibling[n] /\ d3.child[n] = d2.child[n]
      /\ \A e \in PlacesOf(d) \ U2 : d3.child[e] = 0
  <2>1. DOMAIN d2.sibling = PlacesOf(d) /\ DOMAIN d2.child = PlacesOf(d)
    BY <1>3 DEF SpaceInv, ArrayType
  <2>2. U2 \subseteq PlacesOf(d) /\ old \notin U2
    BY <1>3 DEF Tree, Without1
  <2>3. \A n \in U2 : d3.sibling[n] = d2.sibling[n] /\ d3.child[n] = d2.child[n]
    <3> HIDE DEF U2
    <3>1. QED
      BY <1>5, <2>1, <2>2
  <2>4. \A e \in PlacesOf(d) \ U2 : e # old => d2.child[e] = 0
    BY <1>3 DEF Blank, Without1
  <2> HIDE DEF U2
  <2>5. QED
    BY <1>5, <2>1, <2>3, <2>4
<1>7. Tree(d3, U2, mv2, ComingOf(j), P2)
  <2> HIDE DEF U2, mv2
  <2>1. PlacesOf(d2) \subseteq PlacesOf(d3)
    BY <1>3, <1>5
  <2>2. \A n \in U2 : /\ d3.base[n] = d2.base[n] /\ d3.check[n] = d2.check[n]
                      /\ d3.sibling[n] = d2.sibling[n] /\ d3.child[n] = d2.child[n]
    BY <1>5, <1>6
  <2>3. QED
    BY <1>3, <2>1, <2>2, TreeSame
<1>8. Blank(d3)
  BY <1>5, <1>6 DEF Blank
<1>9. /\ j2.from = from /\ LabelOf(j2) = LabelOf(j) /\ ComingOf(j2) = ComingOf(j)
      /\ Unmoved(j2) = Unmoved(j) \ {old}
  BY ComingNext
<1>10. /\ from \in U2 /\ P2[from] = P[j.from] /\ d3.base[from] = d.base[j.from]
       /\ d.base[j.from] >= 0 /\ (m.newcomer <=> m.mover = from)
       /\ m.mover \in U2 /\ ~ IsTerminal(P2, m.mover)
       /\ from = (IF j.from = old THEN to ELSE j.from)
       /\ m.conflict \in U \ {0}
       /\ m.newcomer => d.check[m.conflict] # m.mover
  BY <1>4, <1>5 DEF Follows
<1>11. /\ \A n \in U \ {old} : /\ n \in U2 /\ d3.base[n] = d.base[n] /\ d3.child[n] = d.child[n]
                               /\ d3.sibling[n] = d.sibling[n]
       /\ \A n \in U \ {old, 0} : d3.check[n] = IF d.check[n] = old THEN to ELSE d.check[n]
       /\ d3.check[0] = d.check[0]
       /\ to \in U2 /\ d3.check[to] = m.mover /\ d3.sibling[to] = sb /\ old \notin U2
       /\ U2 \subseteq U \cup {to}
  <2>1. (\A n \in U \ {old} : n \in U2) /\ to \in U2 /\ old \notin U2 /\ U2 \subseteq U \cup {to}
        /\ 0 \in U2
    BY <1>1, <1>2 DEF Without1
  <2> HIDE DEF U, U2
  <2>2. QED
    BY <1>3, <1>5, <1>6, <2>1
<1>12. Advanced(d, j, m, to, {old}, d3, j2, P2)
  <2> HIDE DEF U, U2
  <2>1. /\ PlacesOf(d3) = PlacesOf(d)
        /\ Unmoved(j2) = Unmoved(j) \ {old} /\ m.mover \notin {old}
        /\ to \in Used(d3) /\ d3.check[to] = m.mover
        /\ d3.sibling[to] = (IF m.at = Len(m.labels) THEN 0 ELSE m.labels[m.at + 1])
        /\ Used(d3) \subseteq U \cup {to} /\ {old} \subseteq Unmoved(j)
    BY <1>1, <1>2, <1>5, <1>9, <1>11
  <2>2. m.mover # to
    BY <1>1 DEF MoveInv, U
  <2>3. \A n \in U \ {old} : n \in Used(d3) /\ (d3.check[n] = m.mover <=> d.check[n] = m.mover)
    BY <1>2, <1>5, <1>11, <2>2
  <2>4. \A n \in U \ ({old} \cup {0}) : d.check[n] = m.mover => d3.sibling[n] = d.sibling[n]
    BY <1>11
  <2>5. \A n \in {old} \cap Used(d3) : d3.check[n] # m.mover
    BY <1>5, <1>11
  <2>6. \A e \in PlacesOf(d) \ Used(d3) : d3.check[e] < 0
    BY <1>5, EmptyBelow
  <2>7. /\ d3.base[m.mover] = d.base[m.mover] /\ d3.child[m.mover] = d.child[m.mover]
        /\ ~ IsTerminal(P2, m.mover) /\ (m.newcomer <=> m.mover = j2.from)
        /\ d3.base[j2.from] >= 0 /\ m.conflict \in Used(d3)
    <3>1. m.mover \in U \ {old}
      BY <1>1, <1>2 DEF MoveInv, U
    <3>2. QED
      BY <1>5, <1>9, <1>10, <1>11, <3>1
  <2>8. d3.check[m.conflict] = IF d.check[m.conflict] = old THEN to ELSE d.check[m.conflict]
    BY <1>10, <1>11
  <2>9. m.newcomer => d3.check[m.conflict] # m.mover
    BY <1>10, <2>2, <2>8
  <2>10. ASSUME ~ m.newcomer
         PROVE  /\ m.conflict = Conflict(d3, j2)
                /\ \E c \in 1 .. Len(m.labels) :
                     /\ m.conflict = Xor(m.old, m.labels[c])
                     /\ d3.check[m.conflict] = IF m.at + 1 <= c THEN m.mover ELSE j2.from
    <3>1. \E c \in 1 .. Len(m.labels) :
           /\ m.conflict = Xor(m.old, m.labels[c])
           /\ d3.check[m.conflict] = IF m.at + 1 <= c THEN m.mover ELSE from
      BY <1>10, <2>8, <2>10, ConflictStays
    <3>2. m.conflict = Conflict(d3, j2)
      <4>1. m.conflict = Conflict(d, j)
        BY <1>1, <2>10 DEF MoveInv
      <4>2. QED
        BY <1>9, <1>10, <4>1 DEF Conflict
    <3>3. j2.from = from
      BY <1>9
    <3>4. QED
      BY <3>1, <3>2, <3>3
  <2>11. QED
    BY <1>1, <2>1, <2>3, <2>4, <2>5, <2>6, <2>7, <2>9, <2>10 DEF Advanced, U
<1>13. QED
  <2>1. Tree(d3, Used(d3), [mover |-> m.mover, old |-> m.old, left |-> Unmoved(j) \ {old}], ComingOf(j2), P2)
    BY <1>5, <1>7, <1>9
  <2>2. from \in Used(d3) /\ SpaceInv(d3) /\ P2[from] = P[j.from]
    BY <1>5, <1>10
  <2>3. Values(d3, Used(d3), P2, V, j.key)
    <3>1. Values(d2, U2, P2, V, j.key) /\ j.key \in Keys
      BY CarriedValues
    <3>2. \A n \in U2 : d3.base[n] = d2.base[n]
      BY <1>5
    <3> HIDE DEF U2
    <3>3. Values(d3, U2, P2, V, j.key)
      BY <3>1, <3>2, ValuesKept
    <3>4. QED
      BY <1>5, <3>3
  <2>4. QED
    BY <1>8, <1>12, <2>1, <2>2, <2>3, WentOn, Zenon

\* What is left to come after the round in which the place both want is left.
TookConflict(j, j2, old, from) ==
  /\ j2.from = from /\ LabelOf(j2) = LabelOf(j) /\ ComingOf(j2) = old /\ ComingOf(j) = 0
  /\ Unmoved(j2) = Unmoved(j) \ {old}

LEMMA ComingTaken ==
  ASSUME NEW d, NEW j, NEW P, NEW V, NEW m, NEW p, NEW to, Round(d, j, P, V, m, p, to), ~ m.newcomer,
         NEW old, old = Xor(m.old, p), old \in Unmoved(j), old = m.conflict, NEW from
  PROVE  TookConflict(j, NextRound(j, from), old, from)
<1> SUFFICES ASSUME NEW j2, j2 = NextRound(j, from) PROVE TookConflict(j, j2, old, from)
  OBVIOUS
<1>0. /\ JobType(j) /\ MoveInv(d, j, P) /\ ArrayType(d) /\ m = j.place /\ j.step = "move"
      /\ m.at \in 1 .. Len(m.labels) /\ p = m.labels[m.at] /\ ~ IsNewcomer(j, m.at)
  BY DEF Round, IsNewcomer
<1>1. /\ j2 = [x \in DOMAIN j |-> j2[x]]
      /\ j2.pc = j.pc /\ j2.key = j.key /\ j2.pos = j.pos /\ j2.val = j.val
      /\ j2.step = j.step /\ j2.from = from
      /\ j2.place = [mover |-> m.mover, newcomer |-> m.newcomer, conflict |-> m.conflict,
                     labels |-> m.labels, old |-> m.old, base |-> m.base, at |-> m.at + 1]
  BY <1>0, NextRoundIs
<1>2. LabelOf(j2) = LabelOf(j) /\ j2.pc = "update" /\ j.pc = "update"
  BY <1>0, <1>1, JobSame
<1>3. Unmoved(j2) = Unmoved(j) \ {old}
  <2>0. /\ LabelOf(j2) = LabelOf(j)
        /\ j2.place = [mover |-> m.mover, newcomer |-> m.newcomer, conflict |-> m.conflict,
                       labels |-> m.labels, old |-> m.old, base |-> m.base, at |-> m.at + 1]
    BY <1>1, <1>2
  <2>1. Unmoved(j2) = IF IsNewcomer(j, m.at) THEN Unmoved(j)
                      ELSE Unmoved(j) \ {Xor(m.old, m.labels[m.at])}
    BY <1>0, <2>0, UnmovedNext
  <2>2. QED
    BY <1>0, <2>1
<1>4. ComingOf(j2) = IF m.conflict \in Unmoved(j2) THEN 0 ELSE m.conflict
  BY <1>0, <1>1, <1>2 DEF ComingOf, Moving
<1>5. ComingOf(j) = IF m.conflict \in Unmoved(j) THEN 0 ELSE m.conflict
  BY <1>0, <1>2 DEF ComingOf, Moving
<1>6. QED
  BY <1>1, <1>2, <1>3, <1>4, <1>5 DEF TookConflict

\* A node gets another parent and value, and loses its children.
Overwritten(d, d2, old, from, v) ==
  /\ SpaceInv(d2) /\ Used(d2) = Used(d) /\ PlacesOf(d2) = PlacesOf(d)
  /\ d2.check[old] = from /\ d2.child[old] = 0 /\ d2.base[old] = v
  /\ \A n \in PlacesOf(d) \ {old} : /\ d2.check[n] = d.check[n] /\ d2.base[n] = d.base[n]
                                    /\ d2.child[n] = d.child[n]

LEMMA Overwrite ==
  ASSUME NEW d, SpaceInv(d), NEW old \in Used(d), NEW from \in Nat, NEW v \in Int, NEW d2,
         DOMAIN d2 = ArrayFields,
         d2.size = d.size, d2.head = d.head, d2.block = d.block, d2.reject = d.reject,
         d2.base = [d.base EXCEPT ![old] = v], d2.check = [d.check EXCEPT ![old] = from],
         d2.child = [d.child EXCEPT ![old] = 0], d2.sibling = d.sibling
  PROVE  Overwritten(d, d2, old, from, v)
<1>1. ArrayType(d) /\ 0 \in PlacesOf(d)
  <2>1. ArrayType(d)
    BY DEF SpaceInv
  <2>2. QED
    BY <2>1, ArrayFacts
<1>2. old \in PlacesOf(d)
  BY <1>1 DEF Used
<1>3. /\ d.base \in [PlacesOf(d) -> Int] /\ d.check \in [PlacesOf(d) -> Int]
      /\ d.sibling \in [PlacesOf(d) -> Labels] /\ d.child \in [PlacesOf(d) -> Labels]
  BY <1>1 DEF ArrayType
<1>4. /\ d2.check[old] = from /\ d2.child[old] = 0 /\ d2.base[old] = v
      /\ \A n \in PlacesOf(d) \ {old} : /\ d2.check[n] = d.check[n] /\ d2.base[n] = d.base[n]
                                        /\ d2.child[n] = d.child[n]
  BY <1>2, <1>3
<1>5. Touched(d, d2)
  <2>1. d2.base \in [PlacesOf(d) -> Int] /\ d2.check \in [PlacesOf(d) -> Int]
    <3>1. from \in Int
      OBVIOUS
    <3>2. d2.base \in [PlacesOf(d) -> Int]
      <4>1. d.base \in [PlacesOf(d) -> Int] /\ d2.base = [d.base EXCEPT ![old] = v] /\ v \in Int
        BY <1>3
      <4>2. QED
        BY ONLY <4>1
    <3>3. d2.check \in [PlacesOf(d) -> Int]
      <4>1. d.check \in [PlacesOf(d) -> Int] /\ d2.check = [d.check EXCEPT ![old] = from]
        BY <1>3
      <4>2. QED
        BY ONLY <3>1, <4>1
    <3>4. QED
      BY <3>2, <3>3
  <2>2. d2.sibling \in [PlacesOf(d) -> Labels] /\ d2.child \in [PlacesOf(d) -> Labels]
    <3>1. 0 \in Labels
      BY BIsNat DEF Labels
    <3> HIDE DEF Labels
    <3>2. QED
      BY <1>3, <3>1, ZenonT(30)
  <2>3. \A e \in PlacesOf(d) \ Used(d) : d2.base[e] = d.base[e] /\ d2.check[e] = d.check[e]
    BY <1>4
  <2>4. \A e \in Used(d) \ {0} : d2.check[e] >= 0
    <3>1. \A e \in Used(d) \ {0} : e \in PlacesOf(d) /\ d.check[e] >= 0
      BY DEF Used
    <3>2. QED
      BY <1>4, <3>1
  <2>5. QED
    BY <2>1, <2>2, <2>3, <2>4 DEF Touched
<1>6. SpaceInv(d2) /\ Used(d2) = Used(d) /\ PlacesOf(d2) = PlacesOf(d)
  BY <1>5, TouchedSpace
<1>7. QED
  BY <1>4, <1>6 DEF Overwritten

\* The place that was left becomes the newcomer's.
Retaken(d, d2, U2, from, old, label) ==
  /\ SpaceInv(d2) /\ Used(d2) = Used(d) /\ PlacesOf(d2) = PlacesOf(d)
  /\ SiblingPushed(d, d2, U2, from, old, label)
  /\ d2.check[old] = from /\ d2.child[old] = 0 /\ d2.base[old] = IF label # 0 THEN -1 ELSE 0
  /\ \A n \in PlacesOf(d) \ {old} : d2.check[n] = d.check[n] /\ d2.base[n] = d.base[n]
  /\ \A n \in PlacesOf(d) \ {from, old} : d2.child[n] = d.child[n]

Retake(d, from, base, label, old) ==
  [PushSibling(d, from, base, label, TRUE) EXCEPT
     !.child[old] = 0, !.check[old] = from, !.base[old] = IF label # 0 THEN -1 ELSE 0]

LEMMA RetakePlace ==
  ASSUME NEW d, SpaceInv(d), NEW from \in Used(d), NEW base \in PlacesOf(d), NEW label \in Labels,
         NEW old \in Used(d), old = Xor(base, label), old # 0, old # from,
         d.child[from] = 0 => old # base, d.base[from] = base,
         NEW U2, U2 \subseteq PlacesOf(d), old \notin U2,
         NEW d2, d2 = Retake(d, from, base, label, old)
  PROVE  Retaken(d, d2, U2, from, old, label)
<1>0. ArrayType(d)
  BY DEF SpaceInv
<1>1. old \in PlacesOf(d) /\ from \in PlacesOf(d) /\ from \in Nat
  <2>1. 0 \in PlacesOf(d) /\ PlacesOf(d) \subseteq Nat
    BY <1>0, ArrayFacts
  <2>2. QED
    BY <2>1 DEF Used
<1>2. PICK d1 : d1 = PushSibling(d, from, base, label, TRUE)
  OBVIOUS
<1>3. SiblingNext(d, d1, U2, from, old, label)
  BY <1>1, <1>2, PushNext
<1>4. /\ SpaceInv(d1) /\ Used(d1) = Used(d) /\ PlacesOf(d1) = PlacesOf(d)
      /\ d1.base = d.base /\ d1.check = d.check
      /\ SiblingPushed(d, d1, U2, from, old, label)
      /\ \A n \in PlacesOf(d) \ {from} : d1.child[n] = d.child[n]
  BY <1>3 DEF SiblingNext
<1>5. /\ DOMAIN d1 = ArrayFields
      /\ d1.base \in [PlacesOf(d) -> Int] /\ d1.check \in [PlacesOf(d) -> Int]
      /\ d1.sibling \in [PlacesOf(d) -> Labels] /\ d1.child \in [PlacesOf(d) -> Labels]
  BY <1>4 DEF SpaceInv, ArrayType
<1> DEFINE v == IF label # 0 THEN -1 ELSE 0
<1>6. v \in Int /\ d2 = [d1 EXCEPT !.child[old] = 0, !.check[old] = from, !.base[old] = v]
  BY <1>2 DEF Retake
<1> HIDE DEF v
<1>7. /\ DOMAIN d2 = ArrayFields
      /\ d2.size = d1.size /\ d2.head = d1.head /\ d2.block = d1.block /\ d2.reject = d1.reject
      /\ d2.base = [d1.base EXCEPT ![old] = v] /\ d2.check = [d1.check EXCEPT ![old] = from]
      /\ d2.child = [d1.child EXCEPT ![old] = 0] /\ d2.sibling = d1.sibling
  BY <1>5, <1>6 DEF ArrayFields
<1>8. Overwritten(d1, d2, old, from, v)
  <2>1. from \in PlacesOf(d1) /\ old \in Used(d1) /\ from \in Nat
    BY <1>1, <1>4
  <2>2. QED
    BY <1>4, <1>6, <1>7, <2>1, Overwrite
<1>9. SpaceInv(d2) /\ Used(d2) = Used(d1) /\ PlacesOf(d2) = PlacesOf(d1)
  BY <1>8 DEF Overwritten
<1>10. /\ d2.check[old] = from /\ d2.child[old] = 0 /\ d2.base[old] = v
       /\ \A n \in PlacesOf(d) \ {old} : /\ d2.check[n] = d1.check[n] /\ d2.base[n] = d1.base[n]
                                         /\ d2.child[n] = d1.child[n]
  BY <1>4, <1>8 DEF Overwritten
<1>11. SiblingPushed(d, d2, U2, from, old, label)
  <2>1. d2.child[from] = d1.child[from] /\ d2.sibling = d1.sibling
    BY <1>1, <1>7, <1>10
  <2>2. QED
    BY <1>4, <2>1 DEF SiblingPushed
<1>12. /\ \A n \in PlacesOf(d) \ {old} : d2.check[n] = d.check[n] /\ d2.base[n] = d.base[n]
       /\ \A n \in PlacesOf(d) \ {from, old} : d2.child[n] = d.child[n]
  BY <1>4, <1>10
<1>13. QED
  BY <1>4, <1>9, <1>10, <1>11, <1>12 DEF Retaken, v

\* Where the newcomer goes: the base of the node the update is at is known by the place.
LEMMA RetakeBase ==
  ASSUME NEW d, NEW j, NEW P, NEW V, NEW m, NEW p, NEW to, Round(d, j, P, V, m, p, to), ~ m.newcomer,
         NEW b, b = Xor(m.conflict, LabelOf(j))
  PROVE  /\ b = d.base[j.from] /\ b \in PlacesOf(d) /\ b \in Nat /\ m.conflict = Xor(b, LabelOf(j))
         /\ LabelOf(j) \in Labels
<1>1. /\ ArrayType(d) /\ JobType(j) /\ Reached(d, j, P, V) /\ MoveInv(d, j, P) /\ m = j.place
      /\ Tree(d, Used(d), MoveOf(j), ComingOf(j), P)
  BY DEF Round
<1>2. j.from \in Used(d) /\ LabelOf(j) \in Labels /\ ~ IsTerminal(P, j.from)
  BY <1>1, JobFacts DEF Reached
<1>3. d.base[j.from] >= 0 /\ m.conflict = Xor(d.base[j.from], LabelOf(j))
  BY <1>1 DEF MoveInv, Conflict
<1>4. d.base[j.from] \in PlacesOf(d) /\ d.base[j.from] \in Nat
  BY <1>1, <1>2, <1>3, BaseOf
<1>5. Xor(Xor(d.base[j.from], LabelOf(j)), LabelOf(j)) = d.base[j.from]
  BY <1>2, <1>4, XorFacts
<1>6. QED
  BY <1>2, <1>3, <1>4, <1>5

\* A child whose place has no label before it is at another place than its base.
LEMMA FirstApart ==
  ASSUME NEW d, NEW U, NEW mv, NEW c, NEW P, Tree(d, U, mv, c, P), NEW f \in U, ~ IsTerminal(P, f),
         d.base[f] \in Nat, f # mv.mover, d.child[f] = 0
  PROVE  d.base[f] \in U /\ Parent(d, d.base[f]) = f
<1>1. PICK s : IsChain(d, U, f, s)
  BY DEF Tree, Chains
<1>2. s[1] = 0 /\ 1 \in 1 .. Len(s)
  BY <1>1 DEF IsChain
<1>3. Xor(d.base[f], s[1]) \in U /\ Parent(d, Xor(d.base[f], s[1])) = f
  BY <1>1, <1>2 DEF IsChain
<1>4. 0 \in Labels
  BY BIsNat DEF Labels
<1>5. Xor(d.base[f], 0) = d.base[f]
  BY <1>4, XorFacts
<1>6. QED
  BY <1>2, <1>3, <1>5

\* A round in which the place both want is left, and taken by the newcomer.
LEMMA ConflictRound ==
  ASSUME NEW d, NEW j, NEW P, NEW V, NEW m, NEW p, NEW to, Round(d, j, P, V, m, p, to), ~ m.newcomer,
         NEW old, OldPlace(d, j, P, m, p, to, old), old = Xor(m.old, p), old = m.conflict,
         NEW sb, sb = (IF m.at = Len(m.labels) THEN 0 ELSE m.labels[m.at + 1]),
         NEW P2, P2 = Carried(P, Used(d), old, to), NEW d2, Carries(d, d2, j, P, m, to, old, sb, P2),
         NEW from, from = MovedFrom(m, j.from, old, to), NEW j2, j2 = NextRound(j, from),
         NEW l, l = LabelOf(j), NEW b, b = Xor(m.conflict, l), NEW d3,
         d3 = Retake(d2, from, b, l, old),
         NEW P3, P3 = Grafted(P2, Without1(Used(d), old, to), old, from, l)
  PROVE  Went(d3, j2, P3, V)
<1> DEFINE U == Used(d)
           U2 == Without1(U, old, to)
           mv2 == [mover |-> m.mover, old |-> m.old, left |-> Unmoved(j) \ {old}]
<1>1. /\ ArrayType(d) /\ JobType(j) /\ MoveInv(d, j, P) /\ m = j.place /\ to \notin U
      /\ m.at \in 1 .. Len(m.labels) /\ p = m.labels[m.at] /\ U \subseteq PlacesOf(d)
      /\ 0 \in U /\ to # 0 /\ to \notin Unmoved(j)
  BY DEF Round, Tree
<1>2. /\ old \in U \ {0} /\ d.check[old] = m.mover /\ old # m.mover /\ old # to
      /\ old \in Unmoved(j) /\ m.mover # 0
  BY DEF OldPlace
<1>3. /\ SpaceInv(d2) /\ Blank(d2) /\ PlacesOf(d2) = PlacesOf(d) /\ Used(d2) = U \cup {to}
      /\ Tree(d2, U2, mv2, ComingOf(j), P2)
      /\ \A n \in U : /\ d2.base[n] = d.base[n] /\ d2.child[n] = d.child[n]
                      /\ d2.sibling[n] = d.sibling[n]
      /\ \A n \in U \ {0} : d2.check[n] = IF d.check[n] = old THEN to ELSE d.check[n]
      /\ d2.check[to] = m.mover /\ d2.sibling[to] = sb
  BY DEF Carries
<1>4. /\ from \in U2 /\ P2[from] = P[j.from] /\ d2.base[from] = d.base[j.from]
      /\ d.base[j.from] >= 0 /\ m.mover # from /\ from # old
      /\ m.mover \in U2 /\ ~ IsTerminal(P2, m.mover) /\ ~ IsTerminal(P2, from)
  BY FromFacts DEF Follows
<1>5. /\ b = d2.base[from] /\ b \in PlacesOf(d) /\ b \in Nat /\ old = Xor(b, l) /\ l \in Labels
  <2>1. /\ b = d.base[j.from] /\ b \in PlacesOf(d) /\ b \in Nat /\ m.conflict = Xor(b, LabelOf(j))
        /\ LabelOf(j) \in Labels
    BY RetakeBase
  <2>2. QED
    BY <1>4, <2>1
<1>6. j2.from = from /\ LabelOf(j2) = LabelOf(j) /\ ComingOf(j2) = old /\ ComingOf(j) = 0
      /\ Unmoved(j2) = Unmoved(j) \ {old}
  <2>1. old \in Unmoved(j)
    BY <1>2
  <2>2. TookConflict(j, NextRound(j, from), old, from)
    BY <2>1, ComingTaken
  <2>3. QED
    BY <2>2 DEF TookConflict
<1>7. d2.child[from] = 0 => b \in U2 /\ Parent(d2, b) = from
  <2>1. from # mv2.mover
    BY <1>4
  <2> HIDE DEF mv2, U2
  <2>2. QED
    BY ONLY <1>3, <1>4, <1>5, <2>1, FirstApart
<1>8. U2 \subseteq PlacesOf(d) /\ old \notin U2 /\ U \cup {to} = U2 \cup {old} /\ 0 \in U2
      /\ (\A n \in U \ {old} : n \in U2) /\ to \in U2
  BY <1>1, <1>2, <1>3 DEF Tree, Without1
<1> HIDE DEF mv2, U2, U
<1>9. Retaken(d2, d3, U2, from, old, l)
  <2>1. d2.child[from] = 0 => old # b
    BY <1>7, <1>8
  <2>2. from \in Used(d2) /\ old \in Used(d2) /\ b \in PlacesOf(d2) /\ U2 \subseteq PlacesOf(d2)
    BY <1>3, <1>4, <1>5, <1>8
  <2>3. old # 0
    BY <1>2
  <2>4. QED
    BY <1>3, <1>4, <1>5, <1>8, <2>1, <2>2, <2>3, RetakePlace
<1>10. /\ SpaceInv(d3) /\ Used(d3) = U2 \cup {old} /\ PlacesOf(d3) = PlacesOf(d)
       /\ SiblingPushed(d2, d3, U2, from, old, l)
       /\ d3.check[old] = from /\ d3.child[old] = 0 /\ d3.base[old] = IF l # 0 THEN -1 ELSE 0
       /\ \A n \in PlacesOf(d) \ {old} : d3.check[n] = d2.check[n] /\ d3.base[n] = d2.base[n]
       /\ \A n \in PlacesOf(d) \ {from, old} : d3.child[n] = d2.child[n]
  BY <1>3, <1>8, <1>9 DEF Retaken
<1>11. Tree(d3, Used(d3), mv2, old, P3)
  <2>1. Joinable(d2, U2, mv2, 0, P2, from, l, old, d3)
    <3>1. mv2.mover # from /\ old \notin mv2.left
      BY <1>4 DEF mv2
    <3>2. \A n \in U2 : d3.check[n] = d2.check[n] /\ d3.base[n] = d2.base[n]
      BY <1>8, <1>10
    <3>3. \A n \in U2 \ {from} : d3.child[n] = d2.child[n]
      BY <1>8, <1>10
    <3>4. /\ d2.base[from] \in Nat /\ old = Xor(d2.base[from], l) /\ 0 \in {0, from}
          /\ PlacesOf(d2) \subseteq PlacesOf(d3) /\ old \in PlacesOf(d3)
      <4>1. PlacesOf(d2) = PlacesOf(d3) /\ PlacesOf(d3) = PlacesOf(d)
        BY <1>3, <1>10
      <4>2. old \in PlacesOf(d)
        BY <1>1, <1>2
      <4>3. QED
        BY ONLY <1>5, <4>1, <4>2
    <3>5. QED
      BY <1>4, <1>5, <1>8, <1>10, <3>1, <3>2, <3>3, <3>4 DEF Joinable
  <2>2. Tree(d2, U2, mv2, 0, P2)
    BY <1>3, <1>6
  <2>3. P3 = Grafted(P2, U2, old, from, l)
    BY DEF U2, U
  <2>4. Tree(d3, U2 \cup {old}, mv2, old, P3)
    BY <2>1, <2>2, <2>3, Join
  <2>5. QED
    BY <1>10, <2>4
<1>12. \A n \in U2 : P3[n] = P2[n]
  <2>1. P3 = [n \in U2 \cup {old} |-> IF n = old THEN Append(P2[from], l) ELSE P2[n]]
    BY DEF Grafted, U2, U
  <2>2. QED
    BY <1>8, <2>1
<1>13. Blank(d3)
  <2>1. \A e \in PlacesOf(d2) \ Used(d3) : d3.child[e] = d2.child[e]
    BY <1>3, <1>4, <1>10
  <2>2. Used(d2) \subseteq Used(d3) \cup {0} /\ 0 \in Used(d3) /\ PlacesOf(d3) = PlacesOf(d2)
    BY <1>3, <1>8, <1>10
  <2>3. QED
    BY <1>3, <2>1, <2>2, BlankTaken
<1>14. \A n \in U2 \ {0} : d2.check[n] = m.mover => d3.sibling[n] = d2.sibling[n]
  <2>1. CASE d2.child[from] = 0
    <3>1. \A n \in U2 \ {d2.base[from]} : d3.sibling[n] = d2.sibling[n]
      BY <1>10, <2>1 DEF SiblingPushed
    <3>2. b # 0 => d2.check[b] = from
      BY <1>7, <2>1 DEF Parent
    <3>3. ASSUME NEW n \in U2 \ {0}, d2.check[n] = m.mover
          PROVE  d3.sibling[n] = d2.sibling[n]
      <4>1. m.mover # from /\ b = d2.base[from]
        BY <1>4, <1>5
      <4>2. n # b
        BY <3>2, <3>3, <4>1
      <4>3. QED
        BY <3>1, <3>3, <4>1, <4>2
    <3>4. QED
      BY <3>3
  <2>2. CASE d2.child[from] # 0
    BY <1>10, <2>2 DEF SiblingPushed
  <2>3. QED
    BY <2>1, <2>2
<1>15. Advanced(d, j, m, to, {old}, d3, j2, P3)
  <2>1. /\ PlacesOf(d3) = PlacesOf(d)
        /\ Unmoved(j2) = Unmoved(j) \ {old} /\ m.mover \notin {old}
        /\ to \in Used(d3) /\ d3.check[to] = m.mover
        /\ d3.sibling[to] = (IF m.at = Len(m.labels) THEN 0 ELSE m.labels[m.at + 1])
        /\ Used(d3) \subseteq U \cup {to} /\ {old} \subseteq Unmoved(j)
    <3>1. d3.check[to] = m.mover
      BY <1>2, <1>3, <1>8, <1>10
    <3>2. d3.sibling[to] = sb
      BY <1>1, <1>3, <1>8, <1>14
    <3>3. QED
      BY <1>2, <1>6, <1>8, <1>10, <3>1, <3>2
  <2>2. m.mover # to /\ 0 \in U
    BY <1>1 DEF MoveInv, U
  <2>3. \A n \in U \ {old} : n \in Used(d3) /\ (d3.check[n] = m.mover <=> d.check[n] = m.mover)
    <3>1. SUFFICES ASSUME NEW n \in U \ {old}
                   PROVE  n \in Used(d3) /\ (d3.check[n] = m.mover <=> d.check[n] = m.mover)
      OBVIOUS
    <3>2. n \in U2 /\ n \in PlacesOf(d) /\ d3.check[n] = d2.check[n]
      BY <1>8, <1>10
    <3>3. d2.check[n] = m.mover <=> d.check[n] = m.mover
      <4>1. CASE n = 0
        <5>1. d2.check[0] = d.check[0]
          BY DEF Carries
        <5>2. QED
          BY <4>1, <5>1
      <4>2. CASE n # 0
        BY <1>2, <1>3, <2>2, <4>2
      <4>3. QED
        BY <4>1, <4>2
    <3>4. QED
      BY <1>10, <3>2, <3>3
  <2>4. \A n \in U \ ({old} \cup {0}) : d.check[n] = m.mover => d3.sibling[n] = d.sibling[n]
    <3>1. SUFFICES ASSUME NEW n \in U \ {old, 0}, d.check[n] = m.mover PROVE d3.sibling[n] = d.sibling[n]
      OBVIOUS
    <3>2. n \in U2 \ {0} /\ d2.check[n] = m.mover /\ d2.sibling[n] = d.sibling[n]
      BY <1>2, <1>3, <1>8, <3>1
    <3>3. QED
      BY <1>14, <3>2
  <2>5. \A n \in {old} \cap Used(d3) : d3.check[n] # m.mover
    BY <1>4, <1>10
  <2>6. \A e \in PlacesOf(d) \ Used(d3) : d3.check[e] < 0
    BY <1>10, EmptyBelow
  <2>7. /\ d3.base[m.mover] = d.base[m.mover] /\ d3.child[m.mover] = d.child[m.mover]
        /\ ~ IsTerminal(P3, m.mover) /\ m.mover # j2.from
        /\ d3.base[j2.from] >= 0 /\ m.conflict \in Used(d3)
    <3>1. m.mover \in U /\ m.mover # old /\ m.mover # from /\ m.mover \in PlacesOf(d)
      BY <1>1, <1>2, <1>4, <1>8 DEF MoveInv, U
    <3>2. /\ d3.base[m.mover] = d2.base[m.mover] /\ d3.child[m.mover] = d2.child[m.mover]
      BY <1>10, <3>1
    <3>3. ~ IsTerminal(P3, m.mover)
      <4>1. P3[m.mover] = P2[m.mover]
        BY <1>4, <1>12
      <4>2. QED
        BY <1>4, <4>1 DEF IsTerminal
    <3>4. d3.base[from] = d2.base[from] /\ d2.base[from] >= 0
      BY <1>4, <1>8, <1>10
    <3>5. QED
      BY <1>3, <1>4, <1>6, <1>10, <3>1, <3>2, <3>3, <3>4
  <2>8. /\ m.conflict = Conflict(d3, j2)
        /\ \E c \in 1 .. Len(m.labels) :
             /\ m.conflict = Xor(m.old, m.labels[c])
             /\ d3.check[m.conflict] = IF m.at + 1 <= c THEN m.mover ELSE j2.from
    <3>1. Conflict(d3, j2) = Xor(d2.base[from], l)
      <4>1. d3.base[from] = d2.base[from]
        BY <1>4, <1>8, <1>10
      <4>2. j2.from = from /\ LabelOf(j2) = l
        BY <1>6
      <4>3. QED
        BY <4>1, <4>2 DEF Conflict
    <3>2. ~ (m.at + 1 <= m.at)
      BY <1>1
    <3>3. QED
      BY <1>1, <1>5, <1>6, <1>10, <3>1, <3>2
  <2>9. QED
    BY <2>1, <2>3, <2>4, <2>5, <2>6, <2>7, <2>8 DEF Advanced, U
<1>16. QED
  <2>1. Tree(d3, Used(d3), [mover |-> m.mover, old |-> m.old, left |-> Unmoved(j) \ {old}], ComingOf(j2), P3)
    BY <1>6, <1>11 DEF mv2
  <2>2. from \in Used(d3) /\ SpaceInv(d3) /\ P3[from] = P[j.from]
    BY <1>4, <1>10, <1>12
  <2>3. Values(d3, Used(d3), P3, V, j.key)
    <3>1. Values(d2, U2, P2, V, j.key)
      BY CarriedValues DEF U2, U
    <3>2. P2[from] = SubSeq(j.key, 1, j.pos)
      BY <1>4 DEF Round, Reached
    <3>3. \A n \in U2 : d3.base[n] = d2.base[n]
      BY <1>8, <1>10
    <3>4. NodeMade(d2, U2, P2, j, d3, old, from, l)
      BY <1>4, <1>8, <1>10, <3>2, <3>3 DEF NodeMade
    <3>5. P3 = Grafted(P2, U2, old, from, l)
      BY DEF U2, U
    <3>6. Values(d3, U2 \cup {old}, P3, V, j.key)
      <4>1. JobType(j)
        BY <1>1
      <4>2. QED
        BY ONLY <3>1, <3>4, <3>5, <4>1, ValuesGrafted
    <3>7. QED
      BY <1>10, <3>6
  <2>4. QED
    BY <1>13, <1>15, <2>1, <2>2, <2>3, WentOn, Zenon

LEMMA WentHolds ==
  ASSUME NEW d, NEW j, NEW P, NEW V, Went(d, j, P, V), j.place.at <= Len(j.place.labels)
  PROVE  Holds(d, j, V)
<1>1. /\ SpaceInv(d) /\ Blank(d) /\ Tree(d, Used(d), MoveOf(j), ComingOf(j), P)
      /\ JobType(j) /\ Reached(d, j, P, V) /\ MoveInv(d, j, P) /\ j.step = "move"
  BY DEF Went
<1>2. j.pc = "update" /\ Moving(j)
  BY <1>1 DEF JobType, Moving
<1>3. JobInv(d, j, P, V)
  BY <1>1 DEF JobInv
<1>4. TreeInv(d, j, P, V)
  BY <1>1, <1>2, <1>3 DEF TreeInv
<1>5. QED
  BY <1>1, <1>4 DEF Holds

\* Nothing is left to move: the tree is as it is between moves.
LEMMA AllMoved ==
  ASSUME NEW d, NEW U, NEW mv, NEW c, NEW P, Tree(d, U, mv, c, P), mv.left = {},
         mv.mover \in U => \E s : IsChain(d, U, mv.mover, s)
  PROVE  Tree(d, U, Still, c, P)
<1>1. Paths(d, U, mv, P) /\ Bases(d, U, c, P) /\ Chains(d, U, mv, P) /\ U \subseteq PlacesOf(d) /\ 0 \in U
  BY DEF Tree
<1>2. \A n : Hang(d, Still, n) = Hang(d, mv, n)
  BY DEF Hang, Still
<1>3. Paths(d, U, Still, P)
  <2>1. /\ P \in [U -> Seq(Labels)] /\ P[0] = <<>>
        /\ \A n, m \in U : P[n] = P[m] => n = m
    BY <1>1 DEF Paths
  <2>2. \A n \in U \ {0} :
          /\ d.check[n] \in U /\ ~ IsTerminal(P, d.check[n])
          /\ \E l \in Labels : n = Xor(Hang(d, mv, n), l) /\ P[n] = Append(P[d.check[n]], l)
    BY <1>1 DEF Paths
  <2>3. \A n \in U \ {0} :
          /\ d.check[n] \in U /\ ~ IsTerminal(P, d.check[n])
          /\ \E l \in Labels : n = Xor(Hang(d, Still, n), l) /\ P[n] = Append(P[d.check[n]], l)
    BY <1>2, <2>2
  <2>4. QED
    BY <2>1, <2>3 DEF Paths
<1>4. Chains(d, U, Still, P)
  BY <1>1 DEF Chains
<1>5. QED
  BY <1>1, <1>3, <1>4 DEF Tree

\* The chain of the mover, once its children have moved.
LEMMA MovedChain ==
  ASSUME NEW d, NEW j, NEW P, MoveInv(d, j, P), NEW m, m = j.place, m.at = Len(m.labels) + 1
  PROVE  Unmoved(j) = {} /\ IsChain(d, Used(d), m.mover, m.labels)
<1> DEFINE s == m.labels
<1>1. Len(s) \in Nat /\ s \in Seq(Labels)
  BY DEF MoveInv
<1>2. Unmoved(j) = {}
  <2>1. {k \in j.place.at .. Len(j.place.labels) : ~ IsNewcomer(j, k)} = {}
    BY <1>1
  <2>2. QED
    BY <2>1 DEF Unmoved
<1>3. m.at - 1 = Len(s)
  BY <1>1
<1>4. /\ s # <<>> /\ d.child[m.mover] = s[1] /\ d.base[m.mover] = m.base
      /\ \A i, k \in 1 .. Len(s) : s[i] = s[k] => i = k
      /\ \A i \in 2 .. Len(s) : s[i] # 0
      /\ \A i \in 1 .. Len(s) :
           /\ Xor(m.base, s[i]) \in Used(d) /\ d.check[Xor(m.base, s[i])] = m.mover
           /\ d.sibling[Xor(m.base, s[i])] = IF i < Len(s) THEN s[i + 1] ELSE 0
      /\ \A e \in Used(d) \ {0} : d.check[e] = m.mover => \E i \in 1 .. Len(s) : e = Xor(m.base, s[i])
      /\ m.mover # 0 /\ m.base \in PlacesOf(d) /\ BlockOf(m.base) # 0
  BY <1>2, <1>3 DEF MoveInv
<1>5. \A e \in Used(d) : Parent(d, e) = m.mover => \E i \in 1 .. Len(s) : e = Xor(m.base, s[i])
  BY <1>4 DEF Parent
<1>6. \A i \in 1 .. Len(s) : Xor(m.base, s[i]) # 0 /\ Parent(d, Xor(m.base, s[i])) = m.mover
  <2>1. SUFFICES ASSUME NEW i \in 1 .. Len(s)
                 PROVE  Xor(m.base, s[i]) # 0 /\ Parent(d, Xor(m.base, s[i])) = m.mover
    OBVIOUS
  <2>2. s[i] \in Labels
    BY <1>1
  <2>3. m.base \in Nat
    BY <1>4 DEF PlacesOf
  <2>4. Xor(m.base, s[i]) # 0
    <3>1. BlockOf(Xor(m.base, s[i])) = BlockOf(m.base)
      BY <2>2, <2>3, XorFacts
    <3>2. BlockOf(m.base) # BlockOf(0)
      BY <1>4, RootBlock
    <3>3. QED
      BY <3>1, <3>2
  <2>5. QED
    BY <1>4, <2>4 DEF Parent
<1>7. IsChain(d, Used(d), m.mover, s)
  BY <1>1, <1>4, <1>5, <1>6 DEF IsChain
<1>8. QED
  BY <1>2, <1>7

LEMMA WentEnd ==
  ASSUME NEW d, NEW j, NEW P, NEW V, Went(d, j, P, V), NEW m, m = j.place, m.at = Len(m.labels) + 1,
         NEW to, to = (IF m.newcomer THEN Xor(m.base, LabelOf(j)) ELSE m.conflict)
  PROVE  Holds(Arrived(d, j, to), JobThen(j, to), ValuesThen(V, j))
<1>1. /\ SpaceInv(d) /\ Blank(d) /\ Tree(d, Used(d), MoveOf(j), ComingOf(j), P) /\ ArrayType(d)
      /\ JobType(j) /\ Reached(d, j, P, V) /\ MoveInv(d, j, P) /\ j.step = "move"
  BY DEF Went, SpaceInv
<1>2. Unmoved(j) = {} /\ IsChain(d, Used(d), m.mover, m.labels)
  BY <1>1, MovedChain
<1>3. m.newcomer \in BOOLEAN /\ Len(m.labels) \in Nat /\ d.base[m.mover] = m.base
      /\ (m.newcomer <=> m.mover = j.from) /\ d.base[j.from] >= 0 /\ m.mover # 0
  BY <1>1 DEF MoveInv
<1>4. ComingOf(j) = to
  <2>1. j.pc = "update" /\ Moving(j)
    BY <1>1 DEF JobType, Moving
  <2>2. CASE m.newcomer
    BY <1>1, <2>1, <2>2 DEF ComingOf, Moving
  <2>3. CASE ~ m.newcomer
    <3>1. ComingOf(j) = IF m.conflict \in Unmoved(j) THEN 0 ELSE m.conflict
      BY <1>1, <2>1, <2>3 DEF ComingOf, Moving
    <3>2. QED
      BY <1>2, <2>3, <3>1
  <2>4. QED
    BY <1>3, <2>2, <2>3
<1>5. Tree(d, Used(d), Still, to, P)
  <2>1. MoveOf(j).left = {} /\ MoveOf(j).mover = m.mover
    BY <1>2 DEF MoveOf
  <2>2. QED
    BY <1>1, <1>2, <1>4, <2>1, AllMoved
<1>6. j.from \in Used(d) /\ ~ IsTerminal(P, j.from) /\ LabelOf(j) \in Labels
  BY <1>1, JobFacts DEF Reached
<1>7. d.base[j.from] \in Nat
  BY <1>1, <1>3, <1>6, BaseOf
<1>8. to \in Used(d) \ {0} /\ d.check[to] = j.from /\ to = Xor(d.base[j.from], LabelOf(j))
  <2>1. CASE m.newcomer
    <3>1. PICK c \in 1 .. Len(m.labels) : m.labels[c] = LabelOf(j)
      BY <1>1, <2>1 DEF MoveInv
    <3>2. to = Xor(d.base[m.mover], m.labels[c]) /\ m.mover = j.from
      BY <1>3, <2>1, <3>1
    <3>3. to \in Used(d) /\ Parent(d, to) = m.mover
      BY <1>2, <3>2 DEF IsChain
    <3>4. to # 0
      BY <1>3, <3>3 DEF Parent
    <3>5. QED
      BY <3>1, <3>2, <3>3, <3>4 DEF Parent
  <2>2. CASE ~ m.newcomer
    <3>1. /\ m.conflict = Conflict(d, j) /\ m.conflict \in Used(d) \ {0}
          /\ \E c \in 1 .. Len(m.labels) :
               d.check[m.conflict] = IF m.at <= c THEN m.mover ELSE j.from
      BY <1>1, <2>2 DEF MoveInv
    <3>2. d.check[m.conflict] = j.from
      BY <1>3, <3>1
    <3>3. QED
      BY <2>2, <3>1, <3>2 DEF Conflict
  <2>3. QED
    BY <1>3, <2>1, <2>2
<1>9. QED
  BY <1>1, <1>5, <1>7, <1>8, Arriving

\* The array after a round of moves, as Move has it.
MovedArray(d, j) ==
  LET m     == j.place
      p     == m.labels[m.at]
      to    == Xor(m.base, p)
      old   == Xor(m.old, p)
      label == LabelOf(j)
      from  == MovedFrom(m, j.from, old, to)
      taken == [PopEnode(d, to, p, m.mover, TRUE) EXCEPT
                  !.sibling[to] = IF m.at = Len(m.labels) THEN 0 ELSE m.labels[m.at + 1]]
      moved == Adopt(taken, old, to, p)
  IN  CASE m.newcomer /\ old = m.conflict -> taken
        [] ~ m.newcomer /\ old = m.conflict ->
             [PushSibling(moved, from, Xor(m.conflict, label), label, TRUE) EXCEPT
                !.child[old] = 0, !.check[old] = from,
                !.base[old] = IF label # 0 THEN -1 ELSE 0]
        [] OTHER -> PushEnode(moved, old)

\* The node the update is at after a round.
FromNext(j) ==
  LET m   == j.place
      p   == m.labels[m.at]
      old == Xor(m.old, p)
  IN  IF m.newcomer /\ old = m.conflict THEN j.from ELSE MovedFrom(m, j.from, old, Xor(m.base, p))

\* The newcomer among those that move is known by the place both want.
LEMMA NewcomerIs ==
  ASSUME NEW d, NEW j, NEW P, NEW V, NEW m, NEW p, NEW to, Round(d, j, P, V, m, p, to),
         NEW old, old = Xor(m.old, p)
  PROVE  m.newcomer => (old = m.conflict <=> IsNewcomer(j, m.at))
<1>1. /\ ArrayType(d) /\ MoveInv(d, j, P) /\ m = j.place /\ p \in Labels /\ p = m.labels[m.at]
      /\ JobType(j) /\ Reached(d, j, P, V)
  BY DEF Round
<1>2. m.old \in Nat
  <2>1. m.old \in PlacesOf(d)
    BY <1>1 DEF MoveInv
  <2>2. QED
    BY <1>1, <2>1, ArrayFacts
<1>3. LabelOf(j) \in Labels
  BY <1>1, JobFacts
<1>4. m.newcomer => m.conflict = Xor(m.old, LabelOf(j))
  BY <1>1 DEF MoveInv
<1>5. m.newcomer => (IsNewcomer(j, m.at) <=> p = LabelOf(j))
  BY <1>1 DEF IsNewcomer
<1>6. Xor(m.old, p) = Xor(m.old, LabelOf(j)) => p = LabelOf(j)
  BY <1>1, <1>2, <1>3, XorInjective
<1>7. QED
  BY <1>4, <1>5, <1>6

\* What a round has to go on with once the child that moves has its new place.
CarriedOn(d, d2, j, P, V, m, p, to, old, sb, P2) ==
  /\ Round(d, j, P, V, m, p, to) /\ ~ IsNewcomer(j, m.at) /\ OldPlace(d, j, P, m, p, to, old)
  /\ old = Xor(m.old, p) /\ sb = IF m.at = Len(m.labels) THEN 0 ELSE m.labels[m.at + 1]
  /\ P2 = Carried(P, Used(d), old, to) /\ Carries(d, d2, j, P, m, to, old, sb, P2)

LEMMA PlainGoes ==
  ASSUME NEW d, NEW d2, NEW j, NEW P, NEW V, NEW m, NEW p, NEW to, NEW old, NEW sb, NEW P2,
         CarriedOn(d, d2, j, P, V, m, p, to, old, sb, P2), old # m.conflict
  PROVE  Went(PushEnode(d2, old), NextRound(j, MovedFrom(m, j.from, old, to)), P2, V)
<1>1. /\ Round(d, j, P, V, m, p, to) /\ ~ IsNewcomer(j, m.at) /\ OldPlace(d, j, P, m, p, to, old)
      /\ old = Xor(m.old, p) /\ (sb = IF m.at = Len(m.labels) THEN 0 ELSE m.labels[m.at + 1])
      /\ P2 = Carried(P, Used(d), old, to) /\ Carries(d, d2, j, P, m, to, old, sb, P2)
  BY Zenon DEF CarriedOn
<1>2. PICK d3, j2, from : /\ d3 = PushEnode(d2, old) /\ j2 = NextRound(j, from)
                          /\ from = MovedFrom(m, j.from, old, to)
  OBVIOUS
<1>3. Went(d3, j2, P2, V)
  BY <1>1, <1>2, PlainRound, Zenon
<1>4. QED
  BY <1>2, <1>3, Zenon

LEMMA ConflictGoes ==
  ASSUME NEW d, NEW d2, NEW j, NEW P, NEW V, NEW m, NEW p, NEW to, NEW old, NEW sb, NEW P2,
         CarriedOn(d, d2, j, P, V, m, p, to, old, sb, P2), old = m.conflict, ~ m.newcomer,
         NEW from, from = MovedFrom(m, j.from, old, to), NEW l, l = LabelOf(j)
  PROVE  Went(Retake(d2, from, Xor(m.conflict, l), l, old), NextRound(j, from),
              Grafted(P2, Without1(Used(d), old, to), old, from, l), V)
<1>1. /\ Round(d, j, P, V, m, p, to) /\ OldPlace(d, j, P, m, p, to, old)
      /\ old = Xor(m.old, p) /\ (sb = IF m.at = Len(m.labels) THEN 0 ELSE m.labels[m.at + 1])
      /\ P2 = Carried(P, Used(d), old, to) /\ Carries(d, d2, j, P, m, to, old, sb, P2)
  BY Zenon DEF CarriedOn
<1>2. PICK d3, j2, b, P3 : /\ b = Xor(m.conflict, l) /\ d3 = Retake(d2, from, b, l, old)
                           /\ j2 = NextRound(j, from)
                           /\ P3 = Grafted(P2, Without1(Used(d), old, to), old, from, l)
  OBVIOUS
<1>3. Went(d3, j2, P3, V)
  BY <1>1, <1>2, ConflictRound, ZenonT(30)
<1>4. QED
  BY <1>2, <1>3, Zenon

LEMMA MoveGoes ==
  ASSUME NEW d, SpaceInv(d), NEW j, NEW P, NEW V, TreeInv(d, j, P, V), j.pc = "update", j.step = "move"
  PROVE  \E P2 : Went(MovedArray(d, j), NextRound(j, FromNext(j)), P2, V)
<1>1. PICK m, p, to, old, from, l :
        /\ m = j.place /\ p = m.labels[m.at] /\ to = Xor(m.base, p) /\ old = Xor(m.old, p)
        /\ from = MovedFrom(m, j.from, old, to) /\ l = LabelOf(j)
  OBVIOUS
<1>2. PICK sb : sb = IF m.at = Len(m.labels) THEN 0 ELSE m.labels[m.at + 1]
  OBVIOUS
<1>3. PICK d1, d2 : /\ d1 = [PopEnode(d, to, p, m.mover, TRUE) EXCEPT !.sibling[to] = sb]
                    /\ d2 = Adopt(d1, old, to, p)
  OBVIOUS
<1>4. MovedArray(d, j) =
        CASE m.newcomer /\ old = m.conflict -> d1
          [] ~ m.newcomer /\ old = m.conflict -> Retake(d2, from, Xor(m.conflict, l), l, old)
          [] OTHER -> PushEnode(d2, old)
  BY <1>1, <1>2, <1>3, ZenonT(60) DEF MovedArray, Retake
<1>5. FromNext(j) = IF m.newcomer /\ old = m.conflict THEN j.from ELSE from
  BY <1>1, Zenon DEF FromNext
<1>6. Round(d, j, P, V, m, p, to)
  BY <1>1, RoundFacts
<1>7. m.newcomer => (old = m.conflict <=> IsNewcomer(j, m.at))
  BY <1>1, <1>6, NewcomerIs
<1>8. TakenNext(d, d1, to, p, m.mover, sb)
  <2>1. /\ to \in PlacesOf(d) /\ to # 0 /\ d.check[to] < 0 /\ p \in Labels /\ MoveInv(d, j, P) /\ m = j.place
        /\ m.at \in 1 .. Len(m.labels)
    BY <1>6 DEF Round
  <2>2. m.mover \in Used(d) /\ m.labels \in Seq(Labels)
    BY <2>1 DEF MoveInv
  <2>3. sb \in Labels
    <3>1. 0 \in Labels
      BY BIsNat DEF Labels
    <3>2. m.at # Len(m.labels) => m.at + 1 \in 1 .. Len(m.labels)
      BY <2>1, <2>2
    <3> HIDE DEF Labels
    <3>3. QED
      BY <1>2, <2>2, <3>1, <3>2
  <2>4. QED
    BY <1>3, <2>1, <2>2, <2>3, TakeNext
<1>9. m.newcomer \in BOOLEAN
  BY <1>6 DEF Round, MoveInv
<1>10. CASE m.newcomer /\ old = m.conflict
  <2>1. IsNewcomer(j, m.at)
    BY <1>7, <1>10
  <2>2. PICK P2 : P2 = Grafted(P, Used(d), to, m.mover, p)
    OBVIOUS
  <2>3. PICK j2 : j2 = NextRound(j, j.from)
    OBVIOUS
  <2>4. Went(d1, j2, P2, V)
    BY <1>2, <1>6, <1>8, <2>1, <2>2, <2>3, NewRound
  <2>5. MovedArray(d, j) = d1 /\ FromNext(j) = j.from
    BY <1>4, <1>5, <1>10
  <2>6. QED
    BY <2>3, <2>4, <2>5
<1>11. CASE ~ (m.newcomer /\ old = m.conflict)
  <2>1. ~ IsNewcomer(j, m.at)
    <3>1. m = j.place
      BY <1>1
    <3>2. QED
      BY <1>7, <1>11, <3>1 DEF IsNewcomer
  <2>2. OldPlace(d, j, P, m, p, to, old)
    BY <1>1, <1>6, <2>1, OldFacts
  <2>3. PICK P2 : P2 = Carried(P, Used(d), old, to)
    OBVIOUS
  <2>4. CarriedFields(d, d2, m, to, old, sb) /\ (~ IsTerminal(P, old) => d2.child[to] = d.child[old])
    BY <1>3, <1>6, <1>8, <2>2, CarryFields
  <2>5. Carries(d, d2, j, P, m, to, old, sb, P2)
    BY <1>1, <1>6, <2>2, <2>3, <2>4, CarryRound
  <2>6. CarriedOn(d, d2, j, P, V, m, p, to, old, sb, P2)
    BY <1>1, <1>2, <1>6, <2>1, <2>2, <2>3, <2>5, Zenon DEF CarriedOn
  <2>7. FromNext(j) = from
    BY <1>5, <1>11
  <2>8. CASE old = m.conflict
    <3>1. ~ m.newcomer
      BY <1>11, <2>8
    <3>2. Went(Retake(d2, from, Xor(m.conflict, l), l, old), NextRound(j, from),
               Grafted(P2, Without1(Used(d), old, to), old, from, l), V)
      <4>1. from = MovedFrom(m, j.from, old, to) /\ l = LabelOf(j)
        BY <1>1
      <4>2. QED
        BY <2>6, <2>8, <3>1, <4>1, ConflictGoes
    <3>3. MovedArray(d, j) = Retake(d2, from, Xor(m.conflict, l), l, old)
      BY <1>4, <2>8, <3>1, Zenon
    <3>4. QED
      BY <2>7, <3>2, <3>3, Zenon
  <2>9. CASE old # m.conflict
    <3>1. Went(PushEnode(d2, old), NextRound(j, from), P2, V)
      BY <1>1, <2>6, <2>9, PlainGoes, Zenon
    <3>2. MovedArray(d, j) = PushEnode(d2, old)
      BY <1>4, <2>9, Zenon
    <3>3. QED
      BY <2>7, <3>1, <3>2, Zenon
  <2>10. QED
    BY <2>8, <2>9
<1>12. QED
  BY <1>10, <1>11

\* The job as a round leaves it, but for the count of the rounds.
Turned(j, from) == [j EXCEPT !.from = from]

LEMMA TurnedIs ==
  ASSUME NEW j, JobType(j), NEW from, NEW x, x = Turned(j, from)
  PROVE  /\ x = [pc |-> "update", step |-> j.step, key |-> j.key, pos |-> j.pos, from |-> from,
                 val |-> j.val, place |-> j.place]
         /\ x.key = j.key /\ x.pos = j.pos /\ x.val = j.val
<1>1. j = [pc |-> "update", step |-> j.step, key |-> j.key, pos |-> j.pos, from |-> j.from,
           val |-> j.val, place |-> j.place]
  BY DEF JobType
<1>2. DOMAIN j = {"pc", "step", "key", "pos", "from", "val", "place"} /\ j.pc = "update"
  BY <1>1
<1> DEFINE q == [pc |-> "update", step |-> j.step, key |-> j.key, pos |-> j.pos, from |-> from,
                 val |-> j.val, place |-> j.place]
<1>3. DOMAIN x = DOMAIN q /\ x = [f \in DOMAIN x |-> x[f]]
  BY <1>2 DEF Turned
<1>4. /\ x.pc = "update" /\ x.step = j.step /\ x.key = j.key /\ x.pos = j.pos /\ x.from = from
      /\ x.val = j.val /\ x.place = j.place
  BY <1>2 DEF Turned
<1>5. x = q
  BY <1>3, <1>4
<1>6. QED
  BY <1>4, <1>5

\* Where the update arrives does not depend on the count of the rounds.
LEMMA ThenSame ==
  ASSUME NEW j, NEW x, j.key = x.key, j.pos = x.pos, j.val = x.val,
         NEW s, NEW f, NEW p, NEW s2, NEW f2, NEW p2,
         j = [pc |-> "update", step |-> s, key |-> x.key, pos |-> x.pos, from |-> f,
              val |-> x.val, place |-> p],
         x = [pc |-> "update", step |-> s2, key |-> x.key, pos |-> x.pos, from |-> f2,
              val |-> x.val, place |-> p2], NEW d, NEW to
  PROVE  /\ JobThen(j, to) = JobThen(x, to) /\ Arrived(d, j, to) = Arrived(d, x, to)
         /\ \A V : ValuesThen(V, j) = ValuesThen(V, x)
<1>1. /\ Arrived(d, j, to) = Arrived(d, x, to)
      /\ \A V : ValuesThen(V, j) = ValuesThen(V, x)
  BY DEF Arrived, ValuesThen
<1> DEFINE q == [pc |-> "update", step |-> "follow", key |-> x.key, pos |-> x.pos + 1, from |-> to,
                 val |-> x.val, place |-> <<>>]
           jj == [j EXCEPT !.step = "follow", !.from = to, !.pos = @ + 1, !.place = <<>>]
           xx == [x EXCEPT !.step = "follow", !.from = to, !.pos = @ + 1, !.place = <<>>]
<1>2. /\ DOMAIN j = {"pc", "step", "key", "pos", "from", "val", "place"} /\ j.pc = "update"
      /\ DOMAIN x = {"pc", "step", "key", "pos", "from", "val", "place"} /\ x.pc = "update"
  OBVIOUS
<1>3. jj = q
  <2>1. DOMAIN jj = DOMAIN q /\ jj = [f0 \in DOMAIN jj |-> jj[f0]]
    BY <1>2
  <2>2. /\ jj.pc = "update" /\ jj.step = "follow" /\ jj.key = x.key /\ jj.pos = x.pos + 1
        /\ jj.from = to /\ jj.val = x.val /\ jj.place = <<>>
    BY <1>2
  <2> HIDE DEF jj
  <2>3. QED
    BY <2>1, <2>2
<1>4. xx = q
  <2>1. DOMAIN xx = DOMAIN q /\ xx = [f0 \in DOMAIN xx |-> xx[f0]]
    BY <1>2
  <2>2. /\ xx.pc = "update" /\ xx.step = "follow" /\ xx.key = x.key /\ xx.pos = x.pos + 1
        /\ xx.from = to /\ xx.val = x.val /\ xx.place = <<>>
    BY <1>2
  <2> HIDE DEF xx
  <2>3. QED
    BY <2>1, <2>2
<1>5. JobThen(j, to) = IF x.pos < Len(x.key) THEN jj ELSE Idle
  BY Zenon DEF JobThen
<1>6. JobThen(x, to) = IF x.pos < Len(x.key) THEN xx ELSE Idle
  BY Zenon DEF JobThen
<1>7. QED
  BY <1>1, <1>3, <1>4, <1>5, <1>6, Zenon

\* The node an update arrives at after the last round.
Goal(j) == IF j.place.newcomer THEN Xor(j.place.base, LabelOf(j)) ELSE j.place.conflict

\* A round of moves.
LEMMA MoveHolds ==
  ASSUME NEW d, SpaceInv(d), NEW j, NEW P, NEW V, TreeInv(d, j, P, V), j.pc = "update", j.step = "move",
         NEW d2, d2 = MovedArray(d, j), NEW x, x = Turned(j, FromNext(j))
  PROVE  IF j.place.at = Len(j.place.labels)
           THEN Holds(Arrived(d2, x, Goal(j)), JobThen(x, Goal(j)), ValuesThen(V, x))
           ELSE Holds(d2, [x EXCEPT !.place.at = @ + 1], V)
<1>1. PICK P2 : Went(MovedArray(d, j), NextRound(j, FromNext(j)), P2, V)
  BY MoveGoes
<1>2. PICK from, n : from = FromNext(j) /\ n = NextRound(j, from)
  OBVIOUS
<1>3. Went(d2, n, P2, V)
  BY <1>1, <1>2
<1>4. PICK m, p, to : m = j.place /\ p = m.labels[m.at] /\ to = Xor(m.base, p)
  OBVIOUS
<1>5. Round(d, j, P, V, m, p, to)
  BY <1>4, RoundFacts
<1>6. JobType(j) /\ MoveInv(d, j, P) /\ m.at \in 1 .. Len(m.labels) /\ j.step = "move"
  BY <1>5 DEF Round
<1>7. /\ n = [f \in DOMAIN j |-> n[f]]
      /\ n.pc = j.pc /\ n.key = j.key /\ n.pos = j.pos /\ n.val = j.val
      /\ n.step = j.step /\ n.from = from
      /\ n.place = [mover |-> m.mover, newcomer |-> m.newcomer, conflict |-> m.conflict,
                    labels |-> m.labels, old |-> m.old, base |-> m.base, at |-> m.at + 1]
  BY <1>2, <1>4, <1>6, NextRoundIs
<1>8. /\ n.place.newcomer = m.newcomer /\ n.place.conflict = m.conflict /\ n.place.labels = m.labels
      /\ n.place.base = m.base /\ n.place.at = m.at + 1
  BY <1>7
<1>9. Len(m.labels) \in Nat /\ m.at \in Nat
  <2>1. m.labels \in Seq(Labels)
    BY <1>4, <1>6 DEF MoveInv
  <2>2. QED
    BY <1>6, <2>1
<1>10. /\ x = [pc |-> "update", step |-> j.step, key |-> j.key, pos |-> j.pos, from |-> from,
               val |-> j.val, place |-> j.place]
       /\ x.key = j.key /\ x.pos = j.pos /\ x.val = j.val
  BY <1>2, <1>6, TurnedIs
<1>11. LabelOf(n) = LabelOf(j)
  BY <1>7 DEF LabelOf
<1>12. CASE m.at = Len(m.labels)
  <2>1. PICK g, np : g = Goal(j) /\ np = n.place
    OBVIOUS
  <2>2. np.at = Len(np.labels) + 1
    BY <1>8, <1>12, <2>1
  <2>3. g = (IF np.newcomer THEN Xor(np.base, LabelOf(n)) ELSE np.conflict)
    BY <1>4, <1>8, <1>11, <2>1, Zenon DEF Goal
  <2>4. Holds(Arrived(d2, n, g), JobThen(n, g), ValuesThen(V, n))
    BY <1>3, <2>1, <2>2, <2>3, WentEnd
  <2>5. n = [pc |-> "update", step |-> j.step, key |-> x.key, pos |-> x.pos, from |-> from,
             val |-> x.val, place |-> np]
    <3>1. DOMAIN j = {"pc", "step", "key", "pos", "from", "val", "place"} /\ j.pc = "update"
      <4>1. j = [pc |-> "update", step |-> j.step, key |-> j.key, pos |-> j.pos, from |-> j.from,
                 val |-> j.val, place |-> j.place]
        BY <1>6 DEF JobType
      <4>2. QED
        BY <4>1
    <3>2. QED
      BY <1>7, <1>10, <2>1, <3>1
  <2>6. /\ JobThen(n, g) = JobThen(x, g) /\ Arrived(d2, n, g) = Arrived(d2, x, g)
        /\ ValuesThen(V, n) = ValuesThen(V, x)
    <3>1. n.key = x.key /\ n.pos = x.pos /\ n.val = x.val
      BY <1>7, <1>10
    <3>2. x = [pc |-> "update", step |-> j.step, key |-> x.key, pos |-> x.pos, from |-> from,
               val |-> x.val, place |-> j.place]
      BY <1>10
    <3>3. QED
      BY <2>5, <3>1, <3>2, ThenSame
  <2>7. QED
    BY <1>4, <1>12, <2>1, <2>4, <2>6
<1>13. CASE m.at # Len(m.labels)
  <2>1. n.place.at <= Len(n.place.labels)
    BY <1>6, <1>8, <1>9, <1>13
  <2>2. Holds(d2, n, V)
    BY <1>3, <2>1, WentHolds
  <2>3. n = [x EXCEPT !.place.at = @ + 1]
    BY <1>2 DEF NextRound, Turned
  <2>4. QED
    BY <1>4, <1>13, <2>2, <2>3
<1>14. QED
  BY <1>12, <1>13

-----------------------------------------------------------------------------
(* The invariant *)

\* What _initialize leaves: one block, its places but the root in a ring.
LEMMA FirstFields ==
  ASSUME NEW d, d = Initialized
  PROVE  /\ d.size = B /\ PlacesOf(d) = Labels /\ BlocksOf(d) = {0}
         /\ d.block[0] = [prev |-> 0, next |-> 0, num |-> B, reject |-> B + 1, trial |-> 0, ehead |-> 1]
         /\ \A e \in Labels : /\ d.base[e] = IF e = 0 THEN 0 ELSE IF e = 1 THEN 1 - B ELSE 1 - e
                              /\ d.check[e] = IF e = 0 \/ e = B - 1 THEN -1 ELSE -(e + 1)
                              /\ d.sibling[e] = 0 /\ d.child[e] = 0
         /\ \A l \in Lists : d.head[l] = 0
         /\ ArrayType(d)
<1> DEFINE bs == [e \in 0 .. B - 1 |-> CASE e = 0 -> 0 [] e = 1 -> 1 - B [] OTHER -> 1 - e]
           ch == [e \in 0 .. B - 1 |-> IF e \in {0, B - 1} THEN -1 ELSE -(e + 1)]
           zs == [e \in 0 .. B - 1 |-> 0]
           bl == [b \in {0} |-> NewBlock(1)]
           hd == [l \in {"F", "C", "O"} |-> 0]
           rj == [n \in 0 .. B |-> n + 1]
<1>1. /\ d.base = bs /\ d.check = ch /\ d.sibling = zs /\ d.child = zs /\ d.block = bl
      /\ d.head = hd /\ d.reject = rj /\ d.size = B /\ DOMAIN d = ArrayFields
  BY DEF Initialized, ArrayFields
<1>2. PlacesOf(d) = Labels /\ BlocksOf(d) = {0}
  BY <1>1 DEF PlacesOf, BlocksOf, Labels
<1>3. d.block[0] = [prev |-> 0, next |-> 0, num |-> B, reject |-> B + 1, trial |-> 0, ehead |-> 1]
  BY <1>1 DEF NewBlock
<1>4. \A e \in Labels : /\ d.base[e] = IF e = 0 THEN 0 ELSE IF e = 1 THEN 1 - B ELSE 1 - e
                        /\ d.check[e] = IF e = 0 \/ e = B - 1 THEN -1 ELSE -(e + 1)
                        /\ d.sibling[e] = 0 /\ d.child[e] = 0
  BY <1>1 DEF Labels
<1>5. \A l \in Lists : d.head[l] = 0
  BY <1>1 DEF Lists
<1>6. 0 \in Labels /\ 1 \in Labels /\ BlockOf(1) = 0
  <2>1. 0 \in Labels /\ 1 \in Labels /\ 0 * B + 1 = 1
    BY BIsNat DEF Labels
  <2>2. BlockOf(0 * B + 1) = 0
    BY <2>1, DivisionUnique
  <2>3. QED
    BY <2>1, <2>2
<1>7. bs \in [Labels -> Int] /\ ch \in [Labels -> Int] /\ zs \in [Labels -> Labels]
  BY <1>6, BIsNat DEF Labels
<1>8. hd \in [Lists -> {0}] /\ rj \in [0 .. B -> 0 .. B + 1]
  BY BIsNat DEF Lists
<1>9. bl \in [0 .. 1 - 1 -> BlockType]
  BY BIsNat DEF NewBlock, BlockType, MaxTrial
<1>10. \E n \in Nat \ {0} : d.size = B * n /\ d.block \in [0 .. n - 1 -> BlockType]
  <2>1. d.size = B * 1 /\ 1 \in Nat \ {0}
    BY <1>1, BIsNat
  <2>2. QED
    BY <1>1, <1>9, <2>1
<1> HIDE DEF bs, ch, zs, bl, hd, rj
<1>11. ArrayType(d)
  <2>1. \A bi \in BlocksOf(d) :
          /\ d.block[bi].prev \in BlocksOf(d) /\ d.block[bi].next \in BlocksOf(d)
          /\ d.block[bi].ehead \in PlacesOf(d) /\ BlockOf(d.block[bi].ehead) = bi
    BY <1>2, <1>3, <1>6
  <2>2. QED
    BY <1>1, <1>2, <1>7, <1>8, <1>10, <2>1, Zenon DEF ArrayType
<1>12. QED
  BY <1>1, <1>2, <1>3, <1>4, <1>5, <1>11

LEMMA FirstSpace ==
  ASSUME NEW d, d = Initialized
  PROVE  SpaceInv(d) /\ Used(d) = {0} /\ Blank(d)
<1>1. /\ d.size = B /\ PlacesOf(d) = Labels /\ BlocksOf(d) = {0}
      /\ d.block[0] = [prev |-> 0, next |-> 0, num |-> B, reject |-> B + 1, trial |-> 0, ehead |-> 1]
      /\ \A e \in Labels : /\ d.base[e] = IF e = 0 THEN 0 ELSE IF e = 1 THEN 1 - B ELSE 1 - e
                           /\ d.check[e] = IF e = 0 \/ e = B - 1 THEN -1 ELSE -(e + 1)
                           /\ d.sibling[e] = 0 /\ d.child[e] = 0
      /\ \A l \in Lists : d.head[l] = 0
      /\ ArrayType(d)
  BY FirstFields
<1>2. \A e \in Labels : d.check[e] < 0 /\ ~ d.check[e] >= 0
  BY <1>1, BIsNat DEF Labels
<1>3. \A e \in Labels : BlockOf(e) = 0
  <2>1. ASSUME NEW e \in Labels PROVE BlockOf(e) = 0
    <3>1. 0 * B + e = e
      BY BIsNat DEF Labels
    <3>2. BlockOf(0 * B + e) = 0
      BY DivisionUnique
    <3>3. QED
      BY <3>1, <3>2
  <2>2. QED
    BY <2>1
<1>4. EmptyIn(d, 0) = 1 .. B - 1
  BY <1>1, <1>2, <1>3, BIsNat DEF EmptyIn, Labels
<1>5. Cycle(1 .. B - 1, NextEmpty(d), PrevEmpty(d))
  <2>1. \A e \in 1 .. B - 1 : /\ NextEmpty(d)[e] = IF e = B - 1 THEN 1 ELSE e + 1
                              /\ PrevEmpty(d)[e] = IF e = 1 THEN B - 1 ELSE e - 1
    BY <1>1, BIsNat DEF NextEmpty, PrevEmpty, Labels
  <2>2. 1 \in Nat /\ B - 1 \in Nat /\ 1 <= B - 1
    BY BIsNat
  <2>3. QED
    BY <2>1, <2>2, CycleInterval
<1>6. RingIn(d, 0)
  <2>1. Cardinality(1 .. B - 1) = B - 1
    BY BIsNat, FS_Interval
  <2>2. 1 \in 1 .. B - 1 /\ B = B - 1 + 1
    BY BIsNat
  <2>3. d.block[0].num = B /\ d.block[0].ehead = 1
    BY <1>1
  <2>4. d.block[0].num = Cardinality(EmptyIn(d, 0)) + (IF 0 = 0 THEN 1 ELSE 0)
    BY <1>4, <2>1, <2>2, <2>3
  <2>5. QED
    BY <1>4, <1>5, <2>2, <2>3, <2>4 DEF RingIn
<1>7. ListsIn(d)[0] = "F"
  BY <1>1 DEF ListsIn, ListFor
<1>8. Listed(d, ListsIn(d))
  <2>1. Cycle({0}, NextBlock(d), PrevBlock(d))
    <3>1. NextBlock(d)[0] = 0 /\ PrevBlock(d)[0] = 0
      BY <1>1 DEF NextBlock, PrevBlock
    <3>2. QED
      BY <3>1, CycleAlone
  <2>2. ASSUME NEW l \in Lists
        PROVE  LET of == {bi \in BlocksOf(d) : ListsIn(d)[bi] = l}
               IN  IF of = {} THEN d.head[l] = 0
                   ELSE d.head[l] \in of /\ Cycle(of, NextBlock(d), PrevBlock(d))
    <3>1. CASE l = "F"
      <4>1. {bi \in BlocksOf(d) : ListsIn(d)[bi] = l} = {0}
        BY <1>1, <1>7, <3>1
      <4>2. QED
        BY <1>1, <2>1, <4>1
    <3>2. CASE l # "F"
      <4>1. {bi \in BlocksOf(d) : ListsIn(d)[bi] = l} = {}
        BY <1>1, <1>7, <3>2
      <4>2. QED
        BY <1>1, <4>1
    <3>3. QED
      BY <3>1, <3>2
  <2>3. QED
    BY <2>2 DEF Listed
<1>9. Used(d) = {0}
  BY <1>1, <1>2 DEF Used
<1>10. Blank(d)
  BY <1>1 DEF Blank
<1>11. QED
  BY <1>1, <1>6, <1>8, <1>9, <1>10 DEF SpaceInv

LEMMA FirstHolds == Holds(Initialized, Idle, [k \in Keys |-> NoValue])
<1>1. PICK d : d = Initialized
  OBVIOUS
<1>2. SpaceInv(d) /\ Used(d) = {0} /\ Blank(d) /\ PlacesOf(d) = Labels /\ 0 \in Labels
      /\ d.base[0] = 0 /\ d.check[0] = -1 /\ d.sibling[0] = 0 /\ d.child[0] = 0
  BY <1>1, FirstSpace, FirstFields, BIsNat DEF Labels
<1> DEFINE P == [n \in {0} |-> <<>>]
           V == [k \in Keys |-> NoValue]
<1>3. IsChain(d, {0}, 0, <<0>>)
  <2> DEFINE s == <<0>>
  <2>1. s \in Seq(Labels) /\ Len(s) = 1 /\ s[1] = 0 /\ s # <<>>
    BY <1>2
  <2>2. Xor(0, 0) = 0
    BY <1>2, XorFacts
  <2>3. Parent(d, 0) = 0
    BY DEF Parent
  <2> HIDE DEF s
  <2>4. IsChain(d, {0}, 0, s)
    BY <1>2, <2>1, <2>2, <2>3 DEF IsChain
  <2>5. QED
    BY <2>4 DEF s
<1>4. P[0] = <<>> /\ P \in [{0} -> Seq(Labels)]
  OBVIOUS
<1> HIDE DEF P
<1>5. Tree(d, {0}, Still, 0, P)
  <2>1. Paths(d, {0}, Still, P)
    BY <1>4 DEF Paths
  <2>2. Bases(d, {0}, 0, P)
    BY <1>2 DEF Bases
  <2>3. Chains(d, {0}, Still, P)
    BY <1>3 DEF Chains
  <2>4. QED
    BY <1>2, <2>1, <2>2, <2>3 DEF Tree
<1>6. ~ Moving(Idle) /\ ComingOf(Idle) = 0
  <2>1. Idle.pc # "update"
    BY DEF Idle
  <2>2. QED
    BY <2>1 DEF Moving, ComingOf
<1>7. Ended(Used(d), P) /\ \A k \in Keys : HasValue(d, Used(d), P, V, k)
  <2>1. \A k \in Keys : V[k] = NoValue
    OBVIOUS
  <2>2. ASSUME NEW k \in Keys PROVE <<>> # Append(k, 0)
    <3>1. k \in Seq(1 .. B - 1)
      BY LabelsAssumption
    <3>2. QED
      BY <3>1
  <2> HIDE DEF V
  <2>3. Ended(Used(d), P)
    BY <1>2, <1>4 DEF Ended, IsTerminal
  <2>4. QED
    BY <1>2, <1>4, <2>1, <2>2, <2>3 DEF HasValue
<1> HIDE DEF V
<1>8. TreeInv(d, Idle, P, V)
  BY <1>2, <1>5, <1>6, <1>7 DEF TreeInv, JobInv
<1>9. Holds(d, Idle, V)
  BY <1>2, <1>8 DEF Holds
<1>10. QED
  BY <1>1, <1>9 DEF V

\* Between updates every string has the value it is said to have.
LEMMA QuietValues ==
  ASSUME NEW d, NEW j, NEW P, NEW V, TreeInv(d, j, P, V), j.pc # "update"
  PROVE  /\ Blank(d) /\ Tree(d, Used(d), Still, 0, P) /\ Ended(Used(d), P)
         /\ \A k \in Keys : HasValue(d, Used(d), P, V, k)
<1>1. ~ Moving(j) /\ ComingOf(j) = 0
  BY DEF Moving, ComingOf
<1>2. ~ JobType(j)
  BY DEF JobType
<1>3. QED
  BY <1>1, <1>2 DEF TreeInv, JobInv

\* An update begins, with the tree as it was.
LEMMA AttachHolds ==
  ASSUME NEW d, NEW V, Holds(d, Idle, V), NEW k \in Keys, V[k] = NoValue, NEW v \in Nat \ {NoValue},
         NEW j, j = [pc |-> "update", step |-> "follow", key |-> k, pos |-> 0, from |-> 0,
                     val |-> v, place |-> <<>>]
  PROVE  Holds(d, j, V)
<1>1. PICK P : TreeInv(d, Idle, P, V)
  BY DEF Holds
<1>2. /\ SpaceInv(d) /\ Blank(d) /\ Tree(d, Used(d), Still, 0, P) /\ Ended(Used(d), P)
      /\ \A x \in Keys : HasValue(d, Used(d), P, V, x)
  <2>1. Idle.pc # "update"
    BY DEF Idle
  <2>2. QED
    BY <1>1, <2>1, QuietValues DEF Holds
<1>3. /\ j.pc = "update" /\ j.step = "follow" /\ j.key = k /\ j.pos = 0 /\ j.from = 0 /\ j.val = v
      /\ j.place = <<>>
  OBVIOUS
<1>4. k \in Seq(1 .. B - 1) \ {<<>>}
  BY LabelsAssumption
<1>5. JobType(j)
  <2>1. Len(k) \in Nat
    BY <1>4
  <2>2. 0 \in 0 .. Len(k)
    BY <2>1
  <2>3. QED
    BY <1>3, <2>2 DEF JobType
<1>6. Reached(d, j, P, V)
  <2>1. 0 \in Used(d) /\ P[0] = <<>>
    BY <1>2 DEF Tree, Paths
  <2>2. SubSeq(k, 1, 0) = <<>>
    BY <1>4
  <2>3. Values(d, Used(d), P, V, k)
    BY <1>2 DEF Values, HasValue
  <2>4. QED
    BY <1>3, <2>1, <2>2, <2>3 DEF Reached
<1>7. ~ Moving(j) /\ ComingOf(j) = 0
  BY <1>3 DEF Moving, ComingOf
<1>8. TreeInv(d, j, P, V)
  BY <1>2, <1>3, <1>5, <1>6, <1>7 DEF TreeInv, JobInv
<1>9. QED
  BY <1>2, <1>8 DEF Holds

\* Traversals leave the tree alone.
LEMMA QuietHolds ==
  ASSUME NEW d, NEW j, NEW V, Holds(d, j, V), j.pc # "update",
         NEW j2, j2 = Idle \/ j2.pc \in {"walk", "walked"}
  PROVE  Holds(d, j2, V)
<1>1. PICK P : TreeInv(d, j, P, V)
  BY DEF Holds
<1>2. /\ SpaceInv(d) /\ Blank(d) /\ Tree(d, Used(d), Still, 0, P) /\ Ended(Used(d), P)
      /\ \A k \in Keys : HasValue(d, Used(d), P, V, k)
  BY <1>1, QuietValues DEF Holds
<1>3. j2.pc # "update"
  BY DEF Idle
<1>4. ~ Moving(j2) /\ ComingOf(j2) = 0
  BY <1>3 DEF Moving, ComingOf
<1>5. TreeInv(d, j2, P, V)
  BY <1>2, <1>4 DEF TreeInv, JobInv
<1>6. QED
  BY <1>2, <1>5 DEF Holds

-----------------------------------------------------------------------------
(* Steps of an update *)

UpdateJob(j) ==
  DOMAIN j = {"pc", "step", "key", "pos", "from", "val", "place"} /\ j.pc = "update"

\* An update goes on, with the string and the value it began with.
GoesOn(j, j2) == UpdateJob(j2) /\ j2.key = j.key /\ j2.val = j.val

LEMMA JobGoes ==
  ASSUME NEW j, UpdateJob(j)
  PROVE  /\ \A s, p : GoesOn(j, [j EXCEPT !.step = s, !.place = p])
         /\ \A s, f, p : GoesOn(j, [j EXCEPT !.step = s, !.from = f, !.pos = @ + 1, !.place = p])
         /\ \A b : GoesOn(j, [j EXCEPT !.place.block = b])
         /\ \A f : GoesOn(j, [j EXCEPT !.from = f])
         /\ GoesOn(j, [j EXCEPT !.place.at = @ + 1])
BY DEF UpdateJob, GoesOn

LEMMA HeldJob ==
  ASSUME NEW d, NEW j, NEW V, Holds(d, j, V), j.pc = "update"
  PROVE  JobType(j) /\ UpdateJob(j)
<1>1. JobType(j)
  BY DEF Holds, TreeInv, JobInv, Idle
<1>2. j = [pc |-> "update", step |-> j.step, key |-> j.key, pos |-> j.pos, from |-> j.from,
           val |-> j.val, place |-> j.place]
  BY <1>1 DEF JobType
<1>3. QED
  BY <1>1, <1>2 DEF UpdateJob

\* What a step of the update j does: its string has its value when it ends.
Stepped(j, V) ==
  \/ Holds(da', job', V) /\ GoesOn(j, job') /\ view' = view
  \/ Holds(da', job', ValueSet(V, j.key, j.val)) /\ job' = Idle /\ view' = Lookups(da')

LEMMA ArriveStep ==
  ASSUME NEW d, NEW j, NEW to, NEW V, UpdateJob(j), Arrive(d, j, to),
         Holds(Arrived(d, j, to), JobThen(j, to), ValuesThen(V, j))
  PROVE  Stepped(j, V)
<1>1. CASE j.pos < Len(j.key)
  <2>1. da' = d /\ view' = view
    BY <1>1, Zenon DEF Arrive
  <2>2. job' = [j EXCEPT !.step = "follow", !.from = to, !.pos = @ + 1, !.place = <<>>]
    BY <1>1, Zenon DEF Arrive
  <2>3. GoesOn(j, job')
    BY <2>2, JobGoes, Zenon
  <2>4. Arrived(d, j, to) = d /\ ValuesThen(V, j) = V
    BY <1>1, Zenon DEF Arrived, ValuesThen
  <2>5. JobThen(j, to) = job'
    BY <1>1, <2>2, Zenon DEF JobThen
  <2>6. QED
    BY <2>1, <2>3, <2>4, <2>5, Zenon DEF Stepped
<1>2. CASE ~ j.pos < Len(j.key)
  <2>1. da' = Arrived(d, j, to) /\ job' = Idle /\ view' = Lookups(da')
    BY <1>2, Zenon DEF Arrive, Arrived
  <2>2. JobThen(j, to) = Idle /\ ValuesThen(V, j) = ValueSet(V, j.key, j.val)
    BY <1>2, Zenon DEF JobThen, ValuesThen
  <2>3. QED
    BY <2>1, <2>2, Zenon DEF Stepped
<1>3. QED
  BY <1>1, <1>2

LEMMA FollowNewStep ==
  ASSUME NEW V, Holds(da, job, V), FollowNew
  PROVE  Stepped(job, V)
<1>1. PICK d, j : d = da /\ j = job
  OBVIOUS
<1>2. PICK p, l : p = FindPlace(d) /\ l = LabelOf(j)
  OBVIOUS
<1>3. PICK d3 : d3 = PushSibling(PopEnode(p.da, p.e, l, j.from, FALSE), j.from, Xor(p.e, l), l, FALSE)
  OBVIOUS
<1>4. j.pc = "update" /\ j.step = "follow" /\ d.base[j.from] < 0 /\ Arrive(d3, j, p.e)
  BY <1>1, <1>2, <1>3 DEF FollowNew, Updating
<1>5. SpaceInv(d) /\ \E P : TreeInv(d, j, P, V)
  BY <1>1 DEF Holds
<1>6. Holds(Arrived(d3, j, p.e), JobThen(j, p.e), ValuesThen(V, j))
  BY <1>2, <1>3, <1>4, <1>5, FollowNewHolds
<1>7. UpdateJob(j)
  BY <1>1, <1>4, HeldJob
<1>8. QED
  BY <1>1, <1>4, <1>6, <1>7, ArriveStep

LEMMA FollowFreeStep ==
  ASSUME NEW V, Holds(da, job, V), FollowFree
  PROVE  Stepped(job, V)
<1>1. PICK d, j : d = da /\ j = job
  OBVIOUS
<1>2. PICK f, b, l, e : f = j.from /\ b = d.base[f] /\ l = LabelOf(j) /\ e = Xor(b, l)
  OBVIOUS
<1>3. PICK d2, d3 : d2 = PopEnode(d, e, l, f, TRUE) /\ d3 = PushSibling(d2, f, b, l, TRUE)
  OBVIOUS
<1>4. j.pc = "update" /\ j.step = "follow" /\ b >= 0 /\ d.check[e] < 0 /\ Arrive(d3, j, e)
  BY <1>1, <1>2, <1>3 DEF FollowFree, Updating
<1>5. SpaceInv(d) /\ \E P : TreeInv(d, j, P, V)
  BY <1>1 DEF Holds
<1>6. Holds(Arrived(d3, j, e), JobThen(j, e), ValuesThen(V, j))
  BY <1>2, <1>3, <1>4, <1>5, FollowFreeHolds
<1>7. UpdateJob(j)
  BY <1>1, <1>4, HeldJob
<1>8. QED
  BY <1>1, <1>4, <1>6, <1>7, ArriveStep

LEMMA FollowEdgeStep ==
  ASSUME NEW V, Holds(da, job, V), FollowEdge
  PROVE  Stepped(job, V)
<1>1. PICK d, j : d = da /\ j = job
  OBVIOUS
<1>2. PICK f, e : f = j.from /\ e = Xor(d.base[f], LabelOf(j))
  OBVIOUS
<1>3. j.pc = "update" /\ j.step = "follow" /\ d.base[f] >= 0 /\ d.check[e] = f /\ Arrive(d, j, e)
  BY <1>1, <1>2 DEF FollowEdge, Updating
<1>4. SpaceInv(d) /\ \E P : TreeInv(d, j, P, V)
  BY <1>1 DEF Holds
<1>5. Holds(Arrived(d, j, e), JobThen(j, e), ValuesThen(V, j))
  BY <1>2, <1>3, <1>4, FollowEdgeHolds
<1>6. UpdateJob(j)
  BY <1>1, <1>3, HeldJob
<1>7. QED
  BY <1>1, <1>3, <1>5, <1>6, ArriveStep

LEMMA SettleStep ==
  ASSUME NEW d, NEW m, NEW e, Settle(d, m, e), NEW base, base = Xor(e, m.labels[1]), NEW V,
         UpdateJob(job), view' = view,
         Holds(SettledArray(d, job, m, base), SettledJob(job, m, da.base[m.mover], base), V)
  PROVE  Stepped(job, V)
<1>1. da' = SettledArray(d, job, m, base)
  BY Zenon DEF Settle, SettledArray
<1>2. job' = SettledJob(job, m, da.base[m.mover], base)
  BY Zenon DEF Settle, SettledJob
<1>3. GoesOn(job, SettledJob(job, m, da.base[m.mover], base))
  BY JobGoes, Zenon DEF SettledJob
<1>4. QED
  BY <1>1, <1>2, <1>3, Zenon DEF Stepped

\* The ways a search for a new base starts.
Resolving(d, j, x, m) ==
  /\ j.pc = "update" /\ j.step = "follow" /\ d.base[j.from] >= 0
  /\ d.check[x] >= 0 /\ d.check[x] # j.from
  /\ \/ Len(m.labels) = 1 /\ Settle(FindPlace(d).da, m, FindPlace(d).e)
     \/ Len(m.labels) > 1 /\ d.head["O"] = 0 /\ Settle(AddBlock(d), m, d.size)
     \/ /\ Len(m.labels) > 1 /\ d.head["O"] # 0 /\ da' = d
        /\ job' = [j EXCEPT !.step = "place", !.place =
             [mover |-> m.mover, newcomer |-> m.newcomer, conflict |-> x,
              labels |-> m.labels, block |-> d.head["O"],
              last |-> d.block[d.head["O"]].prev]]

LEMMA ResolveIs ==
  ASSUME Resolve
  PROVE  Resolving(da, job, Conflict(da, job), ResolvePlace(da, job, Conflict(da, job)))
<1>0. PICK d, j, x, m : /\ d = da /\ j = job /\ x = Conflict(da, job)
                        /\ m = ResolvePlace(da, job, Conflict(da, job))
  OBVIOUS
<1>1. j.pc = "update" /\ j.step = "follow" /\ d.base[j.from] >= 0
  BY <1>0 DEF Resolve, Updating
<1> DEFINE to == Xor(da.base[job.from], LabelOf(job))
           owner == da.check[to]
           newcomer == Len(Children(da, owner)) > Len(Children(da, job.from))
           mover == IF newcomer THEN job.from ELSE owner
           place == [mover |-> mover, newcomer |-> newcomer, conflict |-> to,
                     labels |-> IF newcomer THEN WithLabel(Children(da, mover), LabelOf(job))
                                            ELSE Children(da, mover)]
           open == da.head["O"]
           p == FindPlace(da)
<1>2. /\ owner >= 0 /\ owner # job.from
      /\ \/ /\ Len(place.labels) = 1
            /\ Settle(p.da, place, p.e)
         \/ /\ Len(place.labels) > 1 /\ open = 0
            /\ Settle(AddBlock(da), place, da.size)
         \/ /\ Len(place.labels) > 1 /\ open # 0
            /\ job' = [job EXCEPT !.step = "place", !.place =
                 [mover |-> mover, newcomer |-> newcomer, conflict |-> to,
                  labels |-> place.labels, block |-> open, last |-> da.block[open].prev]]
            /\ UNCHANGED da
  BY Zenon DEF Resolve
<1>3. to = x
  BY <1>0 DEF Conflict
<1>4. place = m
  BY <1>0, <1>3, Zenon DEF ResolvePlace
<1>5. mover = m.mover /\ newcomer = m.newcomer
  <2>1. place.mover = mover /\ place.newcomer = newcomer
    BY Zenon
  <2>2. QED
    BY <1>4, <2>1, Zenon
<1> HIDE DEF to, owner, newcomer, mover, place, open, p
<1>6. owner >= 0 /\ owner # job.from
  BY <1>2
<1>7. owner = d.check[x]
  BY <1>0, <1>3, Zenon DEF owner
<1>8. d.check[x] >= 0 /\ d.check[x] # j.from
  BY <1>0, <1>6, <1>7
<1>9. CASE Len(place.labels) = 1 /\ Settle(p.da, place, p.e)
  BY <1>0, <1>1, <1>4, <1>8, <1>9, Zenon DEF Resolving, p
<1>10. CASE Len(place.labels) > 1 /\ open = 0 /\ Settle(AddBlock(da), place, da.size)
  BY <1>0, <1>1, <1>4, <1>8, <1>10, Zenon DEF Resolving, open
<1>11. CASE /\ Len(place.labels) > 1 /\ open # 0
            /\ job' = [job EXCEPT !.step = "place", !.place =
                 [mover |-> mover, newcomer |-> newcomer, conflict |-> to,
                  labels |-> place.labels, block |-> open, last |-> da.block[open].prev]]
            /\ UNCHANGED da
  BY <1>0, <1>1, <1>3, <1>4, <1>5, <1>8, <1>11, Zenon DEF Resolving, open
<1>12. QED
  BY <1>2, <1>9, <1>10, <1>11, Zenon

LEMMA ResolveStep ==
  ASSUME NEW V, Holds(da, job, V), Resolve
  PROVE  Stepped(job, V)
<1>1. PICK d, j : d = da /\ j = job
  OBVIOUS
<1>2. PICK x, m, s, p : x = Conflict(d, j) /\ m = ResolvePlace(d, j, x) /\ s = m.labels /\ p = FindPlace(d)
  OBVIOUS
<1>3. Resolving(d, j, x, m) /\ view' = view
  <2>1. Resolving(d, j, x, m)
    BY <1>1, <1>2, ResolveIs, Zenon
  <2>2. view' = view
    BY DEF Resolve
  <2>3. QED
    BY <2>1, <2>2
<1>4. /\ j.pc = "update" /\ j.step = "follow" /\ d.base[j.from] >= 0
      /\ d.check[x] >= 0 /\ d.check[x] # j.from
      /\ \/ Len(s) = 1 /\ Settle(p.da, m, p.e)
         \/ Len(s) > 1 /\ d.head["O"] = 0 /\ Settle(AddBlock(d), m, d.size)
         \/ /\ Len(s) > 1 /\ d.head["O"] # 0 /\ da' = d
            /\ job' = [j EXCEPT !.step = "place", !.place =
                 [mover |-> m.mover, newcomer |-> m.newcomer, conflict |-> x,
                  labels |-> s, block |-> d.head["O"], last |-> d.block[d.head["O"]].prev]]
  BY <1>2, <1>3, Zenon DEF Resolving
<1>5. SpaceInv(d) /\ \E P : TreeInv(d, j, P, V)
  BY <1>1 DEF Holds
<1>6. /\ Len(s) = 1 =>
           Holds(SettledArray(p.da, j, m, Xor(p.e, s[1])),
                 SettledJob(j, m, d.base[m.mover], Xor(p.e, s[1])), V)
      /\ Len(s) > 1 /\ d.head["O"] = 0 =>
           Holds(SettledArray(AddBlock(d), j, m, Xor(d.size, s[1])),
                 SettledJob(j, m, d.base[m.mover], Xor(d.size, s[1])), V)
      /\ Len(s) > 1 /\ d.head["O"] # 0 =>
           Holds(d, [j EXCEPT !.step = "place", !.place =
                       [mover |-> m.mover, newcomer |-> m.newcomer, conflict |-> x,
                        labels |-> s, block |-> d.head["O"],
                        last |-> d.block[d.head["O"]].prev]], V)
  BY <1>2, <1>4, <1>5, ResolveHolds
<1>7. UpdateJob(job)
  BY <1>1, <1>4, HeldJob
<1>8. CASE Len(s) = 1 /\ Settle(p.da, m, p.e)
  <2>1. PICK base : base = Xor(p.e, s[1])
    OBVIOUS
  <2>2. Holds(SettledArray(p.da, job, m, base), SettledJob(job, m, da.base[m.mover], base), V)
    BY <1>1, <1>6, <1>8, <2>1, Zenon
  <2>3. QED
    BY <1>2, <1>3, <1>7, <1>8, <2>1, <2>2, SettleStep
<1>9. CASE Len(s) > 1 /\ d.head["O"] = 0 /\ Settle(AddBlock(d), m, d.size)
  <2>1. PICK base, d1, e : base = Xor(e, s[1]) /\ d1 = AddBlock(d) /\ e = d.size
    OBVIOUS
  <2>2. Holds(SettledArray(d1, job, m, base), SettledJob(job, m, da.base[m.mover], base), V)
    BY <1>1, <1>6, <1>9, <2>1, Zenon
  <2>3. Settle(d1, m, e)
    BY <1>9, <2>1
  <2>4. QED
    BY <1>2, <1>3, <1>7, <2>1, <2>2, <2>3, SettleStep
<1>10. CASE /\ Len(s) > 1 /\ d.head["O"] # 0 /\ da' = d
            /\ job' = [j EXCEPT !.step = "place", !.place =
                 [mover |-> m.mover, newcomer |-> m.newcomer, conflict |-> x,
                  labels |-> s, block |-> d.head["O"], last |-> d.block[d.head["O"]].prev]]
  <2>1. Holds(da', job', V)
    BY <1>6, <1>10, Zenon
  <2>2. GoesOn(j, job')
    BY <1>1, <1>7, <1>10, JobGoes, Zenon
  <2>3. QED
    BY <1>1, <1>3, <2>1, <2>2, Zenon DEF Stepped
<1>11. QED
  BY <1>4, <1>8, <1>9, <1>10, Zenon

\* The ways a round of the search for a new base ends.
Trying(d, j, m, bi, nc, ring, fitting) ==
  /\ j.pc = "update" /\ j.step = "place"
  /\ \/ /\ d.block[bi].num >= nc /\ fitting # {}
        /\ Settle(Headed(d, bi, ring[Min(fitting)]), m, ring[Min(fitting)])
     \/ bi = m.last /\ Settle(AddBlock(Failed(d, bi, nc)), m, d.size)
     \/ /\ bi # m.last /\ da' = Failed(d, bi, nc)
        /\ job' = [j EXCEPT !.place.block = d.block[bi].next]

LEMMA TryBlockIs ==
  ASSUME TryBlock, NEW d, d = da, NEW j, j = job, NEW m, m = j.place, NEW bi, bi = m.block,
         NEW nc, nc = Len(m.labels), NEW ring, ring = Ring(d, bi),
         NEW fitting, fitting = {i \in DOMAIN ring : Fits(d, ring[i], m.labels)}
  PROVE  Trying(d, j, m, bi, nc, ring, fitting)
<1> DEFINE b == d.block[bi]
           found == b.num >= nc /\ nc < b.reject /\ fitting # {}
           tried == [d EXCEPT !.block[bi].reject = nc, !.block[bi].trial = @ + 1,
                              !.reject[b.num] = Min({@, nc})]
           failed == IF b.trial + 1 = MaxTrial THEN TransferBlock(tried, bi, "O", "C") ELSE tried
<1>1. j.pc = "update" /\ j.step = "place"
  BY DEF TryBlock, Updating
<1>2. \/ /\ found
         /\ Settle([d EXCEPT !.block[bi].ehead = ring[Min(fitting)]], m, ring[Min(fitting)])
      \/ /\ ~ found /\ bi = m.last
         /\ Settle(AddBlock(failed), m, d.size)
      \/ /\ ~ found /\ bi # m.last
         /\ da' = failed
         /\ job' = [j EXCEPT !.place.block = b.next]
  BY Zenon DEF TryBlock
<1>3. failed = Failed(d, bi, nc)
  BY Zenon DEF Failed, Tried
<1>4. [d EXCEPT !.block[bi].ehead = ring[Min(fitting)]] = Headed(d, bi, ring[Min(fitting)])
  BY Zenon DEF Headed
<1>5. found => d.block[bi].num >= nc /\ fitting # {}
  BY Zenon
<1> HIDE DEF found, failed
<1>6. QED
  BY <1>1, <1>2, <1>3, <1>4, <1>5, Zenon DEF Trying, b

LEMMA TryBlockStep ==
  ASSUME NEW V, Holds(da, job, V), TryBlock
  PROVE  Stepped(job, V)
<1>1. PICK d, j : d = da /\ j = job
  OBVIOUS
<1>2. PICK m, s, bi, nc, ring : /\ m = j.place /\ s = m.labels /\ bi = m.block /\ nc = Len(s)
                                /\ ring = Ring(d, bi)
  OBVIOUS
<1>3. PICK fitting : fitting = {i \in DOMAIN ring : Fits(d, ring[i], s)}
  OBVIOUS
<1>4. Trying(d, j, m, bi, nc, ring, fitting)
  BY <1>1, <1>2, <1>3, TryBlockIs
<1>5. /\ j.pc = "update" /\ j.step = "place"
      /\ \/ /\ d.block[bi].num >= nc /\ fitting # {}
            /\ Settle(Headed(d, bi, ring[Min(fitting)]), m, ring[Min(fitting)])
         \/ bi = m.last /\ Settle(AddBlock(Failed(d, bi, nc)), m, d.size)
         \/ /\ bi # m.last /\ da' = Failed(d, bi, nc)
            /\ job' = [j EXCEPT !.place.block = d.block[bi].next]
  BY <1>4, Zenon DEF Trying
<1>6. SpaceInv(d) /\ \E P : TreeInv(d, j, P, V)
  BY <1>1 DEF Holds
<1>7. TryEnds(d, j, V, m, s, bi, nc, ring, fitting)
  <2>1. PICK P : TreeInv(d, j, P, V)
    BY <1>6
  <2>2. SpaceInv(d) /\ j.pc = "update" /\ j.step = "place"
    BY <1>5, <1>6
  <2>3. QED
    BY <1>2, <1>3, <2>1, <2>2, TryBlockHolds
<1>8. UpdateJob(job) /\ view' = view
  <2>1. view' = view
    BY DEF TryBlock
  <2>2. QED
    BY <1>1, <1>5, <2>1, HeldJob
<1>9. CASE /\ d.block[bi].num >= nc /\ fitting # {}
           /\ Settle(Headed(d, bi, ring[Min(fitting)]), m, ring[Min(fitting)])
  <2>1. PICK e, d1, base : e = ring[Min(fitting)] /\ d1 = Headed(d, bi, e) /\ base = Xor(e, s[1])
    OBVIOUS
  <2>2. Holds(SettledArray(d1, j, m, base), SettledJob(j, m, d.base[m.mover], base), V)
    <3>1. d1 = [d EXCEPT !.block[bi].ehead = e]
      BY <2>1 DEF Headed
    <3>2. QED
      BY <1>7, <1>9, <2>1, <3>1, Zenon DEF TryEnds
  <2>3. Settle(d1, m, e)
    BY <1>9, <2>1
  <2>4. Holds(SettledArray(d1, job, m, base), SettledJob(job, m, da.base[m.mover], base), V)
    BY <1>1, <2>2, Zenon
  <2>5. QED
    BY <1>2, <1>8, <2>1, <2>3, <2>4, SettleStep
<1>10. CASE bi = m.last /\ Settle(AddBlock(Failed(d, bi, nc)), m, d.size)
  <2>1. PICK e, d1, base : e = d.size /\ d1 = AddBlock(Failed(d, bi, nc)) /\ base = Xor(e, s[1])
    OBVIOUS
  <2>2. Holds(SettledArray(d1, j, m, base), SettledJob(j, m, d.base[m.mover], base), V)
    BY <1>7, <1>10, <2>1, Zenon DEF TryEnds
  <2>3. Settle(d1, m, e)
    BY <1>10, <2>1
  <2>4. Holds(SettledArray(d1, job, m, base), SettledJob(job, m, da.base[m.mover], base), V)
    BY <1>1, <2>2, Zenon
  <2>5. QED
    BY <1>2, <1>8, <2>1, <2>3, <2>4, SettleStep
<1>11. CASE /\ bi # m.last /\ da' = Failed(d, bi, nc)
            /\ job' = [j EXCEPT !.place.block = d.block[bi].next]
  <2>1. Holds(da', job', V)
    BY <1>7, <1>11, Zenon DEF TryEnds
  <2>2. GoesOn(j, job')
    BY <1>1, <1>8, <1>11, JobGoes, Zenon
  <2>3. QED
    BY <1>1, <1>8, <2>1, <2>2, Zenon DEF Stepped
<1>12. QED
  BY <1>5, <1>9, <1>10, <1>11, Zenon

\* What a round of moves does.
LEMMA MoveIs ==
  ASSUME Move, NEW d, d = da, NEW j, j = job, NEW x, x = Turned(j, FromNext(j))
  PROVE  /\ j.pc = "update" /\ j.step = "move"
         /\ IF j.place.at = Len(j.place.labels) THEN Arrive(MovedArray(d, j), x, Goal(j))
            ELSE da' = MovedArray(d, j) /\ job' = [x EXCEPT !.place.at = @ + 1] /\ view' = view
<1> DEFINE m     == job.place
           p     == m.labels[m.at]
           to    == Xor(m.base, p)
           old   == Xor(m.old, p)
           label == LabelOf(job)
           isNew == m.newcomer /\ old = m.conflict
           from  == MovedFrom(m, job.from, old, to)
           taken == [PopEnode(da, to, p, m.mover, TRUE) EXCEPT
                       !.sibling[to] = IF m.at = Len(m.labels) THEN 0 ELSE m.labels[m.at + 1]]
           moved == Adopt(taken, old, to, p)
           dd == CASE isNew -> taken
                   [] ~ m.newcomer /\ old = m.conflict ->
                        [PushSibling(moved, from, Xor(m.conflict, label), label, TRUE) EXCEPT
                           !.child[old] = 0, !.check[old] = from,
                           !.base[old] = IF label # 0 THEN -1 ELSE 0]
                   [] OTHER -> PushEnode(moved, old)
           jj == [job EXCEPT !.from = IF isNew THEN @ ELSE from]
<1>1. job.pc = "update" /\ job.step = "move"
  BY DEF Move, Updating
<1>2. IF m.at = Len(m.labels)
        THEN Arrive(dd, jj, IF m.newcomer THEN Xor(m.base, label) ELSE m.conflict)
        ELSE da' = dd /\ job' = [jj EXCEPT !.place.at = @ + 1] /\ view' = view
  BY Zenon DEF Move
<1>3. dd = MovedArray(d, j)
  BY ZenonT(30) DEF MovedArray
<1>4. jj = x
  BY Zenon DEF Turned, FromNext
<1>5. Goal(j) = IF m.newcomer THEN Xor(m.base, label) ELSE m.conflict
  BY Zenon DEF Goal
<1> HIDE DEF dd, jj
<1>6. QED
  BY <1>1, <1>2, <1>3, <1>4, <1>5, Zenon

LEMMA MoveStep ==
  ASSUME NEW V, Holds(da, job, V), Move
  PROVE  Stepped(job, V)
<1>1. PICK d, j : d = da /\ j = job
  OBVIOUS
<1>2. PICK x, d2, g : x = Turned(j, FromNext(j)) /\ d2 = MovedArray(d, j) /\ g = Goal(j)
  OBVIOUS
<1>3. /\ j.pc = "update" /\ j.step = "move"
      /\ IF j.place.at = Len(j.place.labels) THEN Arrive(d2, x, g)
         ELSE da' = d2 /\ job' = [x EXCEPT !.place.at = @ + 1] /\ view' = view
  BY <1>1, <1>2, MoveIs
<1>4. SpaceInv(d) /\ \E P : TreeInv(d, j, P, V)
  BY <1>1 DEF Holds
<1>5. IF j.place.at = Len(j.place.labels)
        THEN Holds(Arrived(d2, x, g), JobThen(x, g), ValuesThen(V, x))
        ELSE Holds(d2, [x EXCEPT !.place.at = @ + 1], V)
  BY <1>2, <1>3, <1>4, MoveHolds
<1>6. UpdateJob(j)
  BY <1>1, <1>3, HeldJob
<1>7. UpdateJob(x) /\ x.key = j.key /\ x.val = j.val
  BY <1>2, <1>6, JobGoes, Zenon DEF Turned, GoesOn
<1>8. Stepped(x, V)
  <2>1. CASE j.place.at = Len(j.place.labels)
    BY <1>3, <1>5, <1>7, <2>1, ArriveStep
  <2>2. CASE j.place.at # Len(j.place.labels)
    <3>1. GoesOn(x, [x EXCEPT !.place.at = @ + 1])
      BY <1>7, JobGoes
    <3>2. QED
      BY <1>3, <1>5, <2>2, <3>1, Zenon DEF Stepped
  <2>3. QED
    BY <2>1, <2>2
<1>9. QED
  BY <1>1, <1>7, <1>8, Zenon DEF Stepped, GoesOn

-----------------------------------------------------------------------------
(* Searches *)

LEMMA KeyFacts ==
  ASSUME NEW k \in Keys
  PROVE  /\ Len(k) \in Nat \ {0} /\ SubSeq(k, 1, Len(k)) = k /\ SubSeq(k, 1, 0) = <<>>
         /\ k \in Seq(Labels) /\ k # <<>>
         /\ \A i \in 1 .. Len(k) : /\ k[i] \in Labels /\ k[i] # 0
                                   /\ SubSeq(k, 1, i) = Append(SubSeq(k, 1, i - 1), k[i])
         /\ \A i \in 1 .. Len(k) : SubSeq(k, 1, i)[Len(SubSeq(k, 1, i))] # 0
<1>1. k \in Seq(1 .. B - 1) /\ k # <<>>
  BY LabelsAssumption
<1> DEFINE S == 1 .. B - 1
<1>2. \A x \in S : x \in Labels /\ x # 0
  BY BIsNat DEF Labels
<1>3. k \in Seq(S) /\ k # <<>>
  BY <1>1
<1> HIDE DEF S
<1>4. Len(k) \in Nat \ {0} /\ SubSeq(k, 1, 0) = <<>> /\ \A i \in 1 .. Len(k) : k[i] \in S
  BY <1>3
<1>5. SubSeq(k, 1, Len(k)) = k
  BY <1>3, SubSeqFull
<1>6. k \in Seq(Labels)
  BY <1>2, <1>3, <1>4
<1>7. ASSUME NEW i \in 1 .. Len(k)
      PROVE  SubSeq(k, 1, i) = Append(SubSeq(k, 1, i - 1), k[i]) /\ SubSeq(k, 1, i)[Len(SubSeq(k, 1, i))] # 0
  <2> DEFINE a == SubSeq(k, 1, i)
             b == SubSeq(k, 1, i - 1)
             c == Append(b, k[i])
  <2>1. i - 1 \in 0 .. Len(k) /\ i \in Nat /\ \A x \in 1 .. i : k[x] \in S
    BY <1>4
  <2>2. a \in Seq(S) /\ Len(a) = i /\ \A x \in 1 .. i : a[x] = k[x]
    <3>1. a \in Seq(S) /\ Len(a) = i
      BY <1>3, <1>4, <2>1
    <3>2. \A x \in 1 .. i : a[x] = k[x]
      BY <1>3, <1>4, <2>1
    <3>3. QED
      BY <3>1, <3>2
  <2>3. b \in Seq(S) /\ Len(b) = i - 1 /\ \A x \in 1 .. i - 1 : b[x] = k[x]
    <3>1. \A x \in 1 .. i - 1 : k[x] \in S
      BY <2>1
    <3>2. b \in Seq(S) /\ Len(b) = i - 1
      BY <1>3, <1>4, <2>1, <3>1
    <3>3. \A x \in 1 .. i - 1 : b[x] = k[x]
      BY <1>3, <1>4, <2>1
    <3>4. QED
      BY <3>2, <3>3
  <2> HIDE DEF a, b
  <2>4. c \in Seq(S) /\ Len(c) = i
    BY <1>4, <2>1, <2>3
  <2>5. \A x \in 1 .. i : c[x] = k[x]
    BY <1>4, <2>1, <2>3
  <2> HIDE DEF c
  <2>6. a = c
    BY <2>2, <2>4, <2>5, SeqEqual
  <2>7. a[Len(a)] = k[i] /\ k[i] # 0
    BY <1>2, <1>4, <2>1, <2>2
  <2>8. QED
    BY <2>6, <2>7 DEF a, b, c
<1>8. QED
  BY <1>2, <1>4, <1>5, <1>6, <1>7, <1>1

\* A node search stands at: it has the path gone so far, or there is none.
StandsAt(U, P, q, n) ==
  \/ n \in U /\ P[n] = q
  \/ n = -1 /\ \A m \in U : P[m] # q

\* What is below a node: the place at a label is its child under it, or none is.
BelowIs(d, U, P, f, l, x) ==
  IF d.check[x] = f THEN x \in U \ {0} /\ P[x] = Append(P[f], l)
  ELSE \A m \in U : P[m] # Append(P[f], l)

LEMMA Below ==
  ASSUME NEW d, ArrayType(d), NEW P, Tree(d, Used(d), Still, 0, P), NEW f \in Used(d), ~ IsTerminal(P, f),
         NEW l \in Labels, l # 0 \/ f # 0, NEW x, x = Xor(d.base[f], l)
  PROVE  d.base[f] \in Nat /\ BelowIs(d, Used(d), P, f, l, x)
<1> DEFINE U == Used(d)
<1>1. PlacesOf(d) \subseteq Nat /\ 0 \in PlacesOf(d) /\ U \subseteq PlacesOf(d)
  BY ArrayFacts DEF Tree
<1>2. d.base[f] \in PlacesOf(d) /\ (f # 0 => BlockOf(d.base[f]) # 0) /\ d.base[0] = 0
  <2>1. d.base[0] = 0 /\ \A m \in U \ {0} : Based(d, m, P)
    BY DEF Tree, Bases, Bare
  <2>2. QED
    BY <1>1, <2>1 DEF Based
<1>3. d.base[f] \in Nat
  BY <1>1, <1>2
<1>4. x \in PlacesOf(d) /\ x # 0
  <2>1. x \in Nat /\ BlockOf(x) = BlockOf(d.base[f])
    BY <1>3, XorFacts
  <2>2. x \in PlacesOf(d)
    BY <1>2, <1>3, <2>1, ArrayFacts
  <2>3. CASE f # 0
    BY <1>2, <2>1, <2>2, <2>3, RootBlock
  <2>4. CASE f = 0
    <3>1. 0 \in Labels /\ Xor(0, 0) = 0 /\ l # 0
      BY <2>4, BIsNat, XorFacts DEF Labels
    <3>2. x # 0
      BY <1>2, <2>4, <3>1, XorInjective
    <3>3. QED
      BY <2>2, <3>2
  <2>5. QED
    BY <2>3, <2>4
<1>5. ASSUME NEW m \in U, P[m] = Append(P[f], l) PROVE d.check[x] = f
  <2>1. d.check[m] = f /\ m = Xor(Hang(d, Still, m), l)
    BY <1>5, AtPath
  <2>2. Hang(d, Still, m) = d.base[f]
    BY <2>1 DEF Hang, Still
  <2>3. QED
    BY <2>1, <2>2
<1>6. CASE d.check[x] = f
  <2>1. x \in U \ {0}
    BY <1>1, <1>4, <1>6 DEF Used
  <2>2. PICK k \in Labels : x = Xor(Hang(d, Still, x), k) /\ P[x] = Append(P[d.check[x]], k)
    BY <2>1, NodeFacts
  <2>3. Hang(d, Still, x) = d.base[f]
    BY <1>6 DEF Hang, Still
  <2>4. k = l
    BY <1>3, <2>2, <2>3, XorInjective
  <2>5. QED
    BY <1>3, <1>6, <2>1, <2>2, <2>4 DEF BelowIs
<1>7. CASE d.check[x] # f
  BY <1>3, <1>5, <1>7 DEF BelowIs
<1>8. QED
  BY <1>6, <1>7

\* Where NodeOf goes from f at the i-th label of k.
NextNode(d, k, i, f) ==
  CASE f < 0 -> f
    [] f >= 0 /\ d.base[f] < 0 -> -2
    [] OTHER -> IF d.check[Xor(d.base[f], k[i])] = f THEN Xor(d.base[f], k[i]) ELSE -1

LEMMA StandsNext ==
  ASSUME NEW d, ArrayType(d), NEW P, Tree(d, Used(d), Still, 0, P), NEW k \in Keys, NEW i \in 1 .. Len(k),
         NEW f, StandsAt(Used(d), P, SubSeq(k, 1, i - 1), f)
  PROVE  StandsAt(Used(d), P, SubSeq(k, 1, i), NextNode(d, k, i, f))
<1> DEFINE U == Used(d)
<1>1. PICK q, r, l : q = SubSeq(k, 1, i - 1) /\ r = SubSeq(k, 1, i) /\ l = k[i]
  OBVIOUS
<1>2. l \in Labels /\ l # 0 /\ r = Append(q, l) /\ Len(k) \in Nat
  BY <1>1, KeyFacts
<1>3. U \subseteq Nat /\ P \in [U -> Seq(Labels)] /\ P[0] = <<>>
  <2>1. PlacesOf(d) \subseteq Nat
    BY ArrayFacts
  <2>2. QED
    BY <2>1 DEF Tree, Paths
<1>4. CASE f \in U /\ P[f] = q
  <2>1. ~ IsTerminal(P, f)
    <3>1. CASE i = 1
      BY <1>1, <1>4, <3>1, KeyFacts DEF IsTerminal
    <3>2. CASE i # 1
      <4>1. i - 1 \in 1 .. Len(k)
        BY <1>2, <3>2
      <4>2. q[Len(q)] # 0
        BY <1>1, <4>1, KeyFacts
      <4>3. QED
        BY <1>4, <4>2 DEF IsTerminal
    <3>3. QED
      BY <3>1, <3>2
  <2>2. PICK x : x = Xor(d.base[f], l)
    OBVIOUS
  <2>3. d.base[f] \in Nat /\ BelowIs(d, U, P, f, l, x)
    BY <1>2, <1>4, <2>1, <2>2, Below
  <2>4. f \in Nat /\ f >= 0 /\ ~ f < 0 /\ ~ d.base[f] < 0
    BY <1>3, <1>4, <2>3
  <2>5. NextNode(d, k, i, f) = IF d.check[x] = f THEN x ELSE -1
    BY <1>1, <2>2, <2>4 DEF NextNode
  <2>6. QED
    BY <1>1, <1>2, <1>4, <2>3, <2>5 DEF StandsAt, BelowIs
<1>5. CASE f = -1 /\ \A m \in U : P[m] # q
  <2>1. NextNode(d, k, i, f) = -1
    BY <1>5 DEF NextNode
  <2>2. ASSUME NEW m \in U, P[m] = r PROVE FALSE
    <3>1. m # 0
      <4>1. q \in Seq(Labels)
        <5>1. \A j \in 1 .. i - 1 : k[j] \in Labels
          BY <1>2, KeyFacts
        <5>2. k \in Seq(Labels)
          BY KeyFacts
        <5> HIDE DEF Labels
        <5>3. QED
          BY <1>1, <1>2, <5>1, <5>2
      <4>2. Append(q, l) # <<>>
        BY <1>2, <4>1
      <4>3. QED
        BY <1>2, <1>3, <2>2, <4>2
    <3>2. PICK c \in Labels : P[m] = Append(P[d.check[m]], c)
      BY <3>1, NodeFacts
    <3>3. d.check[m] \in U
      BY <3>1, NodeFacts
    <3>4. P[d.check[m]] = q
      <4>1. P[d.check[m]] \in Seq(Labels) /\ q \in Seq(Labels)
        <5>1. \A j \in 1 .. i - 1 : k[j] \in Labels
          BY <1>2, KeyFacts
        <5>2. k \in Seq(Labels)
          BY KeyFacts
        <5> HIDE DEF Labels
        <5>3. QED
          BY <1>1, <1>2, <1>3, <3>3, <5>1, <5>2
      <4>2. Append(P[d.check[m]], c) = Append(q, l)
        BY <1>2, <2>2, <3>2
      <4>3. ASSUME NEW a \in Seq(Labels), NEW b \in Seq(Labels), NEW x \in Labels, NEW y \in Labels,
                   Append(a, x) = Append(b, y)
            PROVE  a = b
        BY <4>3, AppendInjective
      <4>4. QED
        <5>1. PICK a : a = P[d.check[m]]
          OBVIOUS
        <5>2. a \in Seq(Labels) /\ Append(a, c) = Append(q, l)
          BY <4>1, <4>2, <5>1
        <5>3. a = q
          BY <1>2, <4>1, <4>3, <5>2
        <5>4. QED
          BY <5>1, <5>3
    <3>5. QED
      BY <1>5, <3>3, <3>4
  <2>3. QED
    BY <1>1, <2>1, <2>2 DEF StandsAt
<1>6. QED
  BY <1>1, <1>4, <1>5 DEF StandsAt

\* NodeOf finds the node with the path k if there is one, and does not leave the array.
LEMMA NodeOfIs ==
  ASSUME NEW d, ArrayType(d), NEW P, Tree(d, Used(d), Still, 0, P), NEW k \in Keys
  PROVE  StandsAt(Used(d), P, k, NodeOf(d, k))
<1> DEFINE U == Used(d)
           At(i, n) == StandsAt(U, P, SubSeq(k, 1, i), n)
           w == [i \in 0 .. Len(k) |-> CHOOSE n : At(i, n)]
           IsAt(f) == f = [i \in 0 .. Len(k) |-> IF i = 0 THEN 0 ELSE NextNode(d, k, i, f[i - 1])]
<1>1. Len(k) \in Nat /\ SubSeq(k, 1, Len(k)) = k /\ SubSeq(k, 1, 0) = <<>>
  BY KeyFacts
<1>2. /\ U \subseteq Nat /\ 0 \in U /\ P[0] = <<>> /\ \A n, m \in U : P[n] = P[m] => n = m
  <2>1. PlacesOf(d) \subseteq Nat
    BY ArrayFacts
  <2>2. QED
    BY <2>1 DEF Tree, Paths
<1>3. \A i, n, m : At(i, n) /\ At(i, m) => n = m
  <2>1. -1 \notin U
    BY <1>2
  <2>2. QED
    BY <1>2, <2>1 DEF StandsAt
<1>4. \A i : \E n : At(i, n)
  BY DEF StandsAt
<1>5. At(0, 0)
  BY <1>1, <1>2 DEF StandsAt
<1>6. \A i \in 1 .. Len(k) : \A f : At(i - 1, f) => At(i, NextNode(d, k, i, f))
  BY StandsNext
<1> HIDE DEF At
<1>7. \A i \in 0 .. Len(k) : At(i, w[i])
  BY <1>4
<1>8. \A i \in 0 .. Len(k) : w[i] = IF i = 0 THEN 0 ELSE NextNode(d, k, i, w[i - 1])
  <2>1. SUFFICES ASSUME NEW i \in 0 .. Len(k) PROVE w[i] = IF i = 0 THEN 0 ELSE NextNode(d, k, i, w[i - 1])
    OBVIOUS
  <2>2. CASE i = 0
    BY <1>3, <1>5, <1>7, <2>2
  <2>3. CASE i # 0
    <3>1. i \in 1 .. Len(k) /\ i - 1 \in 0 .. Len(k)
      BY <1>1, <2>3
    <3> HIDE DEF w
    <3>2. At(i, NextNode(d, k, i, w[i - 1]))
      BY <1>6, <1>7, <3>1
    <3>3. QED
      BY <1>3, <1>7, <2>3, <3>2
  <2>4. QED
    BY <2>2, <2>3
<1>9. IsAt(w)
  <2>1. w = [i \in 0 .. Len(k) |-> w[i]]
    OBVIOUS
  <2> HIDE DEF w
  <2>2. QED
    BY <1>8, <2>1
<1>10. ASSUME NEW f, IsAt(f) PROVE At(Len(k), f[Len(k)])
  <2> DEFINE X == {i \in 0 .. Len(k) : ~ At(i, f[i])}
  <2>1. \A i \in 0 .. Len(k) : f[i] = IF i = 0 THEN 0 ELSE NextNode(d, k, i, f[i - 1])
    BY <1>10, Zenon
  <2>2. X = {}
    <3>1. SUFFICES ASSUME X # {} PROVE FALSE
      OBVIOUS
    <3>2. PICK i \in X : \A m \in X : i <= m
      <4>1. X \subseteq Nat
        BY <1>1
      <4>2. QED
        BY <3>1, <4>1, LeastNatural
    <3>3. i # 0 /\ i \in 0 .. Len(k) /\ ~ At(i, f[i])
      BY <1>5, <2>1
    <3>4. i - 1 \in 0 .. Len(k) /\ i \in 1 .. Len(k) /\ ~ i <= i - 1
      BY <1>1, <3>3
    <3>5. At(i - 1, f[i - 1])
      BY <3>2, <3>4
    <3>6. At(i, f[i])
      BY <1>6, <2>1, <3>3, <3>4, <3>5
    <3>7. QED
      BY <3>3, <3>6
  <2>3. Len(k) \in 0 .. Len(k)
    BY <1>1
  <2>4. QED
    BY <2>2, <2>3
<1>11. NodeOf(d, k) = (CHOOSE f : IsAt(f))[Len(k)]
  BY Zenon DEF NodeOf, NextNode
<1>12. IsAt(CHOOSE f : IsAt(f))
  BY <1>9, Zenon
<1>13. At(Len(k), NodeOf(d, k))
  BY <1>10, <1>11, <1>12, Zenon
<1>14. QED
  BY <1>1, <1>13 DEF At

\* A search finds the value of a string, or that there is none.
LEMMA FindIs ==
  ASSUME NEW d, ArrayType(d), NEW P, Tree(d, Used(d), Still, 0, P), NEW V, NEW k \in Keys,
         HasValue(d, Used(d), P, V, k)
  PROVE  (Find(d, k) = NoPath /\ V[k] = NoValue) \/ Find(d, k) = V[k]
<1> DEFINE U == Used(d)
<1>1. PICK n : n = NodeOf(d, k)
  OBVIOUS
<1>2. StandsAt(U, P, k, n)
  BY <1>1, NodeOfIs
<1>3. U \subseteq Nat /\ P \in [U -> Seq(Labels)] /\ P[0] = <<>> /\ \A x, m \in U : P[x] = P[m] => x = m
  <2>1. PlacesOf(d) \subseteq Nat
    BY ArrayFacts
  <2>2. QED
    BY <2>1 DEF Tree, Paths
<1>4. k \in Seq(Labels) /\ k # <<>> /\ 0 \in Labels /\ k[Len(k)] # 0
  <2>1. Len(k) \in 1 .. Len(k)
    BY KeyFacts
  <2>2. QED
    BY <2>1, KeyFacts, BIsNat DEF Labels
<1>5. Find(d, k) = CASE n < 0 -> NoPath
                     [] n >= 0 /\ d.check[d.base[n]] # n -> NoValue
                     [] OTHER -> d.base[d.base[n]]
  BY <1>1, Zenon DEF Find
<1>6. CASE n \in U /\ P[n] = k
  <2>1. ~ IsTerminal(P, n) /\ n # 0 /\ n >= 0 /\ ~ n < 0
    BY <1>3, <1>4, <1>6 DEF IsTerminal
  <2>2. PICK b : b = d.base[n]
    OBVIOUS
  <2>3. b \in Nat /\ BelowIs(d, U, P, n, 0, b)
    <3>1. d.base[n] \in Nat /\ BelowIs(d, U, P, n, 0, Xor(d.base[n], 0))
      BY <1>4, <1>6, <2>1, Below
    <3>2. QED
      BY <2>2, <3>1, XorFacts, <1>4
  <2>4. CASE d.check[b] = n
    <3>1. b \in U /\ P[b] = Append(k, 0)
      BY <1>6, <2>3, <2>4 DEF BelowIs
    <3>2. Find(d, k) = d.base[b]
      BY <1>5, <2>1, <2>2, <2>4
    <3>3. \A m \in U : P[m] = Append(k, 0) => m = b
      BY <1>3, <3>1
    <3>4. QED
      BY <3>1, <3>2, <3>3 DEF HasValue
  <2>5. CASE d.check[b] # n
    <3>1. \A m \in U : P[m] # Append(k, 0)
      BY <1>6, <2>3, <2>5 DEF BelowIs
    <3>2. Find(d, k) = NoValue
      BY <1>5, <2>1, <2>2, <2>5
    <3>3. QED
      BY <3>1, <3>2 DEF HasValue
  <2>6. QED
    BY <2>4, <2>5
<1>7. CASE n = -1 /\ \A m \in U : P[m] # k
  <2>1. Find(d, k) = NoPath
    BY <1>5, <1>7
  <2>2. ASSUME NEW m \in U, P[m] = Append(k, 0) PROVE FALSE
    <3>1. m # 0
      BY <1>3, <1>4, <2>2
    <3>2. PICK c \in Labels : P[m] = Append(P[d.check[m]], c)
      BY <3>1, NodeFacts
    <3>3. d.check[m] \in U
      BY <3>1, NodeFacts
    <3>4. PICK a : a = P[d.check[m]]
      OBVIOUS
    <3>5. a \in Seq(Labels) /\ Append(a, c) = Append(k, 0)
      BY <1>3, <2>2, <3>2, <3>3, <3>4
    <3>6. a = k
      BY <1>4, <3>5, AppendInjective
    <3>7. QED
      BY <1>7, <3>3, <3>4, <3>6
  <2>3. QED
    BY <2>1, <2>2 DEF HasValue
<1>8. QED
  BY <1>2, <1>6, <1>7 DEF StandsAt

\* What searches find between updates are the values of the strings.
LEMMA FoundIs ==
  ASSUME NEW d, NEW j, NEW V, Holds(d, j, V), j.pc # "update", NEW k \in Keys
  PROVE  (Find(d, k) = NoPath /\ V[k] = NoValue) \/ Find(d, k) = V[k]
<1>1. PICK P : TreeInv(d, j, P, V)
  BY DEF Holds
<1>2. ArrayType(d) /\ Tree(d, Used(d), Still, 0, P) /\ HasValue(d, Used(d), P, V, k)
  BY <1>1, QuietValues DEF Holds, SpaceInv
<1>3. QED
  BY <1>2, FindIs

LEMMA LookupsAre ==
  ASSUME NEW d, NEW j, NEW V, Holds(d, j, V), j.pc # "update",
         V \in [Keys -> Nat], \A k \in Keys : V[k] # NoPath
  PROVE  Lookups(d) = V
<1>1. ASSUME NEW k \in Keys PROVE (IF Find(d, k) = NoPath THEN NoValue ELSE Find(d, k)) = V[k]
  BY FoundIs
<1>2. Lookups(d) = [k \in Keys |-> V[k]]
  BY <1>1, Zenon DEF Lookups
<1>3. QED
  BY <1>2

-----------------------------------------------------------------------------
(* The specification *)

\* No two strings have the same id.
Apart(V) == \A k, l \in Keys : V[k] = V[l] /\ V[k] # NoValue => k = l

\* So many strings have ids, which are those up to n.
Numbered(V, n) ==
  /\ V \in [Keys -> Nat] /\ n \in Nat
  /\ n = Cardinality({k \in Keys : V[k] # NoValue})
  /\ \A k \in Keys : V[k] = NoValue \/ V[k] \in 1 .. n
  /\ Apart(V)

\* The last id that a search may find.
Cursor == IF job.pc = "update" THEN funnelIdCursor - 1 ELSE funnelIdCursor

Inv ==
  /\ Holds(da, job, view)
  /\ "pc" \in DOMAIN job
  /\ funnelIdCursor \in Nat /\ Numbered(view, Cursor)
  /\ job.pc = "update" =>
       job.key \in Keys /\ view[job.key] = NoValue /\ job.val = funnelIdCursor

LEMMA NumberedBelow ==
  ASSUME NEW V, NEW n, Numbered(V, n)
  PROVE  n < NoPath /\ n + 1 < NoValue /\ \A k \in Keys : V[k] # NoPath
<1> DEFINE S == {k \in Keys : V[k] # NoValue}
<1>1. S \subseteq Keys /\ IsFiniteSet(Keys) /\ n = Cardinality(S)
  BY IdsAssumption DEF Numbered
<1>2. Cardinality(S) <= Cardinality(Keys) /\ Cardinality(Keys) \in Nat
  BY <1>1, FS_Subset, FS_CardinalityType
<1> HIDE DEF S
<1>3. n < NoPath /\ n + 1 < NoValue
  BY <1>1, <1>2, IdsAssumption DEF Numbered
<1>4. \A k \in Keys : V[k] # NoPath
  BY <1>3, IdsAssumption DEF Numbered
<1>5. QED
  BY <1>3, <1>4

LEMMA NumberedNext ==
  ASSUME NEW V, NEW n, Numbered(V, n), NEW key \in Keys, V[key] = NoValue
  PROVE  Numbered(ValueSet(V, key, n + 1), n + 1)
<1> DEFINE V2 == ValueSet(V, key, n + 1)
           S == {k \in Keys : V[k] # NoValue}
           S2 == {k \in Keys : V2[k] # NoValue}
<1>1. /\ V \in [Keys -> Nat] /\ n \in Nat /\ n = Cardinality(S)
      /\ \A k \in Keys : V[k] = NoValue \/ V[k] \in 1 .. n
  BY DEF Numbered
<1>2. n + 1 < NoValue /\ NoValue \in Nat
  BY NumberedBelow, IdsAssumption
<1>3. V2 \in [Keys -> Nat] /\ \A k \in Keys : V2[k] = IF k = key THEN n + 1 ELSE V[k]
  BY <1>1 DEF ValueSet
<1> HIDE DEF V2
<1>4. S2 = S \cup {key} /\ key \notin S
  BY <1>1, <1>2, <1>3
<1>5. IsFiniteSet(S)
  <2>1. S \subseteq Keys
    OBVIOUS
  <2>2. QED
    BY <2>1, IdsAssumption, FS_Subset
<1> HIDE DEF S, S2
<1>6. Cardinality(S2) = n + 1
  BY <1>1, <1>4, <1>5, FS_AddElement
<1>7. \A k \in Keys : V2[k] = NoValue \/ V2[k] \in 1 .. n + 1
  BY <1>1, <1>3
<1>8. Apart(V2)
  <2>1. \A k \in Keys : V[k] # n + 1
    BY <1>1, <1>2
  <2>2. Apart(V)
    BY DEF Numbered
  <2>3. QED
    BY <1>3, <2>1, <2>2 DEF Apart
<1>9. QED
  BY <1>1, <1>3, <1>6, <1>7, <1>8 DEF Numbered, V2, S2

LEMMA UpdateHolds ==
  ASSUME NEW V, Holds(da, job, V), UpdateStep
  PROVE  Stepped(job, V)
BY FollowNewStep, FollowFreeStep, FollowEdgeStep, ResolveStep, TryBlockStep, MoveStep DEF UpdateStep

\* An update is under way, or has just ended with an id for its string.
LEMMA UpdateEnds ==
  ASSUME Inv, UpdateStep
  PROVE  /\ Inv' /\ funnelIdCursor' = funnelIdCursor /\ job.pc = "update"
         /\ \/ job'.pc = "update" /\ view' = view
            \/ /\ job'.pc # "update" /\ job.key \in Keys /\ view[job.key] = NoValue
               /\ view' = ValueSet(view, job.key, funnelIdCursor)
<1>1. job.pc = "update" /\ funnelIdCursor' = funnelIdCursor
  BY DEF UpdateStep, FollowNew, FollowFree, FollowEdge, Resolve, TryBlock, Move, Updating
<1>2. /\ Holds(da, job, view) /\ funnelIdCursor \in Nat /\ Numbered(view, funnelIdCursor - 1)
      /\ job.key \in Keys /\ view[job.key] = NoValue /\ job.val = funnelIdCursor
  BY <1>1 DEF Inv, Cursor
<1>3. Stepped(job, view)
  BY <1>2, UpdateHolds
<1>4. CASE Holds(da', job', view) /\ GoesOn(job, job') /\ view' = view
  <2>1. /\ job'.pc = "update" /\ "pc" \in DOMAIN job' /\ job'.key = job.key /\ job'.val = job.val
    BY <1>4 DEF GoesOn, UpdateJob
  <2>2. Inv'
    BY <1>1, <1>2, <1>4, <2>1 DEF Inv, Cursor
  <2>3. QED
    BY <1>1, <1>4, <2>1, <2>2
<1>5. CASE /\ Holds(da', job', ValueSet(view, job.key, job.val))
           /\ job' = Idle /\ view' = Lookups(da')
  <2>1. PICK V : V = ValueSet(view, job.key, funnelIdCursor)
    OBVIOUS
  <2>2. Holds(da', Idle, V)
    BY <1>2, <1>5, <2>1
  <2>3. Numbered(V, funnelIdCursor)
    <3>1. PICK n : n = funnelIdCursor - 1
      OBVIOUS
    <3>2. n + 1 = funnelIdCursor
      BY <1>2, <3>1
    <3>3. Numbered(ValueSet(view, job.key, n + 1), n + 1)
      BY <1>2, <3>1, NumberedNext
    <3>4. QED
      BY <2>1, <3>2, <3>3
  <2>4. Idle.pc # "update" /\ "pc" \in DOMAIN Idle
    BY DEF Idle
  <2>5. Lookups(da') = V
    <3>1. V \in [Keys -> Nat] /\ \A k \in Keys : V[k] # NoPath
      BY <2>3, NumberedBelow DEF Numbered
    <3>2. QED
      BY <2>2, <2>4, <3>1, LookupsAre
  <2>6. view' = V
    BY <1>5, <2>5
  <2>7. Inv'
    BY <1>1, <1>2, <1>5, <2>2, <2>3, <2>4, <2>6 DEF Inv, Cursor
  <2>8. QED
    BY <1>1, <1>2, <1>5, <2>1, <2>4, <2>6, <2>7
<1>6. QED
  BY <1>3, <1>4, <1>5 DEF Stepped

\* What else there is leaves the ids as they are.
LEMMA OtherSteps ==
  ASSUME Inv, [Next]_vars, ~ UpdateStep
  PROVE  Inv' /\ view' = view /\ Cursor' = Cursor
<1>1. /\ Holds(da, job, view) /\ "pc" \in DOMAIN job
      /\ funnelIdCursor \in Nat /\ Numbered(view, Cursor)
  BY DEF Inv
<1>2. ASSUME NEW k \in Keys, Attach(k) PROVE Inv' /\ view' = view /\ Cursor' = Cursor
  <2>1. /\ da' = da /\ view' = view /\ job = Idle /\ funnelIdCursor' = funnelIdCursor + 1
        /\ Find(da, k) \in {NoPath, NoValue}
    BY <1>2 DEF Attach
  <2>2. PICK v : v = funnelIdCursor + 1
    OBVIOUS
  <2>3. job' = [pc |-> "update", step |-> "follow", key |-> k, pos |-> 0, from |-> 0,
                val |-> v, place |-> <<>>]
    BY <1>2, <2>2 DEF Attach
  <2>4. Idle.pc # "update"
    BY DEF Idle
  <2>5. Cursor = funnelIdCursor
    BY <2>1, <2>4 DEF Cursor
  <2>6. v \in Nat \ {NoValue}
    BY <1>1, <2>2, <2>5, NumberedBelow, IdsAssumption
  <2>7. view[k] = NoValue
    <3>1. (Find(da, k) = NoPath /\ view[k] = NoValue) \/ Find(da, k) = view[k]
      BY <1>1, <2>1, <2>4, FoundIs
    <3>2. view[k] # NoPath
      BY <1>1, NumberedBelow
    <3>3. QED
      BY <2>1, <3>1, <3>2
  <2>8. Holds(da', job', view)
    BY <1>1, <2>1, <2>3, <2>6, <2>7, AttachHolds
  <2>9. job'.pc = "update" /\ job'.key = k /\ job'.val = v /\ "pc" \in DOMAIN job'
    BY <2>3
  <2>10. Cursor' = Cursor
    BY <1>1, <2>1, <2>5, <2>9 DEF Cursor
  <2>11. Inv'
    BY <1>1, <2>1, <2>2, <2>7, <2>8, <2>9, <2>10 DEF Inv
  <2>12. QED
    BY <2>1, <2>10, <2>11
<1>3. ASSUME da' = da, view' = view, funnelIdCursor' = funnelIdCursor, job.pc # "update",
             job' = Idle \/ job'.pc \in {"walk", "walked"}, "pc" \in DOMAIN job'
      PROVE  Inv' /\ view' = view /\ Cursor' = Cursor
  <2>1. job'.pc # "update"
    BY <1>3 DEF Idle
  <2>2. Cursor' = Cursor
    BY <1>3, <2>1 DEF Cursor
  <2>3. Holds(da, job', view)
    BY <1>1, <1>3, QuietHolds
  <2>4. QED
    BY <1>1, <1>3, <2>1, <2>2, <2>3 DEF Inv
<1>4. ASSUME NEW k \in Keys, Traverse(k) PROVE Inv' /\ view' = view /\ Cursor' = Cursor
  <2>1. da' = da /\ view' = view /\ job = Idle /\ funnelIdCursor' = funnelIdCursor
    BY <1>4 DEF Traverse
  <2>2. job'.pc = "walk" /\ "pc" \in DOMAIN job'
    BY <1>4 DEF Traverse, Walk
  <2>3. job.pc # "update"
    BY <2>1 DEF Idle
  <2>4. QED
    BY <1>3, <2>1, <2>2, <2>3
<1>5. CASE TraverseNext
  <2>1. da' = da /\ view' = view /\ job.pc = "walk" /\ funnelIdCursor' = funnelIdCursor
    BY <1>5 DEF TraverseNext
  <2>2. job'.pc \in {"walk", "walked"} /\ "pc" \in DOMAIN job'
    <3>1. \/ job' = [job EXCEPT !.pc = "walked"]
          \/ \E n, s : job' = [job EXCEPT !.node = n, !.seen = s]
      BY <1>5, Zenon DEF TraverseNext
    <3>2. QED
      BY <1>1, <2>1, <3>1
  <2>3. QED
    BY <1>3, <2>1, <2>2
<1>6. CASE TraverseEnd
  <2>1. /\ da' = da /\ view' = view /\ job.pc = "walked" /\ job' = Idle
        /\ funnelIdCursor' = funnelIdCursor
    BY <1>6 DEF TraverseEnd
  <2>2. "pc" \in DOMAIN job'
    BY <2>1 DEF Idle
  <2>3. QED
    BY <1>3, <2>1, <2>2
<1>7. CASE UNCHANGED vars
  BY <1>1, <1>7 DEF Inv, vars, Cursor
<1>8. QED
  BY <1>2, <1>4, <1>5, <1>6, <1>7 DEF Next

LEMMA InvKept ==
  ASSUME Inv, [Next]_vars
  PROVE  Inv'
BY UpdateEnds, OtherSteps

LEMMA InvFirst ==
  ASSUME Init
  PROVE  Inv
<1>1. PICK V : V = [k \in Keys |-> NoValue]
  OBVIOUS
<1>2. /\ da = Initialized /\ job = Idle /\ funnelIdCursor = 0 /\ view = V
  BY <1>1 DEF Init
<1>3. Numbered(V, 0)
  <2>1. V \in [Keys -> Nat] /\ \A k \in Keys : V[k] = NoValue
    BY <1>1, IdsAssumption
  <2>2. {k \in Keys : V[k] # NoValue} = {}
    BY <2>1
  <2>3. Cardinality({k \in Keys : V[k] # NoValue}) = 0
    BY <2>2, FS_EmptySet
  <2>4. QED
    BY <2>1, <2>3 DEF Numbered, Apart
<1>4. Holds(da, job, view)
  BY <1>1, <1>2, FirstHolds
<1>5. job.pc # "update" /\ "pc" \in DOMAIN job
  BY <1>2 DEF Idle
<1>6. QED
  BY <1>2, <1>3, <1>4, <1>5 DEF Inv, Cursor

\* At every step of every update the empty places form their rings, the blocks their
\* lists and the nodes a tree, and the update knows where it is in it: what the
\* methods of cedar::da rely on when they follow each other's links.
THEOREM SpaceAndTree == Spec => []Inv
<1>1. Init => Inv
  BY InvFirst
<1>2. Inv /\ [Next]_vars => Inv'
  BY InvKept
<1>3. QED
  BY <1>1, <1>2, PTL DEF Spec

\* Updates are Trie's: whatever nodes and blocks an update moves, its end gives the
\* string that was attached the id that was drawn for it, and all others keep theirs.
THEOREM RefinesTrie == Spec => ImplementsTrie
<1>1. Init => T!TrieInit
  BY DEF Init, Idle, T!TrieInit
<1>2. ASSUME Inv, [Next]_vars
      PROVE  [\E k \in Keys : T!TrieAttach(k)]_(T!trieVars)
  <2>1. CASE ~ UpdateStep
    <3>1. view' = view /\ Cursor' = Cursor
      BY <1>2, <2>1, OtherSteps
    <3>2. QED
      BY <3>1 DEF Cursor, T!trieVars
  <2>2. CASE UpdateStep
    <3>1. /\ funnelIdCursor' = funnelIdCursor /\ job.pc = "update" /\ funnelIdCursor \in Nat
          /\ \/ job'.pc = "update" /\ view' = view
             \/ /\ job'.pc # "update" /\ job.key \in Keys /\ view[job.key] = NoValue
                /\ view' = ValueSet(view, job.key, funnelIdCursor)
      BY <1>2, <2>2, UpdateEnds DEF Inv
    <3>2. CASE job'.pc = "update" /\ view' = view
      BY <3>1, <3>2 DEF T!trieVars
    <3>3. CASE /\ job'.pc # "update" /\ job.key \in Keys /\ view[job.key] = NoValue
               /\ view' = ValueSet(view, job.key, funnelIdCursor)
      <4>1. view \in [Keys -> Nat]
        BY <1>2 DEF Inv, Numbered
      <4>2. view' = [view EXCEPT ![job.key] = funnelIdCursor]
        BY <3>3, <4>1 DEF ValueSet
      <4>3. T!IsSentinel(view[job.key])
        BY <3>3 DEF T!IsSentinel
      <4>4. T!TrieAttach(job.key)
        BY <3>1, <3>3, <4>2, <4>3 DEF T!TrieAttach, T!newFunnelId
      <4>5. QED
        BY <3>3, <4>4
    <3>4. QED
      BY <3>1, <3>2, <3>3
  <2>3. QED
    BY <2>1, <2>2
<1>3. QED
  BY <1>1, <1>2, SpaceAndTree, PTL DEF Spec, ImplementsTrie

\* A step of the update j that does not end it brings the end nearer.
Advances(d, j, d2, j2) ==
  \/ j2.pos > j.pos
  \/ <<j.step, j2.step>> \in {<<"follow", "place">>, <<"follow", "move">>, <<"place", "move">>}
  \/ /\ j.step = "place" /\ j2.step = "place"
     /\ RoundsLeft(d2, j2.place) # {}
     /\ Min(RoundsLeft(d2, j2.place)) < Min(RoundsLeft(d, j.place))
  \/ j.step = "move" /\ j2.step = "move" /\ j2.place.at = j.place.at + 1

LEMMA ArriveAdvances ==
  ASSUME NEW d, NEW j, NEW to, JobType(j), UpdateJob(j), Arrive(d, j, to), job' # Idle
  PROVE  job'.pos > j.pos
<1>1. job' = [j EXCEPT !.step = "follow", !.from = to, !.pos = @ + 1, !.place = <<>>]
  BY Zenon DEF Arrive
<1>2. job'.pos = j.pos + 1
  BY <1>1 DEF UpdateJob
<1>3. j.pos \in Int
  <2>1. j.pos \in 0 .. Len(j.key)
    BY DEF JobType
  <2>2. QED
    BY <2>1
<1>4. QED
  BY <1>2, <1>3

LEMMA SettleAdvances ==
  ASSUME NEW d, NEW m, NEW e, UpdateJob(job), Settle(d, m, e)
  PROVE  job'.step = "move"
<1>1. PICK p : job' = [job EXCEPT !.step = "move", !.place = p]
  BY Zenon DEF Settle
<1>2. QED
  BY <1>1 DEF UpdateJob

LEMMA ResolveAdvances ==
  ASSUME NEW V, Holds(da, job, V), Resolve
  PROVE  <<job.step, job'.step>> \in {<<"follow", "place">>, <<"follow", "move">>}
<1>1. PICK d, j, x, m : /\ d = da /\ j = job /\ x = Conflict(da, job)
                        /\ m = ResolvePlace(da, job, Conflict(da, job))
  OBVIOUS
<1>2. Resolving(d, j, x, m)
  BY <1>1, ResolveIs, Zenon
<1>3. /\ j.pc = "update" /\ j.step = "follow"
      /\ \/ \E d1, e : Settle(d1, m, e)
         \/ \E p : job' = [j EXCEPT !.step = "place", !.place = p]
  BY <1>2, Zenon DEF Resolving
<1>4. UpdateJob(job)
  BY <1>1, <1>3, HeldJob
<1>5. job'.step \in {"place", "move"}
  <2>1. CASE \E d1, e : Settle(d1, m, e)
    BY <1>4, <2>1, SettleAdvances
  <2>2. CASE \E p : job' = [j EXCEPT !.step = "place", !.place = p]
    BY <1>1, <1>4, <2>2 DEF UpdateJob
  <2>3. QED
    BY <1>3, <2>1, <2>2
<1>6. QED
  BY <1>1, <1>3, <1>5

LEMMA TryBlockAdvances ==
  ASSUME NEW V, Holds(da, job, V), TryBlock
  PROVE  Advances(da, job, da', job')
<1>1. PICK d, j : d = da /\ j = job
  OBVIOUS
<1>2. PICK m, s, bi, nc, ring, fitting :
        /\ m = j.place /\ s = m.labels /\ bi = m.block /\ nc = Len(s) /\ ring = Ring(d, bi)
        /\ fitting = {i \in DOMAIN ring : Fits(d, ring[i], s)}
  OBVIOUS
<1>3. Trying(d, j, m, bi, nc, ring, fitting)
  BY <1>1, <1>2, TryBlockIs
<1>4. /\ j.pc = "update" /\ j.step = "place"
      /\ \/ \E d1, e : Settle(d1, m, e)
         \/ /\ bi # m.last /\ da' = Failed(d, bi, nc)
            /\ job' = [j EXCEPT !.place.block = d.block[bi].next]
  BY <1>3, Zenon DEF Trying
<1>5. SpaceInv(d) /\ ArrayType(d) /\ JobType(j) /\ UpdateJob(j)
  BY <1>1, <1>4, HeldJob DEF Holds, SpaceInv
<1>6. CASE \E d1, e : Settle(d1, m, e)
  <2>1. job'.step = "move"
    BY <1>1, <1>5, <1>6, SettleAdvances
  <2>2. QED
    BY <1>1, <1>4, <2>1 DEF Advances
<1>7. CASE /\ bi # m.last /\ da' = Failed(d, bi, nc)
           /\ job' = [j EXCEPT !.place.block = d.block[bi].next]
  <2>1. PICK P : TreeInv(d, j, P, V)
    BY <1>1 DEF Holds
  <2>2. PlaceInv(d, j) /\ Reached(d, j, P, V)
    BY <1>4, <2>1 DEF TreeInv, JobInv, Idle
  <2>3. PICK c : Tree(d, Used(d), Still, c, P)
    <3>1. ~ Moving(j)
      BY <1>4 DEF Moving
    <3>2. QED
      BY <2>1, <3>1 DEF TreeInv
  <2>4. Asked(d, j, m) /\ bi \in BlocksOf(d) /\ ListsIn(d)[bi] = "O"
        /\ m.last \in BlocksOf(d) /\ ListsIn(d)[m.last] = "O"
        /\ m = [mover |-> m.mover, newcomer |-> m.newcomer, conflict |-> m.conflict,
                labels |-> m.labels, block |-> m.block, last |-> m.last]
    BY <1>2, <2>2, Zenon DEF PlaceInv
  <2>5. nc \in 0 .. B
    <3>1. Len(m.labels) \in 1 .. B
      BY <1>5, <2>2, <2>3, <2>4, AskedFacts
    <3>2. QED
      BY <1>2, <3>1, BIsNat
  <2>6. job'.step = "place" /\ job'.place = [m EXCEPT !.block = d.block[bi].next]
    BY <1>2, <1>4, <1>5, <1>7 DEF UpdateJob
  <2>7. job'.place.block = d.block[bi].next /\ job'.place.last = m.last
    <3>1. DOMAIN m = {"mover", "newcomer", "conflict", "labels", "block", "last"}
      BY <2>4
    <3>2. QED
      BY <2>6, <3>1
  <2>8. PICK d2, place2 : d2 = da' /\ place2 = job'.place
    OBVIOUS
  <2>9. RoundsLeft(d2, place2) # {} /\ Min(RoundsLeft(d2, place2)) < Min(RoundsLeft(d, m))
    BY <1>2, <1>5, <1>7, <2>4, <2>5, <2>7, <2>8, NearerLast
  <2>10. QED
    BY <1>1, <1>2, <1>4, <2>6, <2>8, <2>9, Zenon DEF Advances
<1>8. QED
  BY <1>4, <1>6, <1>7

LEMMA MoveAdvances ==
  ASSUME NEW V, Holds(da, job, V), Move, job' # Idle
  PROVE  Advances(da, job, da', job')
<1>1. PICK d, j, x : d = da /\ j = job /\ x = Turned(j, FromNext(j))
  OBVIOUS
<1>2. /\ j.pc = "update" /\ j.step = "move"
      /\ IF j.place.at = Len(j.place.labels) THEN Arrive(MovedArray(d, j), x, Goal(j))
         ELSE da' = MovedArray(d, j) /\ job' = [x EXCEPT !.place.at = @ + 1] /\ view' = view
  BY <1>1, MoveIs
<1>3. JobType(j)
  BY <1>1, <1>2, HeldJob
<1>4. PICK f : f = FromNext(j)
  OBVIOUS
<1>5. /\ x = [pc |-> "update", step |-> j.step, key |-> j.key, pos |-> j.pos, from |-> f,
              val |-> j.val, place |-> j.place]
      /\ x.key = j.key /\ x.pos = j.pos /\ x.val = j.val
  BY <1>1, <1>3, <1>4, TurnedIs
<1>6. JobType(x) /\ UpdateJob(x) /\ x.step = j.step /\ x.place = j.place
  <2>1. x.step = j.step /\ x.from = f /\ x.place = j.place
    BY <1>5
  <2>2. UpdateJob(x)
    BY <1>5 DEF UpdateJob
  <2>3. JobType(x)
    BY <1>3, <1>5, <2>1, Zenon DEF JobType
  <2>4. QED
    BY <2>1, <2>2, <2>3
<1>7. CASE j.place.at = Len(j.place.labels)
  <2>1. Arrive(MovedArray(d, j), x, Goal(j))
    BY <1>2, <1>7
  <2>2. job'.pos > x.pos
    BY <1>6, <2>1, ArriveAdvances
  <2>3. QED
    BY <1>1, <1>5, <2>2 DEF Advances
<1>8. CASE j.place.at # Len(j.place.labels)
  <2>1. job' = [x EXCEPT !.place.at = @ + 1]
    BY <1>2, <1>8
  <2>2. PICK P : TreeInv(d, j, P, V)
    BY <1>1 DEF Holds
  <2>3. MoveInv(d, j, P)
    BY <1>2, <2>2 DEF TreeInv, JobInv, Idle
  <2>4. PICK m : m = j.place
    OBVIOUS
  <2>5. DOMAIN m = {"mover", "newcomer", "conflict", "labels", "old", "base", "at"}
    <3>1. m = [mover |-> m.mover, newcomer |-> m.newcomer, conflict |-> m.conflict,
               labels |-> m.labels, old |-> m.old, base |-> m.base, at |-> m.at]
      BY <2>3, <2>4, Zenon DEF MoveInv
    <3>2. QED
      BY <3>1
  <2>6. job'.step = "move" /\ job'.place = [m EXCEPT !.at = @ + 1]
    BY <1>2, <1>6, <2>1, <2>4 DEF UpdateJob
  <2>7. job'.place.at = m.at + 1
    BY <2>5, <2>6
  <2>8. QED
    BY <1>1, <1>2, <2>4, <2>6, <2>7 DEF Advances
<1>9. QED
  BY <1>7, <1>8

\* Whatever blocks and nodes it moves on the way, an update comes to its end: every
\* step takes a label, gets on with the same one, leaves fewer blocks to try or
\* fewer children to move.
THEOREM UpdatesAdvance == Spec => UpdateAdvances
<1>1. ASSUME Inv, [Next]_vars, job.pc = "update", job' # Idle, ~ UNCHANGED vars
      PROVE  Advances(da, job, da', job')
  <2>1. Holds(da, job, view) /\ JobType(job) /\ UpdateJob(job)
    BY <1>1, HeldJob DEF Inv
  <2>2. UpdateStep
    <3>1. ASSUME NEW k \in Keys, Attach(k) \/ Traverse(k) PROVE FALSE
      BY <1>1, <3>1 DEF Attach, Traverse, Idle
    <3>2. ~ TraverseNext /\ ~ TraverseEnd
      BY <1>1 DEF TraverseNext, TraverseEnd
    <3>3. QED
      BY <1>1, <3>1, <3>2 DEF Next
  <2>3. CASE FollowNew \/ FollowFree \/ FollowEdge
    <3>1. \E d, to : Arrive(d, job, to)
      BY <2>3, Zenon DEF FollowNew, FollowFree, FollowEdge
    <3>2. job'.pos > job.pos
      BY <1>1, <2>1, <3>1, ArriveAdvances
    <3>3. QED
      BY <3>2 DEF Advances
  <2>4. CASE Resolve
    BY <2>1, <2>4, ResolveAdvances DEF Advances
  <2>5. CASE TryBlock
    BY <2>1, <2>5, TryBlockAdvances
  <2>6. CASE Move
    BY <1>1, <2>1, <2>6, MoveAdvances
  <2>7. QED
    BY <2>2, <2>3, <2>4, <2>5, <2>6 DEF UpdateStep
<1>2. Inv /\ [Next]_vars => [job.pc = "update" /\ job' # Idle => Advances(da, job, da', job')]_vars
  BY <1>1
<1>3. QED
  BY <1>2, SpaceAndTree, PTL DEF Spec, UpdateAdvances, Advances

\* Places are in the array, and counters in the range of their C++ types: nothing an
\* update writes to the arrays leads out of them.
THEOREM TypeCorrect == Spec => []TypeOK
<1>1. Inv => TypeOK
  <2> SUFFICES ASSUME Inv PROVE TypeOK
    OBVIOUS
  <2>1. PICK d, j : d = da /\ j = job
    OBVIOUS
  <2>2. PICK P : SpaceInv(d) /\ TreeInv(d, j, P, view)
    BY <2>1 DEF Inv, Holds
  <2>3. PICK mv, c : Tree(d, Used(d), mv, c, P)
    BY <2>2 DEF TreeInv
  <2>4. ArrayType(d)
    BY <2>2 DEF SpaceInv
  <2>5. /\ d.size \in Nat /\ d.size = B * Cardinality(BlocksOf(d)) /\ d.block \in [BlocksOf(d) -> BlockType]
        /\ PlacesOf(d) = 0 .. d.size - 1 /\ 0 \in PlacesOf(d)
        /\ d.base \in [PlacesOf(d) -> Int] /\ d.check \in [PlacesOf(d) -> Int]
        /\ d.sibling \in [PlacesOf(d) -> Labels] /\ d.child \in [PlacesOf(d) -> Labels]
        /\ d.head \in [Lists -> BlocksOf(d)]
        /\ \A bi \in BlocksOf(d) :
             /\ d.block[bi].prev \in BlocksOf(d) /\ d.block[bi].next \in BlocksOf(d)
             /\ BlockOf(d.block[bi].ehead) = bi
    BY <2>4, ArrayFacts, Zenon DEF ArrayType, PlacesOf
  <2>6. \A e \in PlacesOf(d) : d.check[e] < d.size
    <3>1. ASSUME NEW e \in PlacesOf(d), e \in Used(d) \ {0} PROVE d.check[e] < d.size
      <4>1. d.check[e] \in Used(d) /\ Used(d) \subseteq PlacesOf(d)
        BY <2>3, <3>1, NodeFacts DEF Tree
      <4>2. QED
        BY <2>5, <4>1
    <3>2. d.check[0] < d.size
      <4>1. d.check[0] < 0
        BY <2>3 DEF Tree, Bases
      <4>2. QED
        BY <2>5, <4>1
    <3>3. ASSUME NEW e \in PlacesOf(d), e \notin Used(d) PROVE d.check[e] < d.size
      BY <2>5, <3>3 DEF Used
    <3>4. QED
      BY <3>1, <3>2, <3>3
  <2>7. \A bi \in BlocksOf(d) : /\ d.block[bi].num \in 0 .. B /\ d.block[bi].reject \in 0 .. B + 1
                                /\ d.block[bi].trial \in 0 .. MaxTrial
    BY <2>5 DEF BlockType
  <2>8. /\ DOMAIN d.base = 0 .. d.size - 1 /\ DOMAIN d.check = 0 .. d.size - 1
        /\ DOMAIN d.sibling = 0 .. d.size - 1 /\ DOMAIN d.child = 0 .. d.size - 1
    BY <2>5
  <2>9. \A e \in 0 .. d.size - 1 : d.sibling[e] \in 0 .. B - 1 /\ d.child[e] \in 0 .. B - 1
    BY <2>5 DEF Labels
  <2>10. \A l \in DOMAIN d.head : d.head[l] \in BlocksOf(d)
    BY <2>5
  <2>11. funnelIdCursor \in Nat
    BY DEF Inv
  <2>12. Blocks = BlocksOf(d)
    BY <2>1 DEF Blocks, BlocksOf
  <2>13. \A e \in 0 .. d.size - 1 : d.check[e] < d.size
    BY <2>5, <2>6
  <2>14. QED
    BY <2>1, <2>5, <2>7, <2>8, <2>9, <2>10, <2>11, <2>12, <2>13, Zenon DEF TypeOK, BlockOf
<1>2. QED
  BY <1>1, SpaceAndTree, PTL

\* At every step of an update the empty nodes of a block are the ring that starts at
\* its ehead, linked both ways, and num counts them: _pop_enode and _push_enode lose
\* none and give none out twice.
THEOREM RingsAreSound == Spec => []RingsSound
<1>1. Inv => RingsSound
  <2> SUFFICES ASSUME Inv PROVE RingsSound
    OBVIOUS
  <2>1. PICK d : d = da
    OBVIOUS
  <2>2. SpaceInv(d) /\ ArrayType(d)
    BY <2>1 DEF Inv, Holds, SpaceInv
  <2>3. Blocks = BlocksOf(d) /\ BlocksOf(d) \subseteq Nat
    BY <2>1, <2>2, ArrayFacts DEF Blocks, BlocksOf
  <2>4. ASSUME NEW bi \in Blocks
        PROVE  /\ da.block[bi].num = Cardinality(Empty(bi)) + (IF bi = 0 THEN 1 ELSE 0)
               /\ Empty(bi) # {} =>
                    /\ Empty(bi) = {Ring(da, bi)[i] : i \in 1 .. Cardinality(Empty(bi))}
                    /\ \A e \in Empty(bi) : da.base[-da.check[e]] = -e
    <3>1. bi \in BlocksOf(d) /\ bi \in Nat /\ RingIn(d, bi)
      BY <2>2, <2>3 DEF SpaceInv
    <3>2. Empty(bi) = EmptyIn(d, bi)
      <4>1. \A e : e \in bi * B .. bi * B + B - 1 <=> e \in PlacesOf(d) /\ BlockOf(e) = bi
        <5>1. ASSUME NEW e, e \in bi * B .. bi * B + B - 1 PROVE e \in PlacesOf(d) /\ BlockOf(e) = bi
          <6>1. bi * B \in Nat
            BY <3>1, BIsNat
          <6>2. e \in Nat
            BY <5>1, <6>1
          <6>3. BlockOf(e) = bi
            BY <3>1, <5>1, <6>2, BlockRange
          <6>4. QED
            BY <2>2, <3>1, <6>2, <6>3, ArrayFacts
        <5>2. ASSUME NEW e, e \in PlacesOf(d), BlockOf(e) = bi PROVE e \in bi * B .. bi * B + B - 1
          <6>1. e \in Nat
            BY <2>2, <5>2, ArrayFacts
          <6>2. QED
            BY <3>1, <5>2, <6>1, BlockRange
        <5>3. QED
          BY <5>1, <5>2
      <4>2. QED
        BY <2>1, <4>1 DEF Empty, EmptyIn
    <3>3. d.block[bi].num = Cardinality(EmptyIn(d, bi)) + (IF bi = 0 THEN 1 ELSE 0)
      BY <3>1 DEF RingIn
    <3>4. EmptyIn(d, bi) # {} => EmptyIn(d, bi) = {Ring(d, bi)[i] : i \in 1 .. Cardinality(EmptyIn(d, bi))}
      BY <2>2, <3>1, RingIs
    <3>5. \A e \in EmptyIn(d, bi) : d.base[-d.check[e]] = -e
      BY <2>2, <3>1, RingFacts
    <3>6. QED
      BY <2>1, <3>2, <3>3, <3>4, <3>5, ZenonT(30)
  <2>5. QED
    BY <2>4, Zenon DEF RingsSound
<1>2. QED
  BY <1>1, SpaceAndTree, PTL

\* The first so many blocks from the head of a list on.
Walked(d, l, n, r) == r = [i \in 1 .. n |-> IF i = 1 THEN d.head[l] ELSE d.block[r[i - 1]].next]

\* Walks along the blocks stay in the array.
LEMMA BlockWalk ==
  ASSUME NEW d, ArrayType(d), NEW l \in Lists, NEW n, n = Cardinality(BlocksOf(d)),
         NEW r, r = CHOOSE f : Walked(d, l, n, f)
  PROVE  /\ n \in Nat /\ n >= 1
         /\ \A i \in 1 .. n : r[i] = IF i = 1 THEN d.head[l] ELSE d.block[r[i - 1]].next
         /\ \A i \in 1 .. n : r[i] \in BlocksOf(d)
<1> DEFINE N == BlocksOf(d)
           a == d.head[l]
           nx == [b \in N |-> d.block[b].next]
<1>1. n \in Nat /\ n >= 1
  <2>1. /\ IsFiniteSet(N) /\ N # {} /\ n \in Nat
    BY ArrayFacts
  <2>2. n # 0
    BY <2>1, FS_EmptySet
  <2>3. QED
    BY <2>1, <2>2
<1>2. a \in N /\ \A b \in N : d.block[b].next \in N
  BY DEF ArrayType
<1>3. \E f : Walked(d, l, n, f)
  <2>1. \A x \in N : nx[x] \in N
    BY <1>2
  <2> HIDE DEF nx, N, a
  <2>2. PICK f \in [1 .. n -> N] : \A i \in 1 .. n : f[i] = IF i = 1 THEN a ELSE nx[f[i - 1]]
    <3>1. Walkable(N, a, nx, n)
      BY <1>1, <1>2, <2>1, WalkExists
    <3>2. QED
      BY <3>1 DEF Walkable
  <2>3. ASSUME NEW i \in 1 .. n PROVE f[i] = IF i = 1 THEN a ELSE d.block[f[i - 1]].next
    <3>1. i # 1 => f[i - 1] \in N
      BY <1>1, <2>2
    <3>2. i # 1 => nx[f[i - 1]] = d.block[f[i - 1]].next
      BY <3>1 DEF nx
    <3>3. QED
      BY <2>2, <3>2
  <2>4. f = [i \in 1 .. n |-> f[i]]
    BY <2>2
  <2>5. Walked(d, l, n, f)
    BY <2>3, <2>4 DEF Walked, a
  <2>6. QED
    BY <2>5
<1>4. Walked(d, l, n, r)
  BY <1>3, Zenon
<1>5. \A i \in 1 .. n : r[i] = IF i = 1 THEN d.head[l] ELSE d.block[r[i - 1]].next
  BY <1>4, Zenon DEF Walked
<1>6. \A i \in 1 .. n : r[i] \in N
  <2> HIDE DEF N
  <2>1. n >= 1 => r[1] \in N
    BY <1>1, <1>2, <1>5
  <2>2. \A i \in 2 .. n : r[i - 1] \in N => r[i] \in N
    BY <1>2, <1>5
  <2>3. QED
    BY <1>1, <2>1, <2>2, WalkIn
<1>7. QED
  BY <1>1, <1>5, <1>6

\* The members of S are what one meets along r.
Covers(S, r) == S = {r[i] : i \in 1 .. Cardinality(S)}

LEMMA CycleCovers ==
  ASSUME NEW S, IsFiniteSet(S), NEW next, NEW prev, Cycle(S, next, prev),
         NEW m \in Nat, Cardinality(S) <= m, NEW r, r[1] \in S,
         \A i \in 1 .. m - 1 : r[i + 1] = next[r[i]]
  PROVE  Covers(S, r)
BY CycleWalk DEF Covers

ListRing(d, l, of, r) ==
  IF of = {} THEN d.head[l] = 0
  ELSE Covers(of, r) /\ \A bi \in of : d.block[d.block[bi].next].prev = bi

\* The blocks of a list are what one meets from its head on.
LEMMA ListIs ==
  ASSUME NEW d, SpaceInv(d), NEW l \in Lists, NEW of, of = {bi \in BlocksOf(d) : ListsIn(d)[bi] = l},
         NEW n, n = Cardinality(BlocksOf(d)), NEW r, r = CHOOSE f : Walked(d, l, n, f)
  PROVE  ListRing(d, l, of, r)
<1>1. ArrayType(d) /\ (IF of = {} THEN d.head[l] = 0
                       ELSE d.head[l] \in of /\ Cycle(of, NextBlock(d), PrevBlock(d)))
  BY Zenon DEF SpaceInv, Listed
<1>2. CASE of = {}
  BY <1>1, <1>2 DEF ListRing
<1>3. CASE of # {}
  <2>1. /\ n \in Nat /\ n >= 1
        /\ \A i \in 1 .. n : r[i] = IF i = 1 THEN d.head[l] ELSE d.block[r[i - 1]].next
        /\ \A i \in 1 .. n : r[i] \in BlocksOf(d)
    BY <1>1, BlockWalk
  <2>2. d.head[l] \in of /\ Cycle(of, NextBlock(d), PrevBlock(d))
    BY <1>1, <1>3
  <2>3. IsFiniteSet(of) /\ Cardinality(of) <= n
    <3>1. IsFiniteSet(BlocksOf(d)) /\ of \subseteq BlocksOf(d)
      BY <1>1, ArrayFacts
    <3>2. QED
      BY <3>1, FS_Subset
  <2>4. ASSUME NEW i \in 1 .. n - 1 PROVE r[i + 1] = NextBlock(d)[r[i]]
    <3>1. i + 1 \in 1 .. n /\ i + 1 # 1 /\ (i + 1) - 1 = i /\ i \in 1 .. n
      BY <2>1
    <3>2. r[i + 1] = d.block[r[i]].next /\ r[i] \in BlocksOf(d)
      BY <2>1, <3>1
    <3>3. QED
      BY <3>2 DEF NextBlock
  <2>5. r[1] \in of
    BY <2>1, <2>2
  <2>6. Covers(of, r)
    <3>1. PICK nx, px : nx = NextBlock(d) /\ px = PrevBlock(d)
      OBVIOUS
    <3>2. Cycle(of, nx, px) /\ \A i \in 1 .. n - 1 : r[i + 1] = nx[r[i]]
      BY <2>2, <2>4, <3>1
    <3>3. n \in Nat
      BY <2>1
    <3>4. QED
      BY <2>3, <2>5, <3>2, <3>3, CycleCovers
  <2>7. ASSUME NEW bi \in of PROVE d.block[d.block[bi].next].prev = bi
    <3>1. bi \in BlocksOf(d) /\ d.block[bi].next \in BlocksOf(d)
      BY <1>1 DEF ArrayType
    <3>2. PrevBlock(d)[NextBlock(d)[bi]] = bi
      BY <2>2 DEF Cycle
    <3>3. QED
      BY <3>1, <3>2 DEF NextBlock, PrevBlock
  <2>8. QED
    BY <1>3, <2>6, <2>7 DEF ListRing
<1>4. QED
  BY <1>2, <1>3

\* At every step each block is in the list its empty nodes and trials call for, and
\* the lists are rings from their heads: _transfer_block is called whenever it has to
\* be, with the list the block is in, and loses none.
THEOREM BlocksAreListed == Spec => []BlocksListed
<1>1. Inv => BlocksListed
  <2> SUFFICES ASSUME Inv PROVE BlocksListed
    OBVIOUS
  <2>1. PICK d : d = da
    OBVIOUS
  <2>2. SpaceInv(d) /\ ArrayType(d)
    BY <2>1 DEF Inv, Holds, SpaceInv
  <2>3. Blocks = BlocksOf(d) /\ DOMAIN d.head = Lists
    BY <2>1, <2>2 DEF Blocks, BlocksOf, ArrayType
  <2>4. \A bi \in Blocks : ListOf(bi) = ListsIn(d)[bi]
    <3>1. ASSUME NEW bi \in Blocks PROVE ListOf(bi) = ListsIn(d)[bi]
      <4>1. PICK num, trial : num = d.block[bi].num /\ trial = d.block[bi].trial
        OBVIOUS
      <4>2. num \in 0 .. B
        BY <2>2, <2>3, <4>1, ArrayFacts DEF BlockType
      <4>3. ListsIn(d)[bi] = ListFor(bi, num, trial)
        BY <2>3, <4>1 DEF ListsIn
      <4>4. ListOf(bi) = CASE bi = 0 \/ num = 0 -> "F"
                           [] bi # 0 /\ num > 0 /\ (num = 1 \/ trial = MaxTrial) -> "C"
                           [] OTHER -> "O"
        BY <2>1, <4>1, Zenon DEF ListOf
      <4>5. num # 0 => num > 0
        BY <4>2, BIsNat
      <4>6. CASE bi = 0 \/ num = 0
        BY <4>2, <4>3, <4>4, <4>6 DEF ListFor
      <4>7. CASE ~ (bi = 0 \/ num = 0)
        BY <4>3, <4>4, <4>5, <4>7 DEF ListFor
      <4>8. QED
        BY <4>6, <4>7
    <3>2. QED
      BY <3>1
  <2>5. ASSUME NEW l \in DOMAIN da.head
        PROVE  LET of == {bi \in Blocks : ListOf(bi) = l}
                   from[i \in 1 .. Cardinality(Blocks)] ==
                     IF i = 1 THEN da.head[l] ELSE da.block[from[i - 1]].next
               IN  IF of = {} THEN da.head[l] = 0
                   ELSE /\ of = {from[i] : i \in 1 .. Cardinality(of)}
                        /\ \A bi \in of : da.block[da.block[bi].next].prev = bi
    <3> DEFINE of == {bi \in Blocks : ListOf(bi) = l}
               from[i \in 1 .. Cardinality(Blocks)] ==
                 IF i = 1 THEN da.head[l] ELSE da.block[from[i - 1]].next
    <3>1. from = CHOOSE f : Walked(da, l, Cardinality(Blocks), f)
      BY Zenon DEF Walked
    <3> HIDE DEF from
    <3>2. PICK r, c : r = from /\ c = Cardinality(Blocks)
      OBVIOUS
    <3>3. r = CHOOSE f : Walked(d, l, c, f)
      BY <2>1, <3>1, <3>2
    <3>4. of = {bi \in BlocksOf(d) : ListsIn(d)[bi] = l} /\ l \in Lists /\ c = Cardinality(BlocksOf(d))
      BY <2>1, <2>3, <2>4, <3>2
    <3> HIDE DEF of
    <3>5. PICK o : o = of
      OBVIOUS
    <3>6. ListRing(d, l, o, r)
      BY <2>2, <3>3, <3>4, <3>5, ListIs
    <3>7. ListRing(da, l, of, from)
      <4>1. ListRing(da, l, o, r)
        BY <2>1, <3>6, Zenon
      <4>2. r = from
        BY <3>2
      <4>3. QED
        BY <4>1, <4>2, <3>5, Zenon
    <3>8. IF of = {} THEN da.head[l] = 0
          ELSE Covers(of, from) /\ \A bi \in of : da.block[da.block[bi].next].prev = bi
      BY <3>7, Zenon DEF ListRing
    <3>9. IF of = {} THEN da.head[l] = 0
          ELSE /\ of = {from[i] : i \in 1 .. Cardinality(of)}
               /\ \A bi \in of : da.block[da.block[bi].next].prev = bi
      <4>1. Covers(of, from) = (of = {from[i] : i \in 1 .. Cardinality(of)})
        BY Zenon DEF Covers
      <4>2. CASE of = {}
        BY <3>8, <4>2, Zenon
      <4>3. CASE of # {}
        BY <3>8, <4>1, <4>3, Zenon
      <4>4. QED
        BY <4>2, <4>3, Zenon
    <3>10. QED
      BY <3>9, Zenon DEF from, of
  <2>6. QED
    BY <2>5, Zenon DEF BlocksListed
<1>2. QED
  BY <1>1, SpaceAndTree, PTL

\* Which nodes have children, and where.
Root(d, n) == d.base[n] \in Nat /\ \E s : IsChain(d, Used(d), n, s)

LEMMA InnerIs ==
  ASSUME NEW d, ArrayType(d), NEW P, Tree(d, Used(d), Still, 0, P), NEW n \in Used(d),
         n = 0 \/ d.base[d.check[n]] # n
  PROVE  Root(d, n)
<1> DEFINE U == Used(d)
<1>1. PlacesOf(d) \subseteq Nat /\ 0 \in PlacesOf(d) /\ U \subseteq PlacesOf(d)
  BY ArrayFacts DEF Tree
<1>2. \A m \in U : ~ IsTerminal(P, m) => d.base[m] \in Nat
  <2>1. d.base[0] = 0 /\ \A m \in U \ {0} : Based(d, m, P)
    BY DEF Tree, Bases
  <2>2. QED
    BY <1>1, <2>1 DEF Based
<1>3. ~ IsTerminal(P, n)
  <2>1. CASE n = 0
    BY <2>1 DEF Tree, Paths, IsTerminal
  <2>2. CASE n # 0
    <3>1. PICK l \in Labels : n = Xor(Hang(d, Still, n), l) /\ (IsTerminal(P, n) <=> l = 0)
      BY <2>2, NodeFacts
    <3>2. d.check[n] \in U /\ ~ IsTerminal(P, d.check[n])
      BY <2>2, NodeFacts
    <3>3. Hang(d, Still, n) = d.base[d.check[n]]
      <4>1. n \notin Still.left
        BY DEF Still
      <4>2. QED
        BY <4>1 DEF Hang
    <3>4. Xor(d.base[d.check[n]], 0) = d.base[d.check[n]]
      BY <1>2, <3>2, XorFacts
    <3>5. QED
      BY <2>2, <3>1, <3>3, <3>4
  <2>3. QED
    BY <2>1, <2>2
<1>4. d.base[n] \in Nat
  BY <1>2, <1>3
<1>5. n # Still.mover
  <2>1. n \in Nat
    BY <1>1
  <2>2. QED
    BY <2>1 DEF Still
<1>6. \E s : IsChain(d, U, n, s)
  <2>1. d.base[n] >= 0
    BY <1>4
  <2>2. QED
    BY <1>3, <1>5, <2>1 DEF Tree, Chains
<1>7. QED
  BY <1>4, <1>6 DEF Root

\* The children of a node are those whose check says so.
LEMMA ChainSet ==
  ASSUME NEW d, ArrayType(d), NEW n \in Used(d), NEW s, IsChain(d, Used(d), n, s)
  PROVE  {Xor(d.base[n], l) : l \in Range(s)} \ {0} = {e \in 1 .. d.size - 1 : d.check[e] = n}
<1> DEFINE U == Used(d)
           b == d.base[n]
<1>1. /\ PlacesOf(d) \subseteq Nat /\ 0 \in PlacesOf(d) /\ U \subseteq PlacesOf(d)
      /\ d.size \in Nat /\ PlacesOf(d) = 0 .. d.size - 1
  BY ArrayFacts DEF Used, PlacesOf
<1>2. /\ s \in Seq(Labels)
      /\ \A i \in 1 .. Len(s) : Xor(b, s[i]) \in U /\ Parent(d, Xor(b, s[i])) = n
      /\ \A e \in U : Parent(d, e) = n => \E i \in 1 .. Len(s) : e = Xor(b, s[i])
  BY DEF IsChain
<1>3. Range(s) = {s[i] : i \in 1 .. Len(s)}
  BY <1>2 DEF Range
<1>4. ASSUME NEW l \in Range(s), Xor(b, l) # 0
      PROVE  Xor(b, l) \in {e \in 1 .. d.size - 1 : d.check[e] = n}
  <2>1. PICK i \in 1 .. Len(s) : l = s[i]
    BY <1>3, <1>4
  <2>2. PICK x : x = Xor(b, l)
    OBVIOUS
  <2>3. x \in U /\ Parent(d, x) = n /\ x # 0
    BY <1>2, <1>4, <2>1, <2>2
  <2>4. x \in 1 .. d.size - 1 /\ d.check[x] = n
    BY <1>1, <2>3 DEF Parent
  <2>5. QED
    BY <2>2, <2>4
<1>5. ASSUME NEW e \in 1 .. d.size - 1, d.check[e] = n
      PROVE  e # 0 /\ \E l \in Range(s) : e = Xor(b, l)
  <2>1. e # 0 /\ e \in PlacesOf(d) /\ n \in Nat
    BY <1>1
  <2>2. e \in U /\ Parent(d, e) = n
    BY <1>5, <2>1 DEF Used, Parent
  <2>3. PICK i \in 1 .. Len(s) : e = Xor(b, s[i])
    BY <1>2, <2>2
  <2>4. s[i] \in Range(s)
    BY <1>3
  <2>5. QED
    BY <2>1, <2>3, <2>4
<1> HIDE DEF b
<1>6. QED
  BY <1>4, <1>5, Zenon DEF b

\* Between updates the list of a node's children is what the checks say, none of
\* them twice, the terminal first; and whatever is no terminal has children, as all
\* searches rely on, however nodes were moved.
THEOREM TreeIsSound == Spec => []TreeSound
<1>1. Inv => TreeSound
  <2> SUFFICES ASSUME Inv, job.pc # "update" PROVE TreeSound
    BY Zenon DEF TreeSound
  <2>1. PICK d, j : d = da /\ j = job
    OBVIOUS
  <2>2. PICK P : SpaceInv(d) /\ TreeInv(d, j, P, view)
    BY <2>1 DEF Inv, Holds
  <2>3. ArrayType(d) /\ Tree(d, Used(d), Still, 0, P)
    <3>1. j.pc # "update"
      BY <2>1
    <3>2. ~ Moving(j) /\ ComingOf(j) = 0
      BY <3>1 DEF Moving, ComingOf
    <3>3. QED
      BY <2>2, <3>2 DEF TreeInv, SpaceInv
  <2>4. ASSUME NEW n \in Inner
        PROVE  LET c == Children(da, n)
               IN  /\ da.base[n] >= 0
                   /\ {Xor(da.base[n], l) : l \in Range(c)} \ {0}
                         = {e \in 1 .. da.size - 1 : da.check[e] = n}
                   /\ Cardinality(Range(c)) = Len(c)
                   /\ \A i \in 2 .. Len(c) : c[i] # 0
    <3>1. n \in Used(d) /\ (n = 0 \/ d.base[d.check[n]] # n)
      <4>1. n = 0 \/ (n \in 1 .. d.size - 1 /\ d.check[n] >= 0 /\ d.base[d.check[n]] # n)
        BY <2>1 DEF Inner
      <4>2. d.size \in Nat
        BY <2>3, ArrayFacts
      <4>3. QED
        BY <4>1, <4>2 DEF Used, PlacesOf
    <3>2. Root(d, n)
      BY <2>3, <3>1, InnerIs
    <3>3. PICK s : IsChain(d, Used(d), n, s)
      BY <3>2 DEF Root
    <3>4. IsOrder(s) /\ Children(d, n) = s
      BY <3>3, ChainChildren
    <3>5. Cardinality(Range(s)) = Len(s) /\ \A i \in 2 .. Len(s) : s[i] # 0
      BY <3>4, OrderShort DEF IsOrder
    <3>6. {Xor(d.base[n], l) : l \in Range(s)} \ {0} = {e \in 1 .. d.size - 1 : d.check[e] = n}
      BY <2>3, <3>1, <3>3, ChainSet
    <3>7. d.base[n] >= 0
      BY <3>2 DEF Root
    <3>8. Children(da, n) = s
      BY <2>1, <3>4
    <3>9. QED
      BY <2>1, <3>5, <3>6, <3>7, <3>8, Zenon
  <2>5. QED
    BY <2>4, Zenon DEF TreeSound
<1>2. QED
  BY <1>1, SpaceAndTree, PTL

-----------------------------------------------------------------------------
(* Walks *)

\* What a walk relies on between updates: a tree whose terminals hold the ids.
Standing(d, U, P, R, V) ==
  /\ ArrayType(d) /\ U = Used(d) /\ Tree(d, U, Still, 0, P) /\ Measured(d, U, P, R)
  /\ Ended(U, P) /\ (\A k \in Keys : HasValue(d, U, P, V, k)) /\ Apart(V)

\* The terminals a walk from root is to visit.
IsUnder(U, P, root, x) == x \in U /\ IsTerminal(P, x) /\ Leads(P, root, x)

LEMMA HoldsGrown ==
  ASSUME NEW d, NEW j, NEW V, Holds(d, j, V), j.pc # "update", Apart(V)
  PROVE  \E P, R : Standing(d, Used(d), P, R, V)
<1>1. PICK P : TreeInv(d, j, P, V)
  BY DEF Holds
<1>2. PICK U : U = Used(d)
  OBVIOUS
<1>3. /\ ArrayType(d) /\ Tree(d, U, Still, 0, P) /\ Ended(U, P)
      /\ \A k \in Keys : HasValue(d, U, P, V, k)
  BY <1>1, <1>2, QuietValues DEF Holds, SpaceInv
<1>4. PICK R : InOrder(d, U, P, R)
  BY <1>3, TreeWalked
<1>5. U \subseteq PlacesOf(d) /\ d.size \in Nat /\ Deeper(d, U, P)
  BY <1>3, ArrayFacts, TreeDeeper DEF Tree
<1>6. Measured(d, U, P, R)
  BY <1>4, <1>5 DEF Measured
<1>7. Standing(d, U, P, R, V)
  BY <1>2, <1>3, <1>6 DEF Standing
<1>8. QED
  BY <1>2, <1>7

\* The string that ends at a terminal has the id it holds.
LEMMA KeyOfTerminal ==
  ASSUME NEW d, NEW U, NEW P, NEW R, NEW V, Standing(d, U, P, R, V), NEW x \in U, IsTerminal(P, x)
  PROVE  \E k \in Keys : P[x] = Append(k, 0) /\ V[k] = d.base[x] /\ V[k] # NoValue
<1>1. PICK k \in Keys : P[x] = Append(k, 0)
  BY DEF Standing, Ended
<1>2. HasValue(d, U, P, V, k) /\ \A n, m \in U : P[n] = P[m] => n = m
  BY DEF Standing, Tree, Paths
<1>3. QED
  BY <1>1, <1>2 DEF HasValue

LEMMA TerminalOfKey ==
  ASSUME NEW d, NEW U, NEW P, NEW R, NEW V, Standing(d, U, P, R, V), NEW k \in Keys, V[k] # NoValue
  PROVE  \E x \in U : IsTerminal(P, x) /\ P[x] = Append(k, 0) /\ V[k] = d.base[x]
<1>1. HasValue(d, U, P, V, k)
  BY DEF Standing
<1>2. PICK x \in U : P[x] = Append(k, 0) /\ d.base[x] = V[k]
  BY <1>1 DEF HasValue
<1>3. IsTerminal(P, x)
  BY <1>2, TerminalValue
<1>4. QED
  BY <1>2, <1>3

LEMMA SameValue ==
  ASSUME NEW d, NEW U, NEW P, NEW R, NEW V, Standing(d, U, P, R, V), NEW x \in U, IsTerminal(P, x),
         NEW y \in U, IsTerminal(P, y), d.base[x] = d.base[y]
  PROVE  x = y
<1>1. PICK k \in Keys : P[x] = Append(k, 0) /\ V[k] = d.base[x] /\ V[k] # NoValue
  BY KeyOfTerminal
<1>2. PICK l \in Keys : P[y] = Append(l, 0) /\ V[l] = d.base[y] /\ V[l] # NoValue
  BY KeyOfTerminal
<1>3. k = l
  BY <1>1, <1>2 DEF Standing, Apart
<1>4. QED
  BY <1>1, <1>2, <1>3 DEF Standing, Tree, Paths

\* The strings under a prefix end below its node.
LEMMA EndsBelow ==
  ASSUME NEW p \in Keys, NEW k \in Keys, NEW P, NEW r, NEW x, P[r] = p, P[x] = Append(k, 0)
  PROVE  Leads(P, r, x) <=> k \in KeysUnder[p]
<1>1. /\ Len(p) \in Nat /\ Len(k) \in Nat /\ k \in Seq(Labels)
      /\ \A i \in 1 .. Len(p) : p[i] # 0
  BY KeyFacts
<1>2. PICK q : q = Append(k, 0)
  OBVIOUS
<1>3. Len(q) = Len(k) + 1 /\ q[Len(k) + 1] = 0 /\ \A i \in 1 .. Len(k) : q[i] = k[i]
  BY <1>1, <1>2
<1>4. k \in KeysUnder[p] <=> Len(p) <= Len(k) /\ \A i \in 1 .. Len(p) : k[i] = p[i]
  BY PrefixAssumption
<1>5. Leads(P, r, x) <=> Len(p) <= Len(q) /\ \A i \in 1 .. Len(p) : q[i] = p[i]
  BY <1>2 DEF Leads
<1>6. ASSUME Leads(P, r, x) PROVE k \in KeysUnder[p]
  <2>1. Len(p) # Len(k) + 1
    <3>1. SUFFICES ASSUME Len(p) = Len(k) + 1 PROVE FALSE
      OBVIOUS
    <3>2. Len(p) \in 1 .. Len(p)
      BY <1>1, <3>1
    <3>3. QED
      BY <1>1, <1>3, <1>5, <1>6, <3>1, <3>2
  <2>2. Len(p) <= Len(k)
    BY <1>1, <1>3, <1>5, <1>6, <2>1
  <2>3. QED
    BY <1>1, <1>3, <1>4, <1>5, <1>6, <2>2
<1>7. ASSUME k \in KeysUnder[p] PROVE Leads(P, r, x)
  BY <1>1, <1>3, <1>4, <1>5, <1>7
<1>8. QED
  BY <1>6, <1>7

\* One of the first n ids that were seen is that of x.
Met(d, s, n, x) == \E h \in 1 .. n : s[h] = d.base[x]

\* The i-th id is that of a terminal that was not seen, with nothing left before
\* it, or it is once more that of the root's own.
Called(d, U, P, R, root, s, i) ==
  \E x : /\ IsUnder(U, P, root, x) /\ d.base[x] = s[i]
         /\ \/ /\ ~ Met(d, s, i - 1, x)
               /\ \A y : IsUnder(U, P, root, y) =>
                    Met(d, s, i - 1, y) \/ y = x \/ After(d, U, P, R, x, y)
            \/ i = 2 /\ s[1] = s[2] /\ d.check[x] = root

\* A walk from root that is at the node n and has seen s.
Walking(d, U, P, R, root, n, s) ==
  /\ root \in U /\ n \in U \ {0} /\ Leads(P, root, n)
  /\ d.base[n] \in U \ {0} /\ d.check[d.base[n]] = n /\ IsTerminal(P, d.base[n])
  /\ s \in Seq(Nat)
  /\ \A i \in 1 .. Len(s) : Called(d, U, P, R, root, s, i)
  /\ \A x : IsUnder(U, P, root, x) =>
       (Met(d, s, Len(s), x) <=> ~ After(d, U, P, R, d.base[n], x))

\* It has seen all there is.
WalkOver(d, U, P, root, s) == \A x : IsUnder(U, P, root, x) => Met(d, s, Len(s), x)

\* The next terminal is the nearest of those that were not seen.
LEMMA WalkOn ==
  ASSUME NEW d, NEW U, NEW P, NEW R, NEW V, Standing(d, U, P, R, V), NEW root, NEW n, NEW s,
         Walking(d, U, P, R, root, n, s), NEW f, NEW m, Begins(d, U, P, R, m, f),
         GoesOnTo(d, U, P, R, d.base[n], root, f),
         NEW s2, s2 = Append(s, d.base[d.base[f]])
  PROVE  Walking(d, U, P, R, root, f, s2)
<1>1. /\ root \in U /\ s \in Seq(Nat)
      /\ \A i \in 1 .. Len(s) : Called(d, U, P, R, root, s, i)
      /\ \A x : IsUnder(U, P, root, x) =>
           (Met(d, s, Len(s), x) <=> ~ After(d, U, P, R, d.base[n], x))
  BY DEF Walking
<1>2. PICK t, nt, v, c : t = d.base[n] /\ nt = d.base[f] /\ v = d.base[nt] /\ c = Len(s)
  OBVIOUS
<1>3. f \in U \ {0} /\ nt \in U \ {0} /\ d.check[nt] = f /\ IsTerminal(P, nt)
  BY <1>2 DEF Begins
<1>4. /\ Leads(P, root, f)
      /\ \A x : IsUnder(U, P, root, x) =>
           (After(d, U, P, R, t, x) <=> x = nt \/ After(d, U, P, R, nt, x))
  BY <1>2 DEF GoesOnTo, IsUnder
<1>5. InOrder(d, U, P, R) /\ Ways(d, U, P)
  BY DEF Standing, Measured, InOrder
<1>6. IsUnder(U, P, root, nt)
  <2>1. Leads(P, f, nt)
    BY <1>3, <1>5 DEF Ways
  <2>2. Leads(P, root, nt)
    BY <1>1, <1>3, <1>4, <1>5, <2>1 DEF Ways
  <2>3. QED
    BY <1>3, <2>2 DEF IsUnder
<1>7. v \in Nat
  <2>1. Tree(d, U, Still, 0, P)
    BY DEF Standing
  <2>2. Based(d, nt, P)
    BY <1>3, <2>1 DEF Tree, Bases
  <2>3. QED
    BY <1>2, <1>3, <2>2 DEF Based
<1>8. /\ s2 \in Seq(Nat) /\ Len(s2) = c + 1 /\ s2[c + 1] = v /\ c \in Nat
      /\ \A i \in 1 .. c : s2[i] = s[i]
  BY <1>1, <1>2, <1>7
<1>9. \A i \in 0 .. c : \A x : Met(d, s2, i, x) <=> Met(d, s, i, x)
  BY <1>8 DEF Met
<1>10. ASSUME NEW i \in 1 .. c PROVE Called(d, U, P, R, root, s2, i)
  <2>1. PICK x : /\ IsUnder(U, P, root, x) /\ d.base[x] = s[i]
                 /\ \/ /\ ~ Met(d, s, i - 1, x)
                       /\ \A y : IsUnder(U, P, root, y) =>
                            Met(d, s, i - 1, y) \/ y = x \/ After(d, U, P, R, x, y)
                    \/ i = 2 /\ s[1] = s[2] /\ d.check[x] = root
    BY <1>1, <1>2 DEF Called
  <2>2. i - 1 \in 0 .. c /\ s2[i] = s[i]
    BY <1>8
  <2>3. i = 2 => s2[1] = s[1] /\ s2[2] = s[2]
    BY <1>8
  <2>4. \A y : Met(d, s2, i - 1, y) <=> Met(d, s, i - 1, y)
    BY <1>9, <2>2
  <2>5. QED
    BY <2>1, <2>2, <2>3, <2>4 DEF Called
<1>11. Called(d, U, P, R, root, s2, c + 1)
  <2>1. \A x : IsUnder(U, P, root, x) => (Met(d, s, c, x) <=> ~ After(d, U, P, R, t, x))
    BY <1>1, <1>2
  <2>2. \A x : Met(d, s2, c, x) <=> Met(d, s, c, x)
    BY <1>8, <1>9
  <2>3. (c + 1) - 1 = c
    BY <1>8
  <2>4. ~ Met(d, s2, c, nt)
    BY <1>4, <1>6, <2>1, <2>2
  <2>5. \A y : IsUnder(U, P, root, y) => Met(d, s2, c, y) \/ y = nt \/ After(d, U, P, R, nt, y)
    BY <1>4, <2>1, <2>2
  <2>6. d.base[nt] = s2[c + 1]
    BY <1>2, <1>8
  <2>7. QED
    BY <1>6, <2>3, <2>4, <2>5, <2>6 DEF Called
<1>12. ASSUME NEW x, IsUnder(U, P, root, x)
       PROVE  Met(d, s2, c + 1, x) <=> ~ After(d, U, P, R, nt, x)
  <2>1. Met(d, s, c, x) <=> ~ After(d, U, P, R, t, x)
    BY <1>1, <1>2, <1>12
  <2>2. Met(d, s2, c, x) <=> Met(d, s, c, x)
    BY <1>8, <1>9
  <2>3. Met(d, s2, c + 1, x) <=> Met(d, s2, c, x) \/ v = d.base[x]
    <3>1. \A h \in 1 .. c + 1 : h \in 1 .. c \/ h = c + 1
      BY <1>8
    <3>2. c + 1 \in 1 .. c + 1 /\ \A h \in 1 .. c : h \in 1 .. c + 1
      BY <1>8
    <3>3. QED
      BY <1>8, <3>1, <3>2 DEF Met
  <2>4. x \in U /\ IsTerminal(P, x)
    BY <1>12 DEF IsUnder
  <2>5. v = d.base[x] <=> x = nt
    BY <1>2, <1>3, <2>4, SameValue
  <2>6. ~ After(d, U, P, R, nt, nt)
    BY <1>3, <1>5, NotBothAfter
  <2>7. After(d, U, P, R, t, x) <=> x = nt \/ After(d, U, P, R, nt, x)
    BY <1>4, <1>12
  <2>8. QED
    BY <2>1, <2>2, <2>3, <2>5, <2>6, <2>7
<1>13. \A i \in 1 .. Len(s2) : Called(d, U, P, R, root, s2, i)
  <2>1. \A i \in 1 .. Len(s2) : i \in 1 .. c \/ i = c + 1
    BY <1>8
  <2>2. QED
    BY <1>10, <1>11, <2>1
<1>14. \A x : IsUnder(U, P, root, x) => (Met(d, s2, Len(s2), x) <=> ~ After(d, U, P, R, nt, x))
  BY <1>8, <1>12
<1>15. QED
  BY <1>1, <1>2, <1>3, <1>4, <1>8, <1>13, <1>14 DEF Walking

\* A walk begins with the nearest terminal; the prefix's own, if it has one, which
\* is seen twice.
LEMMA WalkBegins ==
  ASSUME NEW d, NEW U, NEW P, NEW R, NEW V, Standing(d, U, P, R, V), NEW p \in Keys,
         NEW root \in U, P[root] = p, NEW f, Begins(d, U, P, R, root, f),
         NEW own, own = (IF V[p] = NoValue THEN <<>> ELSE <<V[p]>>),
         NEW s, s = Append(own, d.base[d.base[f]])
  PROVE  Walking(d, U, P, R, root, f, s)
<1>1. PICK nt, v : nt = d.base[f] /\ v = d.base[nt]
  OBVIOUS
<1>2. /\ f \in U \ {0} /\ Leads(P, root, f) /\ nt \in U \ {0} /\ d.check[nt] = f /\ IsTerminal(P, nt)
      /\ \A x : IsUnder(U, P, root, x) => x = nt \/ After(d, U, P, R, nt, x)
  BY <1>1 DEF Begins, IsUnder
<1>3. InOrder(d, U, P, R) /\ Ways(d, U, P)
  BY DEF Standing, Measured, InOrder
<1>4. IsUnder(U, P, root, nt) /\ Leads(P, root, nt)
  <2>1. Leads(P, f, nt)
    BY <1>2, <1>3 DEF Ways
  <2>2. Leads(P, root, nt)
    BY <1>2, <1>3, <2>1 DEF Ways
  <2>3. QED
    BY <1>2, <2>2 DEF IsUnder
<1>5. v \in Nat
  <2>1. Tree(d, U, Still, 0, P)
    BY DEF Standing
  <2>2. Based(d, nt, P)
    BY <1>2, <2>1 DEF Tree, Bases
  <2>3. QED
    BY <1>1, <1>2, <2>2 DEF Based
<1>6. \A x : IsUnder(U, P, root, x) => (x = nt <=> ~ After(d, U, P, R, nt, x))
  <2>1. ~ After(d, U, P, R, nt, nt)
    BY <1>2, <1>3, NotBothAfter
  <2>2. QED
    BY <1>2, <2>1
<1>7. \A x : IsUnder(U, P, root, x) => (v = d.base[x] <=> x = nt)
  <2>1. ASSUME NEW x \in U, IsTerminal(P, x), d.base[nt] = d.base[x] PROVE nt = x
    BY <1>2, <2>1, SameValue
  <2>2. QED
    BY <1>1, <2>1 DEF IsUnder
<1>8. ASSUME s \in Seq(Nat), Len(s) \in {1, 2}, \A i \in 1 .. Len(s) : s[i] = v,
             Len(s) = 2 => d.check[nt] = root
      PROVE  Walking(d, U, P, R, root, f, s)
  <2>1. Called(d, U, P, R, root, s, 1)
    <3>1. s[1] = d.base[nt] /\ \A x : ~ Met(d, s, 1 - 1, x)
      BY <1>1, <1>8 DEF Met
    <3>2. QED
      BY <1>2, <1>4, <3>1 DEF Called
  <2>2. Len(s) = 2 => Called(d, U, P, R, root, s, 2)
    <3>1. SUFFICES ASSUME Len(s) = 2 PROVE Called(d, U, P, R, root, s, 2)
      OBVIOUS
    <3>2. s[1] = v /\ s[2] = v /\ s[2] = d.base[nt]
      BY <1>1, <1>8, <3>1
    <3>3. d.check[nt] = root
      BY <1>8, <3>1
    <3>4. QED
      BY <1>4, <3>2, <3>3 DEF Called
  <2>3. \A i \in 1 .. Len(s) : Called(d, U, P, R, root, s, i)
    <3>1. \A i \in 1 .. Len(s) : i = 1 \/ (i = 2 /\ Len(s) = 2)
      BY <1>8
    <3>2. QED
      BY <2>1, <2>2, <3>1
  <2>4. \A x : Met(d, s, Len(s), x) <=> v = d.base[x]
    BY <1>8 DEF Met
  <2>5. \A x : IsUnder(U, P, root, x) => (Met(d, s, Len(s), x) <=> ~ After(d, U, P, R, d.base[f], x))
    BY <1>1, <1>6, <1>7, <2>4
  <2>6. QED
    BY <1>1, <1>2, <1>8, <2>3, <2>5 DEF Walking
<1>9. CASE V[p] = NoValue
  <2>1. own \in Seq(Nat) /\ Len(own) = 0 /\ s = Append(own, v)
    BY <1>1, <1>9
  <2>2. s \in Seq(Nat) /\ Len(s) = 1 /\ s[1] = v
    BY ONLY <1>5, <2>1
  <2>3. QED
    BY <1>8, <2>2
<1>10. CASE V[p] # NoValue
  <2>1. PICK x \in U : IsTerminal(P, x) /\ P[x] = Append(p, 0) /\ V[p] = d.base[x]
    BY <1>10, TerminalOfKey
  <2>2. x # 0 /\ d.check[x] = root
    <3>1. p \in Seq(Labels) /\ 0 \in Labels
      BY KeyFacts, BIsNat DEF Labels
    <3>2. P[x] = Append(P[root], 0) /\ ArrayType(d) /\ Tree(d, U, Still, 0, P)
      BY <2>1 DEF Standing
    <3>3. P[0] = <<>>
      BY <3>2 DEF Tree, Paths
    <3>4. x # 0
      BY <2>1, <3>3 DEF IsTerminal
    <3>5. d.check[x] = root
      BY <3>1, <3>2, AtPath
    <3>6. QED
      BY <3>4, <3>5
  <2>3. x = nt
    <3>1. SUFFICES ASSUME x # nt PROVE FALSE
      OBVIOUS
    <3>2. After(d, U, P, R, x, nt)
      BY <1>2, <1>3, <1>4, <2>1, <2>2, <3>1, ShorterFirst
    <3>3. IsUnder(U, P, root, x)
      BY <1>3, <2>1, <2>2 DEF IsUnder, Ways
    <3>4. After(d, U, P, R, nt, x)
      BY <1>2, <3>1, <3>3
    <3>5. QED
      BY <1>2, <1>3, <2>1, <3>2, <3>4, NotBothAfter
  <2>4. s = Append(<<v>>, v)
    BY <1>1, <1>10, <2>1, <2>3
  <2>5. s \in Seq(Nat) /\ Len(s) = 2 /\ s[1] = v /\ s[2] = v
    BY <1>5, <2>4
  <2>6. QED
    BY <1>8, <2>2, <2>3, <2>5
<1>11. QED
  BY <1>9, <1>10

\* A round of the loop: on to the next terminal, or all were seen.
LEMMA WalkRound ==
  ASSUME NEW d, NEW U, NEW P, NEW R, NEW V, Standing(d, U, P, R, V), NEW root, NEW n, NEW s,
         Walking(d, U, P, R, root, n, s), NEW up, up = Up(d, n, root),
         NEW f, f = Begin(d, Xor(d.base[up.from], up.c))
  PROVE  IF up.c = 0 THEN WalkOver(d, U, P, root, s)
         ELSE Walking(d, U, P, R, root, f, Append(s, d.base[d.base[f]]))
<1>1. Measured(d, U, P, R) /\ InOrder(d, U, P, R)
  BY DEF Standing, Measured
<1>2. PICK t : t = d.base[n]
  OBVIOUS
<1>3. /\ root \in U /\ n \in U \ {0} /\ Leads(P, root, n) /\ t \in U \ {0} /\ d.check[t] = n
      /\ \A x : IsUnder(U, P, root, x) => (Met(d, s, Len(s), x) <=> ~ After(d, U, P, R, t, x))
  BY <1>2 DEF Walking
<1>4. Tops(d, U, P, t, root, up)
  BY <1>1, <1>2, <1>3, UpIs
<1>5. PICK a : Climb(d, U, P, t, root, a) /\ up = UpAt(d, a) /\ (d.sibling[a] = 0 => d.check[a] = root)
  BY <1>4 DEF Tops
<1>6. up.c = d.sibling[a] /\ up.from = d.check[a]
  BY <1>5 DEF UpAt
<1>7. CASE up.c = 0
  <2>1. d.sibling[a] = 0 /\ d.check[a] = root
    BY <1>5, <1>6, <1>7
  <2>2. ASSUME NEW x, IsUnder(U, P, root, x) PROVE Met(d, s, Len(s), x)
    <3>1. x \in U /\ Leads(P, d.check[a], x) /\ Climb(d, U, P, t, d.check[a], a)
      BY <1>5, <2>1, <2>2 DEF IsUnder
    <3>2. ~ After(d, U, P, R, t, x)
      BY <1>1, <1>3, <2>1, <3>1, ClimbEnds
    <3>3. QED
      BY <1>3, <2>2, <3>2
  <2>3. QED
    BY <1>7, <2>2 DEF WalkOver
<1>8. CASE up.c # 0
  <2>1. PICK m : m = SiblingOf(d, a)
    OBVIOUS
  <2>2. a \in U \ {0} /\ d.sibling[a] # 0
    BY <1>5, <1>6, <1>8 DEF Climb
  <2>3. m \in U \ {0} /\ ~ IsTerminal(P, m)
    BY <1>1, <2>1, <2>2 DEF InOrder, Ranks
  <2>4. f = Begin(d, m)
    BY <1>6, <2>1 DEF SiblingOf
  <2>5. Begins(d, U, P, R, m, f)
    BY <1>1, <2>3, <2>4, BeginIs
  <2>6. GoesOnTo(d, U, P, R, t, root, f)
    BY <1>1, <1>3, <1>5, <2>1, <2>2, <2>5, ClimbFinds
  <2>7. Walking(d, U, P, R, root, f, Append(s, d.base[d.base[f]]))
    BY <1>2, <2>5, <2>6, WalkOn
  <2>8. QED
    BY <1>8, <2>7
<1>9. QED
  BY <1>7, <1>8

\* The fields of a walk.
WalkJob(j) == j = [pc |-> j.pc, node |-> j.node, root |-> j.root, seen |-> j.seen, prefix |-> j.prefix]

\* A walk under way sees the terminals below the node of its prefix.
WalkSound(d, j, V, P, R) ==
  /\ Standing(d, Used(d), P, R, V) /\ WalkJob(j) /\ j.prefix \in Keys /\ P[j.root] = j.prefix
  /\ Walking(d, Used(d), P, R, j.root, j.node, j.seen)
  /\ j.pc = "walked" => WalkOver(d, Used(d), P, j.root, j.seen)

WalkHolds == job.pc \in {"walk", "walked"} => \E P, R : WalkSound(da, job, view, P, R)

LEMMA TraverseHolds ==
  ASSUME Inv, NEW k \in Keys, Traverse(k)
  PROVE  WalkHolds'
<1>1. /\ da' = da /\ view' = view /\ job = Idle /\ Find(da, k) # NoPath
      /\ Holds(da, job, view) /\ Apart(view) /\ view[k] # NoPath
  BY NumberedBelow DEF Traverse, Inv, Numbered
<1>2. PICK U : U = Used(da)
  OBVIOUS
<1>3. PICK P, R : Standing(da, U, P, R, view)
  <2>1. job.pc # "update"
    BY <1>1 DEF Idle
  <2>2. QED
    BY <1>1, <1>2, <2>1, HoldsGrown
<1>4. ArrayType(da) /\ Tree(da, Used(da), Still, 0, P) /\ Measured(da, U, P, R)
      /\ HasValue(da, Used(da), P, view, k)
  BY <1>2, <1>3 DEF Standing
<1>5. PICK root, f, own, s : /\ root = NodeOf(da, k) /\ f = Begin(da, root)
                             /\ own = (IF Find(da, k) = NoValue THEN <<>> ELSE <<Find(da, k)>>)
                             /\ s = Append(own, da.base[da.base[f]])
  OBVIOUS
<1>6. root \in U /\ P[root] = k
  <2>1. StandsAt(U, P, k, root)
    BY <1>2, <1>4, <1>5, NodeOfIs
  <2>2. root # -1
    <3>1. Find(da, k) = CASE root < 0 -> NoPath
                          [] root >= 0 /\ da.check[da.base[root]] # root -> NoValue
                          [] OTHER -> da.base[da.base[root]]
      BY <1>5, Zenon DEF Find
    <3>2. root = -1 => Find(da, k) = NoPath
      BY <3>1
    <3>3. QED
      BY <1>1, <3>2
  <2>3. QED
    BY <2>1, <2>2 DEF StandsAt
<1>7. root # 0 /\ ~ IsTerminal(P, root)
  <2>1. P[0] = <<>>
    BY <1>4 DEF Tree, Paths
  <2>2. Len(k) \in 1 .. Len(k) /\ k # <<>>
    BY KeyFacts
  <2>3. k[Len(k)] # 0
    BY <2>2, KeyFacts
  <2>4. QED
    BY <1>6, <2>1, <2>2, <2>3 DEF IsTerminal
<1>8. Begins(da, U, P, R, root, f)
  BY <1>4, <1>5, <1>6, <1>7, BeginIs
<1>9. own = (IF view[k] = NoValue THEN <<>> ELSE <<view[k]>>)
  <2>1. Find(da, k) = view[k]
    BY <1>1, <1>4, FindIs
  <2>2. QED
    BY <1>5, <2>1
<1>10. Walking(da, U, P, R, root, f, s)
  BY <1>3, <1>5, <1>6, <1>8, <1>9, WalkBegins
<1>11. job' = [pc |-> "walk", node |-> f, root |-> root, seen |-> s, prefix |-> k]
  BY <1>5, Zenon DEF Traverse, Walk
<1>12. WalkSound(da', job', view', P, R)
  <2>1. PICK j : j = job'
    OBVIOUS
  <2>2. j.pc = "walk" /\ j.node = f /\ j.root = root /\ j.seen = s /\ j.prefix = k /\ WalkJob(j)
    BY <1>11, <2>1 DEF WalkJob
  <2>3. QED
    BY <1>1, <1>2, <1>3, <1>6, <1>10, <2>1, <2>2 DEF WalkSound
<1>13. QED
  BY <1>12 DEF WalkHolds

LEMMA TraverseNextHolds ==
  ASSUME WalkHolds, TraverseNext
  PROVE  WalkHolds'
<1>1. PICK up, f, s2 : /\ up = Up(da, job.node, job.root) /\ f = Begin(da, Xor(da.base[up.from], up.c))
                       /\ s2 = Append(job.seen, da.base[da.base[f]])
  OBVIOUS
<1>2. /\ job.pc = "walk" /\ da' = da /\ view' = view
      /\ job' = IF up.c = 0 THEN [job EXCEPT !.pc = "walked"]
                ELSE [job EXCEPT !.node = f, !.seen = s2]
  BY <1>1 DEF TraverseNext
<1>3. PICK P, R : WalkSound(da, job, view, P, R)
  BY <1>2 DEF WalkHolds
<1>4. PICK U : U = Used(da)
  OBVIOUS
<1>5. /\ Standing(da, U, P, R, view) /\ WalkJob(job) /\ job.prefix \in Keys /\ P[job.root] = job.prefix
      /\ Walking(da, U, P, R, job.root, job.node, job.seen)
  BY <1>3, <1>4 DEF WalkSound
<1>6. IF up.c = 0 THEN WalkOver(da, U, P, job.root, job.seen) ELSE Walking(da, U, P, R, job.root, f, s2)
  BY <1>1, <1>5, WalkRound
<1>7. DOMAIN job = {"pc", "node", "root", "seen", "prefix"}
  <2>1. job = [pc |-> job.pc, node |-> job.node, root |-> job.root, seen |-> job.seen, prefix |-> job.prefix]
    BY <1>5 DEF WalkJob
  <2>2. QED
    BY <2>1
<1>8. PICK j : j = job'
  OBVIOUS
<1>9. CASE up.c = 0
  <2>1. j = [job EXCEPT !.pc = "walked"]
    BY <1>2, <1>8, <1>9
  <2>2. /\ j.pc = "walked" /\ j.node = job.node /\ j.root = job.root /\ j.seen = job.seen
        /\ j.prefix = job.prefix /\ DOMAIN j = DOMAIN job /\ j = [x \in DOMAIN j |-> j[x]]
    BY <1>7, <2>1
  <2>3. WalkJob(j)
    BY <1>7, <2>2 DEF WalkJob
  <2>4. WalkSound(da, j, view, P, R)
    BY <1>4, <1>5, <1>6, <1>9, <2>2, <2>3 DEF WalkSound
  <2>5. QED
    BY <1>2, <1>8, <2>4 DEF WalkHolds
<1>10. CASE up.c # 0
  <2>1. j = [job EXCEPT !.node = f, !.seen = s2]
    BY <1>2, <1>8, <1>10
  <2>2. /\ j.pc = "walk" /\ j.node = f /\ j.root = job.root /\ j.seen = s2
        /\ j.prefix = job.prefix /\ DOMAIN j = DOMAIN job /\ j = [x \in DOMAIN j |-> j[x]]
    BY <1>2, <1>7, <2>1
  <2>3. WalkJob(j)
    BY <1>7, <2>2 DEF WalkJob
  <2>4. WalkSound(da, j, view, P, R)
    BY <1>4, <1>5, <1>6, <1>10, <2>2, <2>3 DEF WalkSound
  <2>5. QED
    BY <1>2, <1>8, <2>4 DEF WalkHolds
<1>11. QED
  BY <1>9, <1>10

LEMMA WalkKept ==
  ASSUME Inv, WalkHolds, [Next]_vars
  PROVE  WalkHolds'
<1>1. ASSUME NEW k \in Keys, Attach(k) PROVE WalkHolds'
  <2>1. job'.pc = "update"
    BY <1>1 DEF Attach
  <2>2. QED
    BY <2>1 DEF WalkHolds
<1>2. CASE UpdateStep
  <2>1. Stepped(job, view)
    BY <1>2, UpdateHolds DEF Inv
  <2>2. job'.pc = "update" \/ job' = Idle
    BY <2>1 DEF Stepped, GoesOn, UpdateJob
  <2>3. job'.pc \notin {"walk", "walked"}
    BY <2>2 DEF Idle
  <2>4. QED
    BY <2>3 DEF WalkHolds
<1>3. CASE TraverseEnd
  BY <1>3 DEF TraverseEnd, Idle, WalkHolds
<1>4. CASE UNCHANGED vars
  BY <1>4 DEF vars, WalkHolds
<1>5. QED
  BY <1>1, <1>2, <1>3, <1>4, TraverseHolds, TraverseNextHolds DEF Next

\* The ids a walk has seen are those of the strings it is said to have visited.
LEMMA WalkTells ==
  ASSUME Inv, WalkHolds
  PROVE  WalkComplete
<1>1. SUFFICES ASSUME job.pc \in {"walk", "walked"}
               PROVE  LET keyOf(id) == {k \in T!Stored : view[k] = id}
                          visited(i) == UNION {keyOf(job.seen[j]) : j \in 1 .. i - 1}
                      IN  /\ \A i \in DOMAIN job.seen : \E k \in keyOf(job.seen[i]) :
                               \/ k \in T!NextKeys(job.prefix, visited(i))
                               \/ i = 2 /\ k = job.prefix /\ job.seen[1] = job.seen[2]
                          /\ job.pc = "walked" =>
                               T!NextKeys(job.prefix, visited(Len(job.seen) + 1)) = {}
  BY Zenon DEF WalkComplete
<1> DEFINE keyOf(id) == {k \in T!Stored : view[k] = id}
           visited(i) == UNION {keyOf(job.seen[j]) : j \in 1 .. i - 1}
<1>2. PICK P, R : WalkSound(da, job, view, P, R)
  BY <1>1 DEF WalkHolds
<1>3. PICK d, V, U, root, s, p : /\ d = da /\ V = view /\ U = Used(da) /\ root = job.root
                                 /\ s = job.seen /\ p = job.prefix
  OBVIOUS
<1>4. /\ Standing(d, U, P, R, V) /\ p \in Keys /\ P[root] = p /\ root \in U /\ s \in Seq(Nat)
      /\ \A i \in 1 .. Len(s) : Called(d, U, P, R, root, s, i)
      /\ job.pc = "walked" => \A x : IsUnder(U, P, root, x) => Met(d, s, Len(s), x)
  BY <1>2, <1>3 DEF WalkSound, Walking, WalkOver
<1>5. InOrder(d, U, P, R) /\ Ways(d, U, P) /\ Tree(d, U, Still, 0, P) /\ ArrayType(d)
  BY <1>4 DEF Standing, Measured, InOrder
<1>6. T!Stored = {k \in Keys : V[k] # NoValue}
  <2>1. \A k \in Keys : view[k] # NoPath
    BY NumberedBelow DEF Inv
  <2>2. QED
    BY <1>3, <2>1 DEF T!Stored, T!IsSentinel
\* Which string ends at which terminal.
<1> DEFINE EndsAt(k, x) == x \in U /\ IsTerminal(P, x) /\ k \in Keys /\ V[k] # NoValue
                           /\ P[x] = Append(k, 0) /\ V[k] = d.base[x]
<1>7. ASSUME NEW k, NEW x, EndsAt(k, x)
      PROVE  /\ IsUnder(U, P, root, x) <=> k \in KeysUnder[p]
             /\ \A n \in Nat : k \in visited(n + 1) <=> Met(d, s, n, x)
  <2>1. IsUnder(U, P, root, x) <=> k \in KeysUnder[p]
    BY <1>4, <1>7, EndsBelow DEF IsUnder
  <2>2. ASSUME NEW n \in Nat PROVE k \in visited(n + 1) <=> Met(d, s, n, x)
    <3>1. (n + 1) - 1 = n
      OBVIOUS
    <3>2. \A id : k \in keyOf(id) <=> id = d.base[x]
      BY <1>3, <1>6, <1>7
    <3> HIDE DEF keyOf
    <3>3. k \in visited(n + 1) <=> \E h \in 1 .. n : k \in keyOf(s[h])
      BY <1>3, <3>1
    <3>4. QED
      BY <3>2, <3>3 DEF Met
  <2>3. QED
    BY <2>1, <2>2
<1>8. \A x : x \in U /\ IsTerminal(P, x) => \E k : EndsAt(k, x)
  BY <1>4, KeyOfTerminal
<1>9. \A k \in T!Stored : \E x : EndsAt(k, x)
  BY <1>4, <1>6, TerminalOfKey
<1>10. \A k, x : EndsAt(k, x) => k \in T!Stored
  BY <1>6
<1>11. ASSUME NEW k, NEW x, EndsAt(k, x), NEW l, NEW y, EndsAt(l, y)
       PROVE  /\ x = y => k = l
              /\ k \in KeysUnder[l] => x = y \/ After(d, U, P, R, y, x)
  <2>1. x = y => k = l
    BY <1>4, <1>11 DEF Standing, Apart
  <2>2. ASSUME k \in KeysUnder[l], x # y PROVE After(d, U, P, R, y, x)
    <3>1. l \in Seq(Labels) /\ 0 \in Labels /\ P[y] = Append(l, 0) /\ y \in U
      BY <1>11, KeyFacts, BIsNat DEF Labels
    <3>2. y # 0
      BY <1>5, <1>11 DEF Tree, Paths, IsTerminal
    <3>3. PICK c \in Labels : d.check[y] \in U /\ P[y] = Append(P[d.check[y]], c)
      <4>1. y \in U \ {0} /\ Tree(d, U, Still, 0, P)
        BY <1>5, <3>1, <3>2
      <4>2. /\ d.check[y] \in U
            /\ \E b \in Labels : y = Xor(Hang(d, Still, y), b) /\ P[y] = Append(P[d.check[y]], b)
        BY ONLY <4>1, NodeFacts
      <4>3. QED
        BY <4>2
    <3>4. P[d.check[y]] = l
      <4>1. PICK q : q = P[d.check[y]]
        OBVIOUS
      <4>2. q \in Seq(Labels) /\ Append(q, c) = Append(l, 0)
        BY <1>5, <3>1, <3>3, <4>1 DEF Tree, Paths
      <4>3. QED
        BY <3>1, <4>1, <4>2, AppendInjective
    <3>5. Leads(P, d.check[y], x)
      BY <1>11, <2>2, <3>4, EndsBelow
    <3>6. QED
      BY <1>5, <1>11, <2>2, <3>2, <3>5, ShorterFirst
  <2>3. QED
    BY <2>1, <2>2
<1> HIDE DEF EndsAt, visited
<1>12. ASSUME NEW i \in 1 .. Len(s)
       PROVE  \E k \in keyOf(s[i]) : \/ k \in T!NextKeys(p, visited(i))
                                     \/ i = 2 /\ k = p /\ s[1] = s[2]
  <2>1. PICK x : /\ IsUnder(U, P, root, x) /\ d.base[x] = s[i]
                 /\ \/ /\ ~ Met(d, s, i - 1, x)
                       /\ \A y : IsUnder(U, P, root, y) =>
                            Met(d, s, i - 1, y) \/ y = x \/ After(d, U, P, R, x, y)
                    \/ i = 2 /\ s[1] = s[2] /\ d.check[x] = root
    BY <1>4 DEF Called
  <2>2. PICK k : EndsAt(k, x)
    BY <1>8, <2>1 DEF IsUnder
  <2>3. k \in keyOf(s[i])
    <3>1. k \in T!Stored /\ view[k] = s[i]
      BY <1>3, <1>10, <2>1, <2>2 DEF EndsAt
    <3>2. QED
      BY <3>1
  <2>4. PICK n \in Nat : n = i - 1 /\ i = n + 1
    <3>1. Len(s) \in Nat
      BY <1>4
    <3>2. i - 1 \in Nat /\ i = (i - 1) + 1
      BY <3>1
    <3>3. QED
      BY <3>2
  <2>5. CASE /\ ~ Met(d, s, n, x)
             /\ \A y : IsUnder(U, P, root, y) => Met(d, s, n, y) \/ y = x \/ After(d, U, P, R, x, y)
    <3>1. PICK rest : rest = T!StoredUnder(p) \ visited(i)
      OBVIOUS
    <3>2. k \in rest
      <4>1. k \in KeysUnder[p] /\ k \notin visited(i)
        BY <1>7, <2>1, <2>2, <2>4, <2>5
      <4>2. QED
        BY <1>10, <2>2, <3>1, <4>1 DEF T!StoredUnder
    <3>3. ASSUME NEW l \in rest, k \in KeysUnder[l] PROVE l = k
      <4>1. l \in T!Stored /\ l \in KeysUnder[p] /\ l \notin visited(i)
        BY <3>1, <3>3 DEF T!StoredUnder
      <4>2. PICK y : EndsAt(l, y)
        BY <1>9, <4>1
      <4>3. IsUnder(U, P, root, y) /\ ~ Met(d, s, n, y)
        BY <1>7, <2>4, <4>1, <4>2
      <4>4. y = x \/ After(d, U, P, R, x, y)
        BY <2>5, <4>3
      <4>5. x = y \/ After(d, U, P, R, y, x)
        BY <1>11, <2>2, <3>3, <4>2
      <4>6. x \in U /\ y \in U
        BY <2>1, <4>3 DEF IsUnder
      <4>7. x = y
        BY <1>5, <4>4, <4>5, <4>6, NotBothAfter
      <4>8. QED
        BY <1>11, <2>2, <4>2, <4>7
    <3>4. k \in T!NextKeys(p, visited(i))
      BY <3>1, <3>2, <3>3, Zenon DEF T!NextKeys
    <3>5. QED
      BY <2>3, <3>4
  <2>6. CASE i = 2 /\ s[1] = s[2] /\ d.check[x] = root
    <3>1. k \in Seq(Labels) /\ 0 \in Labels /\ P[x] = Append(k, 0) /\ x \in U /\ x # 0
      <4>1. k \in Keys /\ x \in U /\ P[x] = Append(k, 0) /\ IsTerminal(P, x)
        BY <2>2 DEF EndsAt
      <4>2. x # 0
        BY <1>5, <4>1 DEF Tree, Paths, IsTerminal
      <4>3. 0 \in Labels
        BY BIsNat DEF Labels
      <4>4. k \in Seq(Labels)
        BY <4>1, KeyFacts
      <4>5. QED
        BY <4>1, <4>2, <4>3, <4>4
    <3>2. PICK c \in Labels : P[x] = Append(P[d.check[x]], c)
      <4>1. x \in U \ {0} /\ Tree(d, U, Still, 0, P)
        BY <1>5, <3>1
      <4>2. \E l \in Labels : x = Xor(Hang(d, Still, x), l) /\ P[x] = Append(P[d.check[x]], l)
        BY ONLY <4>1, NodeFacts
      <4>3. QED
        BY <4>2
    <3>3. p \in Seq(Labels) /\ Append(p, c) = Append(k, 0)
      BY <1>4, <2>6, <3>1, <3>2, KeyFacts
    <3>4. p = k
      BY <3>1, <3>3, AppendInjective
    <3>5. QED
      BY <2>3, <2>6, <3>4
  <2>7. QED
    BY <2>1, <2>4, <2>5, <2>6
<1>13. ASSUME job.pc = "walked" PROVE T!NextKeys(p, visited(Len(s) + 1)) = {}
  <2>1. ASSUME NEW k \in T!StoredUnder(p) PROVE k \in visited(Len(s) + 1)
    <3>1. k \in T!Stored /\ k \in KeysUnder[p]
      BY <2>1 DEF T!StoredUnder
    <3>2. PICK x : EndsAt(k, x)
      BY <1>9, <3>1
    <3>3. IsUnder(U, P, root, x)
      BY <1>7, <3>1, <3>2
    <3>4. Met(d, s, Len(s), x) /\ Len(s) \in Nat
      BY <1>4, <1>13, <3>3
    <3>5. QED
      BY <1>7, <3>2, <3>4
  <2>2. QED
    BY <2>1 DEF T!NextKeys
<1>14. DOMAIN s = 1 .. Len(s)
  BY <1>4
<1> HIDE DEF keyOf
<1>15. /\ \A i \in DOMAIN job.seen : \E k \in keyOf(job.seen[i]) :
            \/ k \in T!NextKeys(job.prefix, visited(i))
            \/ i = 2 /\ k = job.prefix /\ job.seen[1] = job.seen[2]
       /\ job.pc = "walked" => T!NextKeys(job.prefix, visited(Len(job.seen) + 1)) = {}
  BY <1>3, <1>12, <1>13, <1>14
<1>16. QED
  BY <1>15, Zenon DEF keyOf, visited

\* A traversal calls back with the id of every string under its prefix, with each
\* once but for the prefix's own, and with a string's before those of the strings
\* that start with it: however nodes have moved, begin and next miss none.
THEOREM WalksAreComplete == Spec => []WalkComplete
<1>1. Init => WalkHolds
  BY DEF Init, Idle, WalkHolds
<1>2. Inv /\ WalkHolds /\ [Next]_vars => WalkHolds'
  BY WalkKept
<1>3. Inv /\ WalkHolds => WalkComplete
  BY WalkTells
<1>4. QED
  BY <1>1, <1>2, <1>3, SpaceAndTree, PTL DEF Spec
=============================================================================
