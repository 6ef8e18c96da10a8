--------------------------- MODULE DoubleArrayTree ---------------------------
(*****************************************************************************)
(* What its second half rests on: the nodes form a tree, siblings a list,    *)
(* and the rounds of an update that follow or add an edge, or look for a     *)
(* place, keep it so.                                                        *)
(*****************************************************************************)
EXTENDS DoubleArraySpace, SequenceTheorems

-----------------------------------------------------------------------------
(* Trees *)

\* A chain depends on its node and on the places of its members.
LEMMA ChainMoves ==
  ASSUME NEW d, NEW U, NEW d2, NEW U2, NEW n, NEW n2, NEW s, IsChain(d, U, n, s),
         d2.base[n2] = d.base[n], d2.child[n2] = d.child[n],
         \A e \in U : Parent(d, e) = n =>
           e \in U2 /\ Parent(d2, e) = n2 /\ d2.sibling[e] = d.sibling[e],
         \A e \in U2 : Parent(d2, e) = n2 => e \in U /\ Parent(d, e) = n
  PROVE  IsChain(d2, U2, n2, s)
<1>1. \A i \in 1 .. Len(s) :
        /\ Xor(d.base[n], s[i]) \in U /\ Parent(d, Xor(d.base[n], s[i])) = n
        /\ d.sibling[Xor(d.base[n], s[i])] = IF i < Len(s) THEN s[i + 1] ELSE 0
  BY DEF IsChain
<1>2. \A i \in 1 .. Len(s) :
        /\ Xor(d2.base[n2], s[i]) \in U2 /\ Parent(d2, Xor(d2.base[n2], s[i])) = n2
        /\ d2.sibling[Xor(d2.base[n2], s[i])] = IF i < Len(s) THEN s[i + 1] ELSE 0
  BY <1>1, Zenon
<1>3. \A e \in U2 : Parent(d2, e) = n2 => \E i \in 1 .. Len(s) : e = Xor(d2.base[n2], s[i])
  <2>1. \A e \in U : Parent(d, e) = n => \E i \in 1 .. Len(s) : e = Xor(d.base[n], s[i])
    BY DEF IsChain
  <2>2. QED
    BY <2>1, Zenon
<1>4. /\ s \in Seq(Labels) /\ s # <<>> /\ d2.child[n2] = s[1]
      /\ \A i, k \in 1 .. Len(s) : s[i] = s[k] => i = k
      /\ \A i \in 2 .. Len(s) : s[i] # 0
  BY DEF IsChain
<1>5. QED
  BY <1>2, <1>3, <1>4, Zenon DEF IsChain

\* A tree depends on its nodes and not on the empty places.
LEMMA TreeSame ==
  ASSUME NEW d, NEW U, NEW mv, NEW c, NEW P, NEW d2, Tree(d, U, mv, c, P),
         PlacesOf(d) \subseteq PlacesOf(d2),
         \A n \in U : /\ d2.base[n] = d.base[n] /\ d2.check[n] = d.check[n]
                      /\ d2.sibling[n] = d.sibling[n] /\ d2.child[n] = d.child[n]
  PROVE  Tree(d2, U, mv, c, P)
<1>1. U \subseteq PlacesOf(d2) /\ 0 \in U /\ \A n \in U \ {0} : d.check[n] \in U
  BY DEF Tree, Paths
<1>2. \A n \in U \ {0} : d2.check[n] = d.check[n] /\ Hang(d2, mv, n) = Hang(d, mv, n)
  BY <1>1, Zenon DEF Hang
<1>3. Paths(d2, U, mv, P)
  <2>1. Paths(d, U, mv, P)
    BY DEF Tree
  <2>2. \A n \in U \ {0} :
          /\ d2.check[n] \in U /\ ~ IsTerminal(P, d2.check[n])
          /\ \E l \in Labels : n = Xor(Hang(d2, mv, n), l) /\ P[n] = Append(P[d2.check[n]], l)
    <3> SUFFICES ASSUME NEW n \in U \ {0}
                 PROVE  /\ d2.check[n] \in U /\ ~ IsTerminal(P, d2.check[n])
                        /\ \E l \in Labels : n = Xor(Hang(d2, mv, n), l) /\ P[n] = Append(P[d2.check[n]], l)
      OBVIOUS
    <3>1. d2.check[n] = d.check[n] /\ Hang(d2, mv, n) = Hang(d, mv, n)
      BY <1>2
    <3>2. /\ d.check[n] \in U /\ ~ IsTerminal(P, d.check[n])
          /\ \E l \in Labels : n = Xor(Hang(d, mv, n), l) /\ P[n] = Append(P[d.check[n]], l)
      BY <2>1, Zenon DEF Paths
    <3>3. QED
      BY <3>1, <3>2
  <2>3. QED
    BY <2>1, <2>2, Zenon DEF Paths
<1>4. Bases(d2, U, c, P)
  <2>1. Bases(d, U, c, P)
    BY DEF Tree
  <2>2. \A n \in U \ {0} : Based(d, n, P) => Based(d2, n, P)
    BY <1>1 DEF Based
  <2>3. \A n \in U : Bare(d, U, n) => Bare(d2, U, n)
    BY DEF Bare
  <2>4. QED
    BY <1>1, <2>1, <2>2, <2>3, Zenon DEF Bases
<1>5. Chains(d2, U, mv, P)
  <2>1. \A e \in U : Parent(d2, e) = Parent(d, e)
    BY DEF Parent
  <2>2. \A n \in U : \A s : IsChain(d, U, n, s) => IsChain(d2, U, n, s)
    BY <2>1, ChainMoves
  <2>3. Chains(d, U, mv, P)
    BY DEF Tree
  <2>4. QED
    BY <2>2, <2>3, Zenon DEF Chains
<1>6. QED
  BY <1>1, <1>3, <1>4, <1>5 DEF Tree

\* What a node that is not the root hangs from.
LEMMA NodeFacts ==
  ASSUME NEW d, NEW U, NEW mv, NEW c, NEW P, Tree(d, U, mv, c, P), NEW n \in U \ {0}
  PROVE  /\ d.check[n] \in U /\ ~ IsTerminal(P, d.check[n]) /\ P[n] # P[d.check[n]]
         /\ P[n] \in Seq(Labels) /\ P[d.check[n]] \in Seq(Labels) /\ n # d.check[n]
         /\ P[n] # <<>>
         /\ \E l \in Labels : /\ n = Xor(Hang(d, mv, n), l) /\ P[n] = Append(P[d.check[n]], l)
                              /\ IsTerminal(P, n) <=> l = 0
<1>1. PICK l \in Labels : n = Xor(Hang(d, mv, n), l) /\ P[n] = Append(P[d.check[n]], l)
  BY DEF Tree, Paths
<1>2. d.check[n] \in U /\ ~ IsTerminal(P, d.check[n]) /\ P[n] \in Seq(Labels) /\ P[d.check[n]] \in Seq(Labels)
  BY DEF Tree, Paths
<1>3. P[n] # <<>> /\ P[n][Len(P[n])] = l /\ Len(P[n]) = Len(P[d.check[n]]) + 1
  BY <1>1, <1>2
<1>4. P[n] # P[d.check[n]] /\ n # d.check[n]
  BY <1>2, <1>3
<1>5. IsTerminal(P, n) <=> l = 0
  BY <1>3 DEF IsTerminal
<1>6. QED
  BY <1>1, <1>2, <1>3, <1>4, <1>5

\* The paths once a node e has been added below f under label l.
Grafted(P, U, e, f, l) == [n \in U \cup {e} |-> IF n = e THEN Append(P[f], l) ELSE P[n]]

\* What it takes for e to join a tree as a child of f, under label l.
Plantable(d, U, mv, P, f, l, e, d2) ==
  /\ f \in U /\ ~ IsTerminal(P, f) /\ l \in Labels /\ e \notin U
  /\ PlacesOf(d) \subseteq PlacesOf(d2) /\ e \in PlacesOf(d2)
  /\ e = Xor(d2.base[f], l) /\ d2.check[e] = f /\ e \notin mv.left
  /\ d2.base[e] = (IF l # 0 THEN -1 ELSE 0) /\ d2.child[e] = 0
  /\ \A n \in U : d2.check[n] = d.check[n]
  /\ \A n \in U \ {f} : d2.base[n] = d.base[n] /\ d2.child[n] = d.child[n]
  /\ \A n \in U \ {0} : d2.base[d.check[n]] = d.base[d.check[n]]
  /\ d2.base[0] = d.base[0]
  /\ \A n \in U : Parent(d, n) # f => d2.sibling[n] = d.sibling[n]
  /\ \A n \in U \ {0} : Based(d2, n, P)
  /\ \A m \in U : P[m] # Append(P[f], l)
  /\ f = mv.mover \/ \E s : IsChain(d2, U \cup {e}, f, s)

\* A new node, without children, joins the tree.
LEMMA Plant ==
  ASSUME NEW d, NEW U, NEW mv, NEW c, NEW P, Tree(d, U, mv, c, P), NEW f, NEW l, NEW e, NEW d2,
         Plantable(d, U, mv, P, f, l, e, d2), NEW P2, P2 = Grafted(P, U, e, f, l)
  PROVE  Tree(d2, U \cup {e}, mv, e, P2)
<1> SUFFICES
      ASSUME f \in U, ~ IsTerminal(P, f), l \in Labels, e \notin U,
             PlacesOf(d) \subseteq PlacesOf(d2), e \in PlacesOf(d2),
             e = Xor(d2.base[f], l), d2.check[e] = f, e \notin mv.left,
             d2.base[e] = (IF l # 0 THEN -1 ELSE 0), d2.child[e] = 0,
             \A n \in U : d2.check[n] = d.check[n],
             \A n \in U \ {f} : d2.base[n] = d.base[n] /\ d2.child[n] = d.child[n],
             \A n \in U \ {0} : d2.base[d.check[n]] = d.base[d.check[n]],
             d2.base[0] = d.base[0],
             \A n \in U : Parent(d, n) # f => d2.sibling[n] = d.sibling[n],
             \A n \in U \ {0} : Based(d2, n, P),
             \A m \in U : P[m] # Append(P[f], l),
             f = mv.mover \/ \E s : IsChain(d2, U \cup {e}, f, s)
      PROVE  Tree(d2, U \cup {e}, mv, e, P2)
  BY Zenon DEF Plantable
<1> DEFINE U2 == U \cup {e}
<1>1. /\ 0 \in U /\ e # 0 /\ U2 \subseteq PlacesOf(d2) /\ P[f] \in Seq(Labels)
      /\ \A n \in U \ {0} : d.check[n] \in U /\ d.check[n] # e
  BY DEF Tree, Paths
<1>2. /\ P2 \in [U2 -> Seq(Labels)] /\ P2[e] = Append(P[f], l) /\ \A n \in U : P2[n] = P[n]
      /\ P2[0] = <<>>
  <2>1. Append(P[f], l) \in Seq(Labels)
    BY <1>1
  <2>2. P \in [U -> Seq(Labels)] /\ P[0] = <<>>
    BY DEF Tree, Paths
  <2>3. QED
    BY <1>1, <2>1, <2>2 DEF Grafted
<1>3. /\ \A n \in U : IsTerminal(P2, n) <=> IsTerminal(P, n)
      /\ IsTerminal(P2, e) <=> l = 0
  <2>1. Append(P[f], l) # <<>> /\ Append(P[f], l)[Len(Append(P[f], l))] = l
    BY <1>1
  <2>2. QED
    BY <1>2, <2>1 DEF IsTerminal
<1>4. Paths(d2, U2, mv, P2)
  <2>1. ASSUME NEW n \in U2, NEW m \in U2, P2[n] = P2[m]
        PROVE  n = m
    <3>1. \A x, y \in U : P[x] = P[y] => x = y
      BY DEF Tree, Paths
    <3>2. \A x \in U : P2[x] # P2[e]
      BY <1>2
    <3>3. (n \in U \/ n = e) /\ (m \in U \/ m = e)
      OBVIOUS
    <3>4. CASE n \in U /\ m \in U
      BY <1>2, <2>1, <3>1, <3>4
    <3>5. QED
      BY <2>1, <3>2, <3>3, <3>4
  <2>2. ASSUME NEW n \in U2 \ {0}
        PROVE  /\ d2.check[n] \in U2 /\ ~ IsTerminal(P2, d2.check[n])
               /\ \E k \in Labels : n = Xor(Hang(d2, mv, n), k) /\ P2[n] = Append(P2[d2.check[n]], k)
    <3>1. CASE n = e
      <4>1. Hang(d2, mv, e) = d2.base[f]
        BY DEF Hang
      <4>2. P2[f] = P[f] /\ ~ IsTerminal(P2, f)
        BY <1>2, <1>3
      <4>3. P2[e] = Append(P2[f], l) /\ e = Xor(Hang(d2, mv, e), l) /\ f \in U2
        BY <1>2, <4>1, <4>2
      <4>4. QED
        BY <3>1, <4>2, <4>3
    <3>2. CASE n # e
      <4>1. n \in U \ {0}
        BY <3>2
      <4>2. PICK k \in Labels : n = Xor(Hang(d, mv, n), k) /\ P[n] = Append(P[d.check[n]], k)
        BY <4>1, NodeFacts
      <4>3. d.check[n] \in U /\ ~ IsTerminal(P, d.check[n])
        BY <4>1, NodeFacts
      <4>4. d2.check[n] = d.check[n] /\ Hang(d2, mv, n) = Hang(d, mv, n)
        BY <4>1 DEF Hang
      <4>5. P2[n] = P[n] /\ P2[d.check[n]] = P[d.check[n]] /\ ~ IsTerminal(P2, d.check[n])
        BY <1>2, <1>3, <4>1, <4>3
      <4>6. /\ d2.check[n] \in U2 /\ ~ IsTerminal(P2, d2.check[n])
            /\ n = Xor(Hang(d2, mv, n), k) /\ P2[n] = Append(P2[d2.check[n]], k)
        BY <4>2, <4>3, <4>4, <4>5
      <4>7. QED
        BY <4>6
    <3>3. QED
      BY <3>1, <3>2
  <2>3. QED
    BY <1>2, <2>1, <2>2, Zenon DEF Paths
<1>5. Bases(d2, U2, e, P2)
  <2>1. d2.check[0] < 0 /\ d2.base[0] = 0
    BY <1>1 DEF Tree, Bases
  <2>2. \A n \in U \ {0} : Based(d2, n, P2)
    BY <1>3 DEF Based
  <2>3. Based(d2, e, P2) \/ (~ IsTerminal(P2, e) /\ Bare(d2, U2, e))
    <3>1. CASE l = 0
      BY <1>3, <3>1 DEF Based
    <3>2. CASE l # 0
      <4>1. \A n \in U \ {0} : d2.check[n] # e
        BY <1>1
      <4>2. d2.check[e] # e
        OBVIOUS
      <4>3. QED
        BY <1>3, <3>2, <4>1, <4>2 DEF Bare
    <3>3. QED
      BY <3>1, <3>2
  <2>4. QED
    BY <2>1, <2>2, <2>3 DEF Bases
<1>6. Chains(d2, U2, mv, P2)
  <2>1. ASSUME NEW n \in U2, ~ IsTerminal(P2, n), d2.base[n] >= 0, n # mv.mover
        PROVE  \E s : IsChain(d2, U2, n, s)
    <3>1. n # e
      BY <1>3, <2>1
    <3>2. CASE n = f
      BY <2>1, <3>2
    <3>3. CASE n # f
      <4>1. n \in U /\ d2.base[n] = d.base[n] /\ d2.child[n] = d.child[n] /\ ~ IsTerminal(P, n)
        BY <1>3, <2>1, <3>1, <3>3
      <4>2. PICK s : IsChain(d, U, n, s)
        BY <2>1, <4>1 DEF Tree, Chains
      <4>3. \A x \in U : Parent(d2, x) = Parent(d, x)
        BY DEF Parent
      <4>4. Parent(d2, e) = f
        BY <1>1 DEF Parent
      <4>5. IsChain(d2, U2, n, s)
        BY <3>3, <4>1, <4>2, <4>3, <4>4, ChainMoves
      <4>6. QED
        BY <4>5
    <3>4. QED
      BY <3>2, <3>3
  <2>2. QED
    BY <2>1, Zenon DEF Chains
<1>7. QED
  BY <1>1, <1>4, <1>5, <1>6 DEF Tree

\* The nodes and the paths once what was at old is at to.
Without1(U, old, to) == (U \cup {to}) \ {old}

Carried(P, U, old, to) == [n \in Without1(U, old, to) |-> IF n = to THEN P[old] ELSE P[n]]

\* What it takes for a child of the mover, at old, to go to its new place.
Movable(d, U, mv, c, P, old, to, l, d2) ==
  /\ old \in U \ {0} /\ old \in mv.left /\ d.check[old] = mv.mover /\ old # c
  /\ to \notin U /\ to \notin mv.left /\ l \in Labels /\ old = Xor(mv.old, l)
  /\ PlacesOf(d) \subseteq PlacesOf(d2) /\ to \in PlacesOf(d2)
  /\ to = Xor(d2.base[mv.mover], l) /\ mv.old \in Nat
  /\ d2.check[to] = mv.mover /\ d2.base[to] = d.base[old]
  /\ ~ IsTerminal(P, old) => d2.child[to] = d.child[old]
  /\ \A n \in U \ {old} : /\ d2.base[n] = d.base[n] /\ d2.child[n] = d.child[n]
                          /\ d2.sibling[n] = d.sibling[n]
  /\ d2.check[0] = d.check[0]
  /\ \A n \in U \ {old, 0} : d2.check[n] = IF d.check[n] = old THEN to ELSE d.check[n]

\* A child of the mover goes to its new place, and its children with it.
LEMMA Relocate ==
  ASSUME NEW d, NEW U, NEW mv, NEW c, NEW P, Tree(d, U, mv, c, P), NEW old, NEW to, NEW l,
         NEW d2, Movable(d, U, mv, c, P, old, to, l, d2),
         NEW mv2, mv2.mover = mv.mover, mv2.old = mv.old, mv2.left = mv.left \ {old},
         NEW P2, P2 = Carried(P, U, old, to)
  PROVE  Tree(d2, Without1(U, old, to), mv2, c, P2)
<1> SUFFICES
      ASSUME old \in U \ {0}, old \in mv.left, d.check[old] = mv.mover, old # c,
             to \notin U, to \notin mv.left, l \in Labels, old = Xor(mv.old, l),
             PlacesOf(d) \subseteq PlacesOf(d2), to \in PlacesOf(d2),
             to = Xor(d2.base[mv.mover], l), mv.old \in Nat,
             d2.check[to] = mv.mover, d2.base[to] = d.base[old],
             ~ IsTerminal(P, old) => d2.child[to] = d.child[old],
             \A n \in U \ {old} : /\ d2.base[n] = d.base[n] /\ d2.child[n] = d.child[n]
                                  /\ d2.sibling[n] = d.sibling[n],
             d2.check[0] = d.check[0],
             \A n \in U \ {old, 0} : d2.check[n] = IF d.check[n] = old THEN to ELSE d.check[n]
      PROVE  Tree(d2, Without1(U, old, to), mv2, c, P2)
  BY Zenon DEF Movable
<1> DEFINE U2 == Without1(U, old, to)
           m == mv.mover
<1>1. /\ m \in U /\ ~ IsTerminal(P, m) /\ m # old /\ 0 \in U /\ to # 0 /\ to # m /\ to # old
      /\ \A n \in U : n # old => n \in U2
      /\ to \in U2 /\ old \notin U2 /\ U2 \subseteq PlacesOf(d2)
      /\ \A n \in U2 : n # to => n \in U \ {old}
      /\ \A n \in U \ {0} : d.check[n] \in U
  <2>1. m \in U /\ ~ IsTerminal(P, m) /\ m # old
    BY NodeFacts
  <2>2. 0 \in U /\ U \subseteq PlacesOf(d2) /\ \A n \in U \ {0} : d.check[n] \in U
    BY DEF Tree, Paths
  <2>3. QED
    BY <2>1, <2>2 DEF Without1
<1>2. P[old] = Append(P[m], l)
  <2>1. PICK k \in Labels : old = Xor(Hang(d, mv, old), k) /\ P[old] = Append(P[m], k)
    BY NodeFacts, SMTT(30)
  <2>2. Hang(d, mv, old) = mv.old
    BY DEF Hang
  <2>3. k = l
    BY <2>1, <2>2, XorInjective
  <2>4. QED
    BY <2>1, <2>3
<1>3. /\ P2 \in [U2 -> Seq(Labels)] /\ P2[to] = P[old] /\ P2[0] = <<>>
      /\ \A n \in U \ {old} : P2[n] = P[n]
      /\ \A n \in U \ {old} : IsTerminal(P2, n) <=> IsTerminal(P, n)
      /\ IsTerminal(P2, to) <=> IsTerminal(P, old)
  <2>1. P \in [U -> Seq(Labels)] /\ P[0] = <<>>
    BY DEF Tree, Paths
  <2>2. /\ P2 \in [U2 -> Seq(Labels)] /\ P2[to] = P[old] /\ P2[0] = <<>>
        /\ \A n \in U \ {old} : P2[n] = P[n]
    BY <1>1, <2>1 DEF Carried
  <2>3. QED
    BY <2>2 DEF IsTerminal
<1> HIDE DEF U2, m
<1>4. Paths(d2, U2, mv2, P2)
  <2>1. ASSUME NEW n \in U2, NEW k \in U2, P2[n] = P2[k]
        PROVE  n = k
    <3>1. \A x, y \in U : P[x] = P[y] => x = y
      BY DEF Tree, Paths
    <3>2. \A x \in U \ {old} : P2[x] # P2[to]
      BY <1>3, <3>1
    <3>3. (n \in U \ {old} \/ n = to) /\ (k \in U \ {old} \/ k = to)
      BY <1>1
    <3>4. CASE n \in U \ {old} /\ k \in U \ {old}
      BY <1>3, <2>1, <3>1, <3>4
    <3>5. QED
      BY <2>1, <3>2, <3>3, <3>4
  <2>2. ASSUME NEW n \in U2 \ {0}
        PROVE  /\ d2.check[n] \in U2 /\ ~ IsTerminal(P2, d2.check[n])
               /\ \E k \in Labels : n = Xor(Hang(d2, mv2, n), k) /\ P2[n] = Append(P2[d2.check[n]], k)
    <3>1. CASE n = to
      <4>1. Hang(d2, mv2, to) = d2.base[m]
        BY DEF Hang, m
      <4>2. d2.check[to] = m /\ m \in U2 /\ ~ IsTerminal(P2, m) /\ P2[m] = P[m]
        BY <1>1, <1>3 DEF m
      <4>3. to = Xor(Hang(d2, mv2, to), l) /\ P2[to] = Append(P2[m], l)
        BY <1>2, <1>3, <4>1, <4>2 DEF m
      <4>4. QED
        BY <3>1, <4>2, <4>3
    <3>2. CASE n # to
      <4>1. n \in U \ {0} /\ n # old
        BY <1>1, <3>2
      <4>2. PICK k \in Labels : n = Xor(Hang(d, mv, n), k) /\ P[n] = Append(P[d.check[n]], k)
        BY <4>1, NodeFacts
      <4>3. d.check[n] \in U /\ ~ IsTerminal(P, d.check[n])
        BY <4>1, NodeFacts
      <4>4. CASE d.check[n] = old
        <5>1. d2.check[n] = to /\ to \in U2 /\ ~ IsTerminal(P2, to) /\ P2[n] = P[n] /\ P2[to] = P[old]
          BY <1>1, <1>3, <4>1, <4>3, <4>4
        <5>2. Hang(d2, mv2, n) = d2.base[to]
          BY <1>1, <5>1 DEF Hang, m
        <5>3. Hang(d, mv, n) = d.base[old]
          BY <1>1, <4>4 DEF Hang, m
        <5>4. n = Xor(Hang(d2, mv2, n), k) /\ P2[n] = Append(P2[to], k)
          BY <4>2, <4>4, <5>1, <5>2, <5>3
        <5>5. QED
          BY <5>1, <5>4
      <4>5. CASE d.check[n] # old
        <5>1. d2.check[n] = d.check[n] /\ d.check[n] \in U2 /\ P2[n] = P[n]
          BY <1>1, <1>3, <4>1, <4>3, <4>5
        <5>2. ~ IsTerminal(P2, d.check[n]) /\ P2[d.check[n]] = P[d.check[n]]
          BY <1>3, <4>3, <4>5
        <5>3. Hang(d2, mv2, n) = Hang(d, mv, n)
          <6>1. n \in mv2.left <=> n \in mv.left
            BY <4>1
          <6>2. d2.base[d.check[n]] = d.base[d.check[n]]
            BY <4>3, <4>5
          <6>3. QED
            BY <5>1, <6>1, <6>2 DEF Hang
        <5>4. n = Xor(Hang(d2, mv2, n), k) /\ P2[n] = Append(P2[d.check[n]], k)
          BY <4>2, <5>1, <5>2, <5>3
        <5>5. QED
          BY <5>1, <5>2, <5>4
      <4>6. QED
        BY <4>4, <4>5
    <3>3. QED
      BY <3>1, <3>2
  <2>3. QED
    BY <1>3, <2>1, <2>2, Zenon DEF Paths
<1>5. Bases(d2, U2, c, P2)
  <2>1. Bases(d, U, c, P)
    BY DEF Tree
  <2>2. d2.check[0] < 0 /\ d2.base[0] = 0
    BY <1>1, <2>1 DEF Bases
  <2>3. Based(d2, to, P2)
    <3>1. Based(d, old, P)
      BY <2>1 DEF Bases
    <3>2. QED
      BY <1>3, <3>1 DEF Based
  <2>4. ASSUME NEW n \in U \ {old, 0}
        PROVE  Based(d2, n, P2) \/ (n = c /\ ~ IsTerminal(P2, n) /\ Bare(d2, U2, n))
    <3>1. CASE Based(d, n, P)
      BY <1>3, <3>1 DEF Based
    <3>2. CASE n = c /\ ~ IsTerminal(P, n) /\ Bare(d, U, n)
      <4>1. n # m
        BY <3>2 DEF Bare, m
      <4>2. ASSUME NEW k \in U2 \ {0} PROVE d2.check[k] # n
        <5>1. CASE k = to
          BY <4>1, <5>1 DEF m
        <5>2. CASE k # to
          <6>1. k \in U \ {old, 0} /\ d.check[k] # n
            BY <1>1, <3>2, <5>2 DEF Bare
          <6>2. n # to
            OBVIOUS
          <6>3. QED
            BY <6>1, <6>2
        <5>3. QED
          BY <5>1, <5>2
      <4>3. QED
        BY <1>3, <3>2, <4>2 DEF Bare
    <3>3. QED
      BY <2>1, <3>1, <3>2 DEF Bases
  <2>5. QED
    BY <1>1, <2>2, <2>3, <2>4 DEF Bases
<1>6. Chains(d2, U2, mv2, P2)
  <2>1. ASSUME NEW n \in U2, ~ IsTerminal(P2, n), d2.base[n] >= 0, n # m
        PROVE  \E s : IsChain(d2, U2, n, s)
    <3>1. /\ \A x \in U \ {old} : Parent(d2, x) = IF Parent(d, x) = old THEN to ELSE Parent(d, x)
          /\ Parent(d2, to) = m /\ Parent(d, old) = m
          /\ \A x \in U : Parent(d, x) \in U
      BY <1>1 DEF Parent, m
    <3>2. CASE n = to
      <4>1. PICK s : IsChain(d, U, old, s)
        BY <1>1, <1>3, <2>1, <3>2 DEF Tree, Chains, m
      <4>2. d2.child[to] = d.child[old]
        BY <1>3, <2>1, <3>2
      <4>3. \A x \in U : Parent(d, x) = old => x \in U2 /\ Parent(d2, x) = to /\ d2.sibling[x] = d.sibling[x]
        BY <1>1, <3>1
      <4>4. \A x \in U2 : Parent(d2, x) = to => x \in U /\ Parent(d, x) = old
        BY <1>1, <3>1
      <4>5. IsChain(d2, U2, to, s)
        BY <4>1, <4>2, <4>3, <4>4, ChainMoves
      <4>6. QED
        BY <3>2, <4>5
    <3>3. CASE n # to
      <4>1. n \in U \ {old} /\ d2.base[n] = d.base[n] /\ d2.child[n] = d.child[n] /\ ~ IsTerminal(P, n)
        BY <1>1, <1>3, <2>1, <3>3
      <4>2. PICK s : IsChain(d, U, n, s)
        BY <2>1, <4>1 DEF Tree, Chains, m
      <4>3. \A x \in U : Parent(d, x) = n => x \in U2 /\ Parent(d2, x) = n /\ d2.sibling[x] = d.sibling[x]
        BY <1>1, <2>1, <3>1, <4>1
      <4>4. \A x \in U2 : Parent(d2, x) = n => x \in U /\ Parent(d, x) = n
        BY <1>1, <2>1, <3>1, <3>3
      <4>5. IsChain(d2, U2, n, s)
        BY <4>1, <4>2, <4>3, <4>4, ChainMoves
      <4>6. QED
        BY <4>5
    <3>4. QED
      BY <3>2, <3>3
  <2>2. QED
    BY <2>1, Zenon DEF Chains, m
<1>7. QED
  BY <1>1, <1>4, <1>5, <1>6 DEF Tree, U2

\* Labels of siblings: none twice, and that of a terminal first.
IsOrder(s) ==
  /\ s \in Seq(Labels) /\ s # <<>>
  /\ \A i, k \in 1 .. Len(s) : s[i] = s[k] => i = k
  /\ \A i \in 2 .. Len(s) : s[i] # 0

\* A new label comes first, or right after that of a terminal.
Enlarged(s, l, t) ==
  /\ IsOrder(t) /\ Len(t) = Len(s) + 1
  /\ IF s[1] = 0
       THEN t[1] = 0 /\ t[2] = l /\ \A i \in 2 .. Len(s) : t[i + 1] = s[i]
       ELSE t[1] = l /\ \A i \in 1 .. Len(s) : t[i + 1] = s[i]
  /\ \E i \in 1 .. Len(t) : t[i] = l
  /\ \A i \in 1 .. Len(s) : \E k \in 1 .. Len(t) : t[k] = s[i]
  /\ \A i \in 1 .. Len(t) : t[i] = l \/ \E k \in 1 .. Len(s) : t[i] = s[k]

LEMMA WithLabelFacts ==
  ASSUME NEW s, IsOrder(s), NEW l \in Labels, \A i \in 1 .. Len(s) : s[i] # l
  PROVE  Enlarged(s, l, WithLabel(s, l))
<1> DEFINE t == WithLabel(s, l)
<1>0. /\ s \in Seq(Labels) /\ s # <<>> /\ \A i, k \in 1 .. Len(s) : s[i] = s[k] => i = k
      /\ \A i \in 2 .. Len(s) : s[i] # 0
  BY DEF IsOrder
<1>00. t = WithLabel(s, l)
  OBVIOUS
<1> HIDE DEF t
<1> SUFFICES Enlarged(s, l, t)
  BY DEF t
<1>1. Len(s) \in Nat /\ Len(s) >= 1 /\ \A i \in 1 .. Len(s) : s[i] \in Labels
  BY <1>0
<1>2. 0 \in Labels
  BY BIsNat DEF Labels
<1>3. CASE s[1] = 0
  <2>1. t = <<0, l>> \o Tail(s)
    BY <1>3, <1>00 DEF WithLabel
  <2>2. /\ t \in Seq(Labels) /\ t # <<>> /\ Len(t) = Len(s) + 1 /\ t[1] = 0 /\ t[2] = l
        /\ \A i \in 2 .. Len(s) : t[i + 1] = s[i]
    <3>1. Tail(s) \in Seq(Labels) /\ Len(Tail(s)) = Len(s) - 1
      BY <1>0, <1>1
    <3>2. \A i \in 1 .. Len(s) - 1 : Tail(s)[i] = s[i + 1]
      BY <1>0, <1>1
    <3>3. <<0, l>> \in Seq(Labels) /\ Len(<<0, l>>) = 2 /\ <<0, l>>[1] = 0 /\ <<0, l>>[2] = l
      BY <1>2
    <3> DEFINE u == Tail(s)
               v == <<0, l>>
    <3> HIDE DEF u, v
    <3>4. v \o u \in Seq(Labels) /\ Len(v \o u) = 2 + (Len(s) - 1)
      BY <3>1, <3>3 DEF u, v
    <3>5. (v \o u)[1] = 0 /\ (v \o u)[2] = l /\ \A i \in 1 .. Len(s) - 1 : (v \o u)[i + 2] = u[i]
      BY <1>0, <1>1, <3>1, <3>3 DEF u, v
    <3>6. \A i \in 2 .. Len(s) : (v \o u)[i + 1] = s[i]
      <4>1. \A i \in 1 .. Len(s) - 1 : (v \o u)[i + 2] = s[i + 1]
        BY <3>2, <3>5 DEF u
      <4>2. SUFFICES ASSUME NEW i \in 2 .. Len(s) PROVE (v \o u)[i + 1] = s[i]
        OBVIOUS
      <4>3. PICK k \in 1 .. Len(s) - 1 : k = i - 1
        BY <1>0, <1>1
      <4>4. k + 2 = i + 1 /\ k + 1 = i
        BY <4>3
      <4>5. (v \o u)[k + 2] = s[k + 1]
        BY <4>1
      <4>6. QED
        BY <4>4, <4>5
    <3>7. QED
      BY <1>0, <1>1, <2>1, <3>4, <3>5, <3>6 DEF u, v
  <2>3. l # 0
    BY <1>0, <1>1, <1>3
  <2>4. \A i \in 1 .. Len(t) : i = 1 \/ i = 2 \/ \E k \in 2 .. Len(s) : i = k + 1
    <3>1. ASSUME NEW i \in 1 .. Len(t), i # 1, i # 2 PROVE \E k \in 2 .. Len(s) : i = k + 1
      <4>1. i - 1 \in 2 .. Len(s) /\ i = (i - 1) + 1
        BY <1>0, <1>1, <2>2, <3>1
      <4>2. QED
        BY <4>1
    <3>2. QED
      BY <3>1
  <2>5. ASSUME NEW i \in 1 .. Len(t), NEW k \in 1 .. Len(t), t[i] = t[k] PROVE i = k
    <3>1. ASSUME NEW x \in 2 .. Len(s), NEW y \in 2 .. Len(s), t[x + 1] = t[y + 1] PROVE x = y
      <4>1. s[x] = s[y] /\ x \in 1 .. Len(s) /\ y \in 1 .. Len(s)
        BY <1>1, <2>2, <3>1
      <4>2. QED
        BY <1>0, <4>1
    <3>2. \A x \in 2 .. Len(s) : t[x + 1] # t[1] /\ t[x + 1] # t[2]
      <4>1. ASSUME NEW x \in 2 .. Len(s) PROVE t[x + 1] # t[1] /\ t[x + 1] # t[2]
        <5>1. s[x] # 0 /\ s[x] # l
          BY <1>0, <1>1
        <5>2. QED
          BY <2>2, <5>1
      <4>2. QED
        BY <4>1
    <3>3. /\ i = 1 \/ i = 2 \/ \E x \in 2 .. Len(s) : i = x + 1
          /\ k = 1 \/ k = 2 \/ \E y \in 2 .. Len(s) : k = y + 1
      BY <2>4
    <3>4. t[1] # t[2]
      BY <2>2, <2>3
    <3>5. QED
      BY <2>5, <3>1, <3>2, <3>3, <3>4
  <2>6. ASSUME NEW i \in 2 .. Len(t) PROVE t[i] # 0
    <3>1. i \in 1 .. Len(t) /\ i # 1
      BY <1>0, <1>1, <2>2
    <3>2. CASE i = 2
      BY <2>2, <2>3, <3>2
    <3>3. CASE i # 2
      <4>1. PICK k \in 2 .. Len(s) : i = k + 1
        BY <2>4, <3>1, <3>3
      <4>2. QED
        BY <1>0, <2>2, <4>1
    <3>4. QED
      BY <3>2, <3>3
  <2>7. \E i \in 1 .. Len(t) : t[i] = l
    BY <1>0, <1>1, <2>2
  <2>8. \A i \in 1 .. Len(s) : \E k \in 1 .. Len(t) : t[k] = s[i]
    <3>1. \A i \in 2 .. Len(s) : i + 1 \in 1 .. Len(t)
      BY <1>0, <1>1, <2>2
    <3>2. 1 \in 1 .. Len(t)
      BY <1>0, <1>1, <2>2
    <3>3. QED
      BY <1>0, <1>1, <1>3, <2>2, <3>1, <3>2
  <2>9. ASSUME NEW i \in 1 .. Len(t) PROVE t[i] = l \/ \E k \in 1 .. Len(s) : t[i] = s[k]
    <3>1. \A k \in 2 .. Len(s) : k \in 1 .. Len(s) /\ t[k + 1] = s[k]
      BY <2>2
    <3>2. 1 \in 1 .. Len(s) /\ t[1] = s[1]
      BY <1>1, <1>3, <2>2
    <3>3. QED
      BY <2>2, <2>4, <3>1, <3>2
  <2>10. QED
    BY <1>3, <2>2, <2>5, <2>6, <2>7, <2>8, <2>9, Zenon DEF Enlarged, IsOrder
<1>4. CASE s[1] # 0
  <2>1. t = <<l>> \o s
    BY <1>4, <1>00 DEF WithLabel
  <2>2. /\ t \in Seq(Labels) /\ t # <<>> /\ Len(t) = Len(s) + 1 /\ t[1] = l
        /\ \A i \in 1 .. Len(s) : t[i + 1] = s[i]
    BY <1>0, <1>1, <2>1
  <2>3. \A i \in 1 .. Len(s) : s[i] # 0
    BY <1>0, <1>1, <1>4
  <2>4. \A i \in 1 .. Len(t) : i = 1 \/ \E k \in 1 .. Len(s) : i = k + 1
    <3>1. ASSUME NEW i \in 1 .. Len(t), i # 1 PROVE \E k \in 1 .. Len(s) : i = k + 1
      <4>1. i - 1 \in 1 .. Len(s) /\ i = (i - 1) + 1
        BY <1>0, <1>1, <2>2, <3>1
      <4>2. QED
        BY <4>1
    <3>2. QED
      BY <3>1
  <2>5. ASSUME NEW i \in 1 .. Len(t), NEW k \in 1 .. Len(t), t[i] = t[k] PROVE i = k
    <3>1. ASSUME NEW x \in 1 .. Len(s), NEW y \in 1 .. Len(s), t[x + 1] = t[y + 1] PROVE x = y
      BY <1>0, <2>2, <3>1
    <3>2. \A x \in 1 .. Len(s) : t[x + 1] # t[1]
      BY <1>0, <2>2
    <3>3. (i = 1 \/ \E x \in 1 .. Len(s) : i = x + 1) /\ (k = 1 \/ \E y \in 1 .. Len(s) : k = y + 1)
      BY <2>4
    <3>4. QED
      BY <2>5, <3>1, <3>2, <3>3
  <2>6. ASSUME NEW i \in 2 .. Len(t) PROVE t[i] # 0
    <3>1. i - 1 \in 1 .. Len(s) /\ i = (i - 1) + 1
      BY <1>1, <2>2
    <3>2. t[i] = s[i - 1]
      BY <2>2, <3>1
    <3>3. QED
      BY <2>3, <3>1, <3>2
  <2>7. \E i \in 1 .. Len(t) : t[i] = l
    BY <1>0, <1>1, <2>2
  <2>8. \A i \in 1 .. Len(s) : \E k \in 1 .. Len(t) : t[k] = s[i]
    <3>1. \A i \in 1 .. Len(s) : i + 1 \in 1 .. Len(t)
      BY <1>0, <1>1, <2>2
    <3>2. QED
      BY <1>0, <2>2, <3>1
  <2>9. ASSUME NEW i \in 1 .. Len(t) PROVE t[i] = l \/ \E k \in 1 .. Len(s) : t[i] = s[k]
    <3>1. \A k \in 1 .. Len(s) : t[k + 1] = s[k]
      BY <2>2
    <3>2. QED
      BY <2>2, <2>4, <3>1
  <2>10. QED
    BY <1>4, <2>2, <2>5, <2>6, <2>7, <2>8, <2>9, Zenon DEF Enlarged, IsOrder
<1>5. QED
  BY <1>3, <1>4

LEMMA ChainFirst ==
  ASSUME NEW d, NEW U, NEW f, NEW l \in Labels, NEW e \in U, e = Xor(d.base[f], l),
         d.child[f] = l, d.sibling[e] = 0, Parent(d, e) = f,
         \A x \in U : Parent(d, x) = f => x = e
  PROVE  IsChain(d, U, f, <<l>>)
<1> DEFINE s == <<l>>
<1>1. s \in Seq(Labels) /\ s # <<>> /\ s[1] = l /\ Len(s) = 1
  OBVIOUS
<1> HIDE DEF s
<1>2. \A i \in 1 .. Len(s) : i = 1
  BY <1>1
<1>3. 1 \in 1 .. Len(s)
  BY <1>1
<1>4. \A i, k \in 1 .. Len(s) : s[i] = s[k] => i = k
  BY <1>2
<1>5. \A i \in 2 .. Len(s) : s[i] # 0
  BY <1>1
<1>6. \A i \in 1 .. Len(s) :
        /\ Xor(d.base[f], s[i]) \in U /\ Parent(d, Xor(d.base[f], s[i])) = f
        /\ d.sibling[Xor(d.base[f], s[i])] = IF i < Len(s) THEN s[i + 1] ELSE 0
  BY <1>1, <1>2
<1>7. \A x \in U : Parent(d, x) = f => \E i \in 1 .. Len(s) : x = Xor(d.base[f], s[i])
  BY <1>1, <1>3
<1>8. IsChain(d, U, f, s)
  BY <1>1, <1>4, <1>5, <1>6, <1>7, Zenon DEF IsChain
<1>9. QED
  BY <1>8 DEF s

\* What _push_sibling does: e, under label l, becomes a child of f.
SiblingPushed(d, d2, U, f, e, l) ==
  IF d.child[f] = 0
    THEN /\ d2.sibling[e] = d.sibling[d.base[f]] /\ d2.sibling[d.base[f]] = l
         /\ d2.child[f] = d.child[f]
         /\ \A n \in U \ {d.base[f]} : d2.sibling[n] = d.sibling[n]
    ELSE /\ d2.sibling[e] = d.child[f] /\ d2.child[f] = l
         /\ \A n \in U : d2.sibling[n] = d.sibling[n]

LEMMA ChainPush ==
  ASSUME NEW d, NEW U, NEW f, NEW s, IsChain(d, U, f, s), d.base[f] \in Nat,
         NEW l \in Labels, NEW e, e = Xor(d.base[f], l), e \notin U,
         NEW d2, d2.base[f] = d.base[f], Parent(d2, e) = f,
         \A n \in U : Parent(d2, n) = Parent(d, n),
         SiblingPushed(d, d2, U, f, e, l)
  PROVE  IsChain(d2, U \cup {e}, f, WithLabel(s, l))
<1> DEFINE t == WithLabel(s, l)
           b == d.base[f]
           V == U \cup {e}
<1>1. /\ s \in Seq(Labels) /\ s # <<>> /\ d.child[f] = s[1]
      /\ \A i, k \in 1 .. Len(s) : s[i] = s[k] => i = k
      /\ \A i \in 2 .. Len(s) : s[i] # 0
  BY DEF IsChain
<1>2. \A i \in 1 .. Len(s) :
       /\ Xor(b, s[i]) \in U /\ Parent(d, Xor(b, s[i])) = f
       /\ d.sibling[Xor(b, s[i])] = IF i < Len(s) THEN s[i + 1] ELSE 0
  BY DEF IsChain
<1>3. \A x \in U : Parent(d, x) = f => \E i \in 1 .. Len(s) : x = Xor(b, s[i])
  BY DEF IsChain
<1>4. \A i \in 1 .. Len(s) : s[i] # l
  BY <1>2
<1>5. /\ t \in Seq(Labels) /\ t # <<>> /\ Len(t) = Len(s) + 1
      /\ IF s[1] = 0
           THEN t[1] = 0 /\ t[2] = l /\ \A i \in 2 .. Len(s) : t[i + 1] = s[i]
           ELSE t[1] = l /\ \A i \in 1 .. Len(s) : t[i + 1] = s[i]
      /\ \A i, k \in 1 .. Len(t) : t[i] = t[k] => i = k
      /\ \A i \in 2 .. Len(t) : t[i] # 0
      /\ \E i \in 1 .. Len(t) : t[i] = l
      /\ \A i \in 1 .. Len(s) : \E k \in 1 .. Len(t) : t[k] = s[i]
      /\ \A i \in 1 .. Len(t) : t[i] = l \/ \E k \in 1 .. Len(s) : t[i] = s[k]
  <2>1. Enlarged(s, l, t)
    BY <1>1, <1>4, WithLabelFacts DEF IsOrder
  <2> HIDE DEF t
  <2>2. QED
    BY <2>1 DEF Enlarged, IsOrder
<1>6. b \in Nat /\ Len(s) \in Nat /\ Len(s) >= 1 /\ \A i \in 1 .. Len(s) : s[i] \in Labels
  BY <1>1
<1> HIDE DEF t, b, V
<1>7. \A i \in 1 .. Len(t) : Xor(b, t[i]) \in V /\ Parent(d2, Xor(b, t[i])) = f
  <2>1. SUFFICES ASSUME NEW i \in 1 .. Len(t)
                 PROVE  Xor(b, t[i]) \in V /\ Parent(d2, Xor(b, t[i])) = f
    OBVIOUS
  <2>2. CASE t[i] = l
    BY <2>2 DEF V, b
  <2>3. CASE t[i] # l
    <3>1. PICK k \in 1 .. Len(s) : t[i] = s[k]
      BY <1>5, <2>3
    <3>2. Xor(b, s[k]) \in U /\ Parent(d, Xor(b, s[k])) = f
      BY <1>2
    <3>3. QED
      BY <3>1, <3>2 DEF V
  <2>4. QED
    BY <2>2, <2>3
<1>8. \A x \in V : Parent(d2, x) = f => \E i \in 1 .. Len(t) : x = Xor(b, t[i])
  <2>1. SUFFICES ASSUME NEW x \in V, Parent(d2, x) = f
                 PROVE  \E i \in 1 .. Len(t) : x = Xor(b, t[i])
    OBVIOUS
  <2>2. CASE x = e
    BY <1>5, <2>2 DEF b
  <2>3. CASE x # e
    <3>1. PICK i \in 1 .. Len(s) : x = Xor(b, s[i])
      BY <1>3, <2>1, <2>3 DEF V
    <3>2. PICK k \in 1 .. Len(t) : t[k] = s[i]
      BY <1>5
    <3>3. QED
      BY <3>1, <3>2
  <2>4. QED
    BY <2>2, <2>3
<1>9. \A i \in 1 .. Len(t) : d2.sibling[Xor(b, t[i])] = IF i < Len(t) THEN t[i + 1] ELSE 0
  <2>1. SUFFICES ASSUME NEW i \in 1 .. Len(t)
                 PROVE  d2.sibling[Xor(b, t[i])] = IF i < Len(t) THEN t[i + 1] ELSE 0
    OBVIOUS
  <2>2. CASE s[1] = 0
    <3>1. /\ Xor(b, 0) = b /\ d.child[f] = 0 /\ b \in U
          /\ d2.sibling[e] = d.sibling[b] /\ d2.sibling[b] = l
          /\ \A n \in U \ {b} : d2.sibling[n] = d.sibling[n]
      <4>1. Xor(b, 0) = b
        BY <1>6, XorFacts
      <4>2. 1 \in 1 .. Len(s)
        BY <1>6
      <4>3. QED
        BY <1>1, <1>2, <2>2, <4>1, <4>2 DEF SiblingPushed, b
    <3>2. t[1] = 0 /\ t[2] = l /\ \A k \in 2 .. Len(s) : t[k + 1] = s[k]
      BY <1>5, <2>2
    <3>3. CASE i = 1
      BY <1>5, <1>6, <3>1, <3>2, <3>3
    <3>4. CASE i = 2
      <4>1. d.sibling[b] = IF 1 < Len(s) THEN s[2] ELSE 0
        BY <1>2, <1>6, <2>2, <3>1
      <4>2. 1 < Len(s) => t[3] = s[2]
        BY <1>6, <3>2
      <4>3. Xor(b, t[i]) = e /\ (i < Len(t) <=> 1 < Len(s)) /\ i + 1 = 3
        BY <1>5, <1>6, <3>2, <3>4 DEF b
      <4>4. QED
        BY <3>1, <4>1, <4>2, <4>3
    <3>5. CASE i > 2
      <4>1. PICK k \in 2 .. Len(s) : i = k + 1
        <5>1. i - 1 \in 2 .. Len(s) /\ i = (i - 1) + 1
          BY <1>5, <1>6, <3>5, SMTT(30)
        <5>2. QED
          BY <5>1
      <4>2. t[i] = s[k] /\ s[k] # 0 /\ s[k] \in Labels
        BY <1>1, <1>6, <3>2, <4>1
      <4>3. Xor(b, s[k]) # b
        BY <1>6, <3>1, <4>2, XorInjective, BIsNat DEF Labels
      <4>4. d2.sibling[Xor(b, s[k])] = IF k < Len(s) THEN s[k + 1] ELSE 0
        <5>1. k \in 1 .. Len(s)
          BY <1>6
        <5>2. /\ Xor(b, s[k]) \in U
              /\ d.sibling[Xor(b, s[k])] = IF k < Len(s) THEN s[k + 1] ELSE 0
          BY <1>2, <5>1
        <5>3. QED
          BY <3>1, <4>3, <5>2
      <4>5. k < Len(s) => t[i + 1] = s[k + 1]
        BY <1>6, <3>2, <4>1
      <4>6. i < Len(t) <=> k < Len(s)
        BY <1>5, <1>6, <4>1
      <4>7. QED
        BY <4>2, <4>4, <4>5, <4>6
    <3>6. QED
      BY <3>3, <3>4, <3>5
  <2>3. CASE s[1] # 0
    <3>1. /\ d2.sibling[e] = s[1] /\ \A n \in U : d2.sibling[n] = d.sibling[n]
      BY <1>1, <2>3 DEF SiblingPushed
    <3>2. t[1] = l /\ \A k \in 1 .. Len(s) : t[k + 1] = s[k]
      BY <1>5, <2>3
    <3>3. CASE i = 1
      <4>1. t[2] = s[1] /\ i < Len(t)
        BY <1>5, <1>6, <3>2, <3>3
      <4>2. QED
        BY <3>1, <3>2, <3>3, <4>1 DEF b
    <3>4. CASE i > 1
      <4>1. PICK k \in 1 .. Len(s) : i = k + 1
        <5>1. i - 1 \in 1 .. Len(s) /\ i = (i - 1) + 1
          BY <1>5, <1>6, <3>4
        <5>2. QED
          BY <5>1
      <4>2. t[i] = s[k]
        BY <3>2, <4>1
      <4>3. d2.sibling[Xor(b, s[k])] = IF k < Len(s) THEN s[k + 1] ELSE 0
        BY <1>2, <3>1
      <4>4. k < Len(s) => t[i + 1] = s[k + 1]
        BY <1>6, <3>2, <4>1
      <4>5. i < Len(t) <=> k < Len(s)
        BY <1>5, <1>6, <4>1
      <4>6. QED
        BY <4>2, <4>3, <4>4, <4>5
    <3>5. QED
      BY <1>5, <1>6, <3>3, <3>4
  <2>4. QED
    BY <2>2, <2>3
<1>10. d2.child[f] = t[1]
  BY <1>1, <1>5 DEF SiblingPushed
<1>11. IsChain(d2, V, f, t)
  <2>1. d2.base[f] = b
    BY DEF b
  <2>2. \A i, k \in 1 .. Len(t) : t[i] = t[k] => i = k
    BY <1>5
  <2>3. t \in Seq(Labels) /\ t # <<>> /\ \A i \in 2 .. Len(t) : t[i] # 0
    BY <1>5
  <2>4. QED
    BY <1>7, <1>8, <1>9, <1>10, <2>1, <2>2, <2>3, Zenon DEF IsChain
<1>12. QED
  BY <1>11 DEF t, V

\* There are no more siblings than labels.
LEMMA OrderShort ==
  ASSUME NEW s, IsOrder(s)
  PROVE  Len(s) \in 1 .. B /\ Cardinality(Range(s)) = Len(s)
<1>1. s \in Seq(Labels) /\ s # <<>> /\ \A i, k \in 1 .. Len(s) : s[i] = s[k] => i = k
  BY DEF IsOrder
<1>2. Len(s) \in Nat /\ Len(s) >= 1 /\ DOMAIN s = 1 .. Len(s) /\ s \in [1 .. Len(s) -> Labels]
  BY <1>1
<1>3. s \in Injection(1 .. Len(s), Labels)
  BY <1>1, <1>2 DEF Injection, IsInjective
<1>4. IsFiniteSet(Labels) /\ Cardinality(Labels) = B
  BY FS_Interval, BIsNat DEF Labels
<1>5. IsFiniteSet(1 .. Len(s)) /\ Cardinality(1 .. Len(s)) = Len(s)
  BY <1>2, FS_Interval
<1>6. Len(s) <= B
  BY <1>3, <1>4, <1>5, FS_Injection
<1>7. Range(s) = {s[i] : i \in 1 .. Len(s)}
  BY <1>2 DEF Range
<1>8. s \in Surjection(1 .. Len(s), Range(s)) /\ s \in Injection(1 .. Len(s), Range(s))
  <2>1. s \in [1 .. Len(s) -> Range(s)]
    BY <1>2, <1>7
  <2>2. \A t \in Range(s) : \E i \in 1 .. Len(s) : s[i] = t
    BY <1>7
  <2>3. QED
    BY <1>1, <1>2, <2>1, <2>2 DEF Surjection, Injection, IsInjective
<1>9. IsFiniteSet(Range(s))
  <2>1. Range(s) \subseteq Labels
    BY <1>2, <1>7
  <2>2. QED
    BY <1>4, <2>1, FS_Subset
<1>10. Cardinality(Range(s)) = Len(s)
  BY <1>5, <1>8, <1>9, FS_Injection
<1>11. QED
  BY <1>2, <1>6, <1>10, BIsNat

\* The labels s follow each other from the child of n on.
SiblingList(d, n, s) ==
  /\ d.child[n] = s[1]
  /\ \A i \in 1 .. Len(s) : d.sibling[Xor(d.base[n], s[i])] = IF i < Len(s) THEN s[i + 1] ELSE 0

\* A round of the loop that collects the labels of n's children.
Longer(d, n, q) ==
  IF d.sibling[Xor(d.base[n], q[Len(q)])] = 0 THEN q
  ELSE Append(q, d.sibling[Xor(d.base[n], q[Len(q)])])

LEMMA LongerIs ==
  ASSUME NEW d, NEW n, NEW s, IsOrder(s), SiblingList(d, n, s), NEW k \in 1 .. Len(s)
  PROVE  Longer(d, n, SubSeq(s, 1, k)) = IF k < Len(s) THEN SubSeq(s, 1, k + 1) ELSE SubSeq(s, 1, k)
<1> DEFINE q == SubSeq(s, 1, k)
<1>1. s \in Seq(Labels) /\ Len(s) \in Nat /\ \A i \in 1 .. Len(s) : s[i] \in Labels
  BY DEF IsOrder
<1>2. q \in Seq(Labels) /\ Len(q) = k /\ q[k] = s[k] /\ \A i \in 1 .. k : q[i] = s[i]
  <2>1. \A i \in 1 .. k : s[i] \in Labels
    BY <1>1
  <2>2. Len(q) = k /\ q \in Seq(Labels)
    BY <2>1, <1>1
  <2>3. \A i \in 1 .. k : q[i] = s[i]
    BY <1>1
  <2>4. QED
    BY <2>2, <2>3
<1>3. d.sibling[Xor(d.base[n], s[k])] = IF k < Len(s) THEN s[k + 1] ELSE 0
  BY DEF SiblingList
<1>4. CASE k < Len(s)
  <2> DEFINE r == SubSeq(s, 1, k + 1)
  <2>1. k + 1 \in 2 .. Len(s) /\ s[k + 1] # 0 /\ s[k + 1] \in Labels
    BY <1>1, <1>4 DEF IsOrder
  <2>2. r \in Seq(Labels) /\ Len(r) = k + 1 /\ \A i \in 1 .. k + 1 : r[i] = s[i]
    <3>1. \A i \in 1 .. k + 1 : s[i] \in Labels
      BY <1>1, <2>1
    <3>2. Len(r) = k + 1 /\ r \in Seq(Labels)
      BY <1>1, <2>1, <3>1
    <3>3. \A i \in 1 .. k + 1 : r[i] = s[i]
      BY <1>1, <2>1
    <3>4. QED
      BY <3>2, <3>3
  <2>3. Longer(d, n, q) = Append(q, s[k + 1])
    BY <1>2, <1>3, <1>4, <2>1 DEF Longer
  <2> HIDE DEF r
  <2>4. Append(q, s[k + 1]) \in Seq(Labels) /\ Len(Append(q, s[k + 1])) = k + 1
    BY <1>2, <2>1
  <2>5. \A i \in 1 .. k + 1 : Append(q, s[k + 1])[i] = s[i]
    BY <1>2, <2>1
  <2>6. Append(q, s[k + 1]) = r
    BY <2>2, <2>4, <2>5, SeqEqual
  <2>7. QED
    BY <1>4, <2>3, <2>6 DEF r
<1>5. CASE ~ k < Len(s)
  BY <1>2, <1>3, <1>5 DEF Longer
<1>6. QED
  BY <1>4, <1>5

\* What the lists of children and siblings say is what _set_child collects.
LEMMA ChildrenAre ==
  ASSUME NEW d, NEW n, NEW s, IsOrder(s), SiblingList(d, n, s)
  PROVE  Children(d, n) = s
<1> DEFINE upto(k) == SubSeq(s, 1, IF k < Len(s) THEN k ELSE Len(s))
           g == [i \in 1 .. B |-> upto(i)]
           IsUpto(f) == f = [i \in 1 .. B |-> IF i = 1 THEN <<d.child[n]>> ELSE Longer(d, n, f[i - 1])]
<1>1. s \in Seq(Labels) /\ s # <<>> /\ Len(s) \in 1 .. B /\ B \in Nat /\ s[1] \in Labels
  BY OrderShort, BIsNat DEF IsOrder
<1>2. upto(1) = <<d.child[n]>>
  <2>1. upto(1) = SubSeq(s, 1, 1)
    BY <1>1
  <2>2. SubSeq(s, 1, 1) = <<s[1]>>
    <3> DEFINE q == SubSeq(s, 1, 1)
               r == <<s[1]>>
    <3>1. \A i \in 1 .. 1 : s[i] \in Labels
      BY <1>1
    <3>2. q \in Seq(Labels) /\ Len(q) = 1 /\ q[1] = s[1]
      BY <3>1, <1>1
    <3>3. r \in Seq(Labels) /\ Len(r) = 1 /\ r[1] = s[1]
      BY <1>1
    <3> HIDE DEF q, r
    <3>4. q = r
      BY <3>2, <3>3, SeqEqual
    <3>5. QED
      BY <3>4 DEF q, r
  <2>3. QED
    BY <2>1, <2>2 DEF SiblingList
<1>3. \A k \in 1 .. B : k # 1 => k - 1 \in 1 .. B /\ upto(k) = Longer(d, n, upto(k - 1))
  <2>1. SUFFICES ASSUME NEW k \in 1 .. B, k # 1
                 PROVE  k - 1 \in 1 .. B /\ upto(k) = Longer(d, n, upto(k - 1))
    OBVIOUS
  <2>2. k - 1 \in 1 .. B /\ (k - 1) + 1 = k
    BY <1>1, <2>1
  <2>3. CASE k - 1 < Len(s)
    <3>1. k - 1 \in 1 .. Len(s) /\ upto(k - 1) = SubSeq(s, 1, k - 1)
      BY <1>1, <2>2, <2>3
    <3>2. Longer(d, n, SubSeq(s, 1, k - 1)) = SubSeq(s, 1, (k - 1) + 1)
      BY <2>3, <3>1, LongerIs
    <3>3. upto(k) = SubSeq(s, 1, k)
      BY <1>1, <2>2, <2>3
    <3>4. QED
      BY <2>2, <3>1, <3>2, <3>3
  <2>4. CASE ~ k - 1 < Len(s)
    <3>1. upto(k) = SubSeq(s, 1, Len(s)) /\ upto(k - 1) = SubSeq(s, 1, Len(s)) /\ Len(s) \in 1 .. Len(s)
      BY <1>1, <2>2, <2>4
    <3>2. Longer(d, n, SubSeq(s, 1, Len(s))) = SubSeq(s, 1, Len(s))
      <4>1. ASSUME NEW m \in 1 .. Len(s), m = Len(s)
            PROVE  Longer(d, n, SubSeq(s, 1, m)) = SubSeq(s, 1, m)
        <5>1. ~ m < Len(s)
          BY <1>1, <4>1
        <5>2. QED
          BY <5>1, LongerIs
      <4>2. QED
        BY <3>1, <4>1
    <3>3. QED
      BY <2>2, <3>1, <3>2
  <2>5. QED
    BY <2>3, <2>4
<1>4. upto(B) = s
  BY <1>1, SubSeqFull
<1> HIDE DEF upto
<1>5. IsUpto(g)
  BY <1>2, <1>3
<1>6. ASSUME NEW f, IsUpto(f) PROVE f[B] = s
  <2> DEFINE X == {k \in 1 .. B : f[k] # upto(k)}
  <2>1. \A k \in 1 .. B : f[k] = IF k = 1 THEN <<d.child[n]>> ELSE Longer(d, n, f[k - 1])
    BY <1>6, Zenon
  <2>2. X = {}
    <3>1. SUFFICES ASSUME X # {} PROVE FALSE
      OBVIOUS
    <3>2. PICK k \in X : \A i \in X : k <= i
      <4>1. X \subseteq Nat
        OBVIOUS
      <4>2. QED
        BY <3>1, <4>1, LeastNatural
    <3>3. k # 1 /\ k \in 1 .. B
      BY <1>2, <2>1
    <3>4. k - 1 \in 1 .. B /\ k - 1 \notin X
      <4>1. k - 1 \in 1 .. B /\ ~ k <= k - 1
        BY <1>1, <3>3
      <4> HIDE DEF X
      <4>2. QED
        BY <3>2, <4>1
    <3>5. f[k - 1] = upto(k - 1)
      BY <3>4
    <3>6. f[k] = upto(k)
      BY <1>3, <2>1, <3>3, <3>5
    <3>7. QED
      BY <3>6
  <2>3. QED
    BY <1>1, <1>4, <2>2
<1>7. Children(d, n) = (CHOOSE f : IsUpto(f))[B]
  BY Zenon DEF Children, Longer
<1>8. IsUpto(CHOOSE f : IsUpto(f))
  BY <1>5, Zenon
<1>9. QED
  BY <1>6, <1>7, <1>8, Zenon

LEMMA ChainChildren ==
  ASSUME NEW d, NEW U, NEW n, NEW s, IsChain(d, U, n, s)
  PROVE  IsOrder(s) /\ SiblingList(d, n, s) /\ Children(d, n) = s /\ Len(s) \in 1 .. B
<1>1. IsOrder(s) /\ SiblingList(d, n, s)
  BY DEF IsChain, IsOrder, SiblingList
<1>2. QED
  BY <1>1, ChildrenAre, OrderShort

-----------------------------------------------------------------------------
(* Updates *)

\* Labels of a string are not 0, so that only its end leads to a terminal.
LEMMA JobFacts ==
  ASSUME NEW d, NEW j, NEW P, NEW V, JobType(j), Reached(d, j, P, V)
  PROVE  /\ LabelOf(j) \in Labels /\ (j.pos < Len(j.key) <=> LabelOf(j) # 0)
         /\ j.pos \in Nat /\ ~ IsTerminal(P, j.from) /\ P[j.from] \in Seq(Labels)
         /\ j.pos < Len(j.key) =>
              /\ j.pos + 1 \in 0 .. Len(j.key)
              /\ Append(P[j.from], LabelOf(j)) = SubSeq(j.key, 1, j.pos + 1)
<1> DEFINE k == j.key
<1>1. k \in Seq(1 .. B - 1) /\ k # <<>> /\ Len(k) \in Nat /\ j.pos \in 0 .. Len(k)
  BY LabelsAssumption DEF JobType
<1>2. \A i \in 1 .. Len(k) : k[i] \in 1 .. B - 1 /\ k[i] \in Labels /\ k[i] # 0
  BY <1>1, BIsNat DEF Labels
<1>3. P[j.from] = SubSeq(k, 1, j.pos)
  BY DEF Reached
<1> HIDE DEF k
<1>4. /\ P[j.from] \in Seq(Labels) /\ Len(P[j.from]) = j.pos
      /\ \A i \in 1 .. j.pos : P[j.from][i] = k[i]
  <2>1. \A i \in 1 .. j.pos : k[i] \in Labels
    BY <1>1, <1>2
  <2>2. SubSeq(k, 1, j.pos) \in Seq(Labels) /\ Len(SubSeq(k, 1, j.pos)) = j.pos
    BY <1>1, <2>1
  <2>3. \A i \in 1 .. j.pos : SubSeq(k, 1, j.pos)[i] = k[i]
    BY <1>1
  <2>4. QED
    BY <1>3, <2>2, <2>3
<1>5. ~ IsTerminal(P, j.from)
  <2>1. SUFFICES ASSUME P[j.from] # <<>>, P[j.from][Len(P[j.from])] = 0 PROVE FALSE
    BY DEF IsTerminal
  <2>2. j.pos \in 1 .. Len(k)
    BY <1>1, <1>4, <2>1
  <2>3. QED
    BY <1>2, <1>4, <2>1, <2>2
<1>6. CASE j.pos < Len(k)
  <2>1. j.pos + 1 \in 1 .. Len(k) /\ LabelOf(j) = k[j.pos + 1]
    BY <1>1, <1>6 DEF LabelOf, k
  <2>2. LabelOf(j) \in Labels /\ LabelOf(j) # 0
    BY <1>2, <2>1
  <2>3. Append(P[j.from], LabelOf(j)) = SubSeq(k, 1, j.pos + 1)
    <3> DEFINE a == Append(P[j.from], LabelOf(j))
               b == SubSeq(k, 1, j.pos + 1)
    <3>1. \A i \in 1 .. j.pos + 1 : k[i] \in Labels
      BY <1>1, <1>2, <2>1
    <3>2. b \in Seq(Labels) /\ Len(b) = j.pos + 1 /\ \A i \in 1 .. j.pos + 1 : b[i] = k[i]
      <4>1. b \in Seq(Labels) /\ Len(b) = j.pos + 1
        BY <1>1, <3>1, <2>1
      <4>2. \A i \in 1 .. j.pos + 1 : b[i] = k[i]
        BY <1>1, <2>1
      <4>3. QED
        BY <4>1, <4>2
    <3>3. a \in Seq(Labels) /\ Len(a) = j.pos + 1 /\ \A i \in 1 .. j.pos + 1 : a[i] = k[i]
      <4>1. a \in Seq(Labels) /\ Len(a) = j.pos + 1
        BY <1>4, <2>2
      <4>2. a[j.pos + 1] = k[j.pos + 1] /\ \A i \in 1 .. j.pos : a[i] = k[i]
        BY <1>1, <1>4, <2>1, <2>2
      <4>3. QED
        BY <1>1, <4>1, <4>2, SMTT(30)
    <3> HIDE DEF a, b
    <3>4. a = b
      BY <3>2, <3>3, SeqEqual
    <3>5. QED
      BY <3>4 DEF a, b
  <2>4. QED
    BY <1>1, <1>4, <1>5, <1>6, <2>1, <2>2, <2>3 DEF k
<1>7. CASE ~ j.pos < Len(k)
  BY <1>1, <1>4, <1>5, <1>7, BIsNat DEF LabelOf, k, Labels
<1>8. QED
  BY <1>6, <1>7

\* The value of a string depends on the terminals only.
LEMMA TerminalValue ==
  ASSUME NEW P, NEW n, NEW k \in Keys, P[n] = Append(k, 0)
  PROVE  IsTerminal(P, n)
<1>1. k \in Seq(1 .. B - 1)
  BY LabelsAssumption
<1>2. Append(k, 0) # <<>> /\ Append(k, 0)[Len(Append(k, 0))] = 0
  BY <1>1
<1>3. QED
  BY <1>2 DEF IsTerminal

LEMMA SameEnd ==
  ASSUME NEW k \in Keys, NEW x \in Keys, Append(k, 0) = Append(x, 0)
  PROVE  k = x
<1>1. k \in Seq(Nat) /\ x \in Seq(Nat)
  BY LabelsAssumption, BIsNat
<1>2. QED
  BY <1>1, AppendInjective

\* Terminals that go elsewhere, or are made without a value, change none.
ValuesGo(d, U, P, d2, U2, P2, key) ==
  /\ \A n \in U : IsTerminal(P, n) => \E x \in U2 : P2[x] = P[n] /\ d2.base[x] = d.base[n]
  /\ \A n \in U2 : IsTerminal(P2, n) =>
       \/ \E x \in U : P[x] = P2[n] /\ d.base[x] = d2.base[n]
       \/ P2[n] = Append(key, 0) /\ d2.base[n] = 0

LEMMA ValuesStay ==
  ASSUME NEW d, NEW U, NEW P, NEW V, NEW key \in Keys, Values(d, U, P, V, key), NEW d2, NEW U2, NEW P2,
         ValuesGo(d, U, P, d2, U2, P2, key)
  PROVE  Values(d2, U2, P2, V, key)
<1>1. /\ \A k \in Keys \ {key} : HasValue(d, U, P, V, k)
      /\ \A n \in U : P[n] = Append(key, 0) => d.base[n] = 0
  BY DEF Values
<1>2. /\ \A n \in U : IsTerminal(P, n) => \E x \in U2 : P2[x] = P[n] /\ d2.base[x] = d.base[n]
      /\ \A n \in U2 : IsTerminal(P2, n) =>
           \/ \E x \in U : P[x] = P2[n] /\ d.base[x] = d2.base[n]
           \/ P2[n] = Append(key, 0) /\ d2.base[n] = 0
  BY DEF ValuesGo
<1>3. ASSUME NEW k \in Keys \ {key} PROVE HasValue(d2, U2, P2, V, k)
  <2>1. HasValue(d, U, P, V, k)
    BY <1>1
  <2>2. CASE V[k] = NoValue
    <3>1. ASSUME NEW n \in U2, P2[n] = Append(k, 0) PROVE FALSE
      <4>1. IsTerminal(P2, n)
        BY <3>1, TerminalValue
      <4>2. Append(k, 0) # Append(key, 0)
        BY SameEnd
      <4>3. \E x \in U : P[x] = Append(k, 0)
        BY <1>2, <3>1, <4>1, <4>2
      <4>4. QED
        BY <2>1, <2>2, <4>3 DEF HasValue
    <3>2. QED
      BY <2>2, <3>1 DEF HasValue
  <2>3. CASE V[k] # NoValue
    <3>1. PICK n \in U : P[n] = Append(k, 0) /\ d.base[n] = V[k]
      BY <2>1, <2>3 DEF HasValue
    <3>2. IsTerminal(P, n)
      BY <3>1, TerminalValue
    <3>3. \E x \in U2 : P2[x] = Append(k, 0) /\ d2.base[x] = V[k]
      BY <1>2, <3>1, <3>2
    <3>4. QED
      BY <2>3, <3>3 DEF HasValue
  <2>4. QED
    BY <2>2, <2>3
<1>4. ASSUME NEW n \in U2, P2[n] = Append(key, 0) PROVE d2.base[n] = 0
  <2>1. IsTerminal(P2, n)
    BY <1>4, TerminalValue
  <2>2. QED
    BY <1>1, <1>2, <1>4, <2>1
<1>5. ASSUME NEW n \in U2, IsTerminal(P2, n) PROVE \E k \in Keys : P2[n] = Append(k, 0)
  <2>1. CASE \E x \in U : P[x] = P2[n]
    <3>1. PICK x \in U : P[x] = P2[n]
      BY <2>1
    <3>2. IsTerminal(P, x)
      BY <1>5, <3>1 DEF IsTerminal
    <3>3. QED
      BY <3>1, <3>2 DEF Values, Ended
  <2>2. CASE P2[n] = Append(key, 0)
    BY <2>2
  <2>3. QED
    BY <1>2, <1>5, <2>1, <2>2
<1>6. QED
  BY <1>3, <1>4, <1>5 DEF Values, Ended

LEMMA ValuesKept ==
  ASSUME NEW d, NEW U, NEW P, NEW V, NEW key \in Keys, Values(d, U, P, V, key), NEW d2,
         \A n \in U : IsTerminal(P, n) => d2.base[n] = d.base[n]
  PROVE  Values(d2, U, P, V, key)
<1>1. ValuesGo(d, U, P, d2, U, P, key)
  BY DEF ValuesGo
<1>2. QED
  BY <1>1, ValuesStay

\* A new node e of the string that is updated, below f.
NodeMade(d, U, P, j, d2, e, f, l) ==
  /\ e \notin U /\ f \in U /\ P[f] = SubSeq(j.key, 1, j.pos) /\ l = LabelOf(j)
  /\ d2.base[e] = (IF l # 0 THEN -1 ELSE 0)
  /\ \A n \in U : IsTerminal(P, n) => d2.base[n] = d.base[n]

LEMMA ValuesGrafted ==
  ASSUME NEW d, NEW U, NEW P, NEW V, NEW j, JobType(j), Values(d, U, P, V, j.key), NEW d2,
         NEW e, NEW f, NEW l, NodeMade(d, U, P, j, d2, e, f, l), NEW P2, P2 = Grafted(P, U, e, f, l)
  PROVE  Values(d2, U \cup {e}, P2, V, j.key)
<1>6. /\ e \notin U /\ f \in U /\ P[f] = SubSeq(j.key, 1, j.pos) /\ l = LabelOf(j)
      /\ d2.base[e] = (IF l # 0 THEN -1 ELSE 0)
      /\ \A n \in U : IsTerminal(P, n) => d2.base[n] = d.base[n]
  BY DEF NodeMade
<1>1. (\A n \in U : P2[n] = P[n]) /\ P2[e] = Append(P[f], l)
  BY <1>6 DEF Grafted
<1>2. j.key \in Keys /\ j.key \in Seq(1 .. B - 1) /\ j.pos \in 0 .. Len(j.key)
  BY LabelsAssumption DEF JobType
<1>3. ASSUME IsTerminal(P2, e) PROVE P2[e] = Append(j.key, 0) /\ d2.base[e] = 0
  <2> DEFINE k == j.key
  <2>7. k \in Seq(1 .. B - 1) /\ Len(k) \in Nat /\ j.pos \in 0 .. Len(k)
    BY <1>2
  <2>8. P[f] = SubSeq(k, 1, j.pos) /\ (j.pos < Len(k) => l = k[j.pos + 1])
    BY <1>6 DEF LabelOf
  <2> DEFINE S == 1 .. B - 1
  <2>10. k \in Seq(S) /\ 0 \notin S
    BY <2>7
  <2> HIDE DEF k, S
  <2>9. \A i \in 1 .. Len(k) : k[i] \in S
    BY <2>10
  <2>1. P[f] \in Seq(S)
    <3>1. \A i \in 1 .. j.pos : k[i] \in S
      BY <2>7, <2>9
    <3>2. QED
      BY <2>7, <2>8, <2>10, <3>1
  <2>2. Append(P[f], l)[Len(Append(P[f], l))] = l
    BY <2>1
  <2>3. l = 0
    BY <1>1, <1>3, <2>2 DEF IsTerminal
  <2>4. j.pos = Len(k)
    <3>1. ASSUME j.pos < Len(k) PROVE FALSE
      <4>1. j.pos + 1 \in 1 .. Len(k)
        BY <2>7, <3>1
      <4>2. k[j.pos + 1] \in S
        BY <2>9, <4>1
      <4>3. QED
        BY <2>3, <2>8, <2>10, <3>1, <4>2
    <3>2. QED
      BY <2>7, <3>1
  <2>5. SubSeq(k, 1, Len(k)) = k
    BY <2>10
  <2>6. QED
    <3>1. P[f] = j.key
      BY <2>4, <2>5, <2>8 DEF k
    <3>2. QED
      BY <1>1, <1>6, <2>3, <3>1
<1>4. ValuesGo(d, U, P, d2, U \cup {e}, P2, j.key)
  BY <1>1, <1>3, <1>6 DEF ValuesGo, IsTerminal
<1>5. QED
  BY <1>2, <1>4, ValuesStay

\* A node that goes from old to to with its value.
NodeCarried(d, U, d2, old, to) ==
  /\ old \in U /\ to \notin U /\ d2.base[to] = d.base[old]
  /\ \A n \in U \ {old} : d2.base[n] = d.base[n]

LEMMA ValuesCarried ==
  ASSUME NEW d, NEW U, NEW P, NEW V, NEW key \in Keys, Values(d, U, P, V, key), NEW d2,
         NEW old, NEW to, NodeCarried(d, U, d2, old, to), NEW P2, P2 = Carried(P, U, old, to)
  PROVE  Values(d2, Without1(U, old, to), P2, V, key)
<1>1. /\ \A n \in U \ {old} : n \in Without1(U, old, to) /\ P2[n] = P[n]
      /\ to \in Without1(U, old, to) /\ P2[to] = P[old]
      /\ \A n \in Without1(U, old, to) : n = to \/ n \in U \ {old}
  BY DEF Carried, Without1, NodeCarried
<1>2. ValuesGo(d, U, P, d2, Without1(U, old, to), P2, key)
  BY <1>1 DEF ValuesGo, NodeCarried
<1>3. QED
  BY <1>2, ValuesStay

\* The terminal to gets the value v.
ValueGiven(d, U, P, key, d2, to, v) ==
  /\ to \in U /\ P[to] = Append(key, 0) /\ v # NoValue /\ d2.base[to] = v
  /\ \A n \in U \ {to} : d2.base[n] = d.base[n]

ValueSet(V, key, v) == [k \in Keys |-> IF k = key THEN v ELSE V[k]]

LEMMA ValuesEnd ==
  ASSUME NEW d, NEW U, NEW P, NEW V, NEW key \in Keys, Values(d, U, P, V, key),
         NEW d2, NEW to, NEW v, ValueGiven(d, U, P, key, d2, to, v), NEW V2, V2 = ValueSet(V, key, v)
  PROVE  Ended(U, P) /\ \A k \in Keys : HasValue(d2, U, P, V2, k)
<1>4. /\ to \in U /\ P[to] = Append(key, 0) /\ v # NoValue /\ d2.base[to] = v
      /\ \A n \in U \ {to} : d2.base[n] = d.base[n]
      /\ V2 = [k \in Keys |-> IF k = key THEN v ELSE V[k]]
  BY DEF ValueGiven, ValueSet
<1>1. ASSUME NEW k \in Keys \ {key} PROVE HasValue(d2, U, P, V2, k)
  <2>1. V2[k] = V[k] /\ HasValue(d, U, P, V, k)
    BY <1>4 DEF Values
  <2>2. P[to] # Append(k, 0)
    BY <1>4, SameEnd
  <2>3. \A n \in U : P[n] = Append(k, 0) => d2.base[n] = d.base[n]
    BY <1>4, <2>2
  <2>4. QED
    BY <2>1, <2>3 DEF HasValue
<1>2. HasValue(d2, U, P, V2, key)
  BY <1>4 DEF HasValue
<1>3. QED
  BY <1>1, <1>2 DEF Values

\* What Arrive makes of the array and the job.
Arrived(d, j, to) ==
  IF j.pos < Len(j.key) THEN d
  ELSE [d EXCEPT !.base[to] = IF @ = 0 \/ j.val < @ THEN j.val ELSE @]

JobThen(j, to) ==
  IF j.pos < Len(j.key)
    THEN [j EXCEPT !.step = "follow", !.from = to, !.pos = @ + 1, !.place = <<>>]
    ELSE Idle

\* The values once it has arrived.
ValuesThen(V, j) ==
  IF j.pos < Len(j.key) THEN V ELSE ValueSet(V, j.key, j.val)

Holds(d, j, V) == SpaceInv(d) /\ \E P : TreeInv(d, j, P, V)

LEMMA Arriving ==
  ASSUME NEW d, SpaceInv(d), Blank(d), NEW P, NEW V, NEW to \in Used(d) \ {0}, Tree(d, Used(d), Still, to, P),
         NEW j, JobType(j), Reached(d, j, P, V), d.check[to] = j.from, to = Xor(d.base[j.from], LabelOf(j)),
         d.base[j.from] \in Nat
  PROVE  Holds(Arrived(d, j, to), JobThen(j, to), ValuesThen(V, j))
<1> DEFINE U == Used(d)
<1>1. /\ LabelOf(j) \in Labels /\ (j.pos < Len(j.key) <=> LabelOf(j) # 0)
      /\ j.pos \in Nat /\ ~ IsTerminal(P, j.from) /\ P[j.from] \in Seq(Labels)
      /\ j.pos < Len(j.key) =>
              /\ j.pos + 1 \in 0 .. Len(j.key)
              /\ Append(P[j.from], LabelOf(j)) = SubSeq(j.key, 1, j.pos + 1)
  BY JobFacts
<1>2. P[to] = Append(P[j.from], LabelOf(j)) /\ (IsTerminal(P, to) <=> LabelOf(j) = 0)
  <2>1. PICK l \in Labels : /\ to = Xor(Hang(d, Still, to), l) /\ P[to] = Append(P[d.check[to]], l)
                            /\ IsTerminal(P, to) <=> l = 0
    BY NodeFacts, SMTT(30)
  <2>2. Hang(d, Still, to) = d.base[j.from]
    BY DEF Hang, Still
  <2>3. l = LabelOf(j)
    BY <1>1, <2>1, <2>2, XorInjective
  <2>4. QED
    BY <2>1, <2>3
<1>3. /\ ArrayType(d) /\ DOMAIN d = ArrayFields /\ U \subseteq PlacesOf(d) /\ PlacesOf(d) \subseteq Nat
      /\ d.base \in [PlacesOf(d) -> Int] /\ d.check \in [PlacesOf(d) -> Int]
      /\ d.sibling \in [PlacesOf(d) -> Labels] /\ d.child \in [PlacesOf(d) -> Labels]
  BY ArrayFacts DEF SpaceInv, ArrayType, Tree
<1>4. CASE j.pos < Len(j.key)
  <2> DEFINE jj == [j EXCEPT !.step = "follow", !.from = to, !.pos = @ + 1, !.place = <<>>]
  <2>1. /\ jj.pc = "update" /\ jj.step = "follow" /\ jj.key = j.key /\ jj.pos = j.pos + 1
        /\ jj.from = to /\ jj.val = j.val /\ jj.place = <<>>
        /\ jj = [pc |-> "update", step |-> "follow", key |-> j.key, pos |-> j.pos + 1, from |-> to,
                 val |-> j.val, place |-> <<>>]
    <3> DEFINE q == [pc |-> "update", step |-> "follow", key |-> j.key, pos |-> j.pos + 1, from |-> to,
                     val |-> j.val, place |-> <<>>]
    <3>1. j = [pc |-> "update", step |-> j.step, key |-> j.key, pos |-> j.pos, from |-> j.from,
               val |-> j.val, place |-> j.place]
      BY DEF JobType
    <3>2. DOMAIN j = {"pc", "step", "key", "pos", "from", "val", "place"} /\ j.pc = "update"
      BY <3>1
    <3>3. DOMAIN jj = DOMAIN q
      BY <3>2
    <3>4. /\ jj.pc = "update" /\ jj.step = "follow" /\ jj.key = j.key /\ jj.pos = j.pos + 1
          /\ jj.from = to /\ jj.val = j.val /\ jj.place = <<>>
      BY <3>2
    <3>5. jj = q
      <4>1. DOMAIN jj = {"pc", "step", "key", "pos", "from", "val", "place"}
        BY <3>2
      <4>2. jj = [x \in DOMAIN jj |-> jj[x]]
        OBVIOUS
      <4> HIDE DEF jj
      <4>3. QED
        BY <3>4, <4>1, <4>2
    <3> HIDE DEF jj
    <3>6. QED
      BY <3>5
  <2> HIDE DEF jj
  <2>2. JobType(jj) /\ Reached(d, jj, P, V)
    <3>1. JobType(jj)
      BY <1>1, <1>4, <2>1 DEF JobType
    <3>2. Values(d, U, P, V, jj.key)
      BY <2>1 DEF Reached
    <3>3. QED
      BY <1>1, <1>2, <1>4, <2>1, <3>1, <3>2 DEF Reached
  <2>3. ~ Moving(jj) /\ ComingOf(jj) = to
    BY <2>1 DEF Moving, ComingOf
  <2>4. TreeInv(d, jj, P, V)
    BY <2>1, <2>2, <2>3 DEF TreeInv, JobInv
  <2>5. Arrived(d, j, to) = d /\ JobThen(j, to) = jj /\ ValuesThen(V, j) = V
    BY <1>4, Zenon DEF Arrived, JobThen, ValuesThen, jj
  <2>6. QED
    BY <2>4, <2>5, Zenon DEF Holds
<1>5. CASE ~ j.pos < Len(j.key)
  <2> DEFINE v == IF d.base[to] = 0 \/ j.val < d.base[to] THEN j.val ELSE d.base[to]
             d2 == [d EXCEPT !.base[to] = IF @ = 0 \/ j.val < @ THEN j.val ELSE @]
  <2>1. IsTerminal(P, to) /\ d.base[to] \in Nat
    <3>1. IsTerminal(P, to)
      BY <1>1, <1>2, <1>5
    <3>2. Based(d, to, P)
      BY <3>1 DEF Tree, Bases
    <3>3. QED
      BY <3>1, <3>2 DEF Based
  <2>2. v \in Nat
    BY <2>1 DEF JobType
  <2>3. /\ DOMAIN d2 = ArrayFields /\ d2.base = [d.base EXCEPT ![to] = v] /\ d2.check = d.check
        /\ d2.sibling = d.sibling /\ d2.child = d.child /\ d2.block = d.block /\ d2.head = d.head
        /\ d2.reject = d.reject /\ d2.size = d.size
    BY <1>3 DEF ArrayFields
  <2> HIDE DEF v, d2
  <2>4. /\ d2.base \in [PlacesOf(d) -> Int] /\ d2.base[to] = v
        /\ \A n \in PlacesOf(d) : n # to => d2.base[n] = d.base[n]
    BY <1>3, <2>2, <2>3
  <2>5. \A e \in U \ {0} : d.check[e] >= 0
    BY DEF Used
  <2>6. SpaceInv(d2) /\ Used(d2) = U /\ PlacesOf(d2) = PlacesOf(d)
    BY <1>3, <2>3, <2>4, <2>5, TouchSpace
  <2>7. Blank(d2)
    BY <2>3, <2>6 DEF Blank
  <2>8. Tree(d2, U, Still, 0, P)
    <3>1. \A n \in U \ {0} : d.check[n] \in U /\ d.check[n] # to
      BY <2>1, NodeFacts
    <3>2. \A n \in U \ {0} : Hang(d2, Still, n) = Hang(d, Still, n)
      BY <1>3, <2>3, <2>4, <3>1 DEF Hang
    <3>3. Paths(d2, U, Still, P)
      <4>1. Paths(d, U, Still, P)
        BY DEF Tree
      <4>2. ASSUME NEW n \in U \ {0}
            PROVE  \E l \in Labels : n = Xor(Hang(d2, Still, n), l) /\ P[n] = Append(P[d2.check[n]], l)
        <5>1. PICK l \in Labels : n = Xor(Hang(d, Still, n), l) /\ P[n] = Append(P[d.check[n]], l)
          BY <4>1, Zenon DEF Paths
        <5>2. QED
          BY <2>3, <3>2, <5>1
      <4>3. \A n \in U \ {0} : d2.check[n] \in U /\ ~ IsTerminal(P, d2.check[n])
        BY <2>3, <4>1, Zenon DEF Paths
      <4>4. QED
        BY <4>1, <4>2, <4>3, Zenon DEF Paths
    <3>4. Bases(d2, U, 0, P)
      <4>1. Bases(d, U, to, P) /\ 0 \in PlacesOf(d)
        BY <1>3 DEF Tree
      <4>2. d2.check[0] < 0 /\ d2.base[0] = 0
        BY <2>3, <2>4, <4>1 DEF Bases
      <4>3. ASSUME NEW n \in U \ {0} PROVE Based(d2, n, P)
        <5>1. CASE n = to
          BY <2>1, <2>2, <2>4, <5>1 DEF Based
        <5>2. CASE n # to
          <6>1. Based(d, n, P)
            BY <4>1, <5>2 DEF Bases
          <6>2. QED
            BY <1>3, <2>4, <2>6, <5>2, <6>1 DEF Based
        <5>3. QED
          BY <5>1, <5>2
      <4>4. QED
        BY <4>2, <4>3 DEF Bases
    <3>5. Chains(d2, U, Still, P)
      <4>1. \A n : Parent(d2, n) = Parent(d, n)
        BY <2>3 DEF Parent
      <4>2. ASSUME NEW n \in U, ~ IsTerminal(P, n), d2.base[n] >= 0, n # Still.mover
            PROVE  \E s : IsChain(d2, U, n, s)
        <5>1. n # to /\ d2.base[n] = d.base[n]
          BY <1>3, <2>1, <2>4, <4>2
        <5>2. PICK s : IsChain(d, U, n, s)
          BY <4>2, <5>1, Zenon DEF Tree, Chains
        <5>3. IsChain(d2, U, n, s)
          <6>1. d2.child[n] = d.child[n] /\ \A e \in U : d2.sibling[e] = d.sibling[e]
            BY <2>3
          <6>2. QED
            BY <4>1, <5>1, <5>2, <6>1, ChainMoves
        <5>4. QED
          BY <5>3
      <4>3. QED
        BY <4>2, Zenon DEF Chains
    <3>6. QED
      BY <2>6, <3>3, <3>4, <3>5 DEF Tree
  <2>9. TreeInv(d2, Idle, P, ValuesThen(V, j))
    <3>1. ~ Moving(Idle) /\ ComingOf(Idle) = 0
      BY DEF Moving, ComingOf, Idle
    <3>2. P[to] = Append(j.key, 0)
      <4>1. j.key \in Seq(1 .. B - 1) /\ j.pos = Len(j.key) /\ P[j.from] = SubSeq(j.key, 1, j.pos)
        BY <1>5, LabelsAssumption DEF JobType, Reached
      <4>2. P[j.from] = j.key
        BY <4>1
      <4>3. QED
        BY <1>1, <1>2, <1>5, <4>2
    <3>3. Values(d, U, P, V, j.key) /\ j.key \in Keys /\ j.val # NoValue
      BY DEF Reached, JobType
    <3>4. v = j.val
      BY <3>2, <3>3 DEF Values, v
    <3>5. ValuesThen(V, j) = ValueSet(V, j.key, v)
      BY <1>5, <3>4 DEF ValuesThen
    <3>6. \A n \in U \ {to} : d2.base[n] = d.base[n]
      BY <1>3, <2>4
    <3>7. Ended(U, P) /\ \A k \in Keys : HasValue(d2, U, P, ValuesThen(V, j), k)
      <4>1. to \in U /\ v # NoValue /\ d2.base[to] = v
        BY <2>4, <3>3, <3>4
      <4>2. ValueGiven(d, U, P, j.key, d2, to, v)
        BY <3>2, <3>6, <4>1 DEF ValueGiven
      <4>3. QED
        BY <3>3, <3>5, <4>2, ValuesEnd
    <3>8. QED
      BY <2>6, <2>7, <2>8, <3>1, <3>7 DEF TreeInv, JobInv
  <2>10. Arrived(d, j, to) = d2 /\ JobThen(j, to) = Idle
    BY <1>5, Zenon DEF Arrived, JobThen, d2
  <2>11. QED
    BY <2>6, <2>9, <2>10, Zenon DEF Holds
<1>6. QED
  BY <1>4, <1>5

\* What _push_sibling changes, x being the place of the child under label.
SiblingPut(d, d2, from, base, label, x, flag) ==
  /\ SpaceInv(d2) /\ Used(d2) = Used(d) /\ PlacesOf(d2) = PlacesOf(d)
  /\ d2.base = d.base /\ d2.check = d.check
  /\ IF flag /\ d.child[from] = 0
       THEN /\ d2.child = d.child /\ d2.sibling[base] = label
            /\ x # base => d2.sibling[x] = d.sibling[base]
            /\ \A n \in PlacesOf(d) \ {x, base} : d2.sibling[n] = d.sibling[n]
       ELSE /\ d2.child = [d.child EXCEPT ![from] = label]
            /\ d2.sibling = [d.sibling EXCEPT ![x] = d.child[from]]

LEMMA PushSiblingSpace ==
  ASSUME NEW d, SpaceInv(d), NEW from \in PlacesOf(d), NEW base \in PlacesOf(d), NEW label \in Labels,
         NEW x \in PlacesOf(d), x = Xor(base, label), NEW flag \in BOOLEAN,
         NEW d2, d2 = PushSibling(d, from, base, label, flag)
  PROVE  SiblingPut(d, d2, from, base, label, x, flag)
<1>1. /\ ArrayType(d) /\ DOMAIN d = ArrayFields
      /\ d.base \in [PlacesOf(d) -> Int] /\ d.check \in [PlacesOf(d) -> Int]
      /\ d.sibling \in [PlacesOf(d) -> Labels] /\ d.child \in [PlacesOf(d) -> Labels]
  BY DEF SpaceInv, ArrayType
<1>2. \A e \in Used(d) \ {0} : d.check[e] >= 0
  BY DEF Used
<1>3. CASE flag /\ d.child[from] = 0
  <2>1. d2 = [d EXCEPT !.sibling[x] = d.sibling[base], !.sibling[base] = label]
    BY <1>3, Zenon DEF PushSibling
  <2> DEFINE s2 == [[d.sibling EXCEPT ![x] = d.sibling[base]] EXCEPT ![base] = label]
  <2>2. /\ DOMAIN d2 = ArrayFields /\ d2.base = d.base /\ d2.check = d.check /\ d2.child = d.child
        /\ d2.block = d.block /\ d2.head = d.head /\ d2.reject = d.reject /\ d2.size = d.size
    BY <1>1, <2>1 DEF ArrayFields
  <2>3. d2.sibling = s2
    BY <1>1, <2>1 DEF ArrayFields
  <2>4. s2 \in [PlacesOf(d) -> Labels]
    BY <1>1
  <2>5. SpaceInv(d2) /\ Used(d2) = Used(d) /\ PlacesOf(d2) = PlacesOf(d)
    BY <1>1, <1>2, <2>2, <2>3, <2>4, TouchSpace
  <2>6. /\ s2[base] = label
        /\ x # base => s2[x] = d.sibling[base]
        /\ \A n \in PlacesOf(d) \ {x, base} : s2[n] = d.sibling[n]
    BY <1>1
  <2> HIDE DEF s2
  <2>7. QED
    BY <1>3, <2>2, <2>3, <2>5, <2>6 DEF SiblingPut
<1>4. CASE ~ (flag /\ d.child[from] = 0)
  <2>1. d2 = [d EXCEPT !.sibling[x] = d.child[from], !.child[from] = label]
    BY <1>4, Zenon DEF PushSibling
  <2>2. /\ DOMAIN d2 = ArrayFields /\ d2.base = d.base /\ d2.check = d.check
        /\ d2.child = [d.child EXCEPT ![from] = label]
        /\ d2.sibling = [d.sibling EXCEPT ![x] = d.child[from]]
        /\ d2.block = d.block /\ d2.head = d.head /\ d2.reject = d.reject /\ d2.size = d.size
    BY <1>1, <2>1 DEF ArrayFields
  <2>3. d2.child \in [PlacesOf(d) -> Labels] /\ d2.sibling \in [PlacesOf(d) -> Labels]
    BY <1>1, <2>2
  <2>4. SpaceInv(d2) /\ Used(d2) = Used(d) /\ PlacesOf(d2) = PlacesOf(d)
    BY <1>1, <1>2, <2>2, <2>3, TouchSpace
  <2>5. QED
    BY <1>4, <2>2, <2>4 DEF SiblingPut
<1>5. QED
  BY <1>3, <1>4

\* What leads to a node below f hangs from f.
LEMMA AtPath ==
  ASSUME NEW d, NEW U, NEW mv, NEW c, NEW P, Tree(d, U, mv, c, P),
         NEW f \in U, NEW l \in Labels, NEW m \in U, P[m] = Append(P[f], l)
  PROVE  m # 0 /\ d.check[m] = f /\ m = Xor(Hang(d, mv, m), l)
<1>1. P \in [U -> Seq(Labels)] /\ P[0] = <<>> /\ \A x, y \in U : P[x] = P[y] => x = y
  BY DEF Tree, Paths
<1>2. m # 0
  BY <1>1
<1>3. PICK k \in Labels : m = Xor(Hang(d, mv, m), k) /\ P[m] = Append(P[d.check[m]], k)
  BY <1>2, NodeFacts
<1>4. d.check[m] \in U
  BY <1>2, NodeFacts
<1>5. P[d.check[m]] = P[f] /\ k = l
  <2>1. P[d.check[m]] \in Seq(Labels) /\ P[f] \in Seq(Labels)
    BY <1>1, <1>4
  <2>2. Append(P[d.check[m]], k) = Append(P[f], l)
    BY <1>3
  <2>3. ASSUME NEW a \in Seq(Labels), NEW b \in Seq(Labels), NEW x \in Labels, NEW y \in Labels,
               Append(a, x) = Append(b, y)
        PROVE  a = b /\ x = y
    BY <2>3, AppendInjective
  <2>4. QED
    <3> DEFINE a == P[d.check[m]]
               b == P[f]
    <3>1. a \in Seq(Labels) /\ b \in Seq(Labels) /\ Append(a, k) = Append(b, l)
      BY <2>1, <2>2
    <3> HIDE DEF a, b
    <3>2. a = b /\ k = l
      BY <2>3, <3>1
    <3>3. QED
      BY <3>2 DEF a, b
<1>6. QED
  BY <1>1, <1>2, <1>3, <1>4, <1>5

\* The tree is where the nodes are kept.
LEMMA KeptTree ==
  ASSUME NEW d, NEW d2, Kept(d, d2), Blank(d)
  PROVE  /\ Blank(d2)
         /\ \A mv, c, P : Tree(d, Used(d), mv, c, P) => Tree(d2, Used(d), mv, c, P)
<1>1. Blank(d2)
  BY DEF Blank, Kept
<1>2. ASSUME NEW mv, NEW c, NEW P, Tree(d, Used(d), mv, c, P)
      PROVE  Tree(d2, Used(d), mv, c, P)
  <2>1. Used(d) \subseteq PlacesOf(d)
    BY <1>2 DEF Tree
  <2>2. PlacesOf(d) \subseteq PlacesOf(d2)
    BY DEF Kept
  <2>3. \A n \in Used(d) : /\ d2.base[n] = d.base[n] /\ d2.check[n] = d.check[n]
                           /\ d2.sibling[n] = d.sibling[n] /\ d2.child[n] = d.child[n]
    BY <2>1 DEF Kept
  <2>4. QED
    BY <1>2, <2>2, <2>3, TreeSame
<1>3. QED
  BY <1>1, <1>2

\* A place that was empty has become a node, a child of f.
Taken(d, d2, e, l, f) ==
  /\ SpaceInv(d2) /\ PlacesOf(d2) = PlacesOf(d) /\ Used(d2) = Used(d) \cup {e}
  /\ d2.sibling = d.sibling /\ d2.child = d.child
  /\ d2.check[e] = f /\ d2.base[e] = (IF l # 0 THEN -1 ELSE 0)
  /\ \A n \in Used(d) : d2.check[n] = d.check[n]
  /\ \A n \in Used(d) \ {f} : d2.base[n] = d.base[n]

\* The empty place e is taken for the first child, of label l, of the node f.
FirstPop(d, d2, e, l, f) ==
  /\ SpaceInv(d) /\ e \in PlacesOf(d) /\ e # 0 /\ d.check[e] < 0
  /\ l \in Labels /\ f \in Used(d) /\ d2 = PopEnode(d, e, l, f, FALSE)

LEMMA PopFirst ==
  ASSUME NEW d, NEW e, NEW l, NEW f, NEW d2, FirstPop(d, d2, e, l, f)
  PROVE  Taken(d, d2, e, l, f) /\ d2.base[f] = Xor(e, l)
<1>0. /\ SpaceInv(d) /\ e \in PlacesOf(d) /\ e # 0 /\ d.check[e] < 0
      /\ l \in Labels /\ f \in Used(d) /\ d2 = PopEnode(d, e, l, f, FALSE)
  BY DEF FirstPop
<1>1. PoppedNode(d, d2, e, l, f, FALSE)
  BY <1>0, PopEnodeSpace, Zenon
<1>2. SpaceInv(d2) /\ PlacesOf(d2) = PlacesOf(d) /\ Used(d2) = Used(d) \cup {e}
  BY <1>1 DEF PoppedNode
<1>3. Popped(d, d2, e, l, f, FALSE)
  BY <1>1 DEF PoppedNode
<1>4. ASSUME NEW n \in Used(d) PROVE d2.check[n] = d.check[n] /\ (n # f => d2.base[n] = d.base[n])
  BY <1>1 DEF PoppedNode
<1>5. Used(d) \subseteq PlacesOf(d) /\ f # e
  <2>1. PlacesOf(d) \subseteq Nat /\ 0 \in PlacesOf(d) /\ d.check \in [PlacesOf(d) -> Int]
    BY <1>0, ArrayFacts DEF SpaceInv, ArrayType
  <2>2. \A x \in Int : ~ (x < 0 /\ x >= 0)
    OBVIOUS
  <2>3. QED
    BY <1>0, <2>1, <2>2 DEF Used
<1>6. /\ d2.sibling = d.sibling /\ d2.child = d.child
      /\ d2.check[e] = f /\ d2.base[e] = (IF l # 0 THEN -1 ELSE 0) /\ d2.base[f] = Xor(e, l)
  BY <1>0, <1>3, <1>5 DEF Popped
<1>7. QED
  BY <1>2, <1>4, <1>6, Zenon DEF Taken


\* The same, where the parent has a base, which it keeps.
TakenBased(d, d2, e, l, f) == Taken(d, d2, e, l, f) /\ d2.base[f] = d.base[f]

LEMMA PopBased ==
  ASSUME NEW d, SpaceInv(d), NEW e \in PlacesOf(d), e # 0, d.check[e] < 0,
         NEW l \in Labels, NEW f \in Used(d), NEW d2, d2 = PopEnode(d, e, l, f, TRUE)
  PROVE  TakenBased(d, d2, e, l, f)
<1>1. PoppedNode(d, d2, e, l, f, TRUE)
  BY PopEnodeSpace, Zenon
<1>2. SpaceInv(d2) /\ PlacesOf(d2) = PlacesOf(d) /\ Used(d2) = Used(d) \cup {e}
  BY <1>1 DEF PoppedNode
<1>3. Popped(d, d2, e, l, f, TRUE)
  BY <1>1 DEF PoppedNode
<1>4. ASSUME NEW n \in Used(d) PROVE d2.check[n] = d.check[n] /\ d2.base[n] = d.base[n]
  BY <1>1 DEF PoppedNode
<1>5. Used(d) \subseteq PlacesOf(d) /\ f # e
  <2>1. PlacesOf(d) \subseteq Nat /\ 0 \in PlacesOf(d) /\ d.check \in [PlacesOf(d) -> Int]
    BY ArrayFacts DEF SpaceInv, ArrayType
  <2>2. \A x \in Int : ~ (x < 0 /\ x >= 0)
    OBVIOUS
  <2>3. QED
    BY <2>1, <2>2 DEF Used
<1>6. /\ d2.sibling = d.sibling /\ d2.child = d.child
      /\ d2.check[e] = f /\ d2.base[e] = (IF l # 0 THEN -1 ELSE 0)
  BY <1>3, <1>5 DEF Popped
<1>7. QED
  BY <1>2, <1>4, <1>6, Zenon DEF Taken, TakenBased

\* A label becomes that of a further child.
SiblingNext(d, d2, U, from, x, label) ==
  /\ SpaceInv(d2) /\ Used(d2) = Used(d) /\ PlacesOf(d2) = PlacesOf(d)
  /\ d2.base = d.base /\ d2.check = d.check
  /\ SiblingPushed(d, d2, U, from, x, label)
  /\ \A n \in PlacesOf(d) \ {from} : d2.child[n] = d.child[n]

LEMMA PushNext ==
  ASSUME NEW d, SpaceInv(d), NEW from \in Used(d), NEW base \in PlacesOf(d), NEW label \in Labels,
         NEW x \in PlacesOf(d), x = Xor(base, label), d.child[from] = 0 => x # base, d.base[from] = base,
         NEW U, U \subseteq PlacesOf(d), x \notin U,
         NEW d2, d2 = PushSibling(d, from, base, label, TRUE)
  PROVE  SiblingNext(d, d2, U, from, x, label)
<1>0. /\ d.sibling \in [PlacesOf(d) -> Labels] /\ d.child \in [PlacesOf(d) -> Labels]
      /\ from \in PlacesOf(d)
  BY ArrayFacts DEF SpaceInv, ArrayType, Used
<1>9. SiblingPut(d, d2, from, base, label, x, TRUE)
  BY <1>0, PushSiblingSpace, Zenon
<1>1. SpaceInv(d2) /\ Used(d2) = Used(d) /\ PlacesOf(d2) = PlacesOf(d)
  BY <1>0, <1>9 DEF SiblingPut
<1>2. d2.base = d.base /\ d2.check = d.check
  BY <1>0, <1>9 DEF SiblingPut
<1>3. CASE d.child[from] = 0
  <2>1. /\ d2.child = d.child /\ d2.sibling[base] = label
        /\ d2.sibling[x] = d.sibling[base]
        /\ \A n \in PlacesOf(d) \ {x, base} : d2.sibling[n] = d.sibling[n]
    BY <1>0, <1>9, <1>3 DEF SiblingPut
  <2>2. SiblingPushed(d, d2, U, from, x, label)
    BY <1>3, <2>1 DEF SiblingPushed
  <2>3. QED
    BY <1>1, <1>2, <2>1, <2>2 DEF SiblingNext
<1>4. CASE d.child[from] # 0
  <2>1. d2.child = [d.child EXCEPT ![from] = label] /\ d2.sibling = [d.sibling EXCEPT ![x] = d.child[from]]
    BY <1>0, <1>9, <1>4 DEF SiblingPut
  <2>2. /\ d2.child[from] = label /\ \A n \in PlacesOf(d) \ {from} : d2.child[n] = d.child[n]
        /\ d2.sibling[x] = d.child[from] /\ \A n \in U : d2.sibling[n] = d.sibling[n]
    BY <1>0, <2>1
  <2>3. SiblingPushed(d, d2, U, from, x, label)
    BY <1>4, <2>2 DEF SiblingPushed
  <2>4. QED
    BY <1>1, <1>2, <2>2, <2>3 DEF SiblingNext
<1>5. QED
  BY <1>3, <1>4

\* A child of f is new, and the update is to arrive at it.
Sprouted(d2, U, e, f, l, P2) ==
  /\ SpaceInv(d2) /\ Blank(d2) /\ Tree(d2, Used(d2), Still, e, P2)
  /\ Used(d2) = U \cup {e} /\ e # 0 /\ d2.check[e] = f /\ e = Xor(d2.base[f], l) /\ d2.base[f] \in Nat

\* The new node e of f and what the others hold.
Budded(d, d2, U, e, f, l) ==
  /\ e \notin U /\ d2.base[e] = (IF l # 0 THEN -1 ELSE 0)
  /\ \A n \in U \ {f} : d2.base[n] = d.base[n]

\* A node without children gets its first, at an empty place e.
LEMMA FirstChild ==
  ASSUME NEW d1, SpaceInv(d1), Blank(d1), NEW U, U = Used(d1), NEW f \in U, NEW P,
         Tree(d1, U, Still, f, P), ~ IsTerminal(P, f), d1.base[f] < 0, NEW l \in Labels,
         NEW e \in PlacesOf(d1), d1.check[e] < 0, BlockOf(e) # 0, e # 0,
         NEW b, b = Xor(e, l), NEW d2, d2 = PopEnode(d1, e, l, f, FALSE),
         NEW d3, d3 = PushSibling(d2, f, b, l, FALSE),
         NEW P2, P2 = Grafted(P, U, e, f, l)
  PROVE  Sprouted(d3, U, e, f, l, P2) /\ Budded(d1, d3, U, e, f, l)
<1>4. /\ ArrayType(d1) /\ U \subseteq PlacesOf(d1) /\ PlacesOf(d1) \subseteq Nat
      /\ d1.base \in [PlacesOf(d1) -> Int] /\ d1.check \in [PlacesOf(d1) -> Int]
      /\ d1.sibling \in [PlacesOf(d1) -> Labels] /\ d1.child \in [PlacesOf(d1) -> Labels]
      /\ 0 \in U
  BY ArrayFacts DEF SpaceInv, ArrayType, Tree
<1>5. e \notin U
  <2>1. \A x \in Int : ~ (x < 0 /\ x >= 0)
    OBVIOUS
  <2>2. d1.check[e] \in Int
    BY <1>4
  <2>3. QED
    BY <2>1, <2>2 DEF Used
<1>6. /\ f # 0 /\ d1.child[f] = 0 /\ \A n \in U \ {0} : d1.check[n] # f
      /\ d1.check[0] < 0 /\ d1.base[0] = 0
      /\ \A n \in U \ {0, f} : Based(d1, n, P)
  <2>1. Bases(d1, U, f, P)
    BY DEF Tree
  <2>2. f # 0 /\ d1.check[0] < 0 /\ d1.base[0] = 0
    BY <2>1 DEF Bases
  <2>3. ~ Based(d1, f, P)
    BY <1>4 DEF Based
  <2>4. Bare(d1, U, f)
    BY <2>1, <2>2, <2>3 DEF Bases
  <2>5. QED
    BY <2>1, <2>2, <2>4 DEF Bases, Bare
<1>7. Taken(d1, d2, e, l, f) /\ d2.base[f] = b
  <2>1. FirstPop(d1, d2, e, l, f)
    BY DEF FirstPop
  <2>2. Taken(d1, d2, e, l, f) /\ d2.base[f] = Xor(e, l)
    BY ONLY <2>1, PopFirst
  <2>3. QED
    BY <2>2
<1>8. /\ SpaceInv(d2) /\ PlacesOf(d2) = PlacesOf(d1) /\ Used(d2) = U \cup {e}
      /\ d2.sibling = d1.sibling /\ d2.child = d1.child
      /\ d2.check[e] = f /\ d2.base[e] = (IF l # 0 THEN -1 ELSE 0) /\ d2.base[f] = b
      /\ \A n \in U : d2.check[n] = d1.check[n] /\ (n # f => d2.base[n] = d1.base[n])
  BY <1>7 DEF Taken
<1>9. /\ Xor(b, l) = e /\ b \in PlacesOf(d1) /\ BlockOf(b) # 0
  <2>1. Xor(Xor(e, l), l) = e /\ Xor(e, l) \in Nat /\ BlockOf(Xor(e, l)) = BlockOf(e)
    BY <1>4, XorFacts
  <2>2. Xor(e, l) \in PlacesOf(d1)
    BY <1>4, <2>1, ArrayFacts
  <2>3. QED
    BY <2>1, <2>2
<1>10. /\ SpaceInv(d3) /\ Used(d3) = U \cup {e} /\ PlacesOf(d3) = PlacesOf(d1)
       /\ d3.base = d2.base /\ d3.check = d2.check
       /\ d3.child = [d1.child EXCEPT ![f] = l] /\ d3.sibling = [d1.sibling EXCEPT ![e] = 0]
  <2>2. f \in PlacesOf(d2) /\ b \in PlacesOf(d2) /\ e \in PlacesOf(d2) /\ e = Xor(b, l)
    BY <1>4, <1>8, <1>9
  <2>3. /\ SpaceInv(d3) /\ Used(d3) = Used(d2) /\ PlacesOf(d3) = PlacesOf(d2)
        /\ d3.base = d2.base /\ d3.check = d2.check
        /\ d3.child = [d2.child EXCEPT ![f] = l]
        /\ d3.sibling = [d2.sibling EXCEPT ![e] = d2.child[f]]
    <3>1. SiblingPut(d2, d3, f, b, l, e, FALSE)
      BY <1>8, <2>2, PushSiblingSpace, Zenon
    <3>2. QED
      BY <3>1 DEF SiblingPut
  <2>4. QED
    BY <1>6, <1>8, <2>3
<1>11. /\ \A n \in U : d3.check[n] = d1.check[n]
       /\ \A n \in U \ {f} : d3.base[n] = d1.base[n] /\ d3.child[n] = d1.child[n]
       /\ \A n \in U : d3.sibling[n] = d1.sibling[n]
       /\ d3.check[e] = f /\ d3.base[e] = (IF l # 0 THEN -1 ELSE 0) /\ d3.base[f] = b
       /\ d3.child[e] = 0 /\ d3.child[f] = l /\ d3.sibling[e] = 0
  <2>1. d1.child[e] = 0
    BY <1>5 DEF Blank
  <2>2. \A n \in U : d3.check[n] = d1.check[n] /\ (n # f => d3.base[n] = d1.base[n])
    BY <1>8, <1>10, ZenonT(30)
  <2>3. d3.check[e] = f /\ d3.base[e] = (IF l # 0 THEN -1 ELSE 0) /\ d3.base[f] = b
    BY <1>8, <1>10
  <2>4. /\ \A n \in U \ {f} : d3.child[n] = d1.child[n]
        /\ \A n \in U : d3.sibling[n] = d1.sibling[n]
        /\ d3.child[e] = 0 /\ d3.child[f] = l /\ d3.sibling[e] = 0
    BY <1>4, <1>5, <1>10, <2>1
  <2>5. QED
    BY <2>2, <2>3, <2>4
<1>12. IsChain(d3, U \cup {e}, f, <<l>>)
  <2>1. Parent(d3, e) = f
    BY <1>11 DEF Parent
  <2>2. ASSUME NEW x \in U \cup {e}, Parent(d3, x) = f PROVE x = e
    <3>1. CASE x \in U
      <4>1. x # 0
        BY <1>6, <2>2 DEF Parent
      <4>2. d1.check[x] = f
        BY <1>11, <2>2, <3>1, <4>1 DEF Parent
      <4>3. QED
        BY <1>6, <3>1, <4>1, <4>2
    <3>2. QED
      BY <3>1
  <2>3. e = Xor(d3.base[f], l)
    BY <1>9, <1>11
  <2>4. d3.child[f] = l /\ d3.sibling[e] = 0 /\ e \in U \cup {e}
    BY <1>11
  <2>5. QED
    BY <2>1, <2>2, <2>3, <2>4, ChainFirst, ZenonT(30)
<1>13. Tree(d3, U \cup {e}, Still, e, P2)
  <2>1. \A n \in U \ {0} : d3.base[d1.check[n]] = d1.base[d1.check[n]]
    BY <1>6, <1>11, NodeFacts
  <2>2. ASSUME NEW n \in U \ {0} PROVE Based(d3, n, P)
    <3>1. CASE n = f
      <4>1. d3.base[f] \in PlacesOf(d3) /\ BlockOf(d3.base[f]) # 0
        BY <1>9, <1>10, <1>11
      <4>2. QED
        BY <3>1, <4>1 DEF Based
    <3>2. CASE n # f
      <4>1. Based(d1, n, P) /\ d3.base[n] = d1.base[n]
        BY <1>6, <1>11, <3>2
      <4>2. QED
        BY <1>10, <4>1 DEF Based
    <3>3. QED
      BY <3>1, <3>2
  <2>3. \A m \in U : P[m] # Append(P[f], l)
    BY <1>6, AtPath
  <2>4. e \notin Still.left /\ e \in PlacesOf(d3) /\ PlacesOf(d1) \subseteq PlacesOf(d3)
    BY <1>10 DEF Still
  <2>5. e = Xor(d3.base[f], l)
    BY <1>9, <1>11
  <2>6. \A n \in U : Parent(d1, n) # f => d3.sibling[n] = d1.sibling[n]
    BY <1>11
  <2>7. d3.base[0] = d1.base[0]
    BY <1>4, <1>6, <1>11
  <2>8. \E s : IsChain(d3, U \cup {e}, f, s)
    BY <1>12
  <2>9. /\ d3.check[e] = f /\ d3.base[e] = (IF l # 0 THEN -1 ELSE 0) /\ d3.child[e] = 0
        /\ \A n \in U : d3.check[n] = d1.check[n]
        /\ \A n \in U \ {f} : d3.base[n] = d1.base[n] /\ d3.child[n] = d1.child[n]
    BY <1>11
  <2>10. Plantable(d1, U, Still, P, f, l, e, d3)
    BY <1>5, <2>1, <2>2, <2>3, <2>4, <2>5, <2>6, <2>7, <2>8, <2>9, Zenon DEF Plantable
  <2>11. QED
    BY <2>10, Plant
<1>14. Blank(d3)
  <2>1. ASSUME NEW x \in PlacesOf(d3) \ Used(d3) PROVE d3.child[x] = 0
    <3>1. x \in PlacesOf(d1) \ Used(d1) /\ x # f
      BY <1>10
    <3>2. d1.child[x] = 0
      BY <3>1 DEF Blank
    <3>3. QED
      BY <1>4, <1>10, <3>1, <3>2
  <2>2. QED
    BY <2>1 DEF Blank
<1>15. Sprouted(d3, U, e, f, l, P2)
  BY <1>4, <1>9, <1>10, <1>11, <1>13, <1>14, ZenonT(30) DEF Sprouted
<1>16. QED
  BY <1>5, <1>11, <1>15 DEF Budded

LEMMA FollowNewHolds ==
  ASSUME NEW d, SpaceInv(d), NEW j, NEW P, NEW V, TreeInv(d, j, P, V), j.pc = "update", j.step = "follow",
         d.base[j.from] < 0, NEW l, l = LabelOf(j),
         NEW p, p = FindPlace(d),
         NEW d3, d3 = PushSibling(PopEnode(p.da, p.e, l, j.from, FALSE), j.from, Xor(p.e, l), l, FALSE)
  PROVE  Holds(Arrived(d3, j, p.e), JobThen(j, p.e), ValuesThen(V, j))
<1>1. /\ JobType(j) /\ Reached(d, j, P, V) /\ Blank(d) /\ Tree(d, Used(d), Still, j.from, P)
      /\ j.from \in Used(d) /\ l \in Labels /\ ~ IsTerminal(P, j.from)
  <2>1. ~ Moving(j) /\ ComingOf(j) = j.from
    BY DEF Moving, ComingOf
  <2>2. JobType(j) /\ Reached(d, j, P, V)
    BY DEF TreeInv, JobInv, Idle
  <2>3. QED
    BY <2>1, <2>2, JobFacts DEF TreeInv, Reached
<1>2. ASSUME NEW d1, d1 = p.da, NEW e, e = p.e, NEW U, U = Used(d), NEW f, f = j.from
      PROVE  Holds(Arrived(d3, j, e), JobThen(j, e), ValuesThen(V, j))
  <2>1. /\ SpaceInv(d1) /\ Kept(d, d1) /\ e \in PlacesOf(d1) /\ d1.check[e] < 0
        /\ BlockOf(e) # 0 /\ e # 0
    BY <1>2, FindPlaceSpace
  <2>2. /\ Blank(d1) /\ Tree(d1, U, Still, f, P)
    BY <1>1, <1>2, <2>1, KeptTree
  <2>3. Used(d1) = U /\ d1.base[f] < 0 /\ f \in U
    BY <1>1, <1>2, <2>1 DEF Kept
  <2>4. PICK b, d2, P2 : /\ b = Xor(e, l) /\ d2 = PopEnode(d1, e, l, f, FALSE)
                         /\ P2 = Grafted(P, U, e, f, l)
    OBVIOUS
  <2>5. d3 = PushSibling(d2, f, b, l, FALSE)
    BY <1>2, <2>4
  <2>6. Sprouted(d3, U, e, f, l, P2) /\ Budded(d1, d3, U, e, f, l)
    BY <1>1, <1>2, <2>1, <2>2, <2>3, <2>4, <2>5, FirstChild, ZenonT(30)
  <2>7. Reached(d3, j, P2, V)
    <3>1. e \notin U /\ d3.base[e] = (IF l # 0 THEN -1 ELSE 0)
      BY <2>6 DEF Budded
    <3>2. P2[f] = P[f]
      BY <2>3, <2>4, <3>1 DEF Grafted
    <3>3. \A n \in U : IsTerminal(P, n) => d3.base[n] = d.base[n]
      <4>1. \A n \in U \ {f} : d3.base[n] = d1.base[n]
        BY <2>6 DEF Budded
      <4>2. ~ IsTerminal(P, f)
        BY <1>1, <1>2
      <4>3. \A n \in U : d1.base[n] = d.base[n]
        BY <1>2, <2>1 DEF Kept
      <4>4. QED
        BY <4>1, <4>2, <4>3
    <3>4. P[f] = SubSeq(j.key, 1, j.pos) /\ Values(d, U, P, V, j.key)
      BY <1>1, <1>2 DEF Reached
    <3>5. Values(d3, U \cup {e}, P2, V, j.key)
      <4>1. NodeMade(d, U, P, j, d3, e, f, l)
        BY <2>3, <3>1, <3>3, <3>4 DEF NodeMade
      <4>2. QED
        BY <1>1, <2>4, <3>4, <4>1, ValuesGrafted
    <3>6. Used(d3) = U \cup {e} /\ f \in Used(d3)
      BY <2>3, <2>6 DEF Sprouted
    <3>7. QED
      BY <1>2, <3>2, <3>4, <3>5, <3>6 DEF Reached
  <2>8. QED
    BY <1>1, <1>2, <2>6, <2>7, Arriving DEF Sprouted
<1>3. QED
  BY <1>2

\* What it takes for e to join a tree next to other children of f, under label l.
Joinable(d, U, mv, c, P, f, l, e, d2) ==
  /\ f \in U /\ ~ IsTerminal(P, f) /\ l \in Labels /\ e \notin U /\ e \notin mv.left
  /\ d.base[f] \in Nat /\ f # mv.mover /\ c \in {0, f} /\ e = Xor(d.base[f], l)
  /\ PlacesOf(d) \subseteq PlacesOf(d2) /\ e \in PlacesOf(d2) /\ d2.check[e] = f
  /\ d2.base[e] = (IF l # 0 THEN -1 ELSE 0) /\ d2.child[e] = 0
  /\ \A n \in U : d2.check[n] = d.check[n] /\ d2.base[n] = d.base[n]
  /\ \A n \in U \ {f} : d2.child[n] = d.child[n]
  /\ SiblingPushed(d, d2, U, f, e, l)

\* A node without children becomes a further child of f.
LEMMA Join ==
  ASSUME NEW d, NEW U, NEW mv, NEW c, NEW P, Tree(d, U, mv, c, P), NEW f, NEW l, NEW e, NEW d2,
         Joinable(d, U, mv, c, P, f, l, e, d2), NEW P2, P2 = Grafted(P, U, e, f, l)
  PROVE  Tree(d2, U \cup {e}, mv, e, P2)
<1>1. /\ f \in U /\ ~ IsTerminal(P, f) /\ l \in Labels /\ e \notin U /\ e \notin mv.left
      /\ d.base[f] \in Nat /\ f # mv.mover /\ c \in {0, f} /\ e = Xor(d.base[f], l)
      /\ PlacesOf(d) \subseteq PlacesOf(d2) /\ e \in PlacesOf(d2) /\ d2.check[e] = f
      /\ d2.base[e] = (IF l # 0 THEN -1 ELSE 0) /\ d2.child[e] = 0
  BY DEF Joinable
<1>2. /\ \A n \in U : d2.check[n] = d.check[n] /\ d2.base[n] = d.base[n]
      /\ \A n \in U \ {f} : d2.child[n] = d.child[n]
      /\ SiblingPushed(d, d2, U, f, e, l)
  BY DEF Joinable
<1>3. PICK s : IsChain(d, U, f, s)
  <2>1. d.base[f] >= 0
    BY <1>1
  <2>2. QED
    BY <1>1, <2>1, Zenon DEF Tree, Chains
<1>4. 0 \in U /\ e # 0
  BY <1>1 DEF Tree
<1>5. IsChain(d2, U \cup {e}, f, WithLabel(s, l))
  <2>1. Parent(d2, e) = f /\ d2.base[f] = d.base[f]
    BY <1>1, <1>2, <1>4 DEF Parent
  <2>2. \A n \in U : Parent(d2, n) = Parent(d, n)
    BY <1>2 DEF Parent
  <2>3. QED
    BY <1>1, <1>2, <1>3, <2>1, <2>2, ChainPush
<1>6. \A n \in U : Parent(d, n) # f => d2.sibling[n] = d.sibling[n]
  <2>1. CASE d.child[f] = 0
    <3>1. Parent(d, d.base[f]) = f
      <4>1. s[1] = 0 /\ 1 \in 1 .. Len(s) /\ \A i \in 1 .. Len(s) : Parent(d, Xor(d.base[f], s[i])) = f
        BY <1>3, <2>1 DEF IsChain
      <4>2. Xor(d.base[f], 0) = d.base[f]
        <5>1. 0 \in Labels
          BY BIsNat DEF Labels
        <5>2. QED
          BY <1>1, <5>1, XorFacts
      <4>3. QED
        BY <4>1, <4>2
    <3>2. \A n \in U \ {d.base[f]} : d2.sibling[n] = d.sibling[n]
      BY <1>2, <2>1 DEF SiblingPushed
    <3>3. QED
      BY <3>1, <3>2
  <2>2. CASE d.child[f] # 0
    BY <1>2, <2>2 DEF SiblingPushed
  <2>3. QED
    BY <2>1, <2>2
<1>7. \A n \in U \ {0} : Based(d2, n, P)
  <2>1. ASSUME NEW n \in U \ {0} PROVE Based(d2, n, P)
    <3>1. Based(d, n, P)
      <4>1. Based(d, n, P) \/ (n = c /\ Bare(d, U, n))
        BY DEF Tree, Bases
      <4>2. CASE n = c /\ Bare(d, U, n)
        <5>1. n = f /\ d.base[f] = -1
          BY <1>1, <4>2 DEF Bare
        <5>2. QED
          BY <1>1, <5>1
      <4>3. QED
        BY <4>1, <4>2
    <3>2. d2.base[n] = d.base[n]
      BY <1>2
    <3>3. QED
      BY <1>1, <3>1, <3>2 DEF Based
  <2>2. QED
    BY <2>1
<1>8. \A m \in U : P[m] # Append(P[f], l)
  <2>1. ASSUME NEW m \in U, P[m] = Append(P[f], l) PROVE FALSE
    <3>1. d.check[m] = f /\ m = Xor(Hang(d, mv, m), l)
      BY <1>1, <2>1, AtPath
    <3>2. Hang(d, mv, m) = d.base[f]
      BY <1>1, <3>1 DEF Hang
    <3>3. QED
      BY <1>1, <3>1, <3>2
  <2>2. QED
    BY <2>1
<1>9. \A n \in U \ {0} : d2.base[d.check[n]] = d.base[d.check[n]]
  BY <1>2, NodeFacts
<1>10. e = Xor(d2.base[f], l) /\ d2.base[0] = d.base[0]
  BY <1>1, <1>2, <1>4
<1>11. Plantable(d, U, mv, P, f, l, e, d2)
  <2>1. \A n \in U \ {f} : d2.base[n] = d.base[n] /\ d2.child[n] = d.child[n]
    BY <1>2
  <2>2. \A n \in U : d2.check[n] = d.check[n]
    BY <1>2
  <2>3. QED
    BY <1>1, <1>5, <1>6, <1>7, <1>8, <1>9, <1>10, <2>1, <2>2, Zenon DEF Plantable
<1>12. QED
  BY <1>11, Plant

LEMMA PushedSame ==
  ASSUME NEW d, NEW d1, NEW d2, NEW U, NEW f, NEW e, NEW l, SiblingPushed(d1, d2, U, f, e, l),
         d1.child = d.child, d1.sibling = d.sibling, d1.base[f] = d.base[f]
  PROVE  SiblingPushed(d, d2, U, f, e, l)
<1> DEFINE s == d.sibling
           b == d.base[f]
           k == d.child[f]
<1>1. IF k = 0
        THEN /\ d2.sibling[e] = s[b] /\ d2.sibling[b] = l /\ d2.child[f] = k
             /\ \A n \in U \ {b} : d2.sibling[n] = s[n]
        ELSE /\ d2.sibling[e] = k /\ d2.child[f] = l
             /\ \A n \in U : d2.sibling[n] = s[n]
  BY Zenon DEF SiblingPushed
<1>2. QED
  BY <1>1, Zenon DEF SiblingPushed

\* What is known of the node an update has come to, when it looks for an edge.
LEMMA FollowFacts ==
  ASSUME NEW d, SpaceInv(d), NEW j, NEW P, NEW V, TreeInv(d, j, P, V), j.pc = "update", j.step = "follow"
  PROVE  /\ JobType(j) /\ Reached(d, j, P, V) /\ Blank(d) /\ Tree(d, Used(d), Still, j.from, P)
         /\ j.from \in Used(d) /\ LabelOf(j) \in Labels /\ ~ IsTerminal(P, j.from)
<1>1. ~ Moving(j) /\ ComingOf(j) = j.from
  BY DEF Moving, ComingOf
<1>2. JobType(j) /\ Reached(d, j, P, V)
  BY DEF TreeInv, JobInv, Idle
<1>3. QED
  BY <1>1, <1>2, JobFacts DEF TreeInv, Reached

\* The base of a node that has one is a place outside block 0, but for the root's.
LEMMA BaseOf ==
  ASSUME NEW d, NEW U, NEW mv, NEW c, NEW P, Tree(d, U, mv, c, P), ArrayType(d),
         NEW f \in U, ~ IsTerminal(P, f), d.base[f] >= 0
  PROVE  /\ d.base[f] \in PlacesOf(d) /\ d.base[f] \in Nat
         /\ f # 0 => BlockOf(d.base[f]) # 0
         /\ \A l \in Labels : Xor(d.base[f], l) \in PlacesOf(d) /\ Xor(d.base[f], l) \in Nat
<1>1. d.base[f] \in PlacesOf(d) /\ (f # 0 => BlockOf(d.base[f]) # 0)
  <2>1. CASE f = 0
    BY <2>1, ArrayFacts DEF Tree, Bases
  <2>2. CASE f # 0
    <3>1. Based(d, f, P) \/ d.base[f] = -1
      BY <2>2 DEF Tree, Bases, Bare
    <3>2. QED
      BY <2>2, <3>1 DEF Based
  <2>3. QED
    BY <2>1, <2>2
<1>2. d.base[f] \in Nat
  BY <1>1, ArrayFacts
<1>3. ASSUME NEW l \in Labels PROVE Xor(d.base[f], l) \in PlacesOf(d) /\ Xor(d.base[f], l) \in Nat
  <2>1. Xor(d.base[f], l) \in Nat /\ BlockOf(Xor(d.base[f], l)) = BlockOf(d.base[f])
    BY <1>2, XorFacts
  <2>2. QED
    BY <1>1, <1>2, <2>1, ArrayFacts
<1>4. QED
  BY <1>1, <1>2, <1>3

\* The place is empty: it becomes the child.
LEMMA FollowFreeHolds ==
  ASSUME NEW d, SpaceInv(d), NEW j, NEW P, NEW V, TreeInv(d, j, P, V), j.pc = "update", j.step = "follow",
         NEW f, f = j.from, NEW b, b = d.base[f], b >= 0, NEW l, l = LabelOf(j),
         NEW e, e = Xor(b, l), d.check[e] < 0,
         NEW d2, d2 = PopEnode(d, e, l, f, TRUE), NEW d3, d3 = PushSibling(d2, f, b, l, TRUE)
  PROVE  Holds(Arrived(d3, j, e), JobThen(j, e), ValuesThen(V, j))
<1>1. /\ JobType(j) /\ Reached(d, j, P, V) /\ Blank(d) /\ Tree(d, Used(d), Still, f, P)
      /\ f \in Used(d) /\ l \in Labels /\ ~ IsTerminal(P, f)
  BY FollowFacts
<1>2. /\ ArrayType(d) /\ PlacesOf(d) \subseteq Nat /\ Used(d) \subseteq PlacesOf(d) /\ 0 \in Used(d)
      /\ d.check \in [PlacesOf(d) -> Int]
      /\ d.sibling \in [PlacesOf(d) -> Labels] /\ d.child \in [PlacesOf(d) -> Labels]
  BY <1>1, ArrayFacts DEF SpaceInv, ArrayType, Tree
<1>3. b \in PlacesOf(d) /\ b \in Nat /\ e \in PlacesOf(d)
  BY <1>1, <1>2, BaseOf
<1>4. PICK s : IsChain(d, Used(d), f, s)
  <2>1. f # Still.mover
    BY <1>1, <1>2 DEF Still
  <2>2. QED
    BY <1>1, <2>1, Zenon DEF Tree, Chains
<1>5. e # 0
  <2>1. CASE f = 0
    <3>1. b = 0
      BY <1>1, <2>1 DEF Tree, Bases
    <3>2. d.child[0] = 0 \/ d.child[0] # 0
      OBVIOUS
    <3>3. l # 0
      <4>1. P[0] = <<>> /\ P[0] = SubSeq(j.key, 1, j.pos)
        BY <1>1, <2>1 DEF Tree, Paths, Reached
      <4>2. j.key \in Seq(1 .. B - 1) \ {<<>>} /\ j.pos \in 0 .. Len(j.key)
        BY <1>1, LabelsAssumption DEF JobType
      <4>3. Len(j.key) # 0
        BY <4>2
      <4>4. j.pos = 0
        BY <4>1, <4>2
      <4>5. j.pos < Len(j.key)
        BY <4>2, <4>3, <4>4
      <4>6. QED
        BY <1>1, <4>5, JobFacts
    <3>4. Xor(Xor(0, l), l) = 0 /\ Xor(0, 0) = 0 /\ 0 \in Labels
      BY <1>1, BIsNat, XorFacts DEF Labels
    <3>5. QED
      BY <1>1, <3>1, <3>3, <3>4, XorInjective
  <2>2. CASE f # 0
    <3>1. BlockOf(b) # 0 /\ BlockOf(e) = BlockOf(b)
      BY <1>1, <1>2, <1>3, <2>2, BaseOf, XorFacts
    <3>2. QED
      BY <3>1, RootBlock
  <2>3. QED
    BY <2>1, <2>2
<1>6. e \notin Used(d)
  <2>1. \A x \in Int : ~ (x < 0 /\ x >= 0)
    OBVIOUS
  <2>2. QED
    BY <1>2, <1>3, <1>5, <2>1 DEF Used
<1>7. TakenBased(d, d2, e, l, f)
  BY <1>1, <1>3, <1>5, PopBased, Zenon
<1>8. /\ SpaceInv(d2) /\ PlacesOf(d2) = PlacesOf(d) /\ Used(d2) = Used(d) \cup {e}
      /\ d2.sibling = d.sibling /\ d2.child = d.child
      /\ d2.check[e] = f /\ d2.base[e] = (IF l # 0 THEN -1 ELSE 0) /\ d2.base[f] = b
      /\ \A n \in Used(d) : d2.check[n] = d.check[n] /\ d2.base[n] = d.base[n]
  BY <1>1, <1>7 DEF Taken, TakenBased
<1>9. ASSUME d2.child[f] = 0 PROVE e # b
  <2>1. s[1] = 0 /\ 1 \in 1 .. Len(s) /\ \A i \in 1 .. Len(s) : Xor(d.base[f], s[i]) \in Used(d)
    BY <1>4, <1>8, <1>9 DEF IsChain
  <2>2. Xor(b, 0) = b
    <3>1. 0 \in Labels
      BY BIsNat DEF Labels
    <3>2. QED
      BY <1>3, <3>1, XorFacts
  <2>3. b \in Used(d)
    BY <2>1, <2>2
  <2>4. QED
    BY <1>6, <2>3
<1>10. SiblingNext(d2, d3, Used(d), f, e, l)
  <2>1. /\ f \in Used(d2) /\ b \in PlacesOf(d2) /\ e \in PlacesOf(d2) /\ Used(d) \subseteq PlacesOf(d2)
    BY <1>1, <1>2, <1>3, <1>8
  <2>2. QED
    BY <1>1, <1>6, <1>8, <1>9, <2>1, PushNext, Zenon
<1>11. /\ SpaceInv(d3) /\ Used(d3) = Used(d) \cup {e} /\ PlacesOf(d3) = PlacesOf(d)
       /\ d3.base = d2.base /\ d3.check = d2.check
       /\ SiblingPushed(d2, d3, Used(d), f, e, l)
       /\ \A n \in PlacesOf(d) \ {f} : d3.child[n] = d.child[n]
  <2>1. /\ SpaceInv(d3) /\ Used(d3) = Used(d2) /\ PlacesOf(d3) = PlacesOf(d2)
        /\ d3.base = d2.base /\ d3.check = d2.check
        /\ SiblingPushed(d2, d3, Used(d), f, e, l)
        /\ \A n \in PlacesOf(d2) \ {f} : d3.child[n] = d2.child[n]
    BY <1>10, Zenon DEF SiblingNext
  <2>2. ASSUME NEW n \in PlacesOf(d) \ {f} PROVE d3.child[n] = d.child[n]
    <3>1. n \in PlacesOf(d2) \ {f}
      BY <1>8
    <3>2. d3.child[n] = d2.child[n]
      BY <2>1, <3>1
    <3>3. QED
      BY <1>8, <3>2
  <2>3. Used(d3) = Used(d) \cup {e} /\ PlacesOf(d3) = PlacesOf(d)
    BY <1>8, <2>1, Zenon
  <2>4. QED
    BY <2>1, <2>2, <2>3
<1>12. d3.child[e] = 0
  <2>1. d.child[e] = 0 /\ e # f
    BY <1>1, <1>3, <1>6 DEF Blank
  <2>2. QED
    BY <1>3, <1>11, <2>1
<1>13. PICK P2 : P2 = Grafted(P, Used(d), e, f, l)
  OBVIOUS
<1>14. Tree(d3, Used(d3), Still, e, P2)
  <2>1. e \notin Still.left /\ f # Still.mover
    BY <1>1, <1>2 DEF Still
  <2>2. SiblingPushed(d, d3, Used(d), f, e, l)
    <3>1. d2.child = d.child /\ d2.sibling = d.sibling /\ d2.base[f] = d.base[f]
      BY <1>8
    <3>2. SiblingPushed(d2, d3, Used(d), f, e, l)
      BY <1>11
    <3>3. QED
      BY <3>1, <3>2, PushedSame
  <2>3. Joinable(d, Used(d), Still, f, P, f, l, e, d3)
    <3>1. /\ d.base[f] \in Nat /\ f \in {0, f} /\ e = Xor(d.base[f], l)
          /\ PlacesOf(d) \subseteq PlacesOf(d3) /\ e \in PlacesOf(d3)
      BY <1>3, <1>11
    <3>2. d3.check[e] = f /\ d3.base[e] = (IF l # 0 THEN -1 ELSE 0)
      BY <1>8, <1>11, Zenon
    <3>3. ASSUME NEW n \in Used(d) PROVE d3.check[n] = d.check[n] /\ d3.base[n] = d.base[n]
      <4>1. d2.check[n] = d.check[n] /\ d2.base[n] = d.base[n] /\ d3.base = d2.base /\ d3.check = d2.check
        BY <1>8, <1>11
      <4>2. QED
        BY <4>1
    <3>4. \A n \in Used(d) \ {f} : d3.child[n] = d.child[n]
      BY <1>2, <1>11
    <3>5. QED
      BY <1>1, <1>6, <1>12, <2>1, <2>2, <3>1, <3>2, <3>3, <3>4, Zenon DEF Joinable
  <2>4. QED
    <3>1. Tree(d3, Used(d) \cup {e}, Still, e, P2)
      BY <1>1, <1>13, <2>3, Join
    <3>2. QED
      BY <1>11, <3>1
<1>15. Blank(d3)
  <2>1. ASSUME NEW x \in PlacesOf(d3) \ Used(d3) PROVE d3.child[x] = 0
    <3>1. x \in PlacesOf(d) \ Used(d) /\ x # f
      BY <1>1, <1>11
    <3>2. d.child[x] = 0
      BY <1>1, <3>1 DEF Blank
    <3>3. QED
      BY <1>11, <3>1, <3>2
  <2>2. QED
    BY <2>1 DEF Blank
<1>16. Reached(d3, j, P2, V)
  <2>1. P2[f] = P[f]
    BY <1>1, <1>6, <1>13 DEF Grafted
  <2>2. P[f] = SubSeq(j.key, 1, j.pos) /\ Values(d, Used(d), P, V, j.key)
    BY <1>1 DEF Reached
  <2>3. \A n \in Used(d) : d3.base[n] = d.base[n]
    <3>1. (\A n \in Used(d) : d2.base[n] = d.base[n]) /\ d3.base = d2.base
      BY <1>8, <1>11
    <3>2. QED
      BY <3>1
  <2>4. d3.base[e] = (IF l # 0 THEN -1 ELSE 0)
    BY <1>8, <1>11
  <2>5. Values(d3, Used(d) \cup {e}, P2, V, j.key)
    <3>1. NodeMade(d, Used(d), P, j, d3, e, f, l)
      BY <1>1, <1>6, <2>2, <2>3, <2>4 DEF NodeMade
    <3>2. QED
      BY <1>1, <1>13, <2>2, <3>1, ValuesGrafted
  <2>6. f \in Used(d3) /\ Used(d3) = Used(d) \cup {e}
    BY <1>1, <1>11
  <2>7. QED
    BY <2>1, <2>2, <2>5, <2>6 DEF Reached
<1>17. /\ e \in Used(d3) \ {0} /\ d3.check[e] = j.from
       /\ e = Xor(d3.base[j.from], LabelOf(j)) /\ d3.base[j.from] \in Nat
  BY <1>3, <1>5, <1>8, <1>11
<1>18. QED
  BY <1>1, <1>11, <1>14, <1>15, <1>16, <1>17, Arriving

\* The edge is there: the update goes along it.
LEMMA FollowEdgeHolds ==
  ASSUME NEW d, SpaceInv(d), NEW j, NEW P, NEW V, TreeInv(d, j, P, V), j.pc = "update", j.step = "follow",
         NEW f, f = j.from, d.base[f] >= 0, NEW e, e = Xor(d.base[f], LabelOf(j)), d.check[e] = f
  PROVE  Holds(Arrived(d, j, e), JobThen(j, e), ValuesThen(V, j))
<1>1. /\ JobType(j) /\ Reached(d, j, P, V) /\ Blank(d) /\ Tree(d, Used(d), Still, f, P)
      /\ f \in Used(d) /\ LabelOf(j) \in Labels /\ ~ IsTerminal(P, f)
  BY FollowFacts
<1>2. ArrayType(d) /\ 0 \in Used(d) /\ PlacesOf(d) \subseteq Nat
  BY <1>1, ArrayFacts DEF SpaceInv, Tree
<1>3. e \in PlacesOf(d) /\ d.base[f] \in Nat
  BY <1>1, <1>2, BaseOf
<1>4. f \in Nat /\ d.check[0] < 0
  BY <1>1, <1>2 DEF Tree, Bases
<1>5. e \in Used(d) \ {0}
  BY <1>3, <1>4 DEF Used
<1>6. Tree(d, Used(d), Still, e, P)
  <2>1. Bases(d, Used(d), e, P)
    <3>1. \A n \in Used(d) \ {0} : Based(d, n, P) \/ (n = f /\ Bare(d, Used(d), n))
      BY <1>1 DEF Tree, Bases
    <3>2. ~ Bare(d, Used(d), f)
      BY <1>3 DEF Bare
    <3>3. QED
      BY <1>1, <3>1, <3>2 DEF Tree, Bases
  <2>2. QED
    BY <1>1, <2>1 DEF Tree
<1>7. QED
  BY <1>1, <1>3, <1>5, <1>6, Arriving

\* A node that has children, or a base, or is not awaited, has what it needs.
LEMMA BasedIs ==
  ASSUME NEW d, NEW U, NEW mv, NEW c, NEW P, Tree(d, U, mv, c, P), NEW n \in U \ {0},
         n # c \/ d.base[n] >= 0 \/ IsTerminal(P, n) \/ \E m \in U \ {0} : d.check[m] = n
  PROVE  Based(d, n, P)
<1>1. Based(d, n, P) \/ (n = c /\ ~ IsTerminal(P, n) /\ Bare(d, U, n))
  BY DEF Tree, Bases
<1>2. ASSUME n = c, ~ IsTerminal(P, n), Bare(d, U, n) PROVE FALSE
  <2>1. d.base[n] = -1 /\ ~ (-1 >= 0)
    BY <1>2 DEF Bare
  <2>2. ~ (d.base[n] >= 0)
    BY <2>1
  <2>3. \E m \in U \ {0} : d.check[m] = n
    BY <1>2, <2>2
  <2>4. QED
    BY <1>2, <2>3 DEF Bare
<1>3. QED
  BY <1>1, <1>2

\* The update may be at another node than the one that was awaited.
LEMMA ComeTo ==
  ASSUME NEW d, NEW U, NEW mv, NEW c, NEW P, Tree(d, U, mv, c, P), c = 0 \/ d.base[c] >= 0, NEW c2
  PROVE  Tree(d, U, mv, c2, P)
<1>1. \A n \in U \ {0} : Based(d, n, P)
  BY BasedIs
<1>2. Bases(d, U, c2, P)
  BY <1>1 DEF Tree, Bases
<1>3. QED
  BY <1>2 DEF Tree

\* The labels t of the mover's children, those it is to have included.
Sought(d, j, m, t) ==
  /\ IsChain(d, Used(d), m.mover, t)
  /\ IF m.newcomer
       THEN Enlarged(t, LabelOf(j), m.labels) /\ \A i \in 1 .. Len(t) : t[i] # LabelOf(j)
       ELSE m.labels = t

\* Both parents have children, and none is the root, whose children are alone in
\* block 0.
LEMMA AskedFacts ==
  ASSUME NEW d, ArrayType(d), NEW j, NEW P, NEW V, JobType(j), Reached(d, j, P, V), NEW U, U = Used(d),
         NEW c, Tree(d, U, Still, c, P), NEW m, Asked(d, j, m)
  PROVE  /\ m.mover \in U \ {0} /\ ~ IsTerminal(P, m.mover)
         /\ m.newcomer <=> m.mover = j.from
         /\ d.base[m.mover] \in PlacesOf(d) /\ d.base[m.mover] \in Nat /\ BlockOf(d.base[m.mover]) # 0
         /\ \E t : Sought(d, j, m, t)
         /\ IsOrder(m.labels) /\ Len(m.labels) \in 1 .. B
<1> DEFINE f == j.from
           l == LabelOf(j)
           x == m.conflict
           q == d.check[x]
<1>1. /\ f \in U /\ l \in Labels /\ ~ IsTerminal(P, f) /\ 0 \in U /\ U \subseteq PlacesOf(d)
      /\ PlacesOf(d) \subseteq Nat /\ d.base[0] = 0
  BY JobFacts, ArrayFacts DEF Reached, Tree, Bases
<1>2. /\ d.base[f] >= 0 /\ x = Xor(d.base[f], l) /\ x \in U \ {0} /\ q # f
      /\ m.newcomer \in BOOLEAN /\ m.mover = IF m.newcomer THEN f ELSE q
  BY DEF Asked, Conflict
<1>3. PICK k \in Labels : q \in U /\ ~ IsTerminal(P, q) /\ x = Xor(Hang(d, Still, x), k)
  BY <1>2, NodeFacts
<1>4. x = Xor(d.base[q], k)
  <2>1. q # Still.mover
    BY <1>1, <1>3 DEF Still
  <2>2. QED
    BY <1>3, <2>1 DEF Hang
<1> HIDE DEF q, x, l, f
<1>5. d.base[q] >= 0
  <2>1. CASE q = 0
    BY <1>1, <2>1
  <2>2. CASE q # 0
    <3>1. Based(d, q, P)
      BY <1>2, <1>3, <2>2, BasedIs DEF q
    <3>2. QED
      BY <1>1, <1>3, <3>1 DEF Based
  <2>3. QED
    BY <2>1, <2>2
<1>6. /\ d.base[f] \in PlacesOf(d) /\ d.base[f] \in Nat /\ (f # 0 => BlockOf(d.base[f]) # 0)
      /\ d.base[q] \in PlacesOf(d) /\ d.base[q] \in Nat /\ (q # 0 => BlockOf(d.base[q]) # 0)
  BY <1>1, <1>2, <1>3, <1>5, BaseOf
<1>7. BlockOf(x) = BlockOf(d.base[f]) /\ BlockOf(x) = BlockOf(d.base[q])
  <2>1. l \in Labels /\ k \in Labels
    BY <1>1
  <2>2. BlockOf(Xor(d.base[f], l)) = BlockOf(d.base[f]) /\ BlockOf(Xor(d.base[q], k)) = BlockOf(d.base[q])
    BY ONLY <1>6, <2>1, XorFacts
  <2>3. QED
    BY <1>2, <1>4, <2>2
<1>8. f # 0 /\ q # 0
  BY <1>1, <1>2, <1>6, <1>7, RootBlock
<1>9. m.mover \in {f, q} /\ (m.newcomer <=> m.mover = f)
  BY <1>2
<1>10. \E t : Sought(d, j, m, t)
  <2>1. CASE m.newcomer
    <3>1. PICK t : IsChain(d, U, m.mover, t) /\ m.labels = WithLabel(t, l)
      BY <2>1 DEF Asked, l
    <3>2. \A i \in 1 .. Len(t) : t[i] # l
      <4>1. ASSUME NEW i \in 1 .. Len(t), t[i] = l PROVE FALSE
        <5>1. Parent(d, x) = f
          BY <1>2, <2>1, <3>1, <4>1 DEF IsChain
        <5>2. QED
          BY <1>2, <5>1 DEF Parent, q
      <4>2. QED
        BY <4>1
    <3>3. Enlarged(t, l, m.labels)
      BY <1>1, <3>1, <3>2, ChainChildren, WithLabelFacts
    <3>4. Sought(d, j, m, t)
      BY <2>1, <3>1, <3>2, <3>3 DEF Sought, l
    <3>5. QED
      BY <3>4
  <2>2. CASE ~ m.newcomer
    BY <2>2 DEF Asked, Sought
  <2>3. QED
    BY <2>1, <2>2
<1>11. IsOrder(m.labels) /\ Len(m.labels) \in 1 .. B
  <2>1. PICK t : Sought(d, j, m, t)
    BY <1>10
  <2>2. IsOrder(m.labels)
    <3>1. CASE m.newcomer
      BY <2>1, <3>1 DEF Sought, Enlarged
    <3>2. CASE ~ m.newcomer
      BY <2>1, <3>2, ChainChildren DEF Sought
    <3>3. QED
      BY <3>1, <3>2
  <2>3. QED
    BY <2>2, OrderShort
<1>12. QED
  BY <1>1, <1>3, <1>6, <1>8, <1>9, <1>10, <1>11 DEF f

\* A chain whose node and members are as they were.
LEMMA ChainStays ==
  ASSUME NEW d, NEW U, NEW n, NEW s, IsChain(d, U, n, s), NEW d2,
         d2.base[n] = d.base[n], d2.child[n] = d.child[n],
         \A x \in U : Parent(d2, x) = Parent(d, x) /\ d2.sibling[x] = d.sibling[x]
  PROVE  IsChain(d2, U, n, s)
<1>1. \A x \in U : Parent(d, x) = n => x \in U /\ Parent(d2, x) = n /\ d2.sibling[x] = d.sibling[x]
  OBVIOUS
<1>2. \A x \in U : Parent(d2, x) = n => x \in U /\ Parent(d, x) = n
  OBVIOUS
<1>3. QED
  BY <1>1, <1>2, ChainMoves

\* An update that goes on with the same label.
LEMMA JobSame ==
  ASSUME NEW j, JobType(j), NEW j2, j2 = [x \in DOMAIN j |-> j2[x]],
         j2.pc = j.pc, j2.key = j.key, j2.pos = j.pos, j2.val = j.val
  PROVE  /\ JobType(j2) /\ LabelOf(j2) = LabelOf(j) /\ j2.pc = "update"
         /\ \A d, P, V : j2.from = j.from /\ Reached(d, j, P, V) => Reached(d, j2, P, V)
<1>1. /\ j = [pc |-> "update", step |-> j.step, key |-> j.key, pos |-> j.pos, from |-> j.from,
              val |-> j.val, place |-> j.place]
      /\ j.key \in Keys /\ j.pos \in 0 .. Len(j.key) /\ j.val \in Nat \ {NoValue}
  BY DEF JobType
<1>2. DOMAIN j = {"pc", "step", "key", "pos", "from", "val", "place"} /\ j.pc = "update"
  BY <1>1
<1>3. j2 = [pc |-> "update", step |-> j2.step, key |-> j2.key, pos |-> j2.pos, from |-> j2.from,
            val |-> j2.val, place |-> j2.place]
  BY <1>2
<1>4. JobType(j2)
  BY <1>1, <1>3, Zenon DEF JobType
<1>5. QED
  BY <1>2, <1>4 DEF LabelOf, Reached

\* The array and the job once _resolve has found a base, as Settle has them.
SettledArray(d, j, m, base) ==
  [d EXCEPT !.base[m.mover] = base,
            !.child[m.mover] = IF m.newcomer /\ m.labels[1] = LabelOf(j) THEN LabelOf(j) ELSE @]

SettledJob(j, m, old, base) ==
  [j EXCEPT !.step = "move", !.place =
     [mover |-> m.mover, newcomer |-> m.newcomer, conflict |-> m.conflict,
      labels |-> m.labels, old |-> old, base |-> base, at |-> 1]]

\* f has a new base, and the place of its children is said by mv.
Loosened(d, U, P, f, d2, mv) ==
  /\ f \in U \ {0} /\ ~ IsTerminal(P, f) /\ PlacesOf(d2) = PlacesOf(d)
  /\ d2.base[f] \in PlacesOf(d) /\ BlockOf(d2.base[f]) # 0
  /\ \A n \in U : d2.check[n] = d.check[n] /\ d2.sibling[n] = d.sibling[n]
  /\ \A n \in U \ {f} : d2.base[n] = d.base[n] /\ d2.child[n] = d.child[n]
  /\ mv.mover = f /\ mv.old = d.base[f]
  /\ \A n \in U \ {0} : n \in mv.left <=> d.check[n] = f

\* The mover's children are where they were, but it is no longer said by its base.
LEMMA SettleTree ==
  ASSUME NEW d, NEW U, 0 \in U, NEW c, NEW P, Tree(d, U, Still, c, P), c = 0 \/ d.base[c] >= 0,
         U \subseteq Nat, NEW f, NEW d2, NEW mv, Loosened(d, U, P, f, d2, mv), NEW c2
  PROVE  Tree(d2, U, mv, c2, P)
<1>0. SUFFICES
      ASSUME f \in U \ {0}, ~ IsTerminal(P, f), PlacesOf(d2) = PlacesOf(d),
             d2.base[f] \in PlacesOf(d), BlockOf(d2.base[f]) # 0,
             \A n \in U : d2.check[n] = d.check[n] /\ d2.sibling[n] = d.sibling[n],
             \A n \in U \ {f} : d2.base[n] = d.base[n] /\ d2.child[n] = d.child[n],
             mv.mover = f, mv.old = d.base[f], \A n \in U \ {0} : n \in mv.left <=> d.check[n] = f
      PROVE  Tree(d2, U, mv, c2, P)
  BY Zenon DEF Loosened
<1>1. \A n \in U \ {0} : d.check[n] \in U /\ ~ IsTerminal(P, d.check[n])
  BY <1>0, NodeFacts
<1>2. Paths(d2, U, mv, P)
  <2>1. ASSUME NEW n \in U \ {0}
        PROVE  Hang(d2, mv, n) = Hang(d, Still, n) /\ d2.check[n] = d.check[n]
    <3>1. d2.check[n] = d.check[n] /\ d.check[n] \in U /\ d.check[n] # Still.mover
      BY <1>0, <1>1 DEF Still
    <3>2. Hang(d, Still, n) = d.base[d.check[n]]
      BY <1>0, <3>1 DEF Hang
    <3>3. CASE d.check[n] = f
      BY <1>0, <3>1, <3>2, <3>3 DEF Hang
    <3>4. CASE d.check[n] # f
      BY <1>0, <3>1, <3>2, <3>4 DEF Hang
    <3>5. QED
      BY <1>0, <3>1, <3>3, <3>4
  <2>2. Paths(d, U, Still, P)
    BY <1>0 DEF Tree
  <2>3. P \in [U -> Seq(Labels)] /\ P[0] = <<>> /\ \A n, m \in U : P[n] = P[m] => n = m
    BY <1>0, <2>2 DEF Paths
  <2>4. ASSUME NEW n \in U \ {0}
        PROVE  /\ d2.check[n] \in U /\ ~ IsTerminal(P, d2.check[n])
               /\ \E l \in Labels : n = Xor(Hang(d2, mv, n), l) /\ P[n] = Append(P[d2.check[n]], l)
    <3>1. PICK l \in Labels : n = Xor(Hang(d, Still, n), l) /\ P[n] = Append(P[d.check[n]], l)
      BY <1>0, NodeFacts, SMTT(30)
    <3>2. n = Xor(Hang(d2, mv, n), l) /\ P[n] = Append(P[d2.check[n]], l)
      BY <1>0, <2>1, <3>1
    <3>3. QED
      BY <1>0, <1>1, <2>1, <3>2
  <2>5. QED
    BY <1>0, <2>3, <2>4, Zenon DEF Paths
<1>3. Bases(d2, U, c2, P)
  <2>1. ASSUME NEW n \in U \ {0} PROVE Based(d2, n, P)
    <3>1. CASE n = f
      BY <1>0, <3>1 DEF Based
    <3>2. CASE n # f
      <4>1. Based(d, n, P) /\ d2.base[n] = d.base[n]
        BY <1>0, <3>2, BasedIs
      <4>2. QED
        BY <1>0, <4>1 DEF Based
    <3>3. QED
      BY <1>0, <3>1, <3>2
  <2>2. d2.check[0] < 0 /\ d2.base[0] = 0
    BY <1>0 DEF Tree, Bases
  <2>3. QED
    BY <1>0, <2>1, <2>2 DEF Bases
<1>4. Chains(d2, U, mv, P)
  <2>1. ASSUME NEW n \in U, ~ IsTerminal(P, n), d2.base[n] >= 0, n # mv.mover
        PROVE  \E s : IsChain(d2, U, n, s)
    <3>1. d2.base[n] = d.base[n] /\ d2.child[n] = d.child[n] /\ n # Still.mover
      BY <1>0, <2>1 DEF Still
    <3>2. PICK s : IsChain(d, U, n, s)
      BY <1>0, <2>1, <3>1 DEF Tree, Chains
    <3>3. \A x \in U : Parent(d2, x) = Parent(d, x) /\ d2.sibling[x] = d.sibling[x]
      BY <1>0 DEF Parent
    <3>4. IsChain(d2, U, n, s)
      <4>1. d2.base[n] = d.base[n] /\ d2.child[n] = d.child[n]
        BY <1>0, <3>1
      <4>2. QED
        BY <3>2, <3>3, <4>1, ChainStays
    <3>5. QED
      BY <1>0, <3>4
  <2>2. QED
    BY <1>0, <2>1, Zenon DEF Chains
<1>5. QED
  BY <1>0, <1>2, <1>3, <1>4 DEF Tree

SettledSpace(d, d2, j, m, base) ==
  /\ SpaceInv(d2) /\ Used(d2) = Used(d) /\ PlacesOf(d2) = PlacesOf(d) /\ Blank(d2)
  /\ d2.check = d.check /\ d2.sibling = d.sibling /\ d2.base[m.mover] = base
  /\ d2.child[m.mover] = IF m.newcomer /\ m.labels[1] = LabelOf(j) THEN LabelOf(j)
                         ELSE d.child[m.mover]
  /\ \A n \in PlacesOf(d) \ {m.mover} : d2.base[n] = d.base[n] /\ d2.child[n] = d.child[n]

LEMMA SettleArray ==
  ASSUME NEW d, SpaceInv(d), Blank(d), NEW j, NEW m, m.mover \in Used(d), LabelOf(j) \in Labels,
         NEW base \in Nat, NEW d2, d2 = SettledArray(d, j, m, base)
  PROVE  SettledSpace(d, d2, j, m, base)
<1> DEFINE f == m.mover
           k == IF m.newcomer /\ m.labels[1] = LabelOf(j) THEN LabelOf(j) ELSE d.child[f]
<1>1. /\ DOMAIN d = ArrayFields /\ f \in PlacesOf(d) /\ Used(d) \subseteq PlacesOf(d) /\ 0 \in PlacesOf(d)
      /\ d.base \in [PlacesOf(d) -> Int] /\ d.check \in [PlacesOf(d) -> Int]
      /\ d.sibling \in [PlacesOf(d) -> Labels] /\ d.child \in [PlacesOf(d) -> Labels]
  BY ArrayFacts DEF SpaceInv, ArrayType, Used
<1>2. k \in Labels
  BY <1>1
<1>3. d2 = [d EXCEPT !.base[f] = base, !.child[f] = k]
  BY DEF SettledArray
<1> HIDE DEF k, f
<1>4. /\ DOMAIN d2 = ArrayFields /\ d2.size = d.size /\ d2.head = d.head /\ d2.block = d.block
      /\ d2.reject = d.reject /\ d2.check = d.check /\ d2.sibling = d.sibling
      /\ d2.base = [d.base EXCEPT ![f] = base] /\ d2.child = [d.child EXCEPT ![f] = k]
  BY <1>1, <1>3 DEF ArrayFields
<1>5. d2.base \in [PlacesOf(d) -> Int] /\ d2.child \in [PlacesOf(d) -> Labels]
  BY <1>1, <1>2, <1>4
<1>6. \A e \in PlacesOf(d) \ Used(d) : d2.base[e] = d.base[e] /\ d2.check[e] = d.check[e]
  BY <1>1, <1>4 DEF f
<1>7. \A e \in Used(d) \ {0} : d2.check[e] >= 0
  BY <1>4 DEF Used
<1>8. SpaceInv(d2) /\ Used(d2) = Used(d) /\ PlacesOf(d2) = PlacesOf(d)
  BY <1>1, <1>4, <1>5, <1>6, <1>7, TouchSpace
<1>9. Blank(d2)
  <2>1. ASSUME NEW x \in PlacesOf(d2) \ Used(d2) PROVE d2.child[x] = 0
    <3>1. x \in PlacesOf(d) \ Used(d) /\ x # f
      BY <1>8 DEF f
    <3>2. d.child[x] = 0
      BY <3>1 DEF Blank
    <3>3. QED
      BY <1>1, <1>4, <3>1, <3>2
  <2>2. QED
    BY <2>1 DEF Blank
<1>10. /\ d2.base[f] = base /\ d2.child[f] = k
       /\ \A n \in PlacesOf(d) \ {f} : d2.base[n] = d.base[n] /\ d2.child[n] = d.child[n]
  BY <1>1, <1>4
<1>11. QED
  BY <1>4, <1>8, <1>9, <1>10 DEF f, k, SettledSpace


\* A base is found: the moves begin.
LEMMA SettleHolds ==
  ASSUME NEW d, SpaceInv(d), Blank(d), NEW j, NEW P, NEW V, JobType(j), Reached(d, j, P, V),
         NEW c, Tree(d, Used(d), Still, c, P), c = 0 \/ d.base[c] >= 0,
         NEW m, Asked(d, j, m), NEW s, s = m.labels, NEW e \in PlacesOf(d), BlockOf(e) # 0,
         NEW base, base = Xor(e, s[1]), \A i \in 1 .. Len(s) : d.check[Xor(base, s[i])] < 0,
         NEW old, old = d.base[m.mover],
         NEW d2, d2 = SettledArray(d, j, m, base), NEW j2, j2 = SettledJob(j, m, old, base)
  PROVE  Holds(d2, j2, V)
<1> DEFINE f == m.mover
           l == LabelOf(j)
           U == Used(d)
<1>1. /\ f \in U \ {0} /\ ~ IsTerminal(P, f)
      /\ m.newcomer <=> f = j.from
      /\ old \in PlacesOf(d) /\ old \in Nat /\ BlockOf(old) # 0
      /\ IsOrder(s) /\ Len(s) \in 1 .. B
      /\ l \in Labels /\ j.from \in U
  <2>1. ArrayType(d)
    BY DEF SpaceInv
  <2>2. QED
    BY <2>1, AskedFacts, JobFacts DEF Reached
<1>2. PICK t : Sought(d, j, m, t)
  <2>1. ArrayType(d)
    BY DEF SpaceInv
  <2>2. QED
    BY <2>1, AskedFacts
<1>3. /\ d.base[j.from] >= 0 /\ m.conflict = Xor(d.base[j.from], l)
      /\ m.conflict \in U \ {0} /\ d.check[m.conflict] # j.from
      /\ m.newcomer \in BOOLEAN
      /\ f = IF m.newcomer THEN j.from ELSE d.check[m.conflict]
  BY DEF Asked, Conflict
<1>4. PlacesOf(d) \subseteq Nat /\ U \subseteq PlacesOf(d) /\ 0 \in U
  BY ArrayFacts DEF SpaceInv, Tree
<1>5. base \in Nat /\ base \in PlacesOf(d) /\ BlockOf(base) # 0
  <2>1. e \in Nat /\ s[1] \in Labels
    BY <1>1, <1>4 DEF IsOrder
  <2>2. base \in Nat /\ BlockOf(base) = BlockOf(e)
    BY <2>1, XorFacts
  <2>3. QED
    BY <2>1, <2>2, ArrayFacts DEF SpaceInv
<1>6. /\ SpaceInv(d2) /\ Used(d2) = U /\ PlacesOf(d2) = PlacesOf(d) /\ Blank(d2)
      /\ d2.check = d.check /\ d2.sibling = d.sibling /\ d2.base[f] = base
      /\ d2.child[f] = IF m.newcomer /\ s[1] = l THEN l ELSE d.child[f]
      /\ \A n \in PlacesOf(d) \ {f} : d2.base[n] = d.base[n] /\ d2.child[n] = d.child[n]
  <2>1. SettledSpace(d, d2, j, m, base)
    BY <1>1, <1>5, SettleArray, Zenon
  <2>2. QED
    BY <2>1 DEF SettledSpace
<1>7. /\ JobType(j2) /\ j2.pc = "update" /\ j2.step = "move" /\ j2.from = j.from
      /\ j2.place = [mover |-> f, newcomer |-> m.newcomer, conflict |-> m.conflict,
                     labels |-> s, old |-> old, base |-> base, at |-> 1]
      /\ LabelOf(j2) = l /\ Reached(d2, j2, P, V)
  <2> DEFINE pl == [mover |-> f, newcomer |-> m.newcomer, conflict |-> m.conflict,
                    labels |-> s, old |-> old, base |-> base, at |-> 1]
  <2>1. j2 = [j EXCEPT !.step = "move", !.place = pl]
    BY DEF SettledJob
  <2>2. DOMAIN j = {"pc", "step", "key", "pos", "from", "val", "place"}
    <3>1. j = [pc |-> "update", step |-> j.step, key |-> j.key, pos |-> j.pos, from |-> j.from,
               val |-> j.val, place |-> j.place]
      BY DEF JobType
    <3>2. QED
      BY <3>1
  <2> HIDE DEF pl
  <2>3. /\ j2 = [x \in DOMAIN j |-> j2[x]] /\ j2.pc = j.pc /\ j2.key = j.key /\ j2.pos = j.pos
        /\ j2.val = j.val /\ j2.from = j.from /\ j2.step = "move" /\ j2.place = pl
    BY <2>1, <2>2
  <2>4. JobType(j2) /\ LabelOf(j2) = l /\ j2.pc = "update" /\ Reached(d, j2, P, V)
    <3>1. JobType(j) /\ Reached(d, j, P, V) /\ l = LabelOf(j)
      OBVIOUS
    <3>2. QED
      BY ONLY <2>3, <3>1, JobSame
  <2>5. Reached(d2, j2, P, V)
    <3>1. \A n \in U : IsTerminal(P, n) => d2.base[n] = d.base[n]
      BY <1>1, <1>4, <1>6
    <3>2. j2.key \in Keys /\ Values(d, U, P, V, j2.key)
      BY <2>4 DEF Reached, JobType
    <3>3. Values(d2, U, P, V, j2.key)
      BY <3>1, <3>2, ValuesKept
    <3>4. QED
      BY <1>6, <2>4, <3>3 DEF Reached
  <2>6. QED
    BY <2>3, <2>4, <2>5 DEF pl
<1> DEFINE left == Unmoved(j2)
<1>8. left = {Xor(old, s[i]) : i \in {k \in 1 .. Len(s) : ~ (m.newcomer /\ s[k] = l)}}
  BY <1>7 DEF Unmoved, IsNewcomer
<1>9. /\ IsChain(d, U, f, t)
      /\ \A i \in 1 .. Len(t) : \E k \in 1 .. Len(s) : s[k] = t[i] /\ ~ (m.newcomer /\ s[k] = l)
      /\ \A i \in 1 .. Len(s) : ~ (m.newcomer /\ s[i] = l) => \E k \in 1 .. Len(t) : s[i] = t[k]
  <2>1. IsChain(d, U, f, t)
    BY <1>2 DEF Sought
  <2>2. CASE m.newcomer
    <3>1. Enlarged(t, l, s) /\ \A i \in 1 .. Len(t) : t[i] # l
      BY <1>2, <2>2 DEF Sought
    <3>2. /\ \A i \in 1 .. Len(t) : \E k \in 1 .. Len(s) : s[k] = t[i]
          /\ \A i \in 1 .. Len(s) : s[i] = l \/ \E k \in 1 .. Len(t) : s[i] = t[k]
      BY <3>1, Zenon DEF Enlarged
    <3>3. \A i \in 1 .. Len(t) : \E k \in 1 .. Len(s) : s[k] = t[i] /\ s[k] # l
      BY ONLY <3>1, <3>2, Zenon
    <3>4. QED
      BY ONLY <2>1, <2>2, <3>2, <3>3, Zenon
  <2>3. CASE ~ m.newcomer
    <3>1. s = t
      BY <1>2, <2>3 DEF Sought
    <3>2. QED
      BY <2>1, <2>3, <3>1
  <2>4. QED
    BY <2>2, <2>3
<1>10. \A n \in left : n \in U /\ n # 0 /\ d.check[n] = f
  <2>1. ASSUME NEW n \in left PROVE n \in U /\ n # 0 /\ d.check[n] = f
    <3>1. PICK i \in 1 .. Len(s) : ~ (m.newcomer /\ s[i] = l) /\ n = Xor(old, s[i])
      BY <1>8, <2>1
    <3>2. PICK k \in 1 .. Len(t) : s[i] = t[k]
      BY <1>9, <3>1
    <3>3. n \in U /\ Parent(d, n) = f
      BY <1>9, <3>1, <3>2 DEF IsChain
    <3>4. QED
      BY <1>1, <3>3 DEF Parent
  <2>2. QED
    BY <2>1
<1>11. \A n \in U \ {0} : d.check[n] = f => n \in left
  <2>1. ASSUME NEW n \in U \ {0}, d.check[n] = f PROVE n \in left
    <3>1. Parent(d, n) = f
      BY <2>1 DEF Parent
    <3>2. PICK i \in 1 .. Len(t) : n = Xor(old, t[i])
      BY <1>9, <3>1 DEF IsChain
    <3>3. PICK k \in 1 .. Len(s) : s[k] = t[i] /\ ~ (m.newcomer /\ s[k] = l)
      BY <1>9
    <3>4. n = Xor(old, s[k])
      BY <3>2, <3>3
    <3>5. QED
      BY <1>8, <3>3, <3>4
  <2>2. QED
    BY <2>1
<1>14. d2.child[f] = s[1]
  <2>1. d.child[f] = t[1]
    BY <1>9 DEF IsChain
  <2>2. CASE m.newcomer
    <3>1. Enlarged(t, l, s)
      BY <1>2, <2>2 DEF Sought
    <3>2. IF t[1] = 0 THEN s[1] = 0 ELSE s[1] = l
      BY <3>1 DEF Enlarged
    <3>3. QED
      BY <1>6, <2>1, <2>2, <3>2
  <2>3. CASE ~ m.newcomer
    <3>1. s = t
      BY <1>2, <2>3 DEF Sought
    <3>2. QED
      BY <1>6, <2>1, <2>3, <3>1
  <2>4. QED
    BY <2>2, <2>3
<1>15. IF m.newcomer
         THEN /\ \E k \in 1 .. Len(s) : s[k] = l
              /\ m.conflict = Xor(old, l) /\ d2.check[m.conflict] # f
         ELSE /\ m.conflict = Conflict(d2, j2)
              /\ \E k \in 1 .. Len(s) :
                   /\ m.conflict = Xor(old, s[k])
                   /\ d2.check[m.conflict] = IF 1 <= k THEN f ELSE j2.from
  <2>1. CASE m.newcomer
    <3>1. Enlarged(t, l, s)
      BY <1>2, <2>1 DEF Sought
    <3>2. \E k \in 1 .. Len(s) : s[k] = l
      BY <3>1, Zenon DEF Enlarged
    <3>3. m.conflict = Xor(old, l) /\ d2.check[m.conflict] # f
      BY <1>3, <1>6, <2>1
    <3>4. QED
      BY <2>1, <3>2, <3>3
  <2>2. CASE ~ m.newcomer
    <3>1. d.check[m.conflict] = f /\ j.from # f
      BY <1>1, <1>3, <2>2
    <3>2. m.conflict = Conflict(d2, j2)
      <4>1. d2.base[j.from] = d.base[j.from]
        BY <1>1, <1>4, <1>6, <3>1
      <4>2. QED
        BY <1>3, <1>7, <4>1 DEF Conflict
    <3>3. PICK k \in 1 .. Len(s) : m.conflict = Xor(old, s[k])
      <4>1. m.conflict \in left
        BY <1>3, <1>11, <3>1
      <4>2. QED
        BY <1>8, <4>1
    <3>4. 1 <= k
      BY <1>1, <3>3
    <3>5. d2.check[m.conflict] = f
      BY <1>6, <3>1
    <3>6. QED
      BY <2>2, <3>2, <3>3, <3>4, <3>5
  <2>3. QED
    BY <2>1, <2>2
<1>16. MoveInv(d2, j2, P)
  <2> DEFINE p == j2.place
  <2>1. /\ p.mover = f /\ p.newcomer = m.newcomer /\ p.conflict = m.conflict /\ p.labels = s
        /\ p.old = old /\ p.base = base /\ p.at = 1
        /\ p = [mover |-> p.mover, newcomer |-> p.newcomer, conflict |-> p.conflict,
                labels |-> s, old |-> p.old, base |-> p.base, at |-> p.at]
    BY <1>7
  <2> HIDE DEF p
  <2>2. /\ m.newcomer \in BOOLEAN /\ f \in Used(d2) \ {0} /\ ~ IsTerminal(P, f)
        /\ m.newcomer <=> f = j2.from
        /\ d2.base[f] = base /\ base \in PlacesOf(d2) /\ BlockOf(base) # 0
        /\ old \in PlacesOf(d2) /\ BlockOf(old) # 0
    BY <1>1, <1>3, <1>5, <1>6, <1>7
  <2>3. /\ s \in Seq(Labels) /\ s # <<>> /\ 1 \in 1 .. Len(s) + 1 /\ d2.child[f] = s[1]
        /\ \A i, k \in 1 .. Len(s) : s[i] = s[k] => i = k
        /\ \A i \in 2 .. Len(s) : s[i] # 0
    BY <1>1, <1>14 DEF IsOrder
  <2>4. \A i \in 1 .. Len(s) : d2.check[Xor(base, s[i])] < 0
    BY <1>6
  <2>5. /\ \A n \in left : n \in Used(d2) /\ d2.check[n] = f
        /\ \A n \in Used(d2) \ {0} : d2.check[n] = f => n \in left
    BY <1>6, <1>10, <1>11
  <2>6. d2.base[j2.from] >= 0 /\ m.conflict \in Used(d2) \ {0}
    <3>1. base >= 0
      BY <1>5
    <3>2. CASE j.from = f
      <4>1. d2.base[j2.from] = base
        BY <1>6, <1>7, <3>2
      <4>2. QED
        BY <1>3, <1>6, <3>1, <4>1
    <3>3. CASE j.from # f
      <4>1. d2.base[j.from] = d.base[j.from]
        BY <1>1, <1>4, <1>6, <3>3
      <4>2. d2.base[j2.from] >= 0
        BY <1>3, <1>7, <4>1
      <4>3. QED
        BY <1>3, <1>6, <4>2
    <3>4. QED
      BY <3>2, <3>3
  <2> HIDE DEF left, f, l, U
  <2>7. /\ p.newcomer \in BOOLEAN /\ p.mover \in Used(d2) \ {0} /\ ~ IsTerminal(P, p.mover)
        /\ p.newcomer <=> p.mover = j2.from
        /\ d2.base[p.mover] = p.base /\ p.base \in PlacesOf(d2) /\ BlockOf(p.base) # 0
        /\ p.old \in PlacesOf(d2) /\ BlockOf(p.old) # 0
    BY <2>1, <2>2
  <2>8. /\ p.labels \in Seq(Labels) /\ p.labels # <<>> /\ p.at \in 1 .. Len(p.labels) + 1
        /\ d2.child[p.mover] = p.labels[1]
        /\ \A i, k \in 1 .. Len(p.labels) : p.labels[i] = p.labels[k] => i = k
        /\ \A i \in 2 .. Len(p.labels) : p.labels[i] # 0
    BY <2>1, <2>3
  <2>9. /\ \A i \in 1 .. p.at - 1 :
             /\ Xor(p.base, p.labels[i]) \in Used(d2) /\ d2.check[Xor(p.base, p.labels[i])] = p.mover
             /\ Xor(p.base, p.labels[i]) \notin left
             /\ d2.sibling[Xor(p.base, p.labels[i])] = IF i < Len(p.labels) THEN p.labels[i + 1] ELSE 0
        /\ \A i \in p.at .. Len(p.labels) : d2.check[Xor(p.base, p.labels[i])] < 0
    BY <2>1, <2>4
  <2>10. /\ \A n \in left : n \in Used(d2) /\ d2.check[n] = p.mover
         /\ \A n \in Used(d2) \ {0} : d2.check[n] = p.mover =>
              n \in left \/ \E i \in 1 .. p.at - 1 : n = Xor(p.base, p.labels[i])
         /\ d2.base[j2.from] >= 0 /\ p.conflict \in Used(d2) \ {0}
    BY <2>1, <2>5, <2>6
  <2>11. IF p.newcomer
           THEN /\ \E k \in 1 .. Len(p.labels) : p.labels[k] = LabelOf(j2)
                /\ p.conflict = Xor(p.old, LabelOf(j2)) /\ d2.check[p.conflict] # p.mover
           ELSE /\ p.conflict = Conflict(d2, j2)
                /\ \E k \in 1 .. Len(p.labels) :
                     /\ p.conflict = Xor(p.old, p.labels[k])
                     /\ d2.check[p.conflict] = IF p.at <= k THEN p.mover ELSE j2.from
    BY <1>7, <1>15, <2>1
  <2>12. p = [mover |-> p.mover, newcomer |-> p.newcomer, conflict |-> p.conflict,
              labels |-> p.labels, old |-> p.old, base |-> p.base, at |-> p.at]
    BY <2>1
  <2>13. QED
    BY <2>7, <2>8, <2>9, <2>10, <2>11, <2>12, Zenon DEF MoveInv, left, p
<1>12. TreeInv(d2, j2, P, V)
  <2>1. Moving(j2)
    BY <1>7 DEF Moving
  <2>2. /\ MoveOf(j2).mover = f /\ MoveOf(j2).old = d.base[f] /\ MoveOf(j2).left = left
    BY <1>7 DEF MoveOf
  <2>3. \A n \in U : d2.check[n] = d.check[n] /\ d2.sibling[n] = d.sibling[n]
    BY <1>6
  <2>4. \A n \in U \ {f} : d2.base[n] = d.base[n] /\ d2.child[n] = d.child[n]
    BY <1>4, <1>6
  <2>5. \A n \in U \ {0} : n \in MoveOf(j2).left <=> d.check[n] = f
    BY <1>10, <1>11, <2>2
  <2>6. Tree(d2, U, MoveOf(j2), ComingOf(j2), P)
    <3>1. U \subseteq Nat /\ d2.base[f] \in PlacesOf(d) /\ BlockOf(d2.base[f]) # 0
      BY <1>4, <1>5, <1>6
    <3>2. Loosened(d, U, P, f, d2, MoveOf(j2))
      BY <1>1, <1>6, <2>2, <2>3, <2>4, <2>5, <3>1, Zenon DEF Loosened
    <3>3. QED
      BY <1>4, <3>1, <3>2, SettleTree
  <2>7. JobInv(d2, j2, P, V)
    <3>1. j2.place.at <= Len(j2.place.labels)
      BY <1>1, <1>7
    <3>2. QED
      BY <1>7, <1>16, <3>1 DEF JobInv
  <2>8. QED
    BY <1>6, <2>1, <2>6, <2>7 DEF TreeInv
<1>13. QED
  BY <1>6, <1>12 DEF Holds

-----------------------------------------------------------------------------
(* Walks *)

Walkable(S, a, nx, n) ==
  \E r \in [1 .. n -> S] : \A i \in 1 .. n : r[i] = IF i = 1 THEN a ELSE nx[r[i - 1]]

\* One can follow links that stay in a set for as long as one likes.
LEMMA WalkExists ==
  ASSUME NEW S, NEW a \in S, NEW nx, \A x \in S : nx[x] \in S, NEW n \in Nat
  PROVE  Walkable(S, a, nx, n)
<1> DEFINE Good(k) ==
             \E r \in [1 .. k -> S] : \A i \in 1 .. k : r[i] = IF i = 1 THEN a ELSE nx[r[i - 1]]
           W == {k \in Nat : ~ Good(k)}
<1>1. ASSUME W # {} PROVE FALSE
  <2>1. PICK k \in W : \A m \in W : k <= m
    <3>1. W \subseteq Nat
      OBVIOUS
    <3> HIDE DEF W
    <3>2. QED
      BY <1>1, <3>1, LeastNatural
  <2>2. k # 0
    <3>1. Good(0)
      <4>1. [i \in 1 .. 0 |-> a] \in [1 .. 0 -> S] /\ \A i \in 1 .. 0 : FALSE
        OBVIOUS
      <4>2. QED
        BY <4>1
    <3>2. QED
      BY <2>1, <3>1, ZenonT(30)
  <2>3. k \in Nat /\ k - 1 \in Nat /\ ~ k <= k - 1
    BY <2>1, <2>2
  <2>4. Good(k - 1)
    BY <2>1, <2>3
  <2>5. PICK r \in [1 .. k - 1 -> S] : \A i \in 1 .. k - 1 : r[i] = IF i = 1 THEN a ELSE nx[r[i - 1]]
    BY <2>4
  <2> DEFINE v == IF k = 1 THEN a ELSE nx[r[k - 1]]
             q == [i \in 1 .. k |-> IF i = k THEN v ELSE r[i]]
  <2>6. v \in S
    BY <2>3, <2>5
  <2>7. q \in [1 .. k -> S]
    <3> HIDE DEF v
    <3>1. \A i \in 1 .. k : i # k => i \in 1 .. k - 1
      BY <2>3
    <3>2. QED
      BY <2>5, <2>6, <3>1
  <2>8. ASSUME NEW i \in 1 .. k PROVE q[i] = IF i = 1 THEN a ELSE nx[q[i - 1]]
    <3>1. CASE i = k
      <4>1. q[i] = v /\ (k # 1 => k - 1 \in 1 .. k /\ k - 1 # k)
        BY <2>3, <3>1
      <4>2. k # 1 => q[k - 1] = r[k - 1]
        BY <4>1
      <4>3. QED
        BY <3>1, <4>1, <4>2
    <3>2. CASE i # k
      <4>1. i \in 1 .. k - 1 /\ q[i] = r[i] /\ (i # 1 => i - 1 \in 1 .. k /\ i - 1 # k)
        BY <2>3, <3>2
      <4>2. i # 1 => q[i - 1] = r[i - 1]
        BY <4>1
      <4>3. r[i] = IF i = 1 THEN a ELSE nx[r[i - 1]]
        BY <2>5, <4>1
      <4>4. QED
        BY <4>1, <4>2, <4>3
    <3>3. QED
      BY <3>1, <3>2
  <2>9. Good(k)
    <3> HIDE DEF q
    <3>1. QED
      BY <2>7, <2>8
  <2>10. QED
    BY <2>1, <2>9
<1>2. Good(n)
  BY <1>1
<1>3. QED
  BY <1>2 DEF Walkable

\* A walk that begins in a set and whose steps stay in it is in it.
LEMMA WalkIn ==
  ASSUME NEW S, NEW n \in Nat, NEW r, n >= 1 => r[1] \in S,
         \A i \in 2 .. n : r[i - 1] \in S => r[i] \in S
  PROVE  \A i \in 1 .. n : r[i] \in S
<1> DEFINE W == {i \in 1 .. n : r[i] \notin S}
<1>1. ASSUME W # {} PROVE FALSE
  <2>1. PICK i \in W : \A k \in W : i <= k
    <3>1. W \subseteq Nat
      OBVIOUS
    <3> HIDE DEF W
    <3>2. QED
      BY <1>1, <3>1, LeastNatural
  <2>2. i \in 1 .. n /\ r[i] \notin S
    BY <2>1
  <2>3. i # 1 /\ i - 1 \in 1 .. n /\ ~ i <= i - 1 /\ i \in 2 .. n
    BY <2>2
  <2>4. i - 1 \notin W
    <3> HIDE DEF W
    <3>1. QED
      BY <2>1, <2>3
  <2>5. r[i - 1] \in S
    BY <2>3, <2>4
  <2>6. QED
    BY <2>2, <2>3, <2>5
<1>2. QED
  BY <1>1

\* A block's empty nodes are what one meets from its ehead on.
LEMMA RingIs ==
  ASSUME NEW d, SpaceInv(d), NEW bi \in BlocksOf(d), EmptyIn(d, bi) # {}, NEW n, n = d.block[bi].num,
         NEW r, r = Ring(d, bi)
  PROVE  /\ n \in Nat /\ DOMAIN r = 1 .. n /\ \A i \in 1 .. n : r[i] \in EmptyIn(d, bi)
         /\ EmptyIn(d, bi) = {r[i] : i \in 1 .. Cardinality(EmptyIn(d, bi))}
<1> DEFINE S == EmptyIn(d, bi)
           a == d.block[bi].ehead
           IsRing(f) == f = [i \in 1 .. n |-> IF i = 1 THEN a ELSE -d.check[f[i - 1]]]
           nx == [e \in S |-> -d.check[e]]
<1>1. /\ ArrayType(d) /\ RingIn(d, bi) /\ IsFiniteSet(S) /\ Cardinality(S) \in Nat /\ n \in 0 .. B
      /\ \A e \in S : -d.check[e] \in S
  BY RingFacts DEF SpaceInv
<1>2. /\ n = Cardinality(S) + (IF bi = 0 THEN 1 ELSE 0) /\ a \in S
      /\ Cycle(S, NextEmpty(d), PrevEmpty(d))
  BY <1>1 DEF RingIn
<1>3. n \in Nat /\ Cardinality(S) <= n /\ Cardinality(S) # 0 /\ n >= 1
  <2>1. Cardinality(S) # 0
    BY <1>1, FS_EmptySet
  <2> HIDE DEF S
  <2>2. QED
    BY <1>1, <1>2, <2>1, BIsNat
<1>4. S \subseteq PlacesOf(d)
  BY DEF EmptyIn
<1> HIDE DEF S, a
<1>5. \E f : IsRing(f)
  <2>1. \A x \in S : nx[x] \in S
    BY <1>1
  <2> HIDE DEF nx
  <2>2. PICK f \in [1 .. n -> S] : \A i \in 1 .. n : f[i] = IF i = 1 THEN a ELSE nx[f[i - 1]]
    <3>1. a \in S /\ n \in Nat
      BY <1>2, <1>3
    <3>2. Walkable(S, a, nx, n)
      BY <2>1, <3>1, WalkExists
    <3>3. QED
      BY <3>2 DEF Walkable
  <2>3. ASSUME NEW i \in 1 .. n PROVE f[i] = IF i = 1 THEN a ELSE -d.check[f[i - 1]]
    <3>1. i # 1 => f[i - 1] \in S
      BY <1>3, <2>2
    <3>2. i # 1 => nx[f[i - 1]] = -d.check[f[i - 1]]
      BY <3>1 DEF nx
    <3>3. QED
      BY <2>2, <3>2
  <2>4. f = [i \in 1 .. n |-> f[i]]
    BY <2>2
  <2>5. IsRing(f)
    BY <2>3, <2>4
  <2>6. QED
    BY <2>5
<1>6. r = CHOOSE f : IsRing(f)
  BY Zenon DEF Ring, a
<1>7. IsRing(r)
  BY <1>5, <1>6, Zenon
<1>8. DOMAIN r = 1 .. n
  BY <1>7, Zenon
<1>9. \A i \in 1 .. n : r[i] = IF i = 1 THEN a ELSE -d.check[r[i - 1]]
  BY <1>7, Zenon
<1> HIDE DEF IsRing
<1>10. \A i \in 1 .. n : r[i] \in S
  <2>1. r[1] \in S
    BY <1>2, <1>3, <1>9
  <2>2. \A i \in 2 .. n : r[i - 1] \in S => r[i] \in S
    BY <1>1, <1>9
  <2>3. QED
    BY <1>3, <2>1, <2>2, WalkIn
<1>11. S = {r[i] : i \in 1 .. Cardinality(S)}
  <2>1. ASSUME NEW i \in 1 .. n - 1 PROVE r[i + 1] = NextEmpty(d)[r[i]]
    <3>1. i + 1 \in 1 .. n /\ i + 1 # 1 /\ (i + 1) - 1 = i /\ i \in 1 .. n
      BY <1>3
    <3>2. r[i + 1] = -d.check[r[i]]
      BY <1>9, <3>1
    <3>3. r[i] \in PlacesOf(d)
      BY <1>4, <1>10, <3>1
    <3>4. QED
      BY <3>2, <3>3 DEF NextEmpty
  <2>2. r[1] \in S
    BY <1>3, <1>10
  <2>3. QED
    BY <1>1, <1>2, <1>3, <2>1, <2>2, CycleWalk
<1>12. QED
  BY <1>3, <1>8, <1>10, <1>11 DEF S

-----------------------------------------------------------------------------
(* Looking for a new base *)

\* What is asked for does not depend on the empty places.
LEMMA AskedKept ==
  ASSUME NEW d, NEW j, j.from \in Used(d), NEW m, Asked(d, j, m), m.mover \in Used(d), NEW d2, Kept(d, d2),
         Used(d) \subseteq PlacesOf(d)
  PROVE  Asked(d2, j, m)
<1> DEFINE U == Used(d)
<1>1. /\ Used(d2) = U
      /\ \A n \in U : /\ d2.base[n] = d.base[n] /\ d2.check[n] = d.check[n]
                      /\ d2.sibling[n] = d.sibling[n] /\ d2.child[n] = d.child[n]
  BY DEF Kept
<1>2. /\ d.base[j.from] >= 0 /\ m.conflict = Conflict(d, j)
      /\ m.conflict \in Used(d) \ {0} /\ d.check[m.conflict] # j.from
      /\ m.newcomer \in BOOLEAN
      /\ m.mover = IF m.newcomer THEN j.from ELSE d.check[m.conflict]
  BY DEF Asked
<1>3. /\ d2.base[j.from] >= 0 /\ m.conflict = Conflict(d2, j)
      /\ m.conflict \in Used(d2) \ {0} /\ d2.check[m.conflict] # j.from
      /\ m.mover = IF m.newcomer THEN j.from ELSE d2.check[m.conflict]
  BY <1>1, <1>2 DEF Conflict
<1>4. ASSUME NEW t, IsChain(d, U, m.mover, t) PROVE IsChain(d2, Used(d2), m.mover, t)
  <2>1. \A x \in U : Parent(d2, x) = Parent(d, x) /\ d2.sibling[x] = d.sibling[x]
    BY <1>1 DEF Parent
  <2>2. d2.base[m.mover] = d.base[m.mover] /\ d2.child[m.mover] = d.child[m.mover]
    BY <1>1
  <2>3. IsChain(d2, U, m.mover, t)
    BY <1>4, <2>1, <2>2, ChainStays
  <2>4. QED
    BY <1>1, <2>3
<1>5. CASE m.newcomer
  <2>1. PICK t : IsChain(d, U, m.mover, t) /\ m.labels = WithLabel(t, LabelOf(j))
    BY <1>5 DEF Asked
  <2>2. IsChain(d2, Used(d2), m.mover, t)
    BY <1>4, <2>1
  <2>3. \E q : IsChain(d2, Used(d2), m.mover, q) /\ m.labels = WithLabel(q, LabelOf(j))
    BY <2>1, <2>2
  <2>4. QED
    BY <1>2, <1>3, <1>5, <2>3, Zenon DEF Asked
<1>6. CASE ~ m.newcomer
  <2>1. IsChain(d, U, m.mover, m.labels)
    BY <1>6 DEF Asked
  <2>2. IsChain(d2, Used(d2), m.mover, m.labels)
    BY <1>4, <2>1
  <2>3. QED
    BY <1>2, <1>3, <1>6, <2>2, Zenon DEF Asked
<1>7. QED
  BY <1>5, <1>6

LEMMA ReachedKept ==
  ASSUME NEW d, NEW j, NEW P, NEW V, JobType(j), Reached(d, j, P, V), NEW d2, Used(d2) = Used(d),
         \A n \in Used(d) : d2.base[n] = d.base[n]
  PROVE  Reached(d2, j, P, V)
<1>1. j.key \in Keys /\ Values(d, Used(d), P, V, j.key)
  BY DEF Reached, JobType
<1>2. Values(d2, Used(d2), P, V, j.key)
  BY <1>1, ValuesKept
<1>3. QED
  BY <1>2 DEF Reached

\* A place is found in an array in which the nodes have been kept.
LEMMA SettleKept ==
  ASSUME NEW d, SpaceInv(d), Blank(d), NEW j, NEW P, NEW V, JobType(j), Reached(d, j, P, V),
         NEW c, Tree(d, Used(d), Still, c, P), c = 0 \/ (c = j.from),
         NEW m, Asked(d, j, m), NEW d1, SpaceInv(d1), Kept(d, d1),
         NEW s, s = m.labels, NEW e \in PlacesOf(d1), BlockOf(e) # 0,
         NEW base, base = Xor(e, s[1]), d1.check[e] < 0,
         \A i \in 2 .. Len(s) : d1.check[Xor(base, s[i])] < 0,
         NEW old, old = d.base[m.mover],
         NEW d2, d2 = SettledArray(d1, j, m, base), NEW j2, j2 = SettledJob(j, m, old, base)
  PROVE  Holds(d2, j2, V)
<1>1. ArrayType(d) /\ ArrayType(d1) /\ PlacesOf(d1) \subseteq Nat
  BY ArrayFacts DEF SpaceInv
<1>2. m.mover \in Used(d) /\ IsOrder(s) /\ Len(s) \in 1 .. B /\ j.from \in Used(d)
  BY <1>1, AskedFacts DEF Reached
<1>3. Used(d1) = Used(d) /\ \A n \in Used(d) : d1.base[n] = d.base[n]
  BY DEF Kept
<1>4. Asked(d1, j, m)
  <2>1. Used(d) \subseteq PlacesOf(d)
    BY DEF Tree
  <2>2. QED
    BY <1>2, <2>1, AskedKept
<1>5. Blank(d1) /\ Tree(d1, Used(d1), Still, c, P)
  BY <1>3, KeptTree
<1>6. Reached(d1, j, P, V)
  BY <1>3, ReachedKept
<1>7. c = 0 \/ d1.base[c] >= 0
  BY <1>4 DEF Asked
<1>8. old = d1.base[m.mover]
  BY <1>2, <1>3
<1>9. \A i \in 1 .. Len(s) : d1.check[Xor(base, s[i])] < 0
  <2>1. s[1] \in Labels /\ e \in Nat
    BY <1>1, <1>2 DEF IsOrder
  <2>2. Xor(base, s[1]) = e
    BY <2>1, XorFacts
  <2>3. \A i \in 1 .. Len(s) : i = 1 \/ i \in 2 .. Len(s)
    BY <1>2
  <2>4. QED
    BY <2>2, <2>3
<1>10. QED
  BY <1>4, <1>5, <1>6, <1>7, <1>8, <1>9, SettleHolds

\* A new block has room for any siblings.
LEMMA NewBlockFits ==
  ASSUME NEW d, SpaceInv(d), NEW d1, d1 = AddBlock(d), NEW e, e = d.size, NEW s, IsOrder(s),
         NEW base, base = Xor(e, s[1])
  PROVE  /\ SpaceInv(d1) /\ Kept(d, d1) /\ e \in PlacesOf(d1) /\ BlockOf(e) # 0 /\ d1.check[e] < 0
         /\ \A i \in 2 .. Len(s) : d1.check[Xor(base, s[i])] < 0
<1>1. /\ SpaceInv(d1) /\ Grown(d, d1) /\ e \in PlacesOf(d1) \ PlacesOf(d) /\ BlockOf(e) # 0
      /\ \A b \in BlocksOf(d) : b # BlockOf(e)
  BY AddBlockSpace
<1>2. /\ ArrayType(d) /\ ArrayType(d1) /\ e \in Nat /\ BlockOf(e) \in BlocksOf(d1)
      /\ \A x \in Nat : x \in PlacesOf(d1) <=> BlockOf(x) \in BlocksOf(d1)
      /\ \A x \in Nat : x \in PlacesOf(d) <=> BlockOf(x) \in BlocksOf(d)
  <2>1. ArrayType(d) /\ ArrayType(d1)
    BY <1>1 DEF SpaceInv
  <2>2. e \in Nat /\ \A x \in Nat : x \in PlacesOf(d1) <=> BlockOf(x) \in BlocksOf(d1)
    BY <1>1, <2>1, ArrayFacts
  <2>3. \A x \in Nat : x \in PlacesOf(d) <=> BlockOf(x) \in BlocksOf(d)
    BY <2>1, ArrayFacts
  <2>4. QED
    BY <1>1, <2>1, <2>2, <2>3
<1>3. ASSUME NEW x \in Nat, BlockOf(x) = BlockOf(e) PROVE d1.check[x] < 0
  <2>1. x \in PlacesOf(d1) \ PlacesOf(d)
    BY <1>1, <1>2, <1>3
  <2>2. QED
    BY <1>1, <2>1 DEF Grown
<1>4. ASSUME NEW i \in 2 .. Len(s) PROVE d1.check[Xor(base, s[i])] < 0
  <2>1. s[1] \in Labels /\ s[i] \in Labels
    BY <1>4 DEF IsOrder
  <2>2. base \in Nat /\ BlockOf(base) = BlockOf(e)
    BY <1>2, <2>1, XorFacts
  <2>3. Xor(base, s[i]) \in Nat /\ BlockOf(Xor(base, s[i])) = BlockOf(e)
    BY <2>1, <2>2, XorFacts
  <2>4. QED
    BY <1>3, <2>3
<1>5. Kept(d, d1)
  BY AddBlockKeeps
<1>6. QED
  BY <1>1, <1>2, <1>3, <1>4, <1>5

\* The two parents that want one place.
ResolvePlace(d, j, x) ==
  LET q == d.check[x]
      newcomer == Len(Children(d, q)) > Len(Children(d, j.from))
      mover == IF newcomer THEN j.from ELSE q
  IN  [mover |-> mover, newcomer |-> newcomer, conflict |-> x,
       labels |-> IF newcomer THEN WithLabel(Children(d, mover), LabelOf(j)) ELSE Children(d, mover)]

\* The parent with fewer children is asked to move.
LEMMA ResolveAsks ==
  ASSUME NEW d, SpaceInv(d), NEW j, NEW P, NEW V, JobType(j), Reached(d, j, P, V),
         NEW c, Tree(d, Used(d), Still, c, P), d.base[j.from] >= 0,
         NEW x, x = Conflict(d, j), d.check[x] >= 0, d.check[x] # j.from,
         NEW m, m = ResolvePlace(d, j, x)
  PROVE  Asked(d, j, m)
<1> DEFINE U == Used(d)
           f == j.from
           q == d.check[x]
           y == Len(Children(d, q)) > Len(Children(d, f))
<1>1. /\ ArrayType(d) /\ f \in U /\ ~ IsTerminal(P, f) /\ LabelOf(j) \in Labels
      /\ U \subseteq PlacesOf(d) /\ PlacesOf(d) \subseteq Nat /\ d.check[0] < 0 /\ 0 \in U
  BY JobFacts, ArrayFacts DEF SpaceInv, Reached, Tree, Bases
<1>2. x \in PlacesOf(d)
  BY <1>1, BaseOf DEF Conflict
<1>3. x \in U \ {0}
  <2>1. x # 0
    <3>1. ~ d.check[0] >= 0
      <4>1. d.check[0] \in Int
        BY <1>1, ArrayFacts DEF ArrayType
      <4>2. QED
        BY <1>1, <4>1
    <3>2. QED
      BY <3>1
  <2>2. QED
    BY <1>2, <2>1 DEF Used
<1>4. q \in U /\ ~ IsTerminal(P, q)
  BY <1>3, NodeFacts
<1>5. d.base[q] >= 0
  <2>1. CASE q = 0
    BY <2>1 DEF Tree, Bases
  <2>2. CASE q # 0
    <3>1. Based(d, q, P)
      BY <1>3, <1>4, <2>2, BasedIs
    <3>2. QED
      BY <1>1, <1>4, <3>1 DEF Based
  <2>3. QED
    BY <2>1, <2>2
<1>6. PICK t : IsChain(d, U, f, t)
  <2>1. f # Still.mover
    BY <1>1 DEF Still
  <2>2. QED
    BY <1>1, <2>1, Zenon DEF Tree, Chains
<1>7. PICK u : IsChain(d, U, q, u)
  <2>1. q # Still.mover
    BY <1>1, <1>4 DEF Still
  <2>2. QED
    BY <1>4, <1>5, <2>1, Zenon DEF Tree, Chains
<1>8. Children(d, f) = t /\ Children(d, q) = u
  BY <1>6, <1>7, ChainChildren
<1>9. /\ m.newcomer \in BOOLEAN /\ m.conflict = x
      /\ m.mover = IF m.newcomer THEN f ELSE q
      /\ m.labels = IF m.newcomer THEN WithLabel(Children(d, m.mover), LabelOf(j)) ELSE Children(d, m.mover)
  <2>1. y \in BOOLEAN
    OBVIOUS
  <2> HIDE DEF y
  <2>2. m = [mover |-> IF y THEN f ELSE q, newcomer |-> y, conflict |-> x,
             labels |-> IF y THEN WithLabel(Children(d, IF y THEN f ELSE q), LabelOf(j))
                        ELSE Children(d, IF y THEN f ELSE q)]
    BY Zenon DEF ResolvePlace, y
  <2>3. QED
    BY <2>1, <2>2
<1>10. CASE m.newcomer
  <2>1. \E z : IsChain(d, U, m.mover, z) /\ m.labels = WithLabel(z, LabelOf(j))
    BY <1>6, <1>8, <1>9, <1>10
  <2>2. QED
    BY <1>3, <1>9, <1>10, <2>1, Zenon DEF Asked
<1>11. CASE ~ m.newcomer
  <2>1. IsChain(d, U, m.mover, m.labels)
    BY <1>7, <1>8, <1>9, <1>11
  <2>2. QED
    BY <1>3, <1>9, <1>11, <2>1, Zenon DEF Asked
<1>12. QED
  BY <1>10, <1>11

\* Open blocks follow open blocks.
LEMMA OpenRing ==
  ASSUME NEW d, SpaceInv(d)
  PROVE  /\ d.head["O"] # 0 => d.head["O"] \in BlocksOf(d) /\ ListsIn(d)[d.head["O"]] = "O"
         /\ \A b \in BlocksOf(d) : ListsIn(d)[b] = "O" =>
              /\ b # 0 /\ d.block[b].next \in BlocksOf(d) /\ d.block[b].prev \in BlocksOf(d)
              /\ ListsIn(d)[d.block[b].next] = "O" /\ ListsIn(d)[d.block[b].prev] = "O"
              /\ \A c \in BlocksOf(d) : ListsIn(d)[c] = "O" /\ c # b => d.block[b].next # b
<1> DEFINE of == {b \in BlocksOf(d) : ListsIn(d)[b] = "O"}
<1>1. IF of = {} THEN d.head["O"] = 0
      ELSE d.head["O"] \in of /\ Cycle(of, NextBlock(d), PrevBlock(d))
  <2>1. "O" \in Lists /\ Listed(d, ListsIn(d))
    BY DEF Lists, SpaceInv
  <2>2. QED
    BY <2>1 DEF Listed
<1>2. \A b \in BlocksOf(d) : NextBlock(d)[b] = d.block[b].next /\ PrevBlock(d)[b] = d.block[b].prev
  BY DEF NextBlock, PrevBlock
<1>3. 0 \notin of
  <2>1. 0 \in BlocksOf(d)
    BY ArrayFacts DEF SpaceInv
  <2>2. ListsIn(d)[0] = "F"
    BY <2>1 DEF ListsIn, ListFor
  <2>3. QED
    BY <2>2
<1>4. ASSUME NEW b \in of
      PROVE  d.block[b].next \in of /\ d.block[b].prev \in of
  BY <1>1, <1>2, <1>4 DEF Cycle
<1>5. ASSUME NEW b \in of, NEW c \in of, c # b PROVE d.block[b].next # b
  <2>1. Cycle(of, NextBlock(d), PrevBlock(d))
    BY <1>1, <1>5
  <2>2. NextBlock(d)[b] # b
    <3> HIDE DEF of
    <3>1. of \ {b} # {}
      BY <1>5
    <3>2. QED
      BY <2>1, <3>1, CycleApart
  <2>3. QED
    BY <1>2, <2>2
<1>6. QED
  BY <1>1, <1>3, <1>4, <1>5

LEMMA MinLeast ==
  ASSUME NEW Z, Z \subseteq Nat, Z # {}
  PROVE  Min(Z) \in Z /\ \A y \in Z : Min(Z) <= y
<1>1. \E x \in Z : \A y \in Z : y >= x
  <2>1. PICK x \in Z : \A y \in Z : x <= y
    BY LeastNatural
  <2>2. QED
    BY <2>1
<1>2. Min(Z) \in Z /\ \A y \in Z : y >= Min(Z)
  BY <1>1, Zenon DEF Min
<1>3. QED
  BY <1>2

\* The search for a place goes on with an open block.
LEMMA WaitHolds ==
  ASSUME NEW d, SpaceInv(d), Blank(d), NEW j, NEW P, NEW V, JobType(j), Reached(d, j, P, V),
         NEW c, Tree(d, Used(d), Still, c, P), c = 0 \/ c = j.from, NEW m, Asked(d, j, m),
         NEW open \in BlocksOf(d), ListsIn(d)[open] = "O",
         NEW last \in BlocksOf(d), ListsIn(d)[last] = "O",
         NEW j2, j2 = [x \in DOMAIN j |-> j2[x]],
         j2.pc = j.pc, j2.key = j.key, j2.pos = j.pos, j2.val = j.val, j2.from = j.from,
         j2.step = "place",
         j2.place = [mover |-> m.mover, newcomer |-> m.newcomer, conflict |-> m.conflict,
                     labels |-> m.labels, block |-> open, last |-> last]
  PROVE  Holds(d, j2, V)
<1>1. JobType(j2) /\ LabelOf(j2) = LabelOf(j) /\ j2.pc = "update" /\ Reached(d, j2, P, V)
  BY JobSame
<1> DEFINE p == j2.place
<1>2. /\ p.mover = m.mover /\ p.newcomer = m.newcomer /\ p.conflict = m.conflict
      /\ p.labels = m.labels /\ p.block = open /\ p.last = last
      /\ p = [mover |-> p.mover, newcomer |-> p.newcomer, conflict |-> p.conflict,
              labels |-> p.labels, block |-> p.block, last |-> p.last]
  OBVIOUS
<1> HIDE DEF p
<1>3. Asked(d, j2, p)
  <2>1. Conflict(d, j2) = Conflict(d, j)
    BY <1>1 DEF Conflict
  <2>2. QED
    BY <1>1, <1>2, <2>1 DEF Asked
<1>4. PlaceInv(d, j2)
  BY <1>2, <1>3 DEF PlaceInv, p
<1>5. ~ Moving(j2) /\ ComingOf(j2) = 0
  BY DEF Moving, ComingOf
<1>6. Tree(d, Used(d), Still, 0, P)
  <2>1. c = 0 \/ d.base[c] >= 0
    BY DEF Asked
  <2>2. QED
    BY <2>1, ComeTo
<1>7. TreeInv(d, j2, P, V)
  BY <1>1, <1>4, <1>5, <1>6 DEF TreeInv, JobInv
<1>8. QED
  BY <1>7 DEF Holds

\* The update looks for a place, or goes on to look for one block by block.
LEMMA ResolveHolds ==
  ASSUME NEW d, SpaceInv(d), NEW j, NEW P, NEW V, TreeInv(d, j, P, V), j.pc = "update", j.step = "follow",
         d.base[j.from] >= 0, NEW x, x = Conflict(d, j), d.check[x] >= 0, d.check[x] # j.from,
         NEW m, m = ResolvePlace(d, j, x), NEW s, s = m.labels
  PROVE  /\ Len(s) = 1 =>
              \A p : p = FindPlace(d) =>
                Holds(SettledArray(p.da, j, m, Xor(p.e, s[1])),
                      SettledJob(j, m, d.base[m.mover], Xor(p.e, s[1])), V)
         /\ Len(s) > 1 /\ d.head["O"] = 0 =>
              Holds(SettledArray(AddBlock(d), j, m, Xor(d.size, s[1])),
                    SettledJob(j, m, d.base[m.mover], Xor(d.size, s[1])), V)
         /\ Len(s) > 1 /\ d.head["O"] # 0 =>
              Holds(d, [j EXCEPT !.step = "place", !.place =
                          [mover |-> m.mover, newcomer |-> m.newcomer, conflict |-> x,
                           labels |-> s, block |-> d.head["O"],
                           last |-> d.block[d.head["O"]].prev]], V)
<1>1. /\ JobType(j) /\ Reached(d, j, P, V) /\ Blank(d) /\ Tree(d, Used(d), Still, j.from, P)
      /\ j.from \in Used(d)
  BY FollowFacts
<1>2. Asked(d, j, m)
  BY <1>1, ResolveAsks
<1>3. IsOrder(s) /\ m.conflict = x
  <2>1. ArrayType(d)
    BY DEF SpaceInv
  <2>2. QED
    BY <1>1, <1>2, <2>1, AskedFacts DEF Asked
<1>4. ASSUME Len(s) = 1, NEW p, p = FindPlace(d)
      PROVE  Holds(SettledArray(p.da, j, m, Xor(p.e, s[1])),
                   SettledJob(j, m, d.base[m.mover], Xor(p.e, s[1])), V)
  <2>1. /\ SpaceInv(p.da) /\ Kept(d, p.da)
        /\ p.e \in PlacesOf(p.da) /\ p.da.check[p.e] < 0 /\ BlockOf(p.e) # 0
    BY <1>4, FindPlaceSpace
  <2>2. \A i \in 2 .. Len(s) : p.da.check[Xor(Xor(p.e, s[1]), s[i])] < 0
    BY <1>4
  <2>3. QED
    BY <1>1, <1>2, <2>1, <2>2, SettleKept
<1>5. ASSUME Len(s) > 1, d.head["O"] = 0
      PROVE  Holds(SettledArray(AddBlock(d), j, m, Xor(d.size, s[1])),
                   SettledJob(j, m, d.base[m.mover], Xor(d.size, s[1])), V)
  <2>1. PICK d1, e : d1 = AddBlock(d) /\ e = d.size
    OBVIOUS
  <2>2. /\ SpaceInv(d1) /\ Kept(d, d1) /\ e \in PlacesOf(d1) /\ BlockOf(e) # 0 /\ d1.check[e] < 0
        /\ \A i \in 2 .. Len(s) : d1.check[Xor(Xor(e, s[1]), s[i])] < 0
    BY <1>3, <2>1, NewBlockFits
  <2>3. Holds(SettledArray(d1, j, m, Xor(e, s[1])), SettledJob(j, m, d.base[m.mover], Xor(e, s[1])), V)
    BY <1>1, <1>2, <2>2, SettleKept
  <2>4. QED
    BY <2>1, <2>3
<1>6. ASSUME Len(s) > 1, d.head["O"] # 0, NEW open, open = d.head["O"], NEW last, last = d.block[open].prev,
             NEW j2, j2 = [j EXCEPT !.step = "place", !.place =
                             [mover |-> m.mover, newcomer |-> m.newcomer, conflict |-> x,
                              labels |-> s, block |-> open, last |-> last]]
      PROVE  Holds(d, j2, V)
  <2>1. open \in BlocksOf(d) /\ ListsIn(d)[open] = "O" /\ last \in BlocksOf(d) /\ ListsIn(d)[last] = "O"
    BY <1>6, OpenRing
  <2>2. /\ j2 = [y \in DOMAIN j |-> j2[y]]
        /\ j2.pc = j.pc /\ j2.key = j.key /\ j2.pos = j.pos /\ j2.val = j.val /\ j2.from = j.from
        /\ j2.step = "place"
        /\ j2.place = [mover |-> m.mover, newcomer |-> m.newcomer, conflict |-> m.conflict,
                       labels |-> m.labels, block |-> open, last |-> last]
    <3> DEFINE pl == [mover |-> m.mover, newcomer |-> m.newcomer, conflict |-> m.conflict,
                      labels |-> m.labels, block |-> open, last |-> last]
    <3>1. DOMAIN j = {"pc", "step", "key", "pos", "from", "val", "place"}
      <4>1. j = [pc |-> "update", step |-> j.step, key |-> j.key, pos |-> j.pos, from |-> j.from,
                 val |-> j.val, place |-> j.place]
        BY <1>1 DEF JobType
      <4>2. QED
        BY <4>1
    <3>2. j2 = [j EXCEPT !.step = "place", !.place = pl]
      BY <1>3, <1>6, Zenon
    <3> HIDE DEF pl
    <3>3. /\ j2 = [y \in DOMAIN j |-> j2[y]]
          /\ j2.pc = j.pc /\ j2.key = j.key /\ j2.pos = j.pos /\ j2.val = j.val /\ j2.from = j.from
          /\ j2.step = "place" /\ j2.place = pl
      BY <3>1, <3>2
    <3>4. QED
      BY <3>3 DEF pl
  <2>3. QED
    BY <1>1, <1>2, <2>1, <2>2, WaitHolds
<1>7. QED
  BY <1>4, <1>5, <1>6

Headed(d, bi, r) == [d EXCEPT !.block[bi].ehead = r]

HeadedOut(d, d2) ==
  SpaceInv(d2) /\ Kept(d, d2) /\ PlacesOf(d2) = PlacesOf(d) /\ d2.check = d.check

LEMMA HeadedKept ==
  ASSUME NEW d, SpaceInv(d), NEW bi \in BlocksOf(d), NEW r \in EmptyIn(d, bi)
  PROVE  HeadedOut(d, Headed(d, bi, r))
<1>1. PICK d2 : d2 = Headed(d, bi, r)
  OBVIOUS
<1>2. d2 = [d EXCEPT !.block[bi].ehead = r]
  BY <1>1 DEF Headed
<1>3. HeadedOut(d, d2)
  BY <1>2, EheadSpace DEF HeadedOut
<1>4. QED
  BY <1>1, <1>3

TriedOut(d, bi, d2) ==
  /\ SpaceInv(d2) /\ Kept(d, d2) /\ PlacesOf(d2) = PlacesOf(d) /\ BlocksOf(d2) = BlocksOf(d)
  /\ \A b \in BlocksOf(d) \ {bi} : ListsIn(d2)[b] = ListsIn(d)[b]

LEMMA TriedKept ==
  ASSUME NEW d, SpaceInv(d), NEW bi \in BlocksOf(d), ListsIn(d)[bi] = "O", NEW nc \in 0 .. B
  PROVE  TriedOut(d, bi, Failed(d, bi, nc))
<1>1. PICK d2 : d2 = Failed(d, bi, nc)
  OBVIOUS
<1>2. TriedOut(d, bi, d2)
  BY <1>1, TriedSpace DEF TriedOut
<1>3. QED
  BY <1>1, <1>2

\* What a round of the search may end with.
TryEnds(d, j, V, m, s, bi, nc, ring, fitting) ==
  /\ d.block[bi].num >= nc /\ fitting # {} =>
       \A d1, e : d1 = [d EXCEPT !.block[bi].ehead = e] /\ e = ring[Min(fitting)] =>
         Holds(SettledArray(d1, j, m, Xor(e, s[1])), SettledJob(j, m, d.base[m.mover], Xor(e, s[1])), V)
  /\ \A d1 : d1 = Failed(d, bi, nc) =>
       /\ bi = m.last =>
            Holds(SettledArray(AddBlock(d1), j, m, Xor(d.size, s[1])),
                  SettledJob(j, m, d.base[m.mover], Xor(d.size, s[1])), V)
       /\ bi # m.last => Holds(d1, [j EXCEPT !.place.block = d.block[bi].next], V)

\* A round of the search: the block has room, or is passed over, and after the last
\* one comes a new block.
LEMMA TryBlockHolds ==
  ASSUME NEW d, SpaceInv(d), NEW j, NEW P, NEW V, TreeInv(d, j, P, V), j.pc = "update", j.step = "place",
         NEW m, m = j.place, NEW s, s = m.labels, NEW bi, bi = m.block,
         NEW nc, nc = Len(s), NEW ring, ring = Ring(d, bi),
         NEW fitting, fitting = {i \in DOMAIN ring : Fits(d, ring[i], s)}
  PROVE  TryEnds(d, j, V, m, s, bi, nc, ring, fitting)
<1> SUFFICES
      /\ d.block[bi].num >= nc /\ fitting # {} =>
           \A d1, e : d1 = [d EXCEPT !.block[bi].ehead = e] /\ e = ring[Min(fitting)] =>
             Holds(SettledArray(d1, j, m, Xor(e, s[1])), SettledJob(j, m, d.base[m.mover], Xor(e, s[1])), V)
      /\ \A d1 : d1 = Failed(d, bi, nc) =>
           /\ bi = m.last =>
                Holds(SettledArray(AddBlock(d1), j, m, Xor(d.size, s[1])),
                      SettledJob(j, m, d.base[m.mover], Xor(d.size, s[1])), V)
           /\ bi # m.last => Holds(d1, [j EXCEPT !.place.block = d.block[bi].next], V)
  BY Zenon DEF TryEnds
<1>1. /\ JobType(j) /\ Reached(d, j, P, V) /\ Blank(d) /\ Tree(d, Used(d), Still, 0, P)
      /\ PlaceInv(d, j)
  <2>1. ~ Moving(j) /\ ComingOf(j) = 0
    BY DEF Moving, ComingOf
  <2>2. JobType(j) /\ Reached(d, j, P, V) /\ PlaceInv(d, j)
    BY DEF TreeInv, JobInv, Idle
  <2>3. QED
    BY <2>1, <2>2 DEF TreeInv
<1>2. /\ Asked(d, j, m) /\ bi \in BlocksOf(d) /\ ListsIn(d)[bi] = "O"
      /\ m.last \in BlocksOf(d) /\ ListsIn(d)[m.last] = "O"
      /\ m = [mover |-> m.mover, newcomer |-> m.newcomer, conflict |-> m.conflict,
              labels |-> m.labels, block |-> bi, last |-> m.last]
  BY <1>1 DEF PlaceInv
<1>3. /\ ArrayType(d) /\ IsOrder(s) /\ nc \in 1 .. B /\ m.mover \in Used(d)
  <2>1. ArrayType(d)
    BY DEF SpaceInv
  <2>2. QED
    BY <1>1, <1>2, <2>1, AskedFacts
<1>4. /\ bi # 0 /\ d.block[bi].next \in BlocksOf(d) /\ ListsIn(d)[d.block[bi].next] = "O"
      /\ bi # m.last => d.block[bi].next # bi
  BY <1>2, OpenRing
<1>5. ASSUME d.block[bi].num >= nc, fitting # {}, NEW e, e = ring[Min(fitting)],
             NEW d1, d1 = [d EXCEPT !.block[bi].ehead = e]
      PROVE  Holds(SettledArray(d1, j, m, Xor(e, s[1])), SettledJob(j, m, d.base[m.mover], Xor(e, s[1])), V)
  <2>1. EmptyIn(d, bi) # {}
    <3>1. RingIn(d, bi)
      BY <1>2 DEF SpaceInv
    <3>2. d.block[bi].num = Cardinality(EmptyIn(d, bi))
      <4>1. Cardinality(EmptyIn(d, bi)) \in Nat
        BY <1>2, <1>3, <3>1, RingFacts
      <4>2. QED
        BY <1>4, <3>1, <4>1 DEF RingIn
    <3>3. d.block[bi].num # 0
      BY <1>3, <1>5, BIsNat
    <3>4. QED
      BY <3>2, <3>3, FS_EmptySet
  <2>2. PICK n : n \in Nat /\ DOMAIN ring = 1 .. n /\ \A i \in 1 .. n : ring[i] \in EmptyIn(d, bi)
    BY <1>2, <2>1, RingIs
  <2>3. Min(fitting) \in fitting
    <3>1. fitting \subseteq Nat
      BY <2>2
    <3>2. QED
      BY <1>5, <3>1, MinLeast
  <2>4. e \in EmptyIn(d, bi) /\ Fits(d, e, s)
    BY <1>5, <2>2, <2>3
  <2>5. SpaceInv(d1) /\ Kept(d, d1) /\ PlacesOf(d1) = PlacesOf(d) /\ d1.check = d.check
    <3>1. bi \in BlocksOf(d)
      BY <1>2
    <3>2. e \in EmptyIn(d, bi)
      BY <2>4
    <3>3. d1 = Headed(d, bi, e)
      BY <1>5 DEF Headed
    <3>4. HeadedOut(d, Headed(d, bi, e))
      BY <3>1, <3>2, HeadedKept
    <3>5. QED
      BY <3>3, <3>4 DEF HeadedOut
  <2>6. e \in PlacesOf(d1) /\ BlockOf(e) # 0 /\ d1.check[e] < 0
    BY <1>4, <2>4, <2>5 DEF EmptyIn
  <2>7. \A i \in 2 .. Len(s) : d1.check[Xor(Xor(e, s[1]), s[i])] < 0
    BY <2>4, <2>5 DEF Fits
  <2>8. QED
    BY <1>1, <1>2, <2>5, <2>6, <2>7, SettleKept
<1>6. ASSUME NEW d1, d1 = Failed(d, bi, nc)
      PROVE  /\ SpaceInv(d1) /\ Kept(d, d1) /\ PlacesOf(d1) = PlacesOf(d) /\ BlocksOf(d1) = BlocksOf(d)
             /\ \A b \in BlocksOf(d) \ {bi} : ListsIn(d1)[b] = ListsIn(d)[b]
             /\ Used(d1) = Used(d) /\ \A n \in Used(d) : d1.base[n] = d.base[n]
             /\ Blank(d1) /\ Tree(d1, Used(d1), Still, 0, P) /\ Reached(d1, j, P, V) /\ Asked(d1, j, m)
             /\ d1.size = d.size
  <2>1. nc \in 0 .. B
    BY <1>3
  <2>2. /\ SpaceInv(d1) /\ Kept(d, d1) /\ PlacesOf(d1) = PlacesOf(d) /\ BlocksOf(d1) = BlocksOf(d)
        /\ \A b \in BlocksOf(d) \ {bi} : ListsIn(d1)[b] = ListsIn(d)[b]
    <3>1. bi \in BlocksOf(d) /\ ListsIn(d)[bi] = "O" /\ d1 = Failed(d, bi, nc)
      BY <1>2, <1>6
    <3>2. TriedOut(d, bi, Failed(d, bi, nc))
      BY <2>1, <3>1, TriedKept
    <3>3. QED
      BY <3>1, <3>2 DEF TriedOut
  <2>3. Used(d1) = Used(d) /\ \A n \in Used(d) : d1.base[n] = d.base[n]
    BY <2>2 DEF Kept
  <2>4. Blank(d1) /\ Tree(d1, Used(d1), Still, 0, P)
    BY <1>1, <2>2, <2>3, KeptTree
  <2>5. Reached(d1, j, P, V)
    BY <1>1, <2>3, ReachedKept
  <2>6. Asked(d1, j, m)
    <3>1. Used(d) \subseteq PlacesOf(d) /\ j.from \in Used(d)
      BY <1>1 DEF Tree, Reached
    <3>2. QED
      BY <1>2, <1>3, <2>2, <3>1, AskedKept
  <2>7. d1.size = d.size
    <3>1. ArrayType(d1)
      BY <2>2 DEF SpaceInv
    <3>2. d.size = B * Cardinality(BlocksOf(d)) /\ d1.size = B * Cardinality(BlocksOf(d1))
      BY <1>3, <3>1, ArrayFacts
    <3>3. QED
      BY <2>2, <3>2
  <2>8. QED
    BY <2>2, <2>3, <2>4, <2>5, <2>6, <2>7
<1>7. ASSUME NEW d1, d1 = Failed(d, bi, nc)
      PROVE  Holds(SettledArray(AddBlock(d1), j, m, Xor(d.size, s[1])),
                   SettledJob(j, m, d.base[m.mover], Xor(d.size, s[1])), V)
  <2>1. PICK d2, e : d2 = AddBlock(d1) /\ e = d1.size
    OBVIOUS
  <2>2. SpaceInv(d1) /\ d1.size = d.size /\ d1.base[m.mover] = d.base[m.mover]
    BY <1>3, <1>6, <1>7
  <2>3. /\ SpaceInv(d2) /\ Kept(d1, d2) /\ e \in PlacesOf(d2) /\ BlockOf(e) # 0 /\ d2.check[e] < 0
        /\ \A i \in 2 .. Len(s) : d2.check[Xor(Xor(e, s[1]), s[i])] < 0
    BY <1>3, <2>1, <2>2, NewBlockFits
  <2>4. Blank(d1) /\ Tree(d1, Used(d1), Still, 0, P) /\ Reached(d1, j, P, V) /\ Asked(d1, j, m)
    BY <1>6, <1>7
  <2>5. Holds(SettledArray(d2, j, m, Xor(e, s[1])), SettledJob(j, m, d1.base[m.mover], Xor(e, s[1])), V)
    BY <1>1, <2>2, <2>3, <2>4, SettleKept
  <2>6. QED
    BY <2>1, <2>2, <2>5
<1>8. ASSUME NEW d1, d1 = Failed(d, bi, nc), bi # m.last, NEW next, next = d.block[bi].next,
             NEW j2, j2 = [j EXCEPT !.place.block = next]
      PROVE  Holds(d1, j2, V)
  <2>1. /\ SpaceInv(d1) /\ Blank(d1) /\ Tree(d1, Used(d1), Still, 0, P) /\ Reached(d1, j, P, V)
        /\ Asked(d1, j, m)
    BY <1>6, <1>8
  <2>2. /\ next \in BlocksOf(d1) /\ ListsIn(d1)[next] = "O"
        /\ m.last \in BlocksOf(d1) /\ ListsIn(d1)[m.last] = "O"
    BY <1>2, <1>4, <1>6, <1>8
  <2>3. /\ j2 = [y \in DOMAIN j |-> j2[y]]
        /\ j2.pc = j.pc /\ j2.key = j.key /\ j2.pos = j.pos /\ j2.val = j.val /\ j2.from = j.from
        /\ j2.step = "place" /\ j2.place = [m EXCEPT !.block = next]
    <3>1. DOMAIN j = {"pc", "step", "key", "pos", "from", "val", "place"}
      <4>1. j = [pc |-> "update", step |-> j.step, key |-> j.key, pos |-> j.pos, from |-> j.from,
                 val |-> j.val, place |-> j.place]
        BY <1>1 DEF JobType
      <4>2. QED
        BY <4>1
    <3>2. j2 = [j EXCEPT !.place = [m EXCEPT !.block = next]]
      BY <1>8
    <3>3. QED
      BY <3>1, <3>2
  <2>4. j2.place = [mover |-> m.mover, newcomer |-> m.newcomer, conflict |-> m.conflict,
                    labels |-> m.labels, block |-> next, last |-> m.last]
    <3> DEFINE q == [m EXCEPT !.block = next]
    <3>1. DOMAIN m = {"mover", "newcomer", "conflict", "labels", "block", "last"}
      BY <1>2
    <3>2. /\ q = [y \in DOMAIN m |-> q[y]] /\ q.mover = m.mover /\ q.newcomer = m.newcomer
          /\ q.conflict = m.conflict /\ q.labels = m.labels /\ q.block = next /\ q.last = m.last
      BY <3>1
    <3> HIDE DEF q
    <3>3. q = [mover |-> m.mover, newcomer |-> m.newcomer, conflict |-> m.conflict,
               labels |-> m.labels, block |-> next, last |-> m.last]
      BY <3>1, <3>2
    <3>4. QED
      BY <2>3, <3>3 DEF q
  <2>5. QED
    BY <1>1, <2>1, <2>2, <2>3, <2>4, WaitHolds
<1>9. QED
  BY <1>5, <1>7, <1>8

-----------------------------------------------------------------------------
(* Going round the list of open blocks *)

\* f follows the links nx for c steps, from a on.
Trails(f, a, nx, c) == f[0] = a /\ \A n \in 1 .. c : f[n] = nx[f[n - 1]]

\* On the way f takes the links are the same, but those to and from bi.
Bypassed(f, c, bi, nx, nx2) ==
  \A n \in 0 .. c : f[n] # bi => nx[f[n]] = bi \/ nx2[f[n]] = nx[f[n]]

\* m is the first step at which f is at last.
FirstAt(f, c, last, m) == m \in 0 .. c /\ f[m] = last /\ \A k \in 0 .. c : f[k] = last => m <= k

BothFollow(c, bi, last, f, next, g, next2, m) ==
  /\ c \in Nat /\ bi # last /\ Trails(f, bi, next, c) /\ Trails(g, next[bi], next2, c)
  /\ Bypassed(f, c, bi, next, next2) /\ FirstAt(f, c, last, m)

\* Who follows the links from bi to last comes there one step earlier from the next
\* of bi, also when bi has been taken out from between the two that were next to it.
LEMMA WalkShorter ==
  ASSUME NEW c, NEW bi, NEW last, NEW f, NEW next, NEW g, NEW next2, NEW m,
         BothFollow(c, bi, last, f, next, g, next2, m)
  PROVE  m - 1 \in 0 .. c /\ g[m - 1] = last
<1> USE DEF BothFollow, Trails, Bypassed, FirstAt
<1>1. m \in 1 .. c /\ m - 1 \in 0 .. c
  BY SMT
<1>2. ASSUME NEW i \in 1 .. m, f[i] = bi PROVE FALSE
  <2> DEFINE Z == {k \in 0 .. m - i : f[i + k] # f[k]}
  <2>1. Z = {}
    <3>1. SUFFICES ASSUME Z # {} PROVE FALSE
      OBVIOUS
    <3>2. PICK k \in Z : \A y \in Z : k <= y
      <4>1. Z \subseteq Nat
        BY <1>1
      <4> HIDE DEF Z
      <4>2. QED
        BY <3>1, <4>1, LeastNatural
    <3>3. k \in 0 .. m - i /\ f[i + k] # f[k]
      BY <3>2
    <3>4. k # 0
      BY <1>2, <3>3
    <3>5. k - 1 \in 0 .. m - i /\ ~ k <= k - 1 /\ k \in 1 .. c /\ i + k \in 1 .. c /\ i + k - 1 = i + (k - 1)
      BY <1>1, <3>3, <3>4
    <3>6. f[i + (k - 1)] = f[k - 1]
      BY <3>2, <3>5
    <3>7. QED
      BY <3>3, <3>5, <3>6
  <2>2. m - i \in 0 .. m - i /\ i + (m - i) = m /\ m - i \in 0 .. c /\ ~ m <= m - i
    BY <1>1
  <2>3. f[m - i] = last
    BY <2>1, <2>2
  <2>4. QED
    BY <2>2, <2>3
<1>3. \A k \in 0 .. m - 1 : g[k] = f[k + 1]
  <2> DEFINE Z == {k \in 0 .. m - 1 : g[k] # f[k + 1]}
  <2>1. SUFFICES ASSUME Z # {} PROVE FALSE
    OBVIOUS
  <2>2. PICK k \in Z : \A y \in Z : k <= y
    <3>1. Z \subseteq Nat
      BY <1>1
    <3> HIDE DEF Z
    <3>2. QED
      BY <2>1, <3>1, LeastNatural
  <2>3. k \in 0 .. m - 1 /\ g[k] # f[k + 1] /\ k + 1 \in 1 .. m /\ k + 1 \in 1 .. c
    BY <1>1, <2>2
  <2>4. f[k + 1] = next[f[k]]
    <3>1. (k + 1) - 1 = k
      BY <2>3
    <3>2. QED
      BY <2>3, <3>1
  <2>5. k # 0
    BY <2>3, <2>4
  <2>6. k - 1 \in 0 .. m - 1 /\ ~ k <= k - 1 /\ (k - 1) + 1 = k /\ k \in 1 .. c /\ k \in 1 .. m
    BY <1>1, <2>3, <2>5
  <2>7. g[k - 1] = f[k]
    <3>1. k - 1 \notin Z
      BY <2>2, <2>6
    <3>2. QED
      BY <2>6, <3>1
  <2>8. g[k] = next2[f[k]]
    BY <2>6, <2>7
  <2>9. f[k] # bi /\ next[f[k]] # bi
    BY <1>2, <2>3, <2>4, <2>6
  <2>10. QED
    BY <2>3, <2>4, <2>6, <2>8, <2>9, SMT
<1>4. QED
  <2>1. m - 1 \in 0 .. m - 1 /\ (m - 1) + 1 = m
    BY <1>1
  <2>2. QED
    BY <1>1, <1>3, <2>1

\* The blocks one meets from block a on.
Onward(d, a, c, on) == on = [n \in 0 .. c |-> IF n = 0 THEN a ELSE d.block[on[n - 1]].next]

LEMMA OnwardIs ==
  ASSUME NEW d, ArrayType(d), NEW a \in BlocksOf(d), NEW c \in Nat, NEW on, on = CHOOSE f : Onward(d, a, c, f)
  PROVE  /\ DOMAIN on = 0 .. c /\ on[0] = a
         /\ \A n \in 1 .. c : on[n] = NextBlock(d)[on[n - 1]]
         /\ \A n \in 0 .. c : on[n] \in BlocksOf(d)
<1> DEFINE N == BlocksOf(d)
           nx == NextBlock(d)
           r == [i \in 1 .. c + 1 |-> on[i - 1]]
<1>1. \A x \in N : nx[x] \in N /\ nx[x] = d.block[x].next
  BY DEF ArrayType, NextBlock
<1> HIDE DEF nx, N
<1>2. \E f : Onward(d, a, c, f)
  <2>1. PICK q \in [1 .. c + 1 -> N] : \A i \in 1 .. c + 1 : q[i] = IF i = 1 THEN a ELSE nx[q[i - 1]]
    <3>1. a \in N /\ c + 1 \in Nat
      BY DEF N
    <3>2. Walkable(N, a, nx, c + 1)
      BY <1>1, <3>1, WalkExists
    <3>3. QED
      BY <3>2 DEF Walkable
  <2> DEFINE f == [n \in 0 .. c |-> q[n + 1]]
  <2>2. ASSUME NEW n \in 0 .. c PROVE f[n] = IF n = 0 THEN a ELSE d.block[f[n - 1]].next
    <3>1. n + 1 \in 1 .. c + 1 /\ f[n] = q[n + 1] /\ (n = 0 <=> n + 1 = 1)
      OBVIOUS
    <3>2. CASE n = 0
      BY <2>1, <3>1, <3>2
    <3>3. CASE n # 0
      <4>1. n - 1 \in 0 .. c /\ (n - 1) + 1 = n /\ (n + 1) - 1 = n /\ n \in 1 .. c + 1
        BY <3>3
      <4>2. f[n - 1] = q[n] /\ q[n] \in N
        BY <2>1, <4>1
      <4>3. q[n + 1] = nx[q[n]]
        BY <2>1, <3>1, <3>3, <4>1
      <4> HIDE DEF f
      <4>4. QED
        BY <1>1, <3>1, <3>3, <4>2, <4>3
    <3>4. QED
      BY <3>2, <3>3
  <2>3. f = [n \in 0 .. c |-> f[n]]
    OBVIOUS
  <2> HIDE DEF f
  <2>4. Onward(d, a, c, f)
    BY <2>2, <2>3 DEF Onward
  <2>5. QED
    BY <2>4
<1>3. on = [n \in 0 .. c |-> IF n = 0 THEN a ELSE d.block[on[n - 1]].next]
  <2>1. Onward(d, a, c, on)
    BY <1>2, Zenon
  <2>2. QED
    BY <2>1, Zenon DEF Onward
<1>4. DOMAIN on = 0 .. c /\ \A n \in 0 .. c : on[n] = IF n = 0 THEN a ELSE d.block[on[n - 1]].next
  BY <1>3, Zenon
<1>5. \A n \in 0 .. c : on[n] \in N
  <2>1. c + 1 \in Nat /\ r[1] \in N
    BY <1>4 DEF N
  <2>2. \A i \in 2 .. c + 1 : r[i - 1] \in N => r[i] \in N
    <3>1. SUFFICES ASSUME NEW i \in 2 .. c + 1, r[i - 1] \in N PROVE r[i] \in N
      OBVIOUS
    <3>2. i - 1 \in 0 .. c /\ i - 1 # 0 /\ i \in 1 .. c + 1 /\ i - 1 \in 1 .. c + 1
      OBVIOUS
    <3>3. r[i] = on[i - 1] /\ r[i - 1] = on[(i - 1) - 1]
      BY <3>2
    <3>4. on[i - 1] = d.block[on[(i - 1) - 1]].next
      BY <1>4, <3>2
    <3>5. QED
      BY <1>1, <3>1, <3>3, <3>4
  <2> HIDE DEF r
  <2>3. \A i \in 1 .. c + 1 : r[i] \in N
    BY <2>1, <2>2, WalkIn
  <2>4. \A n \in 0 .. c : n + 1 \in 1 .. c + 1 /\ (n + 1) - 1 = n
    OBVIOUS
  <2>5. QED
    BY <2>3, <2>4 DEF r
<1>6. \A n \in 1 .. c : on[n] = nx[on[n - 1]]
  <2>1. SUFFICES ASSUME NEW n \in 1 .. c PROVE on[n] = nx[on[n - 1]]
    OBVIOUS
  <2>2. n \in 0 .. c /\ n # 0 /\ n - 1 \in 0 .. c
    OBVIOUS
  <2>3. QED
    BY <1>1, <1>4, <1>5, <2>2
<1>7. on[0] = a
  BY <1>4
<1>8. QED
  BY <1>4, <1>5, <1>6, <1>7 DEF N, nx

LEMMA RoundsLeftAre ==
  ASSUME NEW d, ArrayType(d), NEW place, place.block \in BlocksOf(d), NEW c, c = Cardinality(BlocksOf(d)),
         NEW on, on = CHOOSE f : Onward(d, place.block, c, f)
  PROVE  /\ RoundsLeft(d, place) = {n \in 0 .. c : on[n] = place.last}
         /\ RoundsLeft(d, place) \subseteq Nat
<1>1. RoundsLeft(d, place) = {n \in DOMAIN on : on[n] = place.last}
  BY Zenon DEF RoundsLeft, Onward, BlocksOf
<1>2. c \in Nat
  BY ArrayFacts
<1>3. DOMAIN on = 0 .. c
  BY <1>2, OnwardIs
<1>4. RoundsLeft(d, place) = {n \in 0 .. c : on[n] = place.last}
  BY <1>1, <1>3, Zenon
<1>5. QED
  BY ONLY <1>2, <1>4

\* With blocks leaving the list on the way, the last one gets nearer.
LEMMA NearerLast ==
  ASSUME NEW d, SpaceInv(d), NEW bi \in BlocksOf(d), ListsIn(d)[bi] = "O",
         NEW place, place.block = bi, place.last \in BlocksOf(d), ListsIn(d)[place.last] = "O",
         bi # place.last, NEW nc \in 0 .. B, NEW d2, d2 = Failed(d, bi, nc),
         NEW place2, place2.block = d.block[bi].next, place2.last = place.last
  PROVE  /\ RoundsLeft(d2, place2) # {}
         /\ Min(RoundsLeft(d2, place2)) < Min(RoundsLeft(d, place))
<1> DEFINE S == {b \in BlocksOf(d) : ListsIn(d)[b] = "O"}
           nx == NextBlock(d)
           R == RoundsLeft(d, place)
           R2 == RoundsLeft(d2, place2)
<1>1. PICK last, next, c : last = place.last /\ next = d.block[bi].next /\ c = Cardinality(BlocksOf(d))
  OBVIOUS
<1>2. /\ ArrayType(d) /\ IsFiniteSet(BlocksOf(d)) /\ c \in Nat
      /\ \A b \in BlocksOf(d) : nx[b] = d.block[b].next
  BY <1>1, ArrayFacts DEF SpaceInv, NextBlock
<1>3. /\ SpaceInv(d2) /\ ArrayType(d2) /\ BlocksOf(d2) = BlocksOf(d)
      /\ \A b \in BlocksOf(d) : ListsIn(d)[b] = "O" /\ b # bi /\ d.block[b].next # bi =>
           d2.block[b].next = d.block[b].next
  <2>1. d.block[bi].next # bi
    BY OpenRing
  <2>2. QED
    BY <2>1, TriedSpace DEF SpaceInv
<1>4. Cycle(S, nx, PrevBlock(d)) /\ bi \in S /\ last \in S
  <2>1. bi \in S /\ last \in S
    BY <1>1
  <2>2. "O" \in Lists /\ Listed(d, ListsIn(d))
    BY DEF Lists, SpaceInv
  <2>3. QED
    BY <2>1, <2>2 DEF Listed
<1>5. \A b \in S : nx[b] \in S
  BY <1>4 DEF Cycle
<1>6. PICK f, g : /\ f = CHOOSE q : Onward(d, bi, c, q)
                  /\ g = CHOOSE q : Onward(d2, next, c, q)
  OBVIOUS
<1>7. /\ R = {n \in 0 .. c : f[n] = last} /\ R2 = {n \in 0 .. c : g[n] = last}
  <2>1. R = {n \in 0 .. c : f[n] = place.last}
    BY <1>1, <1>2, <1>6, RoundsLeftAre
  <2>2. R2 = {n \in 0 .. c : g[n] = place2.last}
    <3>1. place2.block \in BlocksOf(d2) /\ c = Cardinality(BlocksOf(d2))
      BY <1>1, <1>2, <1>3, <1>4, <1>5
    <3>2. g = CHOOSE q : Onward(d2, place2.block, c, q)
      BY <1>1, <1>6
    <3>3. QED
      BY <1>3, <3>1, <3>2, RoundsLeftAre
  <2>3. QED
    BY <1>1, <2>1, <2>2
<1>8. /\ f[0] = bi /\ \A n \in 1 .. c : f[n] = nx[f[n - 1]]
  BY <1>2, <1>6, OnwardIs
<1>9. /\ g[0] = nx[bi] /\ \A n \in 1 .. c : g[n] = NextBlock(d2)[g[n - 1]]
  <2>1. next \in BlocksOf(d2) /\ next = nx[bi]
    BY <1>1, <1>2, <1>3, <1>4, <1>5
  <2>2. g[0] = next /\ \A n \in 1 .. c : g[n] = NextBlock(d2)[g[n - 1]]
    BY <1>2, <1>3, <1>6, <2>1, OnwardIs
  <2>3. QED
    BY <2>1, <2>2
<1>10. \A b \in S : b # bi => nx[b] = bi \/ NextBlock(d2)[b] = nx[b]
  <2>1. \A b \in BlocksOf(d) : NextBlock(d2)[b] = d2.block[b].next
    BY <1>3 DEF NextBlock
  <2>2. QED
    BY <1>2, <1>3, <2>1
<1> DEFINE r == [i \in 1 .. c + 1 |-> f[i - 1]]
<1> HIDE DEF nx, S, R, R2
<1>11. c + 1 \in Nat /\ \A i \in 1 .. c + 1 : r[i] = f[i - 1]
  BY <1>2
<1>12. r[1] = bi /\ \A i \in 1 .. c : r[i + 1] = nx[r[i]]
  <2>1. r[1] = bi
    BY <1>2, <1>8, <1>11
  <2>2. ASSUME NEW i \in 1 .. c PROVE r[i + 1] = nx[r[i]]
    <3>1. i + 1 \in 1 .. c + 1 /\ (i + 1) - 1 = i /\ i \in 1 .. c + 1
      BY <1>2
    <3>2. r[i + 1] = f[i] /\ r[i] = f[i - 1]
      BY <1>11, <3>1
    <3>3. QED
      BY <1>8, <3>2
  <2>3. QED
    BY <2>1, <2>2
<1> HIDE DEF r
<1>13. \A n \in 0 .. c : f[n] \in S
  <2>1. \A i \in 2 .. c + 1 : r[i - 1] \in S => r[i] \in S
    <3>1. SUFFICES ASSUME NEW i \in 2 .. c + 1, r[i - 1] \in S PROVE r[i] \in S
      OBVIOUS
    <3>2. i - 1 \in 1 .. c /\ (i - 1) + 1 = i
      BY <1>2
    <3>3. QED
      BY <1>5, <1>12, <3>1, <3>2
  <2>2. \A i \in 1 .. c + 1 : r[i] \in S
    BY <1>4, <1>11, <1>12, <2>1, WalkIn
  <2>3. \A n \in 0 .. c : n + 1 \in 1 .. c + 1 /\ (n + 1) - 1 = n
    BY <1>2
  <2>4. QED
    BY <1>11, <2>2, <2>3
<1>14. R # {}
  <2>1. IsFiniteSet(S) /\ Cardinality(S) <= c /\ Cardinality(S) \in Nat
    <3>1. S \subseteq BlocksOf(d)
      BY DEF S
    <3>2. QED
      BY <1>1, <1>2, <3>1, FS_Subset, FS_CardinalityType
  <2>2. S = {r[i] : i \in 1 .. Cardinality(S)}
    <3>1. \A i \in 1 .. (c + 1) - 1 : r[i + 1] = nx[r[i]]
      BY <1>2, <1>12
    <3>2. Cardinality(S) <= c + 1 /\ r[1] \in S
      BY <1>2, <1>4, <1>12, <2>1
    <3>3. QED
      BY <1>4, <1>11, <2>1, <3>1, <3>2, CycleWalk
  <2>3. PICK i \in 1 .. Cardinality(S) : r[i] = last
    BY <1>4, <2>2
  <2>4. i - 1 \in 0 .. c /\ i \in 1 .. c + 1
    BY <1>2, <2>1
  <2>5. f[i - 1] = last
    BY <1>11, <2>3, <2>4
  <2>6. QED
    BY <1>7, <2>4, <2>5
<1>15. Min(R) \in R /\ \A k \in R : Min(R) <= k
  <2>1. R \subseteq Nat
    BY <1>2, <1>7
  <2>2. QED
    BY <1>14, <2>1, MinLeast
<1>16. PICK m : m = Min(R)
  OBVIOUS
<1>17. m \in 0 .. c /\ f[m] = last /\ \A k \in 0 .. c : f[k] = last => m <= k
  BY <1>7, <1>15, <1>16
<1>18. m - 1 \in 0 .. c /\ g[m - 1] = last
  <2>1. Trails(f, bi, nx, c) /\ Trails(g, nx[bi], NextBlock(d2), c)
    BY <1>8, <1>9 DEF Trails
  <2>2. Bypassed(f, c, bi, nx, NextBlock(d2))
    BY <1>10, <1>13 DEF Bypassed
  <2>3. FirstAt(f, c, last, m)
    BY <1>17 DEF FirstAt
  <2>4. bi # last /\ c \in Nat
    BY <1>1, <1>2
  <2>5. BothFollow(c, bi, last, f, nx, g, NextBlock(d2), m)
    BY <2>1, <2>2, <2>3, <2>4 DEF BothFollow
  <2>6. QED
    BY ONLY <2>5, WalkShorter
<1>19. m - 1 \in R2
  BY <1>7, <1>18
<1>20. Min(R2) <= m - 1
  <2>1. R2 \subseteq Nat
    BY <1>2, <1>7
  <2>2. QED
    BY <1>19, <2>1, MinLeast
<1>21. Min(R2) < m
  <2>1. Min(R2) \in Nat /\ m \in Nat
    <3>1. R2 \subseteq Nat /\ R2 # {}
      BY <1>2, <1>7, <1>19
    <3>2. Min(R2) \in R2
      BY <3>1, MinLeast
    <3>3. m \in Nat
      BY <1>2, <1>17
    <3>4. QED
      BY ONLY <3>1, <3>2, <3>3
  <2>2. QED
    BY <1>20, <2>1
<1>22. QED
  BY <1>16, <1>19, <1>21 DEF R, R2

-----------------------------------------------------------------------------
(* The order of a walk *)

\* The way from the root to x leads by n.
Leads(P, n, x) ==
  Len(P[n]) <= Len(P[x]) /\ \A i \in 1 .. Len(P[n]) : P[x][i] = P[n][i]

\* The ways of a tree: of two nodes on one way, one leads to the other.
Ways(d, U, P) ==
  /\ \A a \in U : Leads(P, a, a)
  /\ \A a, b, c \in U : Leads(P, a, b) /\ Leads(P, b, c) => Leads(P, a, c)
  /\ \A a, b, x \in U : Leads(P, a, x) /\ Leads(P, b, x) => Leads(P, a, b) \/ Leads(P, b, a)
  /\ \A a, b \in U : Leads(P, a, b) /\ Leads(P, b, a) => a = b
  /\ \A n \in U \ {0} : /\ d.check[n] \in U /\ d.check[n] # n /\ Leads(P, d.check[n], n)
                        /\ ~ IsTerminal(P, d.check[n])
  /\ \A n, x \in U : Leads(P, n, x) /\ n # x => x # 0 /\ Leads(P, n, d.check[x])
  /\ \A n, x \in U : Leads(P, n, x) /\ n # x => \E c \in U \ {0} : d.check[c] = n /\ Leads(P, c, x)

\* What the path of a node has over that of its parent.
Deeper(d, U, P) ==
  /\ U \subseteq Nat /\ 0 \in U /\ P \in [U -> Seq(Labels)] /\ P[0] = <<>>
  /\ \A n, m \in U : P[n] = P[m] => n = m
  /\ \A n \in U \ {0} : /\ d.check[n] \in U /\ ~ IsTerminal(P, d.check[n])
                        /\ Len(P[n]) = Len(P[d.check[n]]) + 1
                        /\ Leads(P, d.check[n], n)

LEMMA TreeDeeper ==
  ASSUME NEW d, ArrayType(d), NEW U, NEW P, Tree(d, U, Still, 0, P)
  PROVE  Deeper(d, U, P)
<1>1. U \subseteq Nat /\ 0 \in U /\ P \in [U -> Seq(Labels)] /\ P[0] = <<>>
      /\ \A n, m \in U : P[n] = P[m] => n = m
  BY ArrayFacts DEF Tree, Paths
<1>2. ASSUME NEW n \in U \ {0}
      PROVE  /\ d.check[n] \in U /\ ~ IsTerminal(P, d.check[n])
             /\ Len(P[n]) = Len(P[d.check[n]]) + 1 /\ Leads(P, d.check[n], n)
  <2>1. /\ d.check[n] \in U /\ ~ IsTerminal(P, d.check[n])
        /\ P[d.check[n]] \in Seq(Labels) /\ \E l \in Labels : P[n] = Append(P[d.check[n]], l)
    BY NodeFacts
  <2>2. PICK p, q, l : p = P[d.check[n]] /\ q = P[n] /\ l \in Labels /\ q = Append(p, l)
    BY <2>1
  <2>3. p \in Seq(Labels)
    BY <2>1, <2>2
  <2>4. Len(q) = Len(p) + 1 /\ Len(p) <= Len(q) /\ \A i \in 1 .. Len(p) : q[i] = p[i]
    BY ONLY <2>2, <2>3
  <2>5. QED
    BY <2>1, <2>2, <2>4 DEF Leads
<1>3. QED
  BY <1>1, <1>2 DEF Deeper

LEMMA DeeperWays ==
  ASSUME NEW d, NEW U, NEW P, Deeper(d, U, P)
  PROVE  Ways(d, U, P)
<1>1. /\ U \subseteq Nat /\ 0 \in U /\ P \in [U -> Seq(Labels)] /\ P[0] = <<>>
      /\ \A n, m \in U : P[n] = P[m] => n = m
      /\ \A n \in U \ {0} : /\ d.check[n] \in U /\ ~ IsTerminal(P, d.check[n])
                            /\ Len(P[n]) = Len(P[d.check[n]]) + 1
                            /\ Leads(P, d.check[n], n)
  BY DEF Deeper
<1>2. \A n \in U : Len(P[n]) \in Nat /\ P[n] \in Seq(Labels)
  BY <1>1
<1>3. \A a \in U : Leads(P, a, a)
  BY <1>2 DEF Leads
<1>4. \A a, b, c \in U : Leads(P, a, b) /\ Leads(P, b, c) => Leads(P, a, c)
  BY <1>2 DEF Leads
<1>5. ASSUME NEW a \in U, NEW b \in U, NEW x \in U, Leads(P, a, x), Leads(P, b, x), Len(P[a]) <= Len(P[b])
      PROVE  Leads(P, a, b)
  BY <1>2, <1>5 DEF Leads
<1>6. ASSUME NEW a \in U, NEW b \in U, Leads(P, a, b), Len(P[b]) <= Len(P[a])
      PROVE  a = b
  <2>1. PICK p, q : p = P[a] /\ q = P[b]
    OBVIOUS
  <2>2. /\ p \in Seq(Labels) /\ q \in Seq(Labels) /\ Len(p) = Len(q)
        /\ \A i \in 1 .. Len(p) : q[i] = p[i]
    BY <1>2, <1>6, <2>1 DEF Leads
  <2>3. p = q
    BY <2>2, SeqEqual
  <2>4. QED
    BY <1>1, <2>1, <2>3
<1>7. ASSUME NEW n \in U, NEW x \in U, Leads(P, n, x), n # x
      PROVE  /\ x # 0 /\ Leads(P, n, d.check[x])
             /\ Len(P[n]) < Len(P[x])
  <2>1. Len(P[n]) < Len(P[x])
    BY <1>2, <1>6, <1>7
  <2>2. x # 0
    BY <1>1, <1>2, <2>1
  <2>3. d.check[x] \in U /\ Leads(P, d.check[x], x) /\ Len(P[n]) <= Len(P[d.check[x]])
    BY <1>1, <1>2, <2>1, <2>2
  <2>4. QED
    BY <1>5, <1>7, <2>1, <2>2, <2>3
<1>8. ASSUME NEW n \in U, NEW x \in U, Leads(P, n, x), n # x
      PROVE  \E c \in U \ {0} : d.check[c] = n /\ Leads(P, c, x)
  <2> DEFINE Z == {i \in Nat : \E c \in U : c # n /\ Leads(P, n, c) /\ Leads(P, c, x) /\ i = Len(P[c])}
  <2>1. Len(P[x]) \in Z
    BY <1>2, <1>3, <1>8
  <2>2. PICK i \in Z : \A y \in Z : i <= y
    <3>1. Z \subseteq Nat /\ Z # {}
      BY <2>1
    <3> HIDE DEF Z
    <3>2. QED
      BY <3>1, LeastNatural
  <2>3. PICK c \in U : c # n /\ Leads(P, n, c) /\ Leads(P, c, x) /\ i = Len(P[c])
    OBVIOUS
  <2>4. c # 0 /\ Leads(P, n, d.check[c])
    BY <1>7, <2>3
  <2>5. d.check[c] \in U /\ Leads(P, d.check[c], x) /\ Len(P[d.check[c]]) < i
    <3> HIDE DEF Z
    <3>1. c \in U \ {0} /\ d.check[c] \in U /\ Leads(P, d.check[c], c) /\ Len(P[c]) = Len(P[d.check[c]]) + 1
      BY <1>1, <2>3, <2>4
    <3>2. Leads(P, d.check[c], x)
      BY <1>4, <2>3, <3>1
    <3>3. Len(P[d.check[c]]) < i
      BY <1>2, <2>3, <3>1
    <3>4. QED
      BY <3>1, <3>2, <3>3
  <2>6. d.check[c] = n
    <3>1. SUFFICES ASSUME d.check[c] # n PROVE FALSE
      OBVIOUS
    <3>2. Len(P[d.check[c]]) \in Z
      BY <1>2, <2>4, <2>5, <3>1
    <3> HIDE DEF Z
    <3>3. i <= Len(P[d.check[c]])
      BY <2>2, <3>2
    <3>4. QED
      BY <1>2, <2>3, <2>5, <3>3
  <2>7. QED
    BY <2>3, <2>4, <2>6
<1>9. \A a, b, x \in U : Leads(P, a, x) /\ Leads(P, b, x) => Leads(P, a, b) \/ Leads(P, b, a)
  <2>1. \A a, b \in U : Len(P[a]) <= Len(P[b]) \/ Len(P[b]) <= Len(P[a])
    BY <1>2
  <2>2. QED
    BY <1>5, <2>1
<1>10. \A a, b \in U : Leads(P, a, b) /\ Leads(P, b, a) => a = b
  BY <1>6 DEF Leads
<1>11. \A n \in U \ {0} : d.check[n] # n
  BY <1>1, <1>2
<1>12. QED
  BY <1>1, <1>3, <1>4, <1>7, <1>8, <1>9, <1>10, <1>11 DEF Ways

\* In a walk x comes after t: they part at two children of a node, a and b.
After(d, U, P, R, t, x) ==
  \E a, b \in U \ {0} : /\ d.check[a] = d.check[b] /\ R[a] < R[b]
                        /\ Leads(P, a, t) /\ Leads(P, b, x)

SiblingOf(d, n) == Xor(d.base[d.check[n]], d.sibling[n])

FirstOf(d, n) == Xor(d.base[n], d.child[n])

\* R numbers the children of each node in the order of their list.
Ranks(d, U, P, R) ==
  /\ R \in [U \ {0} -> Nat]
  /\ \A n, m \in U \ {0} : d.check[n] = d.check[m] /\ R[n] = R[m] => n = m
  /\ \A n \in U \ {0} : d.sibling[n] = 0 => \A m \in U \ {0} : d.check[m] = d.check[n] => R[m] <= R[n]
  /\ \A n \in U \ {0} : d.sibling[n] # 0 =>
       /\ SiblingOf(d, n) \in U \ {0} /\ d.check[SiblingOf(d, n)] = d.check[n]
       /\ R[SiblingOf(d, n)] = R[n] + 1 /\ ~ IsTerminal(P, SiblingOf(d, n))
  /\ \A n \in U \ {0} : ~ IsTerminal(P, n) =>
       /\ FirstOf(d, n) \in U \ {0} /\ d.check[FirstOf(d, n)] = n
       /\ \A m \in U \ {0} : d.check[m] = n => R[FirstOf(d, n)] <= R[m]
       /\ IsTerminal(P, FirstOf(d, n)) <=> d.child[n] = 0
  /\ \A n \in U \ {0} : IsTerminal(P, n) =>
       /\ d.child[d.check[n]] = 0 /\ n = d.base[d.check[n]]
       /\ \A m \in U \ {0} : d.check[m] = d.check[n] => R[n] <= R[m]

InOrder(d, U, P, R) == U \subseteq Nat /\ 0 \in U /\ Ways(d, U, P) /\ Ranks(d, U, P, R)

\* Two children of a node lead to different places.
LEMMA Siblings ==
  ASSUME NEW d, NEW U, NEW P, Ways(d, U, P), NEW a \in U \ {0}, NEW b \in U \ {0},
         d.check[a] = d.check[b], NEW x \in U, Leads(P, a, x), Leads(P, b, x)
  PROVE  a = b
<1>1. ASSUME NEW m \in U \ {0}, NEW n \in U \ {0}, d.check[m] = d.check[n], Leads(P, m, n)
      PROVE  m = n
  <2>1. SUFFICES ASSUME m # n PROVE FALSE
    OBVIOUS
  <2>2. Leads(P, m, d.check[m]) /\ Leads(P, d.check[m], m) /\ d.check[m] \in U /\ d.check[m] # m
    BY <1>1, <2>1 DEF Ways
  <2>3. QED
    BY <2>2 DEF Ways
<1>2. Leads(P, a, b) \/ Leads(P, b, a)
  BY DEF Ways
<1>3. QED
  BY <1>1, <1>2

\* Of two nodes at most one comes after the other.
LEMMA NotBothAfter ==
  ASSUME NEW d, NEW U, NEW P, NEW R, InOrder(d, U, P, R), NEW t \in U, NEW x \in U,
         After(d, U, P, R, t, x), After(d, U, P, R, x, t)
  PROVE  FALSE
<1>1. PICK a, b \in U \ {0} : d.check[a] = d.check[b] /\ R[a] < R[b] /\ Leads(P, a, t) /\ Leads(P, b, x)
  BY DEF After
<1>2. PICK e, f \in U \ {0} : d.check[e] = d.check[f] /\ R[e] < R[f] /\ Leads(P, e, x) /\ Leads(P, f, t)
  BY DEF After
<1>3. Ways(d, U, P) /\ R[a] \in Nat /\ R[b] \in Nat /\ R[e] \in Nat /\ R[f] \in Nat
  BY DEF InOrder, Ranks
<1>4. ASSUME NEW g \in U \ {0}, NEW h \in U \ {0}, NEW m \in U \ {0}, NEW n \in U \ {0}, NEW y \in U, NEW z \in U,
             d.check[g] = d.check[h], d.check[m] = d.check[n], Leads(P, g, y), Leads(P, h, z),
             Leads(P, m, z), Leads(P, n, y), Leads(P, g, n), g # n
      PROVE  g = h
  <2>1. Leads(P, g, d.check[n]) /\ Leads(P, d.check[m], m) /\ d.check[m] \in U
    BY <1>3, <1>4 DEF Ways
  <2>2. Leads(P, g, z)
    BY <1>3, <1>4, <2>1 DEF Ways
  <2>3. QED
    BY <1>3, <1>4, <2>2, Siblings
<1>5. Leads(P, a, f) \/ Leads(P, f, a)
  BY <1>1, <1>2, <1>3 DEF Ways
<1>6. a # b /\ e # f
  BY <1>1, <1>2, <1>3
<1>7. a = f
  BY <1>1, <1>2, <1>4, <1>5, <1>6
<1>8. b = e
  BY <1>1, <1>2, <1>3, <1>7, Siblings
<1>9. QED
  BY <1>1, <1>2, <1>3, <1>7, <1>8

\* A string comes before the longer ones that start with it.
LEMMA ShorterFirst ==
  ASSUME NEW d, NEW U, NEW P, NEW R, InOrder(d, U, P, R), NEW t \in U \ {0}, IsTerminal(P, t),
         NEW x \in U, IsTerminal(P, x), Leads(P, d.check[t], x), x # t
  PROVE  After(d, U, P, R, t, x)
<1>1. Ways(d, U, P)
  BY DEF InOrder
<1>2. PICK f : f = d.check[t]
  OBVIOUS
<1>3. f \in U /\ ~ IsTerminal(P, f)
  BY <1>1, <1>2 DEF Ways
<1>4. PICK c \in U \ {0} : d.check[c] = f /\ Leads(P, c, x)
  BY <1>1, <1>2, <1>3 DEF Ways
<1>5. c # t
  <2>1. SUFFICES ASSUME Leads(P, t, x) PROVE FALSE
    BY <1>4
  <2>2. PICK b \in U \ {0} : d.check[b] = t
    BY <1>1, <2>1 DEF Ways
  <2>3. QED
    BY <1>1, <2>2 DEF Ways
<1>6. R[t] < R[c]
  <2>1. R[t] \in Nat /\ R[c] \in Nat /\ R[t] <= R[c] /\ R[t] # R[c]
    BY <1>2, <1>4, <1>5 DEF InOrder, Ranks
  <2>2. QED
    BY <2>1
<1>7. Leads(P, t, t)
  BY <1>1 DEF Ways
<1>8. QED
  BY <1>2, <1>4, <1>6, <1>7 DEF After

\* Where a walk begins below n: at f, whose terminal is before the others.
Begins(d, U, P, R, n, f) ==
  /\ f \in U \ {0} /\ ~ IsTerminal(P, f) /\ Leads(P, n, f)
  /\ d.base[f] \in U \ {0} /\ d.check[d.base[f]] = f /\ IsTerminal(P, d.base[f])
  /\ \A x \in U : IsTerminal(P, x) /\ Leads(P, n, x) =>
       x = d.base[f] \/ After(d, U, P, R, d.base[f], x)

\* On the way there: what is not below m comes after it.
Down(d, U, P, R, n, m) ==
  /\ m \in U \ {0} /\ Leads(P, n, m)
  /\ \A x \in U : IsTerminal(P, x) /\ Leads(P, n, x) => Leads(P, m, x) \/ After(d, U, P, R, m, x)

LEMMA DownFirst ==
  ASSUME NEW d, NEW U, NEW P, NEW R, InOrder(d, U, P, R), NEW n \in U, NEW m,
         Down(d, U, P, R, n, m), ~ IsTerminal(P, m)
  PROVE  Down(d, U, P, R, n, FirstOf(d, m))
<1>1. m \in U \ {0} /\ Leads(P, n, m)
      /\ \A x \in U : IsTerminal(P, x) /\ Leads(P, n, x) => Leads(P, m, x) \/ After(d, U, P, R, m, x)
  BY DEF Down
<1>2. PICK c : c = FirstOf(d, m)
  OBVIOUS
<1>3. /\ c \in U \ {0} /\ d.check[c] = m
      /\ \A b \in U \ {0} : d.check[b] = m => R[c] <= R[b]
      /\ \A b \in U \ {0} : R[b] \in Nat
      /\ \A b \in U \ {0} : d.check[b] = m /\ R[c] = R[b] => b = c
  BY <1>1, <1>2 DEF InOrder, Ranks
<1>4. Ways(d, U, P)
  BY DEF InOrder
<1>5. Leads(P, m, c) /\ Leads(P, n, c)
  BY <1>1, <1>3, <1>4 DEF Ways
<1>6. ASSUME NEW x \in U, IsTerminal(P, x), Leads(P, n, x), ~ Leads(P, c, x)
      PROVE  After(d, U, P, R, c, x)
  <2>1. CASE Leads(P, m, x)
    <3>1. m # x
      BY <1>6
    <3>2. PICK b \in U \ {0} : d.check[b] = m /\ Leads(P, b, x)
      BY <1>1, <1>4, <2>1, <3>1 DEF Ways
    <3>3. R[c] < R[b]
      BY <1>3, <1>6, <3>2
    <3>4. Leads(P, c, c)
      BY <1>3, <1>4 DEF Ways
    <3>5. QED
      BY <1>3, <3>2, <3>3, <3>4 DEF After
  <2>2. CASE After(d, U, P, R, m, x)
    <3>1. PICK a, b \in U \ {0} : d.check[a] = d.check[b] /\ R[a] < R[b] /\ Leads(P, a, m) /\ Leads(P, b, x)
      BY <2>2 DEF After
    <3>2. Leads(P, a, c)
      BY <1>1, <1>3, <1>4, <1>5, <3>1 DEF Ways
    <3>3. QED
      BY <3>1, <3>2 DEF After
  <2>3. QED
    BY <1>1, <1>6, <2>1, <2>2
<1>7. QED
  BY <1>2, <1>3, <1>5, <1>6 DEF Down

\* At a node whose first child is a terminal the way down is at its end.
LEMMA DownEnds ==
  ASSUME NEW d, NEW U, NEW P, NEW R, InOrder(d, U, P, R), NEW n \in U, NEW f,
         Down(d, U, P, R, n, f), ~ IsTerminal(P, f), d.child[f] = 0
  PROVE  Begins(d, U, P, R, n, f)
<1>1. f \in U \ {0} /\ Leads(P, n, f)
  BY DEF Down
<1>2. PICK t : t = FirstOf(d, f)
  OBVIOUS
<1>3. t \in U \ {0} /\ d.check[t] = f /\ IsTerminal(P, t)
  BY <1>1, <1>2 DEF InOrder, Ranks
<1>4. t = d.base[f]
  BY <1>3 DEF InOrder, Ranks
<1>5. Down(d, U, P, R, n, t)
  BY <1>2, DownFirst
<1>6. ASSUME NEW x \in U, IsTerminal(P, x), Leads(P, t, x) PROVE x = t
  <2>1. SUFFICES ASSUME x # t PROVE FALSE
    OBVIOUS
  <2>2. Ways(d, U, P)
    BY DEF InOrder
  <2>3. PICK c \in U \ {0} : d.check[c] = t
    BY <1>3, <1>6, <2>1, <2>2 DEF Ways
  <2>4. QED
    BY <1>3, <2>2, <2>3 DEF Ways
<1>7. \A x \in U : IsTerminal(P, x) /\ Leads(P, n, x) => x = t \/ After(d, U, P, R, t, x)
  BY <1>5, <1>6 DEF Down
<1>8. QED
  BY <1>1, <1>3, <1>4, <1>7 DEF Begins

\* On the way up from t to r: a is reached, and no node between t and a has a sibling left.
Climb(d, U, P, t, r, a) ==
  /\ a \in U \ {0} /\ Leads(P, a, t) /\ Leads(P, r, d.check[a])
  /\ \A m \in U \ {0} : Leads(P, m, t) /\ Leads(P, a, m) /\ m # a => d.sibling[m] = 0

LEMMA ClimbOn ==
  ASSUME NEW d, NEW U, NEW P, Ways(d, U, P), NEW t \in U, NEW r \in U, NEW a, Climb(d, U, P, t, r, a),
         d.sibling[a] = 0, d.check[a] # r
  PROVE  Climb(d, U, P, t, r, d.check[a])
<1>1. a \in U \ {0} /\ Leads(P, a, t) /\ Leads(P, r, d.check[a])
      /\ \A m \in U \ {0} : Leads(P, m, t) /\ Leads(P, a, m) /\ m # a => d.sibling[m] = 0
  BY DEF Climb
<1>2. PICK f : f = d.check[a]
  OBVIOUS
<1>3. f \in U /\ Leads(P, f, a) /\ Leads(P, r, f) /\ f # r
  BY <1>1, <1>2 DEF Ways
<1>4. f # 0 /\ Leads(P, r, d.check[f])
  BY <1>3 DEF Ways
<1>5. Leads(P, f, t)
  BY <1>1, <1>3 DEF Ways
<1>6. ASSUME NEW m \in U \ {0}, Leads(P, m, t), Leads(P, f, m), m # f PROVE d.sibling[m] = 0
  <2>1. PICK c \in U \ {0} : d.check[c] = f /\ Leads(P, c, m)
    BY <1>3, <1>6 DEF Ways
  <2>2. Leads(P, c, t)
    BY <1>6, <2>1 DEF Ways
  <2>3. c = a
    BY <1>1, <1>2, <2>1, <2>2, Siblings
  <2>4. QED
    BY <1>1, <1>6, <2>1, <2>3
<1>7. QED
  BY <1>2, <1>3, <1>4, <1>5, <1>6 DEF Climb

\* A node above t and below r that the way up has not found a sibling of.
LEMMA LastBelow ==
  ASSUME NEW d, NEW U, NEW P, NEW R, InOrder(d, U, P, R), NEW a \in U \ {0}, NEW b \in U \ {0},
         d.check[a] = d.check[b], R[a] < R[b]
  PROVE  d.sibling[a] # 0
<1>1. R[a] \in Nat /\ R[b] \in Nat
  BY DEF InOrder, Ranks
<1>2. d.sibling[a] = 0 => R[b] <= R[a]
  BY DEF InOrder, Ranks
<1>3. QED
  BY <1>1, <1>2

\* What comes after t is the next terminal and what comes after that.
GoesOnTo(d, U, P, R, t, r, f) ==
  /\ Leads(P, r, f)
  /\ \A x \in U : IsTerminal(P, x) /\ Leads(P, r, x) =>
       (After(d, U, P, R, t, x) <=> x = d.base[f] \/ After(d, U, P, R, d.base[f], x))

LEMMA ClimbFinds ==
  ASSUME NEW d, NEW U, NEW P, NEW R, InOrder(d, U, P, R), NEW t \in U, NEW r \in U,
         NEW a, Climb(d, U, P, t, r, a), d.sibling[a] # 0,
         NEW f, Begins(d, U, P, R, SiblingOf(d, a), f)
  PROVE  GoesOnTo(d, U, P, R, t, r, f)
<1>1. a \in U \ {0} /\ Leads(P, a, t) /\ Leads(P, r, d.check[a])
      /\ \A m \in U \ {0} : Leads(P, m, t) /\ Leads(P, a, m) /\ m # a => d.sibling[m] = 0
  BY DEF Climb
<1>2. PICK s, e, nt : s = SiblingOf(d, a) /\ e = d.check[a] /\ nt = d.base[f]
  OBVIOUS
<1>3. /\ s \in U \ {0} /\ d.check[s] = e /\ R[s] = R[a] + 1
      /\ \A n \in U \ {0} : R[n] \in Nat
      /\ \A n, m \in U \ {0} : d.check[n] = d.check[m] /\ R[n] = R[m] => n = m
  BY <1>1, <1>2 DEF InOrder, Ranks
<1>4. /\ f \in U \ {0} /\ Leads(P, s, f) /\ nt \in U \ {0} /\ d.check[nt] = f
      /\ \A x \in U : IsTerminal(P, x) /\ Leads(P, s, x) => x = nt \/ After(d, U, P, R, nt, x)
  BY <1>2 DEF Begins
<1>5. Ways(d, U, P)
  BY DEF InOrder
<1>6. /\ e \in U /\ Leads(P, e, a) /\ Leads(P, e, s) /\ Leads(P, f, nt) /\ Leads(P, r, e) /\ a # s
      /\ d.check[a] = e
  BY <1>1, <1>2, <1>3, <1>4, <1>5 DEF Ways
<1>7. Leads(P, s, nt) /\ Leads(P, e, nt) /\ Leads(P, e, t) /\ Leads(P, r, s) /\ Leads(P, r, f)
  <2>1. Leads(P, s, nt) /\ Leads(P, e, t) /\ Leads(P, r, s)
    BY <1>1, <1>3, <1>4, <1>5, <1>6 DEF Ways
  <2>2. Leads(P, e, nt) /\ Leads(P, r, f)
    BY <1>3, <1>4, <1>5, <1>6, <2>1 DEF Ways
  <2>3. QED
    BY <2>1, <2>2
<1>8. ASSUME NEW x \in U, IsTerminal(P, x), After(d, U, P, R, t, x), x # nt PROVE After(d, U, P, R, nt, x)
  <2>1. PICK m, n \in U \ {0} : d.check[m] = d.check[n] /\ R[m] < R[n] /\ Leads(P, m, t) /\ Leads(P, n, x)
    BY <1>8 DEF After
  <2>2. Leads(P, m, a) \/ Leads(P, a, m)
    BY <1>1, <1>5, <2>1 DEF Ways
  <2>3. CASE m = a
    <3>1. CASE n = s
      BY <1>4, <1>8, <2>1, <3>1
    <3>2. CASE n # s
      <4>1. R[s] < R[n]
        BY <1>1, <1>3, <1>6, <2>1, <2>3, <3>2
      <4>2. QED
        BY <1>3, <1>6, <1>7, <2>1, <2>3, <4>1 DEF After
    <3>3. QED
      BY <3>1, <3>2
  <2>4. CASE m # a /\ Leads(P, m, a)
    <3>1. Leads(P, m, e)
      BY <1>1, <1>5, <1>6, <2>1, <2>4 DEF Ways
    <3>2. Leads(P, m, nt)
      BY <1>4, <1>5, <1>6, <1>7, <2>1, <3>1 DEF Ways
    <3>3. QED
      BY <2>1, <3>2 DEF After
  <2>5. CASE m # a /\ Leads(P, a, m)
    <3>1. d.sibling[m] = 0
      BY <1>1, <2>1, <2>5
    <3>2. d.sibling[m] # 0
      BY <2>1, LastBelow
    <3>3. QED
      BY <3>1, <3>2
  <2>6. QED
    BY <2>2, <2>3, <2>4, <2>5
<1>9. After(d, U, P, R, t, nt)
  <2>1. R[a] < R[s]
    BY <1>1, <1>3
  <2>2. QED
    BY <1>1, <1>3, <1>6, <1>7, <2>1 DEF After
<1>10. ASSUME NEW x \in U, After(d, U, P, R, nt, x) PROVE After(d, U, P, R, t, x)
  <2>1. PICK m, n \in U \ {0} : d.check[m] = d.check[n] /\ R[m] < R[n] /\ Leads(P, m, nt) /\ Leads(P, n, x)
    BY <1>10 DEF After
  <2>2. Leads(P, m, s) \/ Leads(P, s, m)
    BY <1>3, <1>4, <1>5, <1>7, <2>1 DEF Ways
  <2>3. CASE m = s
    <3>1. R[a] < R[n] /\ d.check[a] = d.check[n]
      BY <1>1, <1>3, <1>6, <2>1, <2>3
    <3>2. QED
      BY <1>1, <2>1, <3>1 DEF After
  <2>4. CASE m # s /\ Leads(P, m, s)
    <3>1. Leads(P, m, e)
      BY <1>3, <1>5, <1>6, <2>1, <2>4 DEF Ways
    <3>2. Leads(P, m, t)
      BY <1>5, <1>6, <1>7, <2>1, <3>1 DEF Ways
    <3>3. QED
      BY <2>1, <3>2 DEF After
  <2>5. CASE m # s /\ Leads(P, s, m)
    <3>1. Leads(P, s, d.check[m]) /\ Leads(P, d.check[n], n) /\ d.check[m] \in U
      BY <1>3, <1>5, <2>1, <2>5 DEF Ways
    <3>2. Leads(P, s, n)
      BY <1>3, <1>5, <2>1, <3>1 DEF Ways
    <3>3. Leads(P, s, x)
      BY <1>3, <1>5, <2>1, <3>2 DEF Ways
    <3>4. R[a] < R[s]
      BY <1>1, <1>3
    <3>5. QED
      BY <1>1, <1>3, <1>6, <3>3, <3>4 DEF After
  <2>6. QED
    BY <2>2, <2>3, <2>4, <2>5
<1>11. QED
  BY <1>2, <1>7, <1>8, <1>9, <1>10 DEF GoesOnTo

\* At r without a sibling on the way: nothing comes after t.
LEMMA ClimbEnds ==
  ASSUME NEW d, NEW U, NEW P, NEW R, InOrder(d, U, P, R), NEW t \in U, NEW a,
         Climb(d, U, P, t, d.check[a], a), d.sibling[a] = 0,
         NEW x \in U, Leads(P, d.check[a], x)
  PROVE  ~ After(d, U, P, R, t, x)
<1>1. a \in U \ {0} /\ Leads(P, a, t)
      /\ \A m \in U \ {0} : Leads(P, m, t) /\ Leads(P, a, m) /\ m # a => d.sibling[m] = 0
  BY DEF Climb
<1>2. SUFFICES ASSUME NEW m \in U \ {0}, NEW n \in U \ {0}, d.check[m] = d.check[n], R[m] < R[n],
                      Leads(P, m, t), Leads(P, n, x)
               PROVE  FALSE
  BY DEF After
<1>3. Ways(d, U, P)
  BY DEF InOrder
<1>4. d.sibling[m] # 0
  BY <1>2, LastBelow
<1>5. ~ Leads(P, a, m)
  BY <1>1, <1>2, <1>4
<1>6. Leads(P, m, a) /\ m # a
  BY <1>1, <1>2, <1>3, <1>5 DEF Ways
<1>7. Leads(P, m, d.check[a]) /\ d.check[a] \in U
  BY <1>1, <1>2, <1>3, <1>6 DEF Ways
<1>8. Leads(P, m, x)
  BY <1>2, <1>3, <1>7 DEF Ways
<1>9. m = n
  BY <1>2, <1>3, <1>8, Siblings
<1>10. R[m] \in Nat
  BY DEF InOrder, Ranks
<1>11. QED
  BY <1>2, <1>9, <1>10

-----------------------------------------------------------------------------
(* The lists of children number them *)

\* The list of the children of f, on which n is the i-th.
Numbers(d, U, P, f, s, n, i) ==
  /\ IsChain(d, U, f, s) /\ d.base[f] \in Nat /\ i \in 1 .. Len(s)
  /\ n \in U \ {0} /\ d.check[n] = f /\ n = Xor(d.base[f], s[i])
  /\ IsTerminal(P, n) <=> s[i] = 0

LEMMA InnerChain ==
  ASSUME NEW d, ArrayType(d), NEW U, NEW P, Tree(d, U, Still, 0, P), NEW f \in U, ~ IsTerminal(P, f)
  PROVE  d.base[f] \in Nat /\ \E s : IsChain(d, U, f, s)
<1>1. U \subseteq PlacesOf(d) /\ PlacesOf(d) \subseteq Nat
  BY ArrayFacts DEF Tree
<1>2. d.base[f] \in Nat
  <2>1. d.base[0] = 0 /\ \A n \in U \ {0} : Based(d, n, P)
    BY DEF Tree, Bases
  <2>2. QED
    BY <1>1, <2>1 DEF Based
<1>3. d.base[f] >= 0 /\ f # Still.mover
  BY <1>1, <1>2 DEF Still
<1>4. QED
  BY <1>2, <1>3 DEF Tree, Chains

LEMMA OnChain ==
  ASSUME NEW d, ArrayType(d), NEW U, NEW P, Tree(d, U, Still, 0, P), NEW n \in U \ {0},
         NEW s, IsChain(d, U, d.check[n], s)
  PROVE  \E i : Numbers(d, U, P, d.check[n], s, n, i)
<1>1. PICK f : f = d.check[n]
  OBVIOUS
<1>2. /\ f \in U /\ ~ IsTerminal(P, f)
      /\ \E l \in Labels : n = Xor(Hang(d, Still, n), l) /\ (IsTerminal(P, n) <=> l = 0)
  BY <1>1, NodeFacts
<1>3. d.base[f] \in Nat
  BY <1>2, InnerChain
<1>4. PICK l \in Labels : n = Xor(d.base[f], l) /\ (IsTerminal(P, n) <=> l = 0)
  BY <1>1, <1>2 DEF Hang, Still
<1>5. s \in Seq(Labels) /\ \E i \in 1 .. Len(s) : n = Xor(d.base[f], s[i])
  BY <1>1 DEF IsChain, Parent
<1>6. PICK i \in 1 .. Len(s) : n = Xor(d.base[f], s[i])
  BY <1>5
<1>7. s[i] \in Labels
  BY <1>5
<1>8. s[i] = l
  BY <1>3, <1>4, <1>6, <1>7, XorInjective
<1>9. QED
  BY <1>1, <1>3, <1>4, <1>6, <1>8 DEF Numbers

\* What stands on the list at i is a child, but for the root, which is its own first.
LEMMA AtChain ==
  ASSUME NEW d, ArrayType(d), NEW U, NEW P, Tree(d, U, Still, 0, P), NEW f \in U, ~ IsTerminal(P, f),
         NEW s, IsChain(d, U, f, s), NEW i \in 1 .. Len(s), f # 0 \/ i # 1
  PROVE  Numbers(d, U, P, f, s, Xor(d.base[f], s[i]), i)
<1>1. d.base[f] \in Nat
  BY InnerChain
<1>2. PICK n : n = Xor(d.base[f], s[i])
  OBVIOUS
<1>3. s \in Seq(Labels) /\ s[i] \in Labels /\ n \in U /\ Parent(d, n) = f
      /\ (i # 1 => s[i] # 0)
  BY <1>2 DEF IsChain
<1>4. n # 0
  <2>1. CASE f # 0
    BY <1>3, <2>1 DEF Parent
  <2>2. CASE f = 0
    <3>1. d.base[0] = 0 /\ 0 \in Labels /\ 0 \in Nat
      BY BIsNat DEF Tree, Bases, Labels
    <3>2. Xor(0, 0) = 0
      BY <3>1, XorFacts
    <3>3. QED
      BY <1>2, <1>3, <2>2, <3>1, <3>2, XorInjective
  <2>3. QED
    BY <2>1, <2>2
<1>5. d.check[n] = f
  BY <1>3, <1>4 DEF Parent
<1>6. PICK k : Numbers(d, U, P, f, s, n, k)
  BY <1>3, <1>4, <1>5, OnChain
<1>7. k \in 1 .. Len(s) /\ n = Xor(d.base[f], s[k]) /\ (IsTerminal(P, n) <=> s[k] = 0)
  BY <1>6 DEF Numbers
<1>8. s[k] = s[i]
  <2>1. s[k] \in Labels
    BY <1>3, <1>7
  <2>2. QED
    BY <1>1, <1>2, <1>3, <1>7, <2>1, XorInjective
<1>9. QED
  BY <1>1, <1>2, <1>3, <1>4, <1>5, <1>7, <1>8 DEF Numbers

LEMMA SameNumber ==
  ASSUME NEW d, NEW U, NEW P, NEW f, NEW s, NEW n, NEW i, NEW k,
         Numbers(d, U, P, f, s, n, i), Numbers(d, U, P, f, s, n, k)
  PROVE  i = k
<1>1. s \in Seq(Labels) /\ i \in 1 .. Len(s) /\ k \in 1 .. Len(s) /\ d.base[f] \in Nat
      /\ Xor(d.base[f], s[i]) = Xor(d.base[f], s[k])
      /\ \A x, y \in 1 .. Len(s) : s[x] = s[y] => x = y
  BY DEF Numbers, IsChain
<1>2. s[i] \in Labels /\ s[k] \in Labels
  BY <1>1
<1>3. s[i] = s[k]
  BY <1>1, <1>2, XorInjective
<1>4. QED
  BY <1>1, <1>3

LEMMA TreeRanks ==
  ASSUME NEW d, ArrayType(d), NEW U, NEW P, Tree(d, U, Still, 0, P)
  PROVE  \E R : Ranks(d, U, P, R)
<1> DEFINE C(f) == CHOOSE s : IsChain(d, U, f, s)
           Num(n, i) == Numbers(d, U, P, d.check[n], C(d.check[n]), n, i)
           R == [n \in U \ {0} |-> CHOOSE i : Num(n, i)]
<1>1. ASSUME NEW f \in U, ~ IsTerminal(P, f) PROVE IsChain(d, U, f, C(f))
  BY <1>1, InnerChain
<1>2. ASSUME NEW n \in U \ {0} PROVE d.check[n] \in U /\ ~ IsTerminal(P, d.check[n])
  BY NodeFacts
<1>3. ASSUME NEW n \in U \ {0} PROVE \E i : Num(n, i)
  <2>1. IsChain(d, U, d.check[n], C(d.check[n]))
    BY <1>1, <1>2
  <2> HIDE DEF C
  <2>2. QED
    BY <2>1, OnChain
<1>4. \A n \in U \ {0} : Num(n, R[n])
  <2> HIDE DEF Num
  <2>1. QED
    BY <1>3
<1>5. \A n \in U \ {0} : \A i : Num(n, i) => i = R[n]
  <2> HIDE DEF R, C
  <2>1. QED
    BY <1>4, SameNumber
<1> HIDE DEF R
<1>6. R \in [U \ {0} -> Nat]
  <2>1. \A n \in U \ {0} : R[n] \in Nat
    BY <1>4 DEF Numbers
  <2> HIDE DEF Num
  <2>2. \A n \in U \ {0} : R[n] = CHOOSE i : Num(n, i)
    BY DEF R
  <2>3. QED
    BY <2>1, <2>2 DEF R
<1>7. ASSUME NEW n \in U \ {0}, NEW m \in U \ {0}, d.check[n] = d.check[m], R[n] = R[m] PROVE n = m
  <2>1. PICK f, s, i : f = d.check[n] /\ s = C(f) /\ i = R[n]
    OBVIOUS
  <2>2. Numbers(d, U, P, f, s, n, i) /\ Numbers(d, U, P, f, s, m, i)
    BY <1>4, <1>7, <2>1
  <2>3. QED
    BY <2>2 DEF Numbers
<1>8. ASSUME NEW n \in U \ {0}
      PROVE  /\ d.sibling[n] = 0 => \A m \in U \ {0} : d.check[m] = d.check[n] => R[m] <= R[n]
             /\ d.sibling[n] # 0 =>
                  /\ SiblingOf(d, n) \in U \ {0} /\ d.check[SiblingOf(d, n)] = d.check[n]
                  /\ R[SiblingOf(d, n)] = R[n] + 1 /\ ~ IsTerminal(P, SiblingOf(d, n))
  <2>1. PICK f, s, i : f = d.check[n] /\ s = C(f) /\ i = R[n]
    OBVIOUS
  <2>2. Numbers(d, U, P, f, s, n, i)
    BY <1>4, <2>1
  <2>3. /\ s \in Seq(Labels) /\ i \in 1 .. Len(s) /\ IsChain(d, U, f, s)
        /\ d.sibling[n] = IF i < Len(s) THEN s[i + 1] ELSE 0
        /\ \A k \in 2 .. Len(s) : s[k] # 0
    BY <2>2 DEF Numbers, IsChain
  <2>4. \A m \in U \ {0} : d.check[m] = f => R[m] \in 1 .. Len(s)
    BY <1>4, <2>1 DEF Numbers
  <2>5. i < Len(s) => i + 1 \in 1 .. Len(s) /\ i + 1 # 1 /\ s[i + 1] # 0
    BY <2>3
  <2>6. CASE i < Len(s)
    <3>1. d.sibling[n] = s[i + 1] /\ d.sibling[n] # 0 /\ SiblingOf(d, n) = Xor(d.base[f], s[i + 1])
      BY <2>1, <2>3, <2>5, <2>6 DEF SiblingOf
    <3>2. f \in U /\ ~ IsTerminal(P, f)
      BY <1>2, <2>1
    <3>3. PICK x, k : x = SiblingOf(d, n) /\ k = i + 1
      OBVIOUS
    <3>4. Numbers(d, U, P, f, s, x, k)
      <4>1. k \in 1 .. Len(s) /\ k # 1 /\ x = Xor(d.base[f], s[k])
        BY <2>5, <2>6, <3>1, <3>3
      <4>2. QED
        BY <2>3, <3>2, <4>1, AtChain
    <3>5. x \in U \ {0} /\ d.check[x] = f /\ ~ IsTerminal(P, x)
      BY <2>5, <2>6, <3>3, <3>4 DEF Numbers
    <3>6. R[x] = k
      BY <1>5, <2>1, <3>4, <3>5
    <3>7. QED
      BY <2>1, <3>1, <3>3, <3>5, <3>6
  <2>7. CASE ~ i < Len(s)
    <3>1. d.sibling[n] = 0 /\ i = Len(s)
      BY <2>3, <2>7
    <3>2. \A m \in U \ {0} : d.check[m] = f => R[m] <= i
      BY <2>3, <2>4, <3>1
    <3>3. QED
      BY <2>1, <3>1, <3>2
  <2>8. QED
    BY <2>6, <2>7
<1>9. ASSUME NEW n \in U \ {0}, ~ IsTerminal(P, n)
      PROVE  /\ FirstOf(d, n) \in U \ {0} /\ d.check[FirstOf(d, n)] = n
             /\ \A m \in U \ {0} : d.check[m] = n => R[FirstOf(d, n)] <= R[m]
             /\ IsTerminal(P, FirstOf(d, n)) <=> d.child[n] = 0
  <2>1. PICK s, x : s = C(n) /\ x = FirstOf(d, n)
    OBVIOUS
  <2>2. IsChain(d, U, n, s)
    BY <1>1, <1>9, <2>1
  <2>3. 1 \in 1 .. Len(s) /\ d.child[n] = s[1] /\ x = Xor(d.base[n], s[1])
    <3>1. s \in Seq(Labels) /\ s # <<>> /\ d.child[n] = s[1]
      BY <2>2 DEF IsChain
    <3>2. 1 \in 1 .. Len(s)
      BY <3>1
    <3>3. QED
      BY <2>1, <3>1, <3>2 DEF FirstOf
  <2>4. Numbers(d, U, P, n, s, x, 1)
    BY <1>9, <2>2, <2>3, AtChain
  <2>5. x \in U \ {0} /\ d.check[x] = n /\ (IsTerminal(P, x) <=> d.child[n] = 0)
    BY <2>3, <2>4 DEF Numbers
  <2>6. R[x] = 1
    BY <1>5, <2>1, <2>4, <2>5
  <2>7. \A m \in U \ {0} : d.check[m] = n => 1 <= R[m]
    BY <1>4 DEF Numbers
  <2>8. QED
    BY <2>1, <2>5, <2>6, <2>7
<1>10. ASSUME NEW n \in U \ {0}, IsTerminal(P, n)
       PROVE  /\ d.child[d.check[n]] = 0 /\ n = d.base[d.check[n]]
              /\ \A m \in U \ {0} : d.check[m] = d.check[n] => R[n] <= R[m]
  <2>1. PICK f, s, i : f = d.check[n] /\ s = C(f) /\ i = R[n]
    OBVIOUS
  <2>2. Numbers(d, U, P, f, s, n, i)
    BY <1>4, <2>1
  <2>3. /\ i \in 1 .. Len(s) /\ d.base[f] \in Nat /\ n = Xor(d.base[f], s[i]) /\ s[i] = 0
        /\ d.child[f] = s[1] /\ s \in Seq(Labels)
        /\ \A k \in 2 .. Len(s) : s[k] # 0
    BY <1>10, <2>2 DEF Numbers, IsChain
  <2>4. i = 1
    BY <2>3
  <2>5. 0 \in Labels
    BY BIsNat DEF Labels
  <2>6. Xor(d.base[f], 0) = d.base[f]
    BY <2>3, <2>5, XorFacts
  <2>7. \A m \in U \ {0} : d.check[m] = f => 1 <= R[m]
    BY <1>4, <2>1 DEF Numbers
  <2>8. QED
    BY <2>1, <2>3, <2>4, <2>6, <2>7
<1>11. Ranks(d, U, P, R)
  BY <1>6, <1>7, <1>8, <1>9, <1>10 DEF Ranks
<1>12. QED
  BY <1>11

\* A tree can be walked.
LEMMA TreeWalked ==
  ASSUME NEW d, ArrayType(d), NEW U, NEW P, Tree(d, U, Still, 0, P)
  PROVE  \E R : InOrder(d, U, P, R)
<1>1. Deeper(d, U, P)
  BY TreeDeeper
<1>2. U \subseteq Nat /\ 0 \in U /\ Ways(d, U, P)
  BY <1>1, DeeperWays DEF Deeper
<1>3. QED
  BY <1>2, TreeRanks DEF InOrder

-----------------------------------------------------------------------------
(* Going down and up *)

\* One who is at a goes c times where nx says.
Steps(N, a, nx, c, f) ==
  f \in [0 .. c -> N] /\ f[0] = a /\ \A i \in 1 .. c : f[i] = nx[f[i - 1]]

LEMMA StepsExist ==
  ASSUME NEW N, NEW a \in N, NEW nx, \A x \in N : nx[x] \in N, NEW c \in Nat
  PROVE  \E f : Steps(N, a, nx, c, f)
<1>1. PICK q \in [1 .. c + 1 -> N] : \A i \in 1 .. c + 1 : q[i] = IF i = 1 THEN a ELSE nx[q[i - 1]]
  <2>1. Walkable(N, a, nx, c + 1)
    BY WalkExists
  <2>2. QED
    BY <2>1 DEF Walkable
<1> DEFINE f == [n \in 0 .. c |-> q[n + 1]]
<1>2. f \in [0 .. c -> N] /\ f[0] = a
  BY <1>1
<1>3. ASSUME NEW i \in 1 .. c PROVE f[i] = nx[f[i - 1]]
  <2>1. i \in 0 .. c /\ i - 1 \in 0 .. c /\ (i - 1) + 1 = i /\ i + 1 \in 1 .. c + 1 /\ i + 1 # 1 /\ (i + 1) - 1 = i
    OBVIOUS
  <2>2. f[i] = q[i + 1] /\ f[i - 1] = q[i]
    BY <2>1
  <2>3. q[i + 1] = nx[q[i]]
    BY <1>1, <2>1
  <2>4. QED
    BY <2>2, <2>3
<1>4. Steps(N, a, nx, c, f)
  BY <1>2, <1>3 DEF Steps
<1>5. QED
  BY <1>4

LEMMA StepsIn ==
  ASSUME NEW N, NEW a \in N, NEW nx, \A x \in N : nx[x] \in N, NEW c \in Nat,
         NEW f, DOMAIN f = 0 .. c, f = [i \in 0 .. c |-> f[i]], f[0] = a,
         \A i \in 1 .. c : f[i - 1] \in N => f[i] = nx[f[i - 1]]
  PROVE  Steps(N, a, nx, c, f)
<1> DEFINE Z == {i \in 0 .. c : f[i] \notin N}
<1>1. Z = {}
  <2>1. SUFFICES ASSUME Z # {} PROVE FALSE
    OBVIOUS
  <2>2. PICK i \in Z : \A k \in Z : i <= k
    <3>1. Z \subseteq Nat
      OBVIOUS
    <3> HIDE DEF Z
    <3>2. QED
      BY <2>1, <3>1, LeastNatural
  <2>3. i \in 0 .. c /\ f[i] \notin N /\ i # 0
    OBVIOUS
  <2>4. i \in 1 .. c /\ i - 1 \in 0 .. c /\ ~ i <= i - 1
    BY <2>3
  <2>5. f[i - 1] \in N
    BY <2>2, <2>4
  <2>6. QED
    BY <2>3, <2>4, <2>5
<1>2. \A i \in 0 .. c : f[i] \in N
  BY <1>1
<1>3. \A i \in 1 .. c : i - 1 \in 0 .. c
  OBVIOUS
<1>4. f \in [0 .. c -> N]
  BY <1>2
<1>5. QED
  BY <1>2, <1>3, <1>4 DEF Steps

\* Each step leads to a place that was not met, or stops.
Mounting(N, nx, pl, h) ==
  \A x \in N : /\ h[x] \in Int /\ (nx[x] = x \/ h[x] < h[nx[x]])
               /\ \A y \in N : pl[x] = pl[y] => h[x] = h[y]

\* With as many steps as there are places one has stopped.
LEMMA StepsEnd ==
  ASSUME NEW N, NEW a, NEW nx, NEW c \in Nat, NEW f, Steps(N, a, nx, c, f),
         NEW pl, \A x \in N : pl[x] \in 0 .. c - 1, NEW h, Mounting(N, nx, pl, h)
  PROVE  nx[f[c]] = f[c]
<1>1. SUFFICES ASSUME nx[f[c]] # f[c] PROVE FALSE
  OBVIOUS
<1>2. f \in [0 .. c -> N] /\ \A i \in 1 .. c : f[i] = nx[f[i - 1]]
  BY DEF Steps
<1>3. ASSUME NEW j \in 0 .. c, nx[f[j]] = f[j] PROVE FALSE
  <2> DEFINE Z == {k \in j .. c : f[k] # f[j]}
  <2>1. c \in Z
    BY <1>1, <1>3
  <2>2. PICK k \in Z : \A m \in Z : k <= m
    <3>1. Z \subseteq Nat /\ Z # {}
      BY <2>1
    <3> HIDE DEF Z
    <3>2. QED
      BY <3>1, LeastNatural
  <2>3. k \in j .. c /\ f[k] # f[j] /\ k # j
    OBVIOUS
  <2>4. k \in 1 .. c /\ k - 1 \in j .. c /\ ~ k <= k - 1
    BY <2>3
  <2>5. f[k - 1] = f[j]
    BY <2>2, <2>4
  <2>6. QED
    BY <1>2, <1>3, <2>3, <2>4, <2>5
<1>4. \A i \in 1 .. c : h[f[i - 1]] < h[f[i]]
  <2>1. SUFFICES ASSUME NEW i \in 1 .. c PROVE h[f[i - 1]] < h[f[i]]
    OBVIOUS
  <2>2. i - 1 \in 0 .. c /\ f[i] = nx[f[i - 1]]
    BY <1>2
  <2>3. f[i - 1] \in N /\ nx[f[i - 1]] # f[i - 1]
    BY <1>2, <1>3, <2>2
  <2>4. QED
    BY <2>2, <2>3 DEF Mounting
<1>5. \A i \in 0 .. c : h[f[i]] \in Int
  BY <1>2 DEF Mounting
<1>6. \A k \in 0 .. c : \A i \in 0 .. k - 1 : h[f[i]] < h[f[k]]
  <2> DEFINE Z == {k \in 0 .. c : \E i \in 0 .. k - 1 : ~ h[f[i]] < h[f[k]]}
  <2>1. SUFFICES ASSUME Z # {} PROVE FALSE
    OBVIOUS
  <2>2. PICK k \in Z : \A m \in Z : k <= m
    <3>1. Z \subseteq Nat
      OBVIOUS
    <3> HIDE DEF Z
    <3>2. QED
      BY <2>1, <3>1, LeastNatural
  <2>3. PICK i \in 0 .. k - 1 : ~ h[f[i]] < h[f[k]]
    OBVIOUS
  <2>4. k \in 1 .. c /\ k - 1 \in 0 .. c /\ ~ k <= k - 1 /\ i \in 0 .. c /\ k \in 0 .. c
    BY <2>3
  <2>5. k - 1 \notin Z
    BY <2>2, <2>4
  <2>6. i = k - 1 \/ i \in 0 .. (k - 1) - 1
    BY <2>3, <2>4
  <2>7. i = k - 1 \/ h[f[i]] < h[f[k - 1]]
    BY <2>4, <2>5, <2>6
  <2> HIDE DEF Z
  <2>8. h[f[k - 1]] < h[f[k]]
    BY <1>4, <2>4
  <2>9. h[f[i]] \in Int /\ h[f[k]] \in Int /\ h[f[k - 1]] \in Int
    BY <1>5, <2>4
  <2>10. QED
    BY <2>3, <2>7, <2>8, <2>9
<1>7. \A i, k \in 0 .. c : pl[f[i]] = pl[f[k]] => i = k
  <2>1. SUFFICES ASSUME NEW i \in 0 .. c, NEW k \in 0 .. c, pl[f[i]] = pl[f[k]], i < k \/ k < i PROVE FALSE
    OBVIOUS
  <2>2. h[f[i]] = h[f[k]]
    BY <1>2, <2>1 DEF Mounting
  <2>3. (i < k => i \in 0 .. k - 1) /\ (k < i => k \in 0 .. i - 1)
    OBVIOUS
  <2>4. h[f[i]] < h[f[k]] \/ h[f[k]] < h[f[i]]
    BY <1>6, <2>1, <2>3
  <2>5. QED
    BY <1>5, <2>2, <2>4
<1> DEFINE q == [i \in 0 .. c |-> pl[f[i]]]
<1>8. q \in [0 .. c -> 0 .. c - 1]
  BY <1>2
<1>9. /\ IsFiniteSet(0 .. c) /\ Cardinality(0 .. c) = c + 1
      /\ IsFiniteSet(0 .. c - 1) /\ Cardinality(0 .. c - 1) = c
  <2>1. 0 \in Int /\ c \in Int /\ c - 1 \in Int
    OBVIOUS
  <2>2. IsFiniteSet(0 .. c) /\ Cardinality(0 .. c) = IF 0 > c THEN 0 ELSE c - 0 + 1
    BY <2>1, FS_Interval
  <2>3. IsFiniteSet(0 .. c - 1) /\ Cardinality(0 .. c - 1) = IF 0 > c - 1 THEN 0 ELSE (c - 1) - 0 + 1
    BY <2>1, FS_Interval
  <2>4. QED
    BY <2>2, <2>3
<1> HIDE DEF q
<1>10. \E i, k \in 0 .. c : i # k /\ q[i] = q[k]
  <2>1. Cardinality(0 .. c - 1) < Cardinality(0 .. c)
    BY <1>9
  <2>2. QED
    BY <1>8, <1>9, <2>1, FS_PigeonHole
<1>11. QED
  BY <1>7, <1>10 DEF q

\* A tree that is walked, with the lengths of its paths.
Measured(d, U, P, R) == U \subseteq PlacesOf(d) /\ d.size \in Nat /\ Deeper(d, U, P) /\ InOrder(d, U, P, R)

\* Where begin goes from a node, and the way it takes.
DownFrom(d, f) ==
  LET c == IF f = 0 THEN d.sibling[d.base[0]] ELSE d.child[f]
  IN  IF c = 0 THEN f ELSE Xor(d.base[f], c)

GoesDown(d, n, g) == g = [i \in 0 .. d.size |-> IF i = 0 THEN n ELSE DownFrom(d, g[i - 1])]

LEMMA BeginIs ==
  ASSUME NEW d, NEW U, NEW P, NEW R, Measured(d, U, P, R), NEW n \in U \ {0}, ~ IsTerminal(P, n)
  PROVE  Begins(d, U, P, R, n, Begin(d, n))
<1> DEFINE c == d.size
           N == {m \in U \ {0} : ~ IsTerminal(P, m) /\ Down(d, U, P, R, n, m)}
           nx == [m \in N |-> IF d.child[m] = 0 THEN m ELSE FirstOf(d, m)]
           pl == [m \in N |-> m]
           h == [m \in N |-> Len(P[m])]
<1>1. U \subseteq 0 .. c - 1 /\ c \in Nat /\ Deeper(d, U, P) /\ InOrder(d, U, P, R) /\ Ways(d, U, P)
  BY DEF Measured, PlacesOf, InOrder
<1>2. n \in N
  <2>1. Leads(P, n, n)
    BY <1>1 DEF Ways
  <2>2. QED
    BY <2>1 DEF Down
<1>3. ASSUME NEW m \in N
      PROVE  /\ nx[m] \in N /\ nx[m] = DownFrom(d, m)
             /\ h[m] \in Int /\ (nx[m] = m \/ h[m] < h[nx[m]])
  <2>1. m \in U \ {0} /\ ~ IsTerminal(P, m) /\ Down(d, U, P, R, n, m) /\ Len(P[m]) \in Nat
    BY <1>1 DEF Deeper
  <2>2. DownFrom(d, m) = IF d.child[m] = 0 THEN m ELSE FirstOf(d, m)
    BY <2>1 DEF DownFrom, FirstOf
  <2>3. CASE d.child[m] = 0
    BY <2>1, <2>2, <2>3
  <2>4. CASE d.child[m] # 0
    <3>1. PICK x : x = FirstOf(d, m)
      OBVIOUS
    <3>2. x \in U \ {0} /\ d.check[x] = m /\ ~ IsTerminal(P, x)
      BY <1>1, <2>1, <2>4, <3>1 DEF InOrder, Ranks
    <3>3. Down(d, U, P, R, n, x)
      BY <1>1, <2>1, <3>1, DownFirst
    <3>4. x \in N
      BY <3>2, <3>3
    <3>5. Len(P[x]) = Len(P[m]) + 1
      BY <1>1, <3>2 DEF Deeper
    <3>6. nx[m] = x /\ h[m] = Len(P[m]) /\ h[x] = Len(P[x])
      BY <2>4, <3>1, <3>4
    <3> HIDE DEF N, nx, h
    <3>7. QED
      BY <2>1, <2>2, <2>4, <3>1, <3>4, <3>5, <3>6
  <2>5. QED
    BY <2>3, <2>4
<1>4. ASSUME NEW f, Steps(N, n, nx, c, f) PROVE Begins(d, U, P, R, n, f[c])
  <2>1. \A m \in N : pl[m] \in 0 .. c - 1
    BY <1>1
  <2>2. Mounting(N, nx, pl, h)
    <3>1. \A x, y \in N : pl[x] = pl[y] => h[x] = h[y]
      OBVIOUS
    <3> HIDE DEF N, nx, pl, h
    <3>2. QED
      BY <1>3, <3>1 DEF Mounting
  <2>3. nx[f[c]] = f[c]
    <3> HIDE DEF N, nx, pl, h
    <3>1. QED
      BY <1>1, <1>4, <2>1, <2>2, StepsEnd
  <2>4. f[c] \in N
    BY <1>1, <1>4 DEF Steps
  <2>5. PICK m : m = f[c]
    OBVIOUS
  <2>6. m \in U \ {0} /\ ~ IsTerminal(P, m) /\ Down(d, U, P, R, n, m) /\ nx[m] = m /\ m \in N
    BY <2>3, <2>4, <2>5
  <2>7. d.child[m] = 0
    <3>1. SUFFICES ASSUME d.child[m] # 0 PROVE FALSE
      OBVIOUS
    <3>2. FirstOf(d, m) = m
      BY <2>6, <3>1
    <3>3. d.check[m] = m
      BY <1>1, <2>6, <3>2 DEF InOrder, Ranks
    <3>4. QED
      BY <1>1, <2>6, <3>3 DEF Ways
  <2>8. QED
    BY <1>1, <2>5, <2>6, <2>7, DownEnds
<1> HIDE DEF N, nx, pl, h
<1>5. \E f : GoesDown(d, n, f)
  <2>1. PICK f : Steps(N, n, nx, c, f)
    BY <1>1, <1>2, <1>3, StepsExist
  <2>2. f \in [0 .. c -> N] /\ f[0] = n /\ \A i \in 1 .. c : f[i] = nx[f[i - 1]]
    BY <2>1 DEF Steps
  <2>3. ASSUME NEW i \in 0 .. c PROVE f[i] = IF i = 0 THEN n ELSE DownFrom(d, f[i - 1])
    <3>1. CASE i = 0
      BY <2>2, <3>1
    <3>2. CASE i # 0
      <4>1. i \in 1 .. c /\ i - 1 \in 0 .. c
        BY <1>1, <3>2
      <4>2. f[i] = nx[f[i - 1]] /\ f[i - 1] \in N
        BY <2>2, <4>1
      <4>3. QED
        BY <1>3, <3>2, <4>2
    <3>3. QED
      BY <3>1, <3>2
  <2>4. f = [i \in 0 .. c |-> f[i]]
    BY <2>2
  <2>5. GoesDown(d, n, f)
    BY <2>3, <2>4 DEF GoesDown
  <2>6. QED
    BY <2>5
<1>6. ASSUME NEW f, GoesDown(d, n, f) PROVE Begins(d, U, P, R, n, f[c])
  <2>1. /\ DOMAIN f = 0 .. c /\ f = [i \in 0 .. c |-> f[i]]
        /\ \A i \in 0 .. c : f[i] = IF i = 0 THEN n ELSE DownFrom(d, f[i - 1])
    BY <1>6, Zenon DEF GoesDown
  <2>2. f[0] = n
    BY <1>1, <2>1
  <2>3. \A i \in 1 .. c : f[i - 1] \in N => f[i] = nx[f[i - 1]]
    <3>1. SUFFICES ASSUME NEW i \in 1 .. c, f[i - 1] \in N PROVE f[i] = nx[f[i - 1]]
      OBVIOUS
    <3>2. i \in 0 .. c /\ i # 0
      OBVIOUS
    <3>3. f[i] = DownFrom(d, f[i - 1])
      BY <2>1, <3>2
    <3>4. QED
      BY <1>3, <3>1, <3>3
  <2>4. Steps(N, n, nx, c, f)
    BY <1>1, <1>2, <1>3, <2>1, <2>2, <2>3, StepsIn
  <2>5. QED
    BY <1>4, <2>4
<1>7. Begin(d, n) = (CHOOSE f : GoesDown(d, n, f))[c]
  BY Zenon DEF Begin, GoesDown, DownFrom
<1>8. QED
  BY <1>5, <1>6, <1>7, Zenon

\* What next looks at on its way up: a node and whether it has a sibling left.
UpAt(d, a) == [from |-> d.check[a], c |-> d.sibling[a]]

UpFrom(d, root, u) ==
  IF u.c = 0 /\ u.from # root THEN [from |-> d.check[u.from], c |-> d.sibling[u.from]] ELSE u

GoesUp(d, n, root, g) ==
  g = [i \in 0 .. d.size |->
         IF i = 0 THEN [from |-> n, c |-> d.sibling[d.base[n]]] ELSE UpFrom(d, root, g[i - 1])]

\* What it finds: a sibling to go on with, or that there is none.
Tops(d, U, P, t, root, u) ==
  \E a : /\ Climb(d, U, P, t, root, a) /\ u = UpAt(d, a)
         /\ d.sibling[a] = 0 => d.check[a] = root

LEMMA UpIs ==
  ASSUME NEW d, NEW U, NEW P, NEW R, Measured(d, U, P, R), NEW r \in U, NEW n \in U \ {0}, Leads(P, r, n),
         d.base[n] \in U \ {0}, d.check[d.base[n]] = n
  PROVE  Tops(d, U, P, d.base[n], r, Up(d, n, r))
<1> DEFINE c == d.size
           t == d.base[n]
           N == {UpAt(d, a) : a \in {x \in U \ {0} : Climb(d, U, P, t, r, x)}}
           nx == [u \in N |-> UpFrom(d, r, u)]
           pl == [u \in N |-> u.from]
           h == [u \in N |-> -Len(P[u.from])]
<1>1. U \subseteq 0 .. c - 1 /\ c \in Nat /\ Deeper(d, U, P) /\ Ways(d, U, P) /\ t \in U \ {0} /\ d.check[t] = n
  BY DEF Measured, PlacesOf, InOrder
<1>2. UpAt(d, t) \in N /\ UpAt(d, t) = [from |-> n, c |-> d.sibling[d.base[n]]]
  <2>1. Climb(d, U, P, t, r, t)
    <3>1. Leads(P, t, t) /\ Leads(P, r, d.check[t])
      BY <1>1 DEF Ways
    <3>2. \A m \in U \ {0} : Leads(P, m, t) /\ Leads(P, t, m) => m = t
      BY <1>1 DEF Ways
    <3>3. QED
      BY <1>1, <3>1, <3>2 DEF Climb
  <2>2. QED
    BY <1>1, <2>1 DEF UpAt
<1> HIDE DEF t
<1>3. ASSUME NEW u \in N
      PROVE  /\ UpFrom(d, r, u) \in N /\ u.from \in U
             /\ UpFrom(d, r, u) = u \/ -Len(P[u.from]) < -Len(P[UpFrom(d, r, u).from])
             /\ UpFrom(d, r, u) = u => Tops(d, U, P, t, r, u)
  <2>1. PICK a \in U \ {0} : Climb(d, U, P, t, r, a) /\ u = UpAt(d, a)
    OBVIOUS
  <2>2. u.from = d.check[a] /\ u.c = d.sibling[a] /\ d.check[a] \in U /\ d.check[a] # a
    BY <1>1, <2>1 DEF UpAt, Ways
  <2>3. CASE d.sibling[a] # 0 \/ d.check[a] = r
    <3>1. UpFrom(d, r, u) = u
      BY <2>2, <2>3 DEF UpFrom
    <3>2. Tops(d, U, P, t, r, u)
      BY <2>1, <2>3 DEF Tops
    <3>3. QED
      BY <2>2, <3>1, <3>2
  <2>4. CASE d.sibling[a] = 0 /\ d.check[a] # r
    <3>1. PICK f : f = d.check[a]
      OBVIOUS
    <3>2. Climb(d, U, P, t, r, f)
      BY <1>1, <2>1, <2>4, <3>1, ClimbOn
    <3>3. f \in U \ {0} /\ UpFrom(d, r, u) = UpAt(d, f)
      BY <2>2, <2>4, <3>1, <3>2 DEF UpFrom, UpAt, Climb
    <3>4. UpAt(d, f) \in N
      BY <3>2, <3>3
    <3>5. Len(P[f]) = Len(P[d.check[f]]) + 1 /\ Len(P[d.check[f]]) \in Nat
      <4>1. f \in U \ {0} /\ Deeper(d, U, P)
        BY <1>1, <3>3
      <4>2. d.check[f] \in U /\ P \in [U -> Seq(Labels)] /\ Len(P[f]) = Len(P[d.check[f]]) + 1
        BY ONLY <4>1 DEF Deeper
      <4>3. P[d.check[f]] \in Seq(Labels)
        BY <4>2
      <4>4. QED
        BY <4>2, <4>3
    <3>6. u.from = f /\ UpAt(d, f).from = d.check[f]
      BY <2>2, <3>1 DEF UpAt
    <3>7. UpFrom(d, r, u) # u
      BY <1>1, <3>3, <3>6 DEF Ways
    <3> HIDE DEF N
    <3>8. QED
      BY <2>2, <3>3, <3>4, <3>5, <3>6, <3>7
  <2>5. QED
    BY <2>3, <2>4
<1> HIDE DEF N
<1>4. ASSUME NEW f, Steps(N, UpAt(d, t), nx, c, f) PROVE Tops(d, U, P, t, r, f[c])
  <2>1. \A u \in N : pl[u] \in 0 .. c - 1
    BY <1>1, <1>3
  <2>2. Mounting(N, nx, pl, h)
    <3>1. \A x, y \in N : pl[x] = pl[y] => h[x] = h[y]
      OBVIOUS
    <3>2. \A x \in N : h[x] \in Int
      BY <1>1, <1>3 DEF Deeper
    <3>3. \A x \in N : nx[x] = x \/ h[x] < h[nx[x]]
      BY <1>3
    <3> HIDE DEF nx, pl, h
    <3>4. QED
      BY <3>1, <3>2, <3>3 DEF Mounting
  <2>3. nx[f[c]] = f[c]
    <3> HIDE DEF nx, pl, h
    <3>1. QED
      BY <1>1, <1>4, <2>1, <2>2, StepsEnd
  <2>4. f[c] \in N
    BY <1>1, <1>4 DEF Steps
  <2>5. QED
    BY <1>3, <2>3, <2>4
<1>5. \A u \in N : nx[u] \in N /\ nx[u] = UpFrom(d, r, u)
  BY <1>3
<1> HIDE DEF nx, pl, h
<1>6. \E f : GoesUp(d, n, r, f)
  <2>1. PICK f : Steps(N, UpAt(d, t), nx, c, f)
    BY <1>1, <1>2, <1>5, StepsExist
  <2>2. f \in [0 .. c -> N] /\ f[0] = UpAt(d, t) /\ \A i \in 1 .. c : f[i] = nx[f[i - 1]]
    BY <2>1 DEF Steps
  <2>3. ASSUME NEW i \in 0 .. c
        PROVE  f[i] = IF i = 0 THEN [from |-> n, c |-> d.sibling[d.base[n]]] ELSE UpFrom(d, r, f[i - 1])
    <3>1. CASE i = 0
      BY <1>2, <2>2, <3>1
    <3>2. CASE i # 0
      <4>1. i \in 1 .. c /\ i - 1 \in 0 .. c
        BY <1>1, <3>2
      <4>2. f[i] = nx[f[i - 1]] /\ f[i - 1] \in N
        BY <2>2, <4>1
      <4>3. QED
        BY <1>5, <3>2, <4>2
    <3>3. QED
      BY <3>1, <3>2
  <2>4. f = [i \in 0 .. c |-> f[i]]
    BY <2>2
  <2>5. GoesUp(d, n, r, f)
    BY <2>3, <2>4, Zenon DEF GoesUp
  <2>6. QED
    BY <2>5
<1>7. ASSUME NEW f, GoesUp(d, n, r, f) PROVE Tops(d, U, P, t, r, f[c])
  <2>1. /\ DOMAIN f = 0 .. c /\ f = [i \in 0 .. c |-> f[i]]
        /\ \A i \in 0 .. c : f[i] = IF i = 0 THEN [from |-> n, c |-> d.sibling[d.base[n]]]
                                    ELSE UpFrom(d, r, f[i - 1])
    BY <1>7, Zenon DEF GoesUp
  <2>2. f[0] = UpAt(d, t)
    <3>1. 0 \in 0 .. c
      BY <1>1
    <3>2. QED
      BY <1>2, <2>1, <3>1, Zenon
  <2>3. \A i \in 1 .. c : f[i - 1] \in N => f[i] = nx[f[i - 1]]
    <3>1. SUFFICES ASSUME NEW i \in 1 .. c, f[i - 1] \in N PROVE f[i] = nx[f[i - 1]]
      OBVIOUS
    <3>2. i \in 0 .. c /\ i # 0
      OBVIOUS
    <3>3. f[i] = UpFrom(d, r, f[i - 1])
      BY <2>1, <3>2
    <3>4. QED
      BY <1>5, <3>1, <3>3
  <2>4. Steps(N, UpAt(d, t), nx, c, f)
    BY <1>1, <1>2, <1>5, <2>1, <2>2, <2>3, StepsIn
  <2>5. QED
    BY <1>4, <2>4
<1>8. Up(d, n, r) = (CHOOSE f : GoesUp(d, n, r, f))[c]
  BY Zenon DEF Up, GoesUp, UpFrom
<1>9. QED
  BY <1>6, <1>7, <1>8, Zenon DEF t
=============================================================================
