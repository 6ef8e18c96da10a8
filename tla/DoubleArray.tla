----------------------------- MODULE DoubleArray ----------------------------
(***************************************************************************)
(* cedar::da as taboo::Trie uses it: a tree of nodes in an array, where    *)
(* the child of a node under a label is at the node's base xor the label,  *)
(* and nodes move when two parents want one place.  Empty nodes form a     *)
(* ring in each block of the array, blocks that have any form rings too.   *)
(* An update runs under the write lock and is cut into the rounds of its   *)
(* loops; a traversal runs under a read lock and is cut where it calls     *)
(* back.  NO_VALUE, NO_PATH and the way ids are drawn are those of Trie.   *)
(***************************************************************************)
EXTENDS Strings, Integers, FiniteSetsExt

CONSTANTS
  Width,             \* a block has 2^Width nodes, a label has Width bits
  NoPath, NoValue

B == 2^Width

\* MAX_TRIAL
MaxTrial == 1

\* Keys are not empty and have no NUL: the label 0 stands for the end of a key.
ASSUME LabelsAssumption ==
  Width \in Nat \ {0} /\ \A k \in Keys : k \in Seq(1 .. B - 1) \ {<<>>}

\* Here strings are the sequences of their labels.
ASSUME PrefixAssumption ==
  \A p \in Keys :
    KeysUnder[p] = {k \in Keys : Len(p) <= Len(k) /\ \A i \in 1 .. Len(p) : k[i] = p[i]}

\* Ids stay below what says that a search found none.
ASSUME IdsAssumption ==
  /\ NoPath \in Nat /\ NoValue \in Nat
  /\ IsFiniteSet(Keys)
  /\ Cardinality(Keys) < NoPath /\ NoPath < NoValue

VARIABLES
  da,               \* the arrays, the heads of the lists of blocks, the size
  funnelIdCursor,   \* Trie's
  job,              \* the update or traversal in progress
  view              \* what searches found when no update was in progress (history)

vars == <<da, funnelIdCursor, job, view>>

-----------------------------------------------------------------------------
(* Exclusive or of a place with a label *)

BitsOf(n) == {i \in 0 .. Width - 1 : (n \div 2^i) % 2 = 1}

XorTable ==
  [a \in 0 .. B - 1 |-> [b \in 0 .. B - 1 |->
     MapThenSumSet(LAMBDA i : 2^i, (BitsOf(a) \cup BitsOf(b)) \ (BitsOf(a) \cap BitsOf(b)))]]

Xor(place, label) == (place \div B) * B + XorTable[place % B][label]

\* Arithmetic: laws of exclusive or, as the proofs are given none of "^" and bits.
ASSUME XorAssumption ==
  /\ B \in Nat \ {0, 1}
  /\ \A a, b \in 0 .. B - 1 :
       /\ XorTable[a][b] \in 0 .. B - 1 /\ XorTable[a][b] = XorTable[b][a]
       /\ XorTable[XorTable[a][b]][b] = a
  /\ \A a \in 0 .. B - 1 : XorTable[a][0] = a

-----------------------------------------------------------------------------
(* Blocks.  Lists "F", "C" and "O" (full, closed, open) are rings; a head of
   0 says that a list is empty, or for "F", that block 0 is its first. *)

NewBlock(ehead) ==
  [prev |-> 0, next |-> 0, num |-> B, reject |-> B + 1, trial |-> 0, ehead |-> ehead]

\* _initialize: block 0, with the root at 0 and a ring of the other nodes.
Initialized ==
  [base    |-> [e \in 0 .. B - 1 |-> CASE e = 0 -> 0 [] e = 1 -> 1 - B [] OTHER -> 1 - e],
   check   |-> [e \in 0 .. B - 1 |-> IF e \in {0, B - 1} THEN -1 ELSE -(e + 1)],
   sibling |-> [e \in 0 .. B - 1 |-> 0],
   child   |-> [e \in 0 .. B - 1 |-> 0],
   block   |-> [b \in {0} |-> NewBlock(1)],
   head    |-> [l \in {"F", "C", "O"} |-> 0],
   reject  |-> [n \in 0 .. B |-> n + 1],
   size    |-> B]

\* Slip: a block that was the head stays it.
PopBlockKeepsHead(d, bi, list, last) ==
  LET b == d.block[bi]
  IN  IF last
        THEN [d EXCEPT !.head[list] = 0]
        ELSE [d EXCEPT !.block[b.prev].next = b.next, !.block[b.next].prev = b.prev]

PopBlock(d, bi, list, last) ==
  LET b == d.block[bi]
  IN  IF last
        THEN [d EXCEPT !.head[list] = 0]
        ELSE [d EXCEPT !.block[b.prev].next = b.next,
                       !.block[b.next].prev = b.prev,
                       !.head[list] = IF @ = bi THEN b.next ELSE @]

PushBlock(d, bi, list, empty) ==
  LET head == d.head[list]
      tail == d.block[head].prev
  IN  IF empty
        THEN [d EXCEPT !.block[bi].prev = bi, !.block[bi].next = bi, !.head[list] = bi]
        ELSE [d EXCEPT !.block[bi].prev = tail, !.block[bi].next = head,
                       !.block[tail].next = bi, !.block[head].prev = bi, !.head[list] = bi]

\* _add_block; the new block is d.size \div B.
AddBlock(d) ==
  LET first == d.size
      last  == d.size + B - 1
      grow(f, g) == [e \in 0 .. last |-> IF e < first THEN f[e] ELSE g[e]]
      zero == [e \in first .. last |-> 0]
  IN  PushBlock(
        [d EXCEPT
           !.base    = grow(@, [e \in first .. last |-> IF e = first THEN -last ELSE 1 - e]),
           !.check   = grow(@, [e \in first .. last |-> IF e = last THEN -first ELSE -(e + 1)]),
           !.sibling = grow(@, zero),
           !.child   = grow(@, zero),
           !.block   = [b \in 0 .. first \div B |->
                          IF b < first \div B THEN @[b] ELSE NewBlock(first)],
           !.size    = last + 1],
        first \div B, "O", d.head["O"] = 0)

TransferBlock(d, bi, from, to) ==
  LET popped == PopBlock(d, bi, from, bi = d.block[bi].next)
  IN  PushBlock(popped, bi, to, popped.head[to] = 0 /\ popped.block[bi].num # 0)

-----------------------------------------------------------------------------
(* Nodes *)

\* _pop_enode: the empty node e becomes the child of from under label; it gives
\* from a base when from had none.
PopEnode(d, e, label, from, based) ==
  LET bi   == e \div B
      prev == -d.base[e]
      next == -d.check[e]
      fewer == [d EXCEPT !.block[bi].num = @ - 1]
      b    == fewer.block[bi]
      ring == [fewer EXCEPT !.check[prev] = -next, !.base[next] = -prev,
                            !.block[bi].ehead = IF @ = e THEN next ELSE @]
      listed == CASE b.num = 0 /\ bi # 0 -> TransferBlock(fewer, bi, "C", "F")
                  [] b.num = 0 /\ bi = 0 -> fewer
                  [] b.num = 1 /\ bi # 0 /\ b.trial # MaxTrial ->
                       TransferBlock(ring, bi, "O", "C")
                  [] OTHER -> ring
      taken == [listed EXCEPT !.base[e] = IF label # 0 THEN -1 ELSE 0, !.check[e] = from]
  IN  IF based THEN taken ELSE [taken EXCEPT !.base[from] = Xor(e, label)]

\* Slip: the node after e is not told of e.
InsertOneWay(d, prev, e) ==
  [d EXCEPT !.base[e] = -prev, !.check[e] = d.check[prev], !.check[prev] = -e]

\* e goes into the ring of empty nodes after prev.
Insert(d, prev, e) ==
  [d EXCEPT !.base[e] = -prev, !.check[e] = d.check[prev],
            !.check[prev] = -e, !.base[-d.check[prev]] = -e]

\* _push_enode: e becomes empty.
PushEnode(d, e) ==
  LET bi    == e \div B
      more  == [d EXCEPT !.block[bi].num = @ + 1]
      b     == more.block[bi]
      alone == [more EXCEPT !.block[bi].ehead = e, !.base[e] = -e, !.check[e] = -e]
      ring  == Insert(more, b.ehead, e)
      listed == CASE b.num = 1 -> IF bi = 0 THEN alone ELSE TransferBlock(alone, bi, "F", "C")
                  [] b.num > 1 /\ bi # 0 /\ (b.num = 2 \/ b.trial = MaxTrial) ->
                       [TransferBlock(ring, bi, "C", "O") EXCEPT !.block[bi].trial = 0]
                  [] OTHER -> [ring EXCEPT !.block[bi].trial = 0]
  IN  [listed EXCEPT !.block[bi].reject = Max({@, d.reject[b.num]}),
                     !.sibling[e] = 0, !.child[e] = 0]

\* Slip: a new label always comes first.
PushSiblingFirst(d, from, base, label, flag) ==
  [d EXCEPT !.sibling[Xor(base, label)] = d.child[from], !.child[from] = label]

\* _push_sibling: label joins from's children, first or next to the terminal.
PushSibling(d, from, base, label, flag) ==
  IF flag /\ d.child[from] = 0
    THEN [d EXCEPT !.sibling[Xor(base, label)] = d.sibling[base], !.sibling[base] = label]
    ELSE [d EXCEPT !.sibling[Xor(base, label)] = d.child[from], !.child[from] = label]

\* _set_child without a new label: the labels of n's children, in their order.
Children(d, n) ==
  LET upto[i \in 1 .. B] ==
        IF i = 1 THEN <<d.child[n]>>
        ELSE LET s == upto[i - 1]
                 c == d.sibling[Xor(d.base[n], s[Len(s)])]
             IN  IF c = 0 THEN s ELSE Append(s, c)
  IN  upto[B]

\* _set_child with one: it comes first, or next to the terminal.
WithLabel(labels, label) ==
  IF labels[1] = 0 THEN <<0, label>> \o Tail(labels) ELSE <<label>> \o labels

\* _find_place for one node: the array, perhaps with a new block, and the place.
FindPlace(d) ==
  CASE d.head["C"] # 0 -> [da |-> d, e |-> d.block[d.head["C"]].ehead]
    [] d.head["C"] = 0 /\ d.head["O"] # 0 -> [da |-> d, e |-> d.block[d.head["O"]].ehead]
    [] OTHER -> [da |-> AddBlock(d), e |-> d.size]

\* The empty nodes of a block, from its ehead on.
Ring(d, bi) ==
  LET next[i \in 1 .. d.block[bi].num] ==
        IF i = 1 THEN d.block[bi].ehead ELSE -d.check[next[i - 1]]
  IN  next

-----------------------------------------------------------------------------
(* Looking up and traversing *)

\* The node at the end of a string, -1 if there is none; -2 if the search has
\* left the array, which a node without children makes it do.
NodeOf(d, k) ==
  LET at[i \in 0 .. Len(k)] ==
        IF i = 0 THEN 0
        ELSE LET f == at[i - 1]
             IN  CASE f < 0 -> f
                   [] f >= 0 /\ d.base[f] < 0 -> -2
                   [] OTHER -> IF d.check[Xor(d.base[f], k[i])] = f
                                 THEN Xor(d.base[f], k[i]) ELSE -1
  IN  at[Len(k)]

\* _find: a value, or one of the two sentinels.
Find(d, k) ==
  LET n == NodeOf(d, k)
  IN  CASE n < 0 -> NoPath
        [] n >= 0 /\ d.check[d.base[n]] # n -> NoValue
        [] OTHER -> d.base[d.base[n]]

\* begin: down the first children, past the root's, to a terminal.
Begin(d, n) ==
  LET down[i \in 0 .. d.size] ==
        IF i = 0 THEN n
        ELSE LET f == down[i - 1]
                 c == IF f = 0 THEN d.sibling[d.base[0]] ELSE d.child[f]
             IN  IF c = 0 THEN f ELSE Xor(d.base[f], c)
  IN  down[d.size]

\* next: the sibling to go on with, [from, c], found on the way up to root.
Up(d, n, root) ==
  LET up[i \in 0 .. d.size] ==
        IF i = 0 THEN [from |-> n, c |-> d.sibling[d.base[n]]]
        ELSE LET u == up[i - 1]
             IN  IF u.c = 0 /\ u.from # root
                   THEN [from |-> d.check[u.from], c |-> d.sibling[u.from]]
                   ELSE u
  IN  up[d.size]

-----------------------------------------------------------------------------
(* Updating *)

Idle == [pc |-> "idle"]

Init ==
  /\ da = Initialized
  /\ funnelIdCursor = 0
  /\ job = Idle
  /\ view = [k \in Keys |-> NoValue]

Lookups(d) == [k \in Keys |-> IF Find(d, k) = NoPath THEN NoValue ELSE Find(d, k)]

\* Trie::attach for one string: a new id and an update for one without an id.
Attach(k) ==
  /\ job = Idle
  /\ Find(da, k) \in {NoPath, NoValue}
  /\ funnelIdCursor' = funnelIdCursor + 1
  /\ job' = [pc |-> "update", step |-> "follow", key |-> k, pos |-> 0, from |-> 0,
             val |-> funnelIdCursor + 1, place |-> <<>>]
  /\ UNCHANGED <<da, view>>

Updating(step) == job.pc = "update" /\ job.step = step

LabelOf(j) == IF j.pos < Len(j.key) THEN j.key[j.pos + 1] ELSE 0

\* What update does with the node _follow returns.
Arrive(d, j, to) ==
  IF j.pos < Len(j.key)
    THEN /\ da' = d
         /\ job' = [j EXCEPT !.step = "follow", !.from = to, !.pos = @ + 1, !.place = <<>>]
         /\ UNCHANGED view
    ELSE LET done == [d EXCEPT !.base[to] = IF @ = 0 \/ j.val < @ THEN j.val ELSE @]
         IN  da' = done /\ job' = Idle /\ view' = Lookups(done)

FollowNew ==
  /\ Updating("follow")
  /\ da.base[job.from] < 0
  /\ LET p == FindPlace(da)
         label == LabelOf(job)
     IN  Arrive(PushSibling(PopEnode(p.da, p.e, label, job.from, FALSE),
                            job.from, Xor(p.e, label), label, FALSE), job, p.e)
  /\ UNCHANGED funnelIdCursor

FollowFree ==
  /\ Updating("follow")
  /\ da.base[job.from] >= 0
  /\ LET base == da.base[job.from]
         label == LabelOf(job)
         to == Xor(base, label)
     IN  /\ da.check[to] < 0
         /\ Arrive(PushSibling(PopEnode(da, to, label, job.from, TRUE),
                               job.from, base, label, TRUE), job, to)
  /\ UNCHANGED funnelIdCursor

FollowEdge ==
  /\ Updating("follow")
  /\ da.base[job.from] >= 0
  /\ LET to == Xor(da.base[job.from], LabelOf(job))
     IN  da.check[to] = job.from /\ Arrive(da, job, to)
  /\ UNCHANGED funnelIdCursor

\* _resolve, given a place: the mover's children are to go to a new base.
Settle(d, place, e) ==
  LET base == Xor(e, place.labels[1])
      adopts == place.newcomer /\ place.labels[1] = LabelOf(job)
  IN  /\ da' = [d EXCEPT !.base[place.mover] = base,
                         !.child[place.mover] = IF adopts THEN LabelOf(job) ELSE @]
      /\ job' = [job EXCEPT !.step = "move", !.place =
           [mover |-> place.mover, newcomer |-> place.newcomer, conflict |-> place.conflict,
            labels |-> place.labels, old |-> da.base[place.mover], base |-> base, at |-> 1]]

\* _resolve up to the search for a place: the parent with fewer children moves
\* them, the one that asked with its newcomer among them.
Resolve ==
  /\ Updating("follow")
  /\ da.base[job.from] >= 0
  /\ UNCHANGED <<funnelIdCursor, view>>
  /\ LET to == Xor(da.base[job.from], LabelOf(job))
         owner == da.check[to]
         newcomer == Len(Children(da, owner)) > Len(Children(da, job.from))
         mover == IF newcomer THEN job.from ELSE owner
         place == [mover |-> mover, newcomer |-> newcomer, conflict |-> to,
                   labels |-> IF newcomer THEN WithLabel(Children(da, mover), LabelOf(job))
                                          ELSE Children(da, mover)]
         open == da.head["O"]
         p == FindPlace(da)
     IN  /\ owner >= 0 /\ owner # job.from
         /\ \/ /\ Len(place.labels) = 1
               /\ Settle(p.da, place, p.e)
            \/ /\ Len(place.labels) > 1 /\ open = 0
               /\ Settle(AddBlock(da), place, da.size)
            \/ /\ Len(place.labels) > 1 /\ open # 0
               /\ job' = [job EXCEPT !.step = "place", !.place =
                    [mover |-> mover, newcomer |-> newcomer, conflict |-> to,
                     labels |-> place.labels, block |-> open, last |-> da.block[open].prev]]
               /\ UNCHANGED da

\* Whether the labels of a place are all free if the first goes to e.
Fits(d, e, labels) ==
  \A i \in 2 .. Len(labels) : d.check[Xor(Xor(e, labels[1]), labels[i])] < 0

\* Slip: the next candidate is read off the block after it was moved.
TryBlockReadsLate ==
  /\ Updating("place")
  /\ LET bi == job.place.block
         nc == Len(job.place.labels)
         b  == da.block[bi]
         ring == Ring(da, bi)
         fitting == {i \in DOMAIN ring : Fits(da, ring[i], job.place.labels)}
         tried == [da EXCEPT !.block[bi].reject = nc, !.block[bi].trial = @ + 1,
                             !.reject[b.num] = Min({@, nc})]
         failed == TransferBlock(tried, bi, "O", "C")
     IN  IF b.num >= nc /\ nc < b.reject /\ fitting # {}
           THEN Settle([da EXCEPT !.block[bi].ehead = ring[Min(fitting)]],
                       job.place, ring[Min(fitting)])
           ELSE da' = failed /\ job' = [job EXCEPT !.place.block = failed.block[bi].next]
  /\ UNCHANGED <<funnelIdCursor, view>>

\* Slip: blocks stay open however often they were tried.
TryBlockNeverCloses ==
  /\ Updating("place")
  /\ LET bi == job.place.block
         nc == Len(job.place.labels)
         b  == da.block[bi]
         ring == Ring(da, bi)
         fitting == {i \in DOMAIN ring : Fits(da, ring[i], job.place.labels)}
         failed == [da EXCEPT !.block[bi].reject = nc, !.block[bi].trial = @ + 1,
                              !.reject[b.num] = Min({@, nc})]
     IN  IF b.num >= nc /\ nc < b.reject /\ fitting # {}
           THEN Settle([da EXCEPT !.block[bi].ehead = ring[Min(fitting)]],
                       job.place, ring[Min(fitting)])
           ELSE IF bi = job.place.last
             THEN Settle(AddBlock(failed), job.place, da.size)
             ELSE da' = failed /\ job' = [job EXCEPT !.place.block = b.next]
  /\ UNCHANGED <<funnelIdCursor, view>>

\* A round of _find_place for several nodes: a block that is tried and does not
\* fit is closed; after the last one comes a new block.
TryBlock ==
  /\ Updating("place")
  /\ LET bi == job.place.block
         nc == Len(job.place.labels)
         b  == da.block[bi]
         ring == Ring(da, bi)
         fitting == {i \in DOMAIN ring : Fits(da, ring[i], job.place.labels)}
         found == b.num >= nc /\ nc < b.reject /\ fitting # {}
         tried == [da EXCEPT !.block[bi].reject = nc, !.block[bi].trial = @ + 1,
                             !.reject[b.num] = Min({@, nc})]
         failed == IF b.trial + 1 = MaxTrial THEN TransferBlock(tried, bi, "O", "C") ELSE tried
     IN  \/ /\ found
            /\ Settle([da EXCEPT !.block[bi].ehead = ring[Min(fitting)]],
                      job.place, ring[Min(fitting)])
         \/ /\ ~ found /\ bi = job.place.last
            /\ Settle(AddBlock(failed), job.place, da.size)
         \/ /\ ~ found /\ bi # job.place.last
            /\ da' = failed
            /\ job' = [job EXCEPT !.place.block = b.next]
  /\ UNCHANGED <<funnelIdCursor, view>>

\* Slip: base and value go along, the children are not told.
AdoptNone(d, old, to, label) == [d EXCEPT !.base[to] = d.base[old]]

\* What was at old is now at to, under label: so are its children.
Adopt(d, old, to, label) ==
  IF d.base[old] > 0 /\ label # 0
    THEN LET moved == [d EXCEPT !.base[to] = d.base[old], !.child[to] = d.child[old]]
             kids == {Xor(moved.base[to], c) : c \in Range(Children(moved, to))}
         IN  [moved EXCEPT !.check = [e \in DOMAIN @ |-> IF e \in kids THEN to ELSE @[e]]]
    ELSE [d EXCEPT !.base[to] = d.base[old]]

\* Slip: the node that asked is not looked for among those that move.
StayedFrom(place, from, old, to) == from

\* from_n after the node at old has moved to to.
MovedFrom(place, from, old, to) == IF ~ place.newcomer /\ old = from THEN to ELSE from

\* A round of _resolve's loop: one child of the mover goes to its new place.  The
\* place both wanted is taken at once if the newcomer is not among the movers.
Move ==
  /\ Updating("move")
  /\ LET m     == job.place
         p     == m.labels[m.at]
         to    == Xor(m.base, p)
         old   == Xor(m.old, p)
         label == LabelOf(job)
         isNew == m.newcomer /\ old = m.conflict
         from  == MovedFrom(m, job.from, old, to)
         taken == [PopEnode(da, to, p, m.mover, TRUE) EXCEPT
                     !.sibling[to] = IF m.at = Len(m.labels) THEN 0 ELSE m.labels[m.at + 1]]
         moved == Adopt(taken, old, to, p)
         d == CASE isNew -> taken
                [] ~ m.newcomer /\ old = m.conflict ->
                     [PushSibling(moved, from, Xor(m.conflict, label), label, TRUE) EXCEPT
                        !.child[old] = 0, !.check[old] = from,
                        !.base[old] = IF label # 0 THEN -1 ELSE 0]
                [] OTHER -> PushEnode(moved, old)
         j == [job EXCEPT !.from = IF isNew THEN @ ELSE from]
     IN  IF m.at = Len(m.labels)
           THEN Arrive(d, j, IF m.newcomer THEN Xor(m.base, label) ELSE m.conflict)
           ELSE da' = d /\ job' = [j EXCEPT !.place.at = @ + 1] /\ UNCHANGED view
  /\ UNCHANGED funnelIdCursor

UpdateStep == FollowNew \/ FollowFree \/ FollowEdge \/ Resolve \/ TryBlock \/ Move

-----------------------------------------------------------------------------
(* Traversing.  seen: the ids the callback was given. *)

Walk(node, root, seen, prefix) ==
  [pc |-> "walk", node |-> node, root |-> root, seen |-> seen, prefix |-> prefix]

\* Trie::traverse up to its loop: the prefix, if it has an id, then begin, which
\* finds the same id once more.
Traverse(k) ==
  /\ job = Idle
  /\ Find(da, k) # NoPath
  /\ LET root == NodeOf(da, k)
         first == Begin(da, root)
         own == IF Find(da, k) = NoValue THEN <<>> ELSE <<Find(da, k)>>
     IN  job' = Walk(first, root, Append(own, da.base[da.base[first]]), k)
  /\ UNCHANGED <<da, funnelIdCursor, view>>

\* A round of the loop: next, which is begin below the sibling found.
TraverseNext ==
  /\ job.pc = "walk"
  /\ LET up == Up(da, job.node, job.root)
         node == Begin(da, Xor(da.base[up.from], up.c))
     IN  job' = IF up.c = 0 THEN [job EXCEPT !.pc = "walked"]
                ELSE [job EXCEPT !.node = node, !.seen = Append(@, da.base[da.base[node]])]
  /\ UNCHANGED <<da, funnelIdCursor, view>>

TraverseEnd ==
  /\ job.pc = "walked"
  /\ job' = Idle
  /\ UNCHANGED <<da, funnelIdCursor, view>>

Next ==
  \/ \E k \in Keys : Attach(k) \/ Traverse(k)
  \/ UpdateStep \/ TraverseNext \/ TraverseEnd

Spec == Init /\ [][Next]_vars

-----------------------------------------------------------------------------
(* Properties *)

Blocks == DOMAIN da.block

\* Places are in the array, and counters in the range of their C++ types.
TypeOK ==
  /\ da.size = B * Cardinality(Blocks)
  /\ \A f \in {da.base, da.check, da.sibling, da.child} : DOMAIN f = 0 .. da.size - 1
  /\ \A e \in 0 .. da.size - 1 :
       da.check[e] < da.size /\ da.sibling[e] \in 0 .. B - 1 /\ da.child[e] \in 0 .. B - 1
  /\ \A bi \in Blocks :
       LET b == da.block[bi]
       IN  /\ b.prev \in Blocks /\ b.next \in Blocks
           /\ b.num \in 0 .. B /\ b.reject \in 0 .. B + 1 /\ b.trial \in 0 .. MaxTrial
           /\ b.ehead \div B = bi
  /\ \A l \in DOMAIN da.head : da.head[l] \in Blocks
  /\ funnelIdCursor \in Nat

Empty(bi) == {e \in bi * B .. bi * B + B - 1 : e # 0 /\ da.check[e] < 0}

\* At every step of an update the empty nodes of a block are the ring that starts
\* at its ehead, linked both ways, and num counts them (and the root).
RingsSound ==
  \A bi \in Blocks :
    /\ da.block[bi].num = Cardinality(Empty(bi)) + (IF bi = 0 THEN 1 ELSE 0)
    /\ Empty(bi) # {} =>
         /\ Empty(bi) = {Ring(da, bi)[i] : i \in 1 .. Cardinality(Empty(bi))}
         /\ \A e \in Empty(bi) : da.base[-da.check[e]] = -e

\* The list a block belongs to.
ListOf(bi) ==
  LET b == da.block[bi]
  IN  CASE bi = 0 \/ b.num = 0 -> "F"
        [] bi # 0 /\ b.num > 0 /\ (b.num = 1 \/ b.trial = MaxTrial) -> "C"
        [] OTHER -> "O"

\* At every step each block is in the list its empty nodes and trials call for;
\* lists are rings from their heads, linked both ways.
BlocksListed ==
  \A l \in DOMAIN da.head :
    LET of == {bi \in Blocks : ListOf(bi) = l}
        from[i \in 1 .. Cardinality(Blocks)] ==
          IF i = 1 THEN da.head[l] ELSE da.block[from[i - 1]].next
    IN  IF of = {} THEN da.head[l] = 0
        ELSE /\ of = {from[i] : i \in 1 .. Cardinality(of)}
             /\ \A bi \in of : da.block[da.block[bi].next].prev = bi

Inner == {0} \cup {n \in 1 .. da.size - 1 : da.check[n] >= 0 /\ da.base[da.check[n]] # n}

\* Between updates the list of a node's children is what the checks say, none of
\* them twice, the terminal first; a node that is no terminal has children, as
\* every search relies on, which would leave the array from one that has not.
TreeSound ==
  job.pc # "update" => \A n \in Inner :
    LET c == Children(da, n)
    IN  /\ da.base[n] >= 0
        /\ {Xor(da.base[n], l) : l \in Range(c)} \ {0}
              = {e \in 1 .. da.size - 1 : da.check[e] = n}
        /\ Cardinality(Range(c)) = Len(c)
        /\ \A i \in 2 .. Len(c) : c[i] # 0

\* Strings with ids, to ids, as Trie has it: while an update runs, what there was
\* before; its end changes one string and leaves the others, which moved.
T == INSTANCE Trie WITH
  da <- view,
  funnelIdCursor <- IF job.pc = "update" THEN funnelIdCursor - 1 ELSE funnelIdCursor

ImplementsTrie == T!TrieInit /\ [][\E k \in Keys : T!TrieAttach(k)]_(T!trieVars)

\* A traversal calls back once for each string under the prefix, but for the
\* prefix itself twice, and for none before what it starts with.
WalkComplete ==
  job.pc \in {"walk", "walked"} =>
    LET keyOf(id) == {k \in T!Stored : view[k] = id}
        visited(i) == UNION {keyOf(job.seen[j]) : j \in 1 .. i - 1}
    IN  /\ \A i \in DOMAIN job.seen : \E k \in keyOf(job.seen[i]) :
             \/ k \in T!NextKeys(job.prefix, visited(i))
             \/ i = 2 /\ k = job.prefix /\ job.seen[1] = job.seen[2]
        /\ job.pc = "walked" => T!NextKeys(job.prefix, visited(Len(job.seen) + 1)) = {}

\* Blocks still to be tried: how far the last one is from the next one.
RoundsLeft(d, place) ==
  LET on[n \in 0 .. Cardinality(DOMAIN d.block)] ==
        IF n = 0 THEN place.block ELSE d.block[on[n - 1]].next
  IN  {n \in DOMAIN on : on[n] = place.last}

\* Every step of an update brings its end nearer, if blocks move from list to list
\* under the loop that goes round one of them as they may: it takes a label, or
\* gets on with the same one, from the search for an edge to that for a place to
\* the moves, or has fewer blocks left to try, or fewer children to move.
UpdateAdvances ==
  [][job.pc = "update" /\ job' # Idle =>
       \/ job'.pos > job.pos
       \/ <<job.step, job'.step>> \in {<<"follow", "place">>, <<"follow", "move">>,
                                     <<"place", "move">>}
       \/ /\ job.step = "place" /\ job'.step = "place"
          /\ RoundsLeft(da', job'.place) # {}
          /\ Min(RoundsLeft(da', job'.place)) < Min(RoundsLeft(da, job.place))
       \/ job.step = "move" /\ job'.step = "move" /\ job'.place.at = job.place.at + 1]_vars
=============================================================================
