-------------------------------- MODULE Trie --------------------------------
(***************************************************************************)
(* taboo::Trie: the map from attached strings to funnel ids that the       *)
(* double array stores, the cursor new ids are taken from, and the order   *)
(* in which a traversal yields the strings below a prefix.                 *)
(***************************************************************************)
EXTENDS Strings

CONSTANTS
  NoPath,    \* the trie has no node for the string      (0x7ffffffd)
  NoValue    \* the node exists and no string ends there (0x7ffffffe)

VARIABLES
  da,              \* da[k]: the id stored for k, NoValue if k was never stored
  funnelIdCursor   \* the last id handed out

trieVars == <<da, funnelIdCursor>>

ASSUME SentinelAssumption ==
  /\ NoPath \in Nat /\ NoValue \in Nat
  /\ IsFiniteSet(Keys)
  /\ Cardinality(Keys) < NoPath /\ NoPath < NoValue

IsSentinel(v) == v = NoPath \/ v = NoValue

Stored == {k \in Keys : ~ IsSentinel(da[k])}

TrieTypeOK == da \in [Keys -> Nat] /\ funnelIdCursor \in Nat

\* Slip: ids counted from -1, so that the first string gets id 0.
TrieInitFromMinusOne ==
  /\ da = [k \in Keys |-> NoValue]
  /\ funnelIdCursor = 0 - 1

TrieInit ==
  /\ da = [k \in Keys |-> NoValue]
  /\ funnelIdCursor = 0

newFunnelId == funnelIdCursor + 1

\* Slip: no_value is not turned into 0.
FunnelIdOfRaw(k) == da[k]

\* operator[]: exactMatchSearch reports both sentinels as no_value.
FunnelIdOf(k) == IF IsSentinel(da[k]) THEN 0 ELSE da[k]

\* The funnel Trie::attach passes to its callback for k ...
AttachedFunnel(k) == IF IsSentinel(da[k]) THEN newFunnelId ELSE da[k]

\* Slip: an id is drawn before looking whether the string is there.
TrieAttachDrawsFirst(k) ==
  /\ funnelIdCursor' = newFunnelId
  /\ da' = IF IsSentinel(da[k]) THEN [da EXCEPT ![k] = newFunnelId] ELSE da

\* Slip: attaching a string again gives it a new funnel.
TrieAttachRenews(k) ==
  /\ funnelIdCursor' = newFunnelId
  /\ da' = [da EXCEPT ![k] = newFunnelId]

\* ... and what the same iteration of its loop does to the trie.
TrieAttach(k) ==
  IF IsSentinel(da[k])
    THEN /\ funnelIdCursor' = newFunnelId
         /\ da' = [da EXCEPT ![k] = newFunnelId]
    ELSE UNCHANGED trieVars

StoredUnder(p) == Stored \cap KeysUnder[p]

\* begin/next walk the subtree of p depth first, the string that ends at a
\* node before the longer ones; siblings come in no particular order.
NextKeys(p, visited) ==
  LET rest == StoredUnder(p) \ visited
  IN  {k \in rest : \A j \in rest : k \in KeysUnder[j] => j = k}
=============================================================================
