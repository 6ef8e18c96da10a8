---------------------------- MODULE MCTabooIndex ----------------------------
(***************************************************************************)
(* Small instances of TabooIndex.  Three strings, one the beginning of     *)
(* another, two items of which one comes with two different documents.     *)
(***************************************************************************)
EXTENDS TabooIndex, TLC

CONSTANTS h1, h2, i1, i2, d1, d2

MCKeys == {"a", "ab", "b"}
MCKeysUnder == [k \in MCKeys |-> IF k = "a" THEN {"a", "ab"} ELSE {k}]
MCItem(i, d) == [id |-> i, doc |-> d]

MCAttach(keys, item, upsert) ==
  [op |-> "attach", keys |-> keys, item |-> item, upsert |-> upsert]
MCUpdate(key, item) == [op |-> "update", key |-> key, item |-> item]
MCQuery(prefix, num, accept) ==
  [op |-> "query", prefix |-> prefix, num |-> num, accept |-> accept]

MCAttachRequests ==
  { MCAttach(<<"ab", "a">>, MCItem(i1, d1), TRUE),
    MCAttach(<<"a", "b", "a">>, MCItem(i2, d2), FALSE),
    MCAttach(<<"ab">>, MCItem(i1, d2), FALSE) }
MCUpdateRequests == { MCUpdate("ab", MCItem(i2, d1)) }
MCQueryRequests ==
  { MCQuery("a", 2, {d1, d2}), MCQuery("a", 1, {d2}), MCQuery("b", 1, {d1, d2}) }

\* The threads of libmicrohttpd are interchangeable.
MCSymmetry == Permutations({h1, h2})

\* Fewer requests, for the run that follows every behaviour to its end.
MCFewAttachRequests ==
  { MCAttach(<<"ab">>, MCItem(i1, d1), TRUE), MCAttach(<<"a", "a">>, MCItem(i2, d2), FALSE) }
MCFewQueryRequests == { MCQuery("a", 2, {d1, d2}) }
=============================================================================
