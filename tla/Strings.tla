------------------------------ MODULE Strings -------------------------------
(***************************************************************************)
(* The strings a trie is asked about, and which of them start with which.  *)
(***************************************************************************)
EXTENDS Naturals, Sequences, FiniteSets

CONSTANTS
  Keys,        \* strings: attached prefixes and queried ones
  KeysUnder    \* KeysUnder[p]: the strings that start with p

\* "Starts with" is a partial order on strings.
ASSUME KeysAssumption ==
  /\ KeysUnder \in [Keys -> SUBSET Keys]
  /\ \A k \in Keys : k \in KeysUnder[k]
  /\ \A k, l \in Keys : l \in KeysUnder[k] => KeysUnder[l] \subseteq KeysUnder[k]
  /\ \A k, l \in Keys : l \in KeysUnder[k] /\ k \in KeysUnder[l] => k = l

\* Among any strings there is one that does not start with another of them.
ASSUME ShortestAssumption ==
  \A S \in SUBSET Keys : S # {} =>
    \E k \in S : \A j \in S : k \in KeysUnder[j] => j = k
=============================================================================
