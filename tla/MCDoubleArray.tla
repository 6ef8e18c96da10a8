--------------------------- MODULE MCDoubleArray ----------------------------
(***************************************************************************)
(* A small instance of DoubleArray: blocks of four nodes, three labels,    *)
(* and strings that share prefixes, so that parents of several sizes want  *)
(* the same places; a handful of blocks is opened, closed and filled.      *)
(***************************************************************************)
EXTENDS DoubleArray, SequencesExt

MCKeys ==
  {<<1, 1>>, <<1, 1, 2>>, <<1, 2, 2>>, <<1, 2, 3>>, <<3>>, <<3, 1>>, <<3, 1, 3>>}

MCKeysUnder == [p \in MCKeys |-> {k \in MCKeys : IsPrefix(p, k)}]
=============================================================================
