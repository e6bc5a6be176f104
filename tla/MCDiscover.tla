----------------------------- MODULE MCDiscover -----------------------------
(***************************************************************************)
(* Discover for TLC.                                                       *)
(***************************************************************************)
EXTENDS Discover, TLC

Symmetry == Permutations(Regions) \cup Permutations(Loads)
=============================================================================
