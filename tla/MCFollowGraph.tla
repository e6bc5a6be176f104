--------------------------- MODULE MCFollowGraph ---------------------------
(***************************************************************************)
(* FollowGraph for TLC.  The safety properties cannot tell one account or  *)
(* one phone from another.                                                 *)
(***************************************************************************)
EXTENDS FollowGraph, TLC

Symmetry == Permutations(Users) \cup Permutations(Devices)
=============================================================================
