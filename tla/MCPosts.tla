------------------------------- MODULE MCPosts -------------------------------
(***************************************************************************)
(* Posts for TLC.                                                          *)
(***************************************************************************)
EXTENDS Posts, TLC

Symmetry == Permutations(Users) \cup Permutations(Devices) \cup Permutations(Ids)
=============================================================================
