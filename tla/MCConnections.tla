--------------------------- MODULE MCConnections ---------------------------
(***************************************************************************)
(* Connections for TLC.                                                    *)
(***************************************************************************)
EXTENDS Connections

Symmetry == Permutations(People)
=============================================================================
