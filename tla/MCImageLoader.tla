--------------------------- MODULE MCImageLoader ---------------------------
(***************************************************************************)
(* ImageLoader for TLC.                                                    *)
(***************************************************************************)
EXTENDS ImageLoader, TLC

Symmetry == Permutations(Urls)
=============================================================================
