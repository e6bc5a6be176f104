------------------------------- MODULE MCFeed -------------------------------
(***************************************************************************)
(* Feed for TLC: one's own post is newer than the followed one, so adding  *)
(* it takes the sort.                                                      *)
(***************************************************************************)
EXTENDS Feed

CONSTANTS me, ann

MCPosts == {1, 2}
MCAuthor == <<ann, me>>
=============================================================================
