--------------------------- MODULE FollowRelation ---------------------------
(***************************************************************************)
(* What the follow feature promises: one relation between accounts, that a *)
(* tap changes in one step and nothing else ever changes.  No document, no *)
(* queue and no server appears here.                                       *)
(***************************************************************************)
EXTENDS Naturals

CONSTANT Users

VARIABLES rel,    \* pairs <<follower, followee>>
          taps    \* follow and unfollow taps so far

NotSelf == {p \in Users \X Users : p[1] # p[2]}

Init == rel \subseteq NotSelf /\ taps = 0

\* UsersManager.follow.
Follow(p) == p \in NotSelf /\ rel' = rel \cup {p} /\ taps' = taps + 1

\* UsersManager.unfollow.
Unfollow(p) == p \in NotSelf /\ rel' = rel \ {p} /\ taps' = taps + 1

Next == \E p \in NotSelf : Follow(p) \/ Unfollow(p)

Spec == Init /\ [][Next]_<<rel, taps>>
=============================================================================
