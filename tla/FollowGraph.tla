---------------------------- MODULE FollowGraph ----------------------------
(***************************************************************************)
(* The follow relation of the app: UsersManager.follow and unfollow, the   *)
(* two screens that call them (Discover and Connections), and the path a   *)
(* write takes through the Firestore SDK on a device to the server.        *)
(*                                                                         *)
(* A follow is not one write but two: the followee's document gets the     *)
(* follower in "followers", the follower's own document gets the followee  *)
(* in "following".  Nothing makes the two atomic.  Each account has, on    *)
(* each device, a lane of writes in the order they were issued:            *)
(*                                                                         *)
(*     1 .. done        on the server, acknowledgement outstanding         *)
(*     .. saved         in the mutation queue on disk                      *)
(*     .. Len(lane)     still on the SDK's serial worker queue, in memory  *)
(*                                                                         *)
(* "suspect" is a history variable: the pairs <<follower, followee>> on    *)
(* which a crash, a rejection or a second device of the same account may   *)
(* have left the two halves of the relation apart.  A tap that will mend a *)
(* pair takes it out; "faulted" remembers it for good, for as long as the  *)
(* tap is in memory a crash can undo the mending.                          *)
(***************************************************************************)
EXTENDS Naturals, Sequences

CONSTANTS Users,          \* accounts, each with a document in "users"
          Devices,        \* phones the app runs on
          NoUser,         \* nobody is signed in
          Faults,         \* which of AllFaults the environment may produce
          PipelineLimit,  \* kMaxPendingWrites of the SDK (10)
          MaxLane,        \* bound of the model: writes waiting in one lane
          MaxTaps         \* bound of the model: follow/unfollow taps in all

AllFaults == {"crash", "reject", "sharing"}
Fields == {"followers", "following"}
Ops == {"union", "remove"}

\* A write: the account is the lane's; "followers" is a field of the document
\* of "to", "following" a field of the account's own document.
Write == [to : Users, field : Fields, op : Ops]

ASSUME FollowGraphAssumption ==
    /\ NoUser \notin Users
    /\ Faults \subseteq AllFaults
    /\ PipelineLimit \in Nat \ {0}
    /\ MaxLane \in Nat
    /\ MaxTaps \in Nat

VARIABLES
    followers,  \* server: followers[v], the array of user v's document
    following,  \* server: following[u]
    session,    \* session[d]: the account signed in on device d
    lane,       \* lane[d][u]: u's writes issued on d and not yet acknowledged
    saved,      \* saved[d][u]: how many of them are in the queue on disk
    done,       \* done[d]: how many of session[d]'s the server has committed
    people,     \* people[d]: the users Discover offers to follow
    listed,     \* listed[d]: the users Connections offers to unfollow
    suspect,    \* history: pairs that may have come apart
    faulted,    \* history: pairs a crash, a refusal or a race ever touched
    taps        \* taps so far (bounded by MaxTaps)

server == <<followers, following>>
tables == <<people, listed>>
vars == <<followers, following, session, lane, saved, done, people, listed,
          suspect, faulted, taps>>

-----------------------------------------------------------------------------
(* Writes and what they do to an array of user ids.                        *)

\* FieldValue.arrayUnion / arrayRemove applied to an array without duplicates.
Transform(ids, op, id) == IF op = "union" THEN ids \cup {id} ELSE ids \ {id}

\* The two updateData calls of UsersManager.follow, in order.
FollowWrites(v) == << [to |-> v, field |-> "followers", op |-> "union"],
                      [to |-> v, field |-> "following", op |-> "union"] >>

UnfollowWritesOneSided(v) ==
    << [to |-> v, field |-> "followers", op |-> "remove"],
       [to |-> v, field |-> "followers", op |-> "remove"] >>

\* The two updateData calls of UsersManager.unfollow, in order.
UnfollowWrites(v) == << [to |-> v, field |-> "followers", op |-> "remove"],
                        [to |-> v, field |-> "following", op |-> "remove"] >>

Touches(w, f, v) == w.field = f /\ w.to = v

Pending(s, f, v) == \E i \in 1..Len(s) : Touches(s[i], f, v)

\* s[i] is the last write of s to half f of the pair with followee v.
IsLast(s, i, f, v) == /\ i \in 1..Len(s)
                      /\ Touches(s[i], f, v)
                      /\ \A j \in (i + 1)..Len(s) : ~Touches(s[j], f, v)

LastIsUnion(s, f, v) == \E i \in 1..Len(s) : IsLast(s, i, f, v) /\ s[i].op = "union"

\* Whether half f of the pair <<u, v>> is set in the documents on the server.
Stored(f, u, v) == IF f = "followers" THEN u \in followers[v] ELSE v \in following[u]

\* What a device reads: the server's document under its own saved writes.
LocalMember(d, f, u, v) ==
    LET s == SubSeq(lane[d][u], 1, saved[d][u])
    IN  IF Pending(s, f, v) THEN LastIsUnion(s, f, v) ELSE Stored(f, u, v)

LocalFollowing(d, u) == {v \in Users : LocalMember(d, "following", u, v)}

\* What half f of <<u, v>> becomes once every pending write has been applied.
Settled(f, u, v) ==
    \/ \E d \in Devices : LastIsUnion(lane[d][u], f, v)
    \/ /\ Stored(f, u, v)
       /\ \A d \in Devices : ~Pending(lane[d][u], f, v)

\* Another device of account u still has writes for the same pair under way.
Contended(d, u, v) ==
    \E e \in Devices \ {d}, f \in Fields : Pending(lane[e][u], f, v)

OtherPairs(S, u, v) == S \ {<<u, v>>}

-----------------------------------------------------------------------------
(* The account on a device.                                                *)

NobodyElseHas(d, u) ==
    \A e \in Devices \ {d} : session[e] # u /\ lane[e][u] = <<>>

LoginBeforeSaved(d, u) ==
    /\ session[d] = NoUser
    /\ "sharing" \in Faults \/ NobodyElseHas(d, u)
    /\ session' = [session EXCEPT ![d] = u]
    /\ people' = [people EXCEPT ![d] = {}]
    /\ listed' = [listed EXCEPT ![d] = {}]
    /\ UNCHANGED <<server, lane, saved, done, suspect, faulted, taps>>

\* AuthManager.login succeeds: the SDK switches to u's mutation queue, the
\* screens of the new session start empty.  The worker queue is a local FIFO
\* and a sign-in a round trip to the server, so earlier writes are saved.
Login(d, u) ==
    /\ session[d] = NoUser
    /\ "sharing" \in Faults \/ NobodyElseHas(d, u)
    /\ \A a \in Users : saved[d][a] = Len(lane[d][a])
    /\ session' = [session EXCEPT ![d] = u]
    /\ people' = [people EXCEPT ![d] = {}]
    /\ listed' = [listed EXCEPT ![d] = {}]
    /\ UNCHANGED <<server, lane, saved, done, suspect, faulted, taps>>

LogoutClearsQueue(d) ==
    /\ session[d] # NoUser
    /\ session' = [session EXCEPT ![d] = NoUser]
    /\ done' = [done EXCEPT ![d] = 0]
    /\ lane' = [lane EXCEPT ![d][session[d]] = <<>>]
    /\ saved' = [saved EXCEPT ![d][session[d]] = 0]
    /\ UNCHANGED <<server, tables, suspect, faulted, taps>>

LogoutKeepsStream(d) ==
    /\ session[d] # NoUser
    /\ session' = [session EXCEPT ![d] = NoUser]
    /\ UNCHANGED <<server, lane, saved, done, tables, suspect, faulted, taps>>

\* AuthManager.logout: streams restart; the account's lane stays on disk and
\* waits for its owner to sign in on this device again.
Logout(d) ==
    /\ session[d] # NoUser
    /\ session' = [session EXCEPT ![d] = NoUser]
    /\ done' = [done EXCEPT ![d] = 0]
    /\ UNCHANGED <<server, lane, saved, tables, suspect, faulted, taps>>

-----------------------------------------------------------------------------
(* The two screens.                                                        *)

OfferedWithSelf(d, u) == {v \in Users : v \notin LocalFollowing(d, u)}

\* The filter of Discover's user list when nothing is typed in the search bar.
Offered(d, u) == {v \in Users : v # u /\ v \notin LocalFollowing(d, u)}

\* loadLoggedUser + getAllUsers: the reads run on the worker queue after every
\* write issued before them.
RefreshDiscover(d) ==
    LET u == session[d]
    IN  /\ u # NoUser
        /\ saved[d][u] = Len(lane[d][u])
        /\ people' = [people EXCEPT ![d] = Offered(d, u)]
        /\ UNCHANGED <<server, session, lane, saved, done, listed, suspect, faulted, taps>>

\* ConnectionsViewController.updateData.  A row shows its unfollow button by
\* the segment selected when its user arrives, so after a switch of segments a
\* follower may be on offer too.
RefreshConnections(d) ==
    LET u == session[d]
    IN  /\ u # NoUser
        /\ saved[d][u] = Len(lane[d][u])
        /\ listed' = [listed EXCEPT ![d] = LocalFollowing(d, u) \cup followers[u]]
        /\ UNCHANGED <<server, session, lane, saved, done, people, suspect, faulted, taps>>

\* Queue the two writes of one tap.  The history variable restarts for the
\* pair, unless another device is writing to it at the same time.
Issue(d, u, v, writes) ==
    /\ Len(lane[d][u]) + 2 <= MaxLane
    /\ taps < MaxTaps
    /\ lane' = [lane EXCEPT ![d][u] = @ \o writes]
    /\ suspect' = IF Contended(d, u, v) THEN suspect \cup {<<u, v>>}
                                        ELSE OtherPairs(suspect, u, v)
    /\ faulted' = IF Contended(d, u, v) THEN faulted \cup {<<u, v>>} ELSE faulted
    /\ taps' = taps + 1
    /\ UNCHANGED <<server, session, saved, done, tables>>

\* PeopleTableViewCell.followButtonTapped on any row shown, stale or not.
Follow(d) ==
    /\ session[d] # NoUser
    /\ \E v \in people[d] : Issue(d, session[d], v, FollowWrites(v))

\* ConnectionsTableViewCell.unfollowButtonTapped on any row shown.
Unfollow(d) ==
    /\ session[d] # NoUser
    /\ \E v \in listed[d] : Issue(d, session[d], v, UnfollowWrites(v))

-----------------------------------------------------------------------------
(* The SDK and the server.                                                 *)

\* The worker queue runs the next write: it enters the queue on disk.
Persist(d, u) ==
    /\ saved[d][u] < Len(lane[d][u])
    /\ saved' = [saved EXCEPT ![d][u] = @ + 1]
    /\ UNCHANGED <<server, session, lane, done, tables, suspect, faulted, taps>>

ApplyToServer(u, w) ==
    /\ followers' = IF w.field = "followers"
                    THEN [followers EXCEPT ![w.to] = Transform(@, w.op, u)]
                    ELSE followers
    /\ following' = IF w.field = "following"
                    THEN [following EXCEPT ![u] = Transform(@, w.op, w.to)]
                    ELSE following

CommitAllButLast(d) ==
    LET u == session[d]
    IN  /\ u # NoUser
        /\ done[d] + 1 < saved[d][u]
        /\ done[d] < PipelineLimit
        /\ ApplyToServer(u, lane[d][u][done[d] + 1])
        /\ done' = [done EXCEPT ![d] = @ + 1]
        /\ UNCHANGED <<session, lane, saved, tables, suspect, faulted, taps>>

CommitNewestFirst(d) ==
    LET u == session[d]
    IN  /\ u # NoUser
        /\ done[d] < saved[d][u]
        /\ done[d] < PipelineLimit
        /\ ApplyToServer(u, lane[d][u][saved[d][u] - done[d]])
        /\ done' = [done EXCEPT ![d] = @ + 1]
        /\ UNCHANGED <<session, lane, saved, tables, suspect, faulted, taps>>

\* The server commits the next write of the pipeline, in order.
Commit(d) ==
    LET u == session[d]
    IN  /\ u # NoUser
        /\ done[d] < saved[d][u]
        /\ done[d] < PipelineLimit
        /\ ApplyToServer(u, lane[d][u][done[d] + 1])
        /\ done' = [done EXCEPT ![d] = @ + 1]
        /\ UNCHANGED <<session, lane, saved, tables, suspect, faulted, taps>>

PopHead(d, u) ==
    /\ lane' = [lane EXCEPT ![d][u] = Tail(@)]
    /\ saved' = [saved EXCEPT ![d][u] = @ - 1]

\* The acknowledgement of the first write of the pipeline arrives.
AckUncommitted(d) ==
    LET u == session[d]
    IN  /\ u # NoUser
        /\ saved[d][u] > 0
        /\ PopHead(d, u)
        /\ done' = [done EXCEPT ![d] = IF @ > 0 THEN @ - 1 ELSE 0]
        /\ UNCHANGED <<server, session, tables, suspect, faulted, taps>>

Ack(d) ==
    LET u == session[d]
    IN  /\ u # NoUser
        /\ done[d] > 0
        /\ PopHead(d, u)
        /\ done' = [done EXCEPT ![d] = @ - 1]
        /\ UNCHANGED <<server, session, tables, suspect, faulted, taps>>

\* The write stream breaks with a transient error: every write whose answer
\* is outstanding is sent again, so the server may commit it twice.
StreamBreak(d) ==
    /\ done[d] > 0
    /\ done' = [done EXCEPT ![d] = 0]
    /\ UNCHANGED <<server, session, lane, saved, tables, suspect, faulted, taps>>

\* The server refuses the first write for good: it alone is dropped, the
\* other half of the same tap is still sent.
Reject(d) ==
    LET u == session[d]
        w == Head(lane[d][u])
    IN  /\ "reject" \in Faults
        /\ u # NoUser
        /\ done[d] = 0
        /\ saved[d][u] > 0
        /\ PopHead(d, u)
        /\ suspect' = IF IsLast(lane[d][u], 1, w.field, w.to)
                      THEN suspect \cup {<<u, w.to>>} ELSE suspect
        /\ faulted' = faulted \cup {<<u, w.to>>}
        /\ UNCHANGED <<server, session, done, tables, taps>>

UnsavedPairs(d) ==
    {p \in Users \X Users :
        \E i \in (saved[d][p[1]] + 1)..Len(lane[d][p[1]]) : lane[d][p[1]][i].to = p[2]}

\* The app is killed and started again: what the worker queue had not run is
\* gone, the queues on disk remain, nobody is signed in.
Crash(d) ==
    /\ "crash" \in Faults
    /\ session[d] # NoUser
    /\ lane' = [lane EXCEPT ![d] = [u \in Users |-> SubSeq(@[u], 1, saved[d][u])]]
    /\ session' = [session EXCEPT ![d] = NoUser]
    /\ done' = [done EXCEPT ![d] = 0]
    /\ suspect' = suspect \cup UnsavedPairs(d)
    /\ faulted' = faulted \cup UnsavedPairs(d)
    /\ UNCHANGED <<server, saved, tables, taps>>

-----------------------------------------------------------------------------
\* The documents hold whatever relation earlier use of the app left in them.
Init ==
    /\ \E rel \in SUBSET {p \in Users \X Users : p[1] # p[2]} :
          /\ followers = [v \in Users |-> {u \in Users : <<u, v>> \in rel}]
          /\ following = [u \in Users |-> {v \in Users : <<u, v>> \in rel}]
    /\ session = [d \in Devices |-> NoUser]
    /\ lane = [d \in Devices |-> [u \in Users |-> <<>>]]
    /\ saved = [d \in Devices |-> [u \in Users |-> 0]]
    /\ done = [d \in Devices |-> 0]
    /\ people = [d \in Devices |-> {}]
    /\ listed = [d \in Devices |-> {}]
    /\ suspect = {}
    /\ faulted = {}
    /\ taps = 0

Next ==
    \E d \in Devices :
        \/ \E u \in Users : Login(d, u) \/ Persist(d, u)
        \/ Logout(d)
        \/ RefreshDiscover(d)
        \/ RefreshConnections(d)
        \/ Follow(d)
        \/ Unfollow(d)
        \/ Commit(d)
        \/ Ack(d)
        \/ StreamBreak(d)
        \/ Reject(d)
        \/ Crash(d)

Spec == Init /\ [][Next]_vars

\* The worker queue runs what it is given; while an account is signed in the
\* pipeline is refilled and retried, and a connection that keeps coming back
\* stays up at some point long enough for one answer to arrive.
Fairness ==
    \A d \in Devices :
        /\ \A u \in Users : WF_vars(Persist(d, u))
        /\ WF_vars(Commit(d))
        /\ SF_vars(Ack(d))

FairSpec == Spec /\ Fairness

-----------------------------------------------------------------------------
(* Properties.                                                             *)

\* Every variable has its shape; no more writes are committed than saved, no
\* more saved than issued, and a lane holds only its two kinds of write.
TypeOK ==
    /\ followers \in [Users -> SUBSET Users]
    /\ following \in [Users -> SUBSET Users]
    /\ session \in [Devices -> Users \cup {NoUser}]
    /\ lane \in [Devices -> [Users -> Seq(Write)]]
    /\ saved \in [Devices -> [Users -> Nat]]
    /\ \A d \in Devices, u \in Users : saved[d][u] <= Len(lane[d][u])
    /\ done \in [Devices -> Nat]
    /\ \A d \in Devices :
          IF session[d] = NoUser THEN done[d] = 0 ELSE done[d] <= saved[d][session[d]]
    /\ people \in [Devices -> SUBSET Users]
    /\ listed \in [Devices -> SUBSET Users]
    /\ suspect \subseteq Users \X Users
    /\ faulted \subseteq Users \X Users
    /\ taps \in Nat

\* follow() and unfollow() change two documents with two separate writes.  Yet
\* on every pair on which no write was lost or refused and no two devices of
\* an account raced, u ends up in v's followers exactly when v ends up in u's
\* following, whatever is still queued, resent or waiting for its account.
ReciprocalUnlessSuspect ==
    \A u, v \in Users :
        <<u, v>> \notin suspect => (Settled("followers", u, v) <=> Settled("following", u, v))

\* Two phones of one account never both hold writes for the same pair, unless
\* the pair is suspect: the part of the argument that excludes write races.
OneDevicePerPair ==
    \A u, v \in Users, d, e \in Devices, f, g \in Fields :
        /\ <<u, v>> \notin suspect
        /\ Pending(lane[d][u], f, v)
        /\ Pending(lane[e][u], g, v)
        => d = e

\* A committed write that no later one of its lane overrides is still visible
\* in the server's document, so that dropping it from the lane changes nothing.
CommittedIsStored ==
    \A d \in Devices, u, v \in Users, f \in Fields : \A i \in 1..done[d] :
        /\ session[d] = u
        /\ <<u, v>> \notin suspect
        /\ IsLast(lane[d][u], i, f, v)
        => (Stored(f, u, v) <=> lane[d][u][i].op = "union")

\* The inductive invariant from which reciprocity follows.
IInv ==
    /\ TypeOK
    /\ OneDevicePerPair
    /\ CommittedIsStored
    /\ ReciprocalUnlessSuspect

\* No account ever follows itself, on the server or in any lane: Discover
\* leaves out AuthManager.userId, whatever account used the phone before.
NobodyFollowsSelf ==
    \A u \in Users :
        /\ u \notin following[u]
        /\ u \notin followers[u]
        /\ \A d \in Devices, f \in Fields : ~Pending(lane[d][u], f, u)

\* A crash between the two updateData calls tears at most one of the pairs that
\* no fault had touched before: the lanes are first-in first-out and only one
\* account writes on a phone, so at most one tap is half saved when it strikes.
TornPairs == {p \in Users \X Users :
                ~(Settled("followers", p[1], p[2]) <=> Settled("following", p[1], p[2]))}
CrashTearsAtMostOnePair ==
    [][\A d \in Devices : Crash(d) => \A p, q \in TornPairs' \ faulted : p = q]_vars

\* A tap outlives a logout, a crash of the stream and a change of account on
\* the phone: once saved, a write leaves its lane only when the server has
\* answered it, and only while its own account is signed in.
SavedWritesSurvive ==
    [][\A d \in Devices, u \in Users :
          LET before == SubSeq(lane[d][u], 1, saved[d][u])
              after  == SubSeq(lane'[d][u], 1, saved'[d][u])
          IN  (Len(after) < Len(before)) =>
                 /\ session[d] = u
                 /\ after = Tail(before)
                 /\ done[d] > 0 \/ "reject" \in Faults]_vars

\* Whatever is tapped reaches the server, unless its account signs out.
EventuallySettled ==
    \A d \in Devices, u \in Users :
        (lane[d][u] # <<>>) ~> (lane[d][u] = <<>> \/ session[d] # u)

\* The relation a user sees once the queues have drained.
Relation == INSTANCE FollowRelation
    WITH rel <- {p \in Users \X Users : Settled("following", p[1], p[2])}

\* Without faults, two arrays in two documents, a queue per account and phone
\* and a stream that resends implement one relation which changes with every
\* tap, in one step, and never otherwise.
ImplementsFollowRelation == Relation!Spec
=============================================================================
