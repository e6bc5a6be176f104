--------------------------- MODULE Upload_proofs ---------------------------
(***************************************************************************)
(* Theorems about Upload, for every set of accounts, pictures and faults   *)
(* and every number of uploads: what a profile and the profile page may    *)
(* show, wherever the chains of answers are cut, cross or overtake each    *)
(* other.                                                                  *)
(***************************************************************************)
EXTENDS Upload, TLAPS

-----------------------------------------------------------------------------
(* The inductive invariant, in parts.                                      *)

\* A chain leaves behind what its steps have done.
ChainLeaves ==
    \A k \in Kinds, n \in Names :
        /\ step[k][n] \in {"url", "document", "written", "updating", "done"} => n \in stored[k]
        /\ step[k][n] \in {"written", "updating", "done"} => n \in images[k]

\* Only an upload whose update was committed is named in a profile.
ProfileIsDone ==
    \A u \in Users, k \in Kinds :
        profile[u][k] # None => step[k][profile[u][k]] = "done"

\* An update waits once, in one account's queue, and is not settled.
QueuedOnce ==
    \A k \in Kinds, u \in Users :
        /\ \A i, j \in 1..Len(queue[u][k]) : queue[u][k][i] = queue[u][k][j] => i = j
        /\ \A n \in Queued(u, k) : step[k][n] = "updating"
        /\ \A w \in Users : u # w => Queued(u, k) \cap Queued(w, k) = {}

\* An update waits in the queue of who has tapped it, or the upload has crossed a
\* change of account.
QueueIsOwn ==
    \A u \in Users, k \in Kinds : \A n \in Queued(u, k) : by[k][n] = u \/ n \in crossed[k]

\* An upload under way is the signed-in user's, or has crossed a change of
\* account.
UnderWayIsOwn ==
    \A k \in Kinds, n \in Names :
        step[k][n] \in Running => by[k][n] = userId \/ n \in crossed[k]

\* The latest upload of an account is one of its own.
LastIsOwn ==
    \A u \in Users, k \in Kinds :
        last[u][k] # None => by[k][last[u][k]] = u /\ step[k][last[u][k]] # "unused"

\* An upload that is no longer its account's latest, but still under way,
\* overlaps the latest.
OlderOverlaps ==
    \A k \in Kinds, n \in Names, u \in Users :
        /\ step[k][n] \in Running \/ n \in Queued(u, k)
        /\ by[k][n] = u /\ last[u][k] # n
        => last[u][k] \in overlaps[k]

\* While a picture is unsent nothing from its page is under way that could
\* blank the picker.
UnsentIsCalm ==
    \A k \in Kinds : unsent[k] =>
        picker[k] = "picture" /\ \A n \in here[k] : step[k][n] \notin Running

\* While the header is known to be current nothing is under way that could change
\* the profile's picture, and no other picture is being loaded.
HeaderIsCalm ==
    \A k \in Kinds : ~early[k] =>
        /\ profile[userId][k] # None
        /\ header[k] = profile[userId][k] \/ loading[k][profile[userId][k]] # 0
        /\ \A n \in Names : n # profile[userId][k] => loading[k][n] = 0
        /\ \A n \in Names : step[k][n] \notin Running
        /\ Queued(userId, k) = {}

IInv ==
    /\ TypeOK
    /\ ChainLeaves
    /\ ProfileIsDone
    /\ QueuedOnce
    /\ UnderWayIsOwn
    /\ QueueIsOwn
    /\ PictureIsOwn
    /\ LastIsOwn
    /\ OlderOverlaps
    /\ LatestWins
    /\ UnsentIsCalm
    /\ HeaderIsCalm

-----------------------------------------------------------------------------
(* The shape of the state.                                                 *)

\* A new name is unused.
LEMMA NewNameIsUnused ==
    ASSUME NEW k \in Kinds, Unused(k) # {}
    PROVE  NewName(k) \in Names /\ step[k][NewName(k)] = "unused"
BY DEF NewName, Unused

\* Every step keeps the shape of the state.
LEMMA TypeStep ==
    ASSUME TypeOK, [Next]_vars
    PROVE  TypeOK'
<1>1. ASSUME NEW k \in Kinds, Pick(k) PROVE TypeOK'
  BY <1>1 DEF TypeOK, Steps, Running, vars, page, history, Pick
<1>2. ASSUME Tap PROVE TypeOK'
  <2>1. \A k \in Sent : NewName(k) \in Names
    BY <1>2, NewNameIsUnused DEF Tap, Sent
  <2>2. QED
    BY <1>2, <2>1 DEF TypeOK, Steps, Running, Tap, Sent, OwnUnderWay, UnderWay, InChain, Queued
<1>3. ASSUME Reopen PROVE TypeOK'
  BY <1>3 DEF TypeOK, Steps, Running, vars, page, history, Reopen
<1>4. ASSUME Appear PROVE TypeOK'
  BY <1>4 DEF TypeOK, Steps, Running, vars, page, history, Appear
<1>5. ASSUME Refresh PROVE TypeOK'
  <2>1. early' \in [Kinds -> BOOLEAN]
    BY <1>5, Zenon DEF Refresh
  <2>2. loading' \in [Kinds -> [Names -> Nat]]
    BY <1>5 DEF TypeOK, Refresh
  <2>3. QED
    BY <1>5, <2>1, <2>2 DEF TypeOK, Refresh
<1>6. ASSUME RefreshFails PROVE TypeOK'
  BY <1>6 DEF TypeOK, Steps, Running, vars, page, history, RefreshFails
<1>16. ASSUME NEW k \in Kinds, NEW n \in Names, ShowHeader(k, n) PROVE TypeOK'
  BY <1>16 DEF TypeOK, Steps, Running, history, ShowHeader, Loaded
<1>17. ASSUME NEW k \in Kinds, NEW n \in Names, LoadFails(k, n) PROVE TypeOK'
  BY <1>17 DEF TypeOK, Steps, Running, LoadFails, Loaded
<1>7. ASSUME NEW k \in Kinds, NEW n \in Names, PutDone(k, n) PROVE TypeOK'
  BY <1>7 DEF TypeOK, Steps, Running, vars, page, history, PutDone, Moved
<1>8. ASSUME NEW k \in Kinds, NEW n \in Names, UrlDone(k, n) PROVE TypeOK'
  BY <1>8 DEF TypeOK, Steps, Running, vars, page, history, UrlDone, Moved
<1>9. ASSUME NEW k \in Kinds, NEW n \in Names, CommitDocument(k, n) PROVE TypeOK'
  BY <1>9 DEF TypeOK, Steps, Running, vars, page, history, CommitDocument, Moved
<1>10. ASSUME NEW k \in Kinds, NEW n \in Names, Finish(k, n) PROVE TypeOK'
  BY <1>10 DEF TypeOK, Steps, Running, history, Finish, Moved
<1>18. ASSUME NEW k \in Kinds, Settle(k) PROVE TypeOK'
  <2>1. /\ userId \in Users
        /\ queue[userId][k] \in Seq(Names) /\ queue[userId][k] # <<>>
    BY <1>18 DEF TypeOK, Settle, Update, Refuse
  <2>2. Head(queue[userId][k]) \in Names /\ Tail(queue[userId][k]) \in Seq(Names)
    BY <2>1
  <2>3. QED
    <3>1. PICK to \in {"done", "failed"} :
            /\ step' = Moved(k, Head(queue[userId][k]), to)
            /\ profile' = IF to = "done" THEN [profile EXCEPT ![userId][k] = Head(queue[userId][k])]
                          ELSE profile
            /\ queue' = [queue EXCEPT ![userId][k] = Tail(queue[userId][k])]
            /\ UNCHANGED <<userId, page, stored, images, history>>
      BY <1>18 DEF Settle, Update, Refuse
    <3>2. step' \in [Kinds -> [Names -> Steps]]
      BY <2>2, <3>1 DEF TypeOK, Moved, Steps
    <3>3. profile' \in [Users -> [Kinds -> Names \cup {None}]]
      BY <2>2, <3>1 DEF TypeOK
    <3>4. queue' \in [Users -> [Kinds -> Seq(Names)]]
      BY <2>2, <3>1 DEF TypeOK
    <3>5. QED
      BY <3>1, <3>2, <3>3, <3>4 DEF TypeOK, page, history
<1>11. ASSUME NEW k \in Kinds, NEW n \in Names, Fail(k, n) PROVE TypeOK'
  BY <1>11 DEF TypeOK, Steps, Running, vars, page, history, Fail, Moved
<1>12. ASSUME NEW u \in Users, SignIn(u) PROVE TypeOK'
  BY <1>12 DEF TypeOK, InChain, NoLoads, SignIn, NewPage
<1>13. ASSUME Crash PROVE TypeOK'
  <2>1. stored' \in [Kinds -> SUBSET Names] /\ images' \in [Kinds -> SUBSET Names]
    BY <1>13 DEF TypeOK, Crash
  <2>2. step' \in [Kinds -> [Names -> Steps]]
    BY <1>13 DEF TypeOK, Steps, Running, Crash
  <2>3. queue' \in [Users -> [Kinds -> Seq(Names)]]
    <3>1. PICK saved \in [Kinds -> 0..MaxUploads] :
            /\ \A k \in Kinds : saved[k] <= Len(queue[userId][k])
            /\ queue' = [queue EXCEPT ![userId] =
                           [k \in Kinds |-> SubSeq(queue[userId][k], 1, saved[k])]]
      BY <1>13 DEF Crash
    <3>2. \A k \in Kinds : SubSeq(queue[userId][k], 1, saved[k]) \in Seq(Names)
      BY <3>1, UploadAssumption DEF TypeOK
    <3>3. QED
      BY <3>1, <3>2 DEF TypeOK
  <2>4. QED
    BY <1>13, <2>1, <2>2, <2>3 DEF TypeOK, Crash, NewPage, NoLoads
<1>14. CASE UNCHANGED vars
  BY <1>14 DEF TypeOK, Steps, Running, vars, page, history
<1>15. QED
  BY <1>1, <1>2, <1>3, <1>4, <1>5, <1>6, <1>7, <1>8, <1>9, <1>10, <1>11, <1>12, <1>13, <1>14,
     <1>16, <1>17, <1>18 DEF Next, Chain

-----------------------------------------------------------------------------
(* What each kind of step does, one upload at a time.                      *)

\* No update is added to a queue, or taken from it.
SameQueues ==
    \A u \in Users, k \in Kinds : Queued(u, k)' = Queued(u, k)

\* Only one upload goes on.
OnlyMoves(k, n) ==
    \A j \in Kinds, m \in Names : j # k \/ m # n => step'[j][m] = step[j][m]

\* A page is opened, filled, refreshed or gets its pictures.
PageStep ==
    /\ SameQueues
    /\ UNCHANGED <<userId, step, stored, images, profile, by, last, crossed, overlaps>>

\* A chain goes on, or fails.
GoesOn(k, n) ==
    /\ step[k][n] \in Running
    /\ step'[k][n] \in Running \cup {"failed"}
    /\ OnlyMoves(k, n)
    /\ SameQueues
    /\ UNCHANGED <<userId, page, profile, history>>

\* A chain ends: its update waits behind those of whoever is signed in.
Ends(k, n) ==
    /\ step[k][n] = "written" /\ step'[k][n] = "updating"
    /\ OnlyMoves(k, n)
    /\ \A u \in Users, j \in Kinds :
          Queued(u, j)' = Queued(u, j) \cup IF u = userId /\ j = k THEN {n} ELSE {}
    /\ \A j \in Kinds : picker'[j] = picker[j] \/ (j = k /\ n \in here[k])
    /\ UNCHANGED <<userId, here, header, loading, stored, images, profile, history>>

\* An update is committed or refused.
Settles(k, n) ==
    /\ n \in Queued(userId, k)
    /\ step'[k][n] \in {"done", "failed"}
    /\ OnlyMoves(k, n)
    /\ \A u \in Users, j \in Kinds :
          /\ Queued(u, j)' = Queued(u, j) \ IF u = userId /\ j = k THEN {n} ELSE {}
          /\ profile'[u][j] = IF u = userId /\ j = k /\ step'[k][n] = "done" THEN n
                              ELSE profile[u][j]
    /\ UNCHANGED <<userId, page, stored, images, history>>

\* New uploads begin, of the signed-in user.
Begins ==
    /\ \A k \in Kinds :
          /\ k \in Sent => NewName(k) \in Names /\ step[k][NewName(k)] = "unused"
          /\ \A n \in Names :
                /\ step'[k][n] = IF k \in Sent /\ n = NewName(k) THEN "put" ELSE step[k][n]
                /\ by'[k][n] = IF k \in Sent /\ n = NewName(k) THEN userId ELSE by[k][n]
          /\ \A u \in Users :
                last'[u][k] = IF u = userId /\ k \in Sent THEN NewName(k) ELSE last[u][k]
          /\ overlaps[k] \subseteq overlaps'[k]
          /\ k \in Sent /\ OwnUnderWay(k) # {} => NewName(k) \in overlaps'[k]
    /\ SameQueues
    /\ UNCHANGED <<userId, stored, images, profile, crossed>>

\* Another account signs in.
Changes ==
    /\ userId' \in Users
    /\ \A k \in Kinds : crossed'[k] = crossed[k] \cup InChain(k)
    /\ SameQueues
    /\ UNCHANGED <<step, stored, images, profile, by, last, overlaps>>

\* The chains under way are cut, and updates that were not saved lost.
Cuts ==
    /\ \A k \in Kinds :
          /\ \A n \in Names :
                /\ \/ step'[k][n] = step[k][n]
                   \/ /\ step[k][n] \in Running \cup {"updating"}
                      /\ step'[k][n] = "failed"
                /\ step'[k][n] \notin Running
          /\ \A u \in Users : \A n \in Queued(u, k)' :
                n \in Queued(u, k) /\ step'[k][n] = step[k][n]
          /\ stored[k] \subseteq stored'[k]
          /\ images[k] \subseteq images'[k]
    /\ UNCHANGED <<userId, profile, by, last, crossed, overlaps>>

\* The names in a queue.
LEMMA QueuedNames ==
    ASSUME TypeOK, NEW u \in Users, NEW k \in Kinds
    PROVE  /\ queue[u][k] \in Seq(Names)
           /\ Queued(u, k) \subseteq Names
           /\ Queued(u, k) = {} => queue[u][k] = <<>>
<1>1. queue[u][k] \in Seq(Names)
  BY DEF TypeOK
<1>2. Queued(u, k) \subseteq Names
  BY <1>1 DEF Queued
<1>3. queue[u][k] # <<>> => queue[u][k][1] \in Queued(u, k)
  <2>1. queue[u][k] # <<>> => 1 \in 1..Len(queue[u][k])
    BY <1>1
  <2>2. QED
    BY <2>1 DEF Queued
<1>4. QED
  BY <1>1, <1>2, <1>3

\* The names of a queue with one more.
LEMMA AppendAdds ==
    ASSUME NEW q \in Seq(Names), NEW n \in Names
    PROVE  {Append(q, n)[i] : i \in 1..Len(Append(q, n))} = {q[i] : i \in 1..Len(q)} \cup {n}
<1> DEFINE r == Append(q, n)
<1>1. /\ Len(r) = Len(q) + 1 /\ Len(q) \in Nat
      /\ \A i \in 1..Len(q) : r[i] = q[i]
      /\ r[Len(q) + 1] = n
  OBVIOUS
<1> HIDE DEF r
<1>2. 1..Len(r) = 1..Len(q) \cup {Len(q) + 1}
  BY <1>1
<1>3. {r[i] : i \in 1..Len(r)} = {q[i] : i \in 1..Len(q)} \cup {n}
  BY <1>1, <1>2
<1>4. QED
  BY <1>3 DEF r

\* A queue of different names without its first.
LEMMA TailKeepsOnce ==
    ASSUME NEW q \in Seq(Names), q # <<>>,
           \A c, d \in 1..Len(q) : q[c] = q[d] => c = d,
           NEW a \in 1..Len(Tail(q)), NEW b \in 1..Len(Tail(q)), Tail(q)[a] = Tail(q)[b]
    PROVE  a = b
<1>1. Len(q) \in Nat /\ Len(Tail(q)) = Len(q) - 1
  OBVIOUS
<1>2. a + 1 \in 1..Len(q) /\ b + 1 \in 1..Len(q)
  BY <1>1
<1>3. Tail(q)[a] = q[a + 1] /\ Tail(q)[b] = q[b + 1]
  BY <1>1
<1>4. a + 1 = b + 1
  BY <1>2, <1>3
<1>5. QED
  BY <1>4

\* While the queue is left alone.
LEMMA QueuesStay ==
    ASSUME UNCHANGED queue
    PROVE  SameQueues
BY DEF SameQueues, Queued

\* One upload is moved.
LEMMA Moves ==
    ASSUME TypeOK, NEW k \in Kinds, NEW n \in Names, NEW to, step' = Moved(k, n, to)
    PROVE  step'[k][n] = to /\ OnlyMoves(k, n)
BY DEF TypeOK, Moved, OnlyMoves

\* The steps of a chain that do not end it.
LEMMA ChainGoesOn ==
    ASSUME TypeOK, NEW k \in Kinds, NEW n \in Names,
           PutDone(k, n) \/ UrlDone(k, n) \/ CommitDocument(k, n) \/ Fail(k, n)
    PROVE  GoesOn(k, n)
<1>1. PICK to \in {"url", "document", "written", "failed"} : step' = Moved(k, n, to)
  BY DEF PutDone, UrlDone, CommitDocument, Fail
<1>2. step[k][n] \in Running /\ UNCHANGED <<userId, queue, page, profile, history>>
  BY DEF PutDone, UrlDone, CommitDocument, Fail, Running
<1>3. step'[k][n] = to /\ OnlyMoves(k, n)
  BY <1>1, Moves
<1>4. QED
  BY <1>1, <1>2, <1>3, QueuesStay DEF GoesOn, Running

\* The step that does.
LEMMA FinishEnds ==
    ASSUME TypeOK, NEW k \in Kinds, NEW n \in Names, Finish(k, n)
    PROVE  Ends(k, n)
<1>1. step'[k][n] = "updating" /\ OnlyMoves(k, n)
  BY Moves DEF Finish
<1>2. ASSUME NEW u \in Users, NEW j \in Kinds
      PROVE  Queued(u, j)' = Queued(u, j) \cup IF u = userId /\ j = k THEN {n} ELSE {}
  <2>1. CASE u = userId /\ j = k
    <3>1. queue[u][j] \in Seq(Names) /\ queue'[u][j] = Append(queue[u][j], n)
      BY <2>1 DEF TypeOK, Finish
    <3>5. Queued(u, j)' = Queued(u, j) \cup {n}
      BY <3>1, AppendAdds DEF Queued
    <3>6. QED
      BY <2>1, <3>5
  <2>2. CASE ~(u = userId /\ j = k)
    <3>1. queue'[u][j] = queue[u][j]
      BY <2>2 DEF TypeOK, Finish
    <3>2. QED
      BY <2>2, <3>1 DEF Queued
  <2>3. QED
    BY <2>1, <2>2
<1>3. \A j \in Kinds : picker'[j] = picker[j] \/ (j = k /\ n \in here[k])
  BY DEF TypeOK, Finish
<1>4. QED
  BY <1>1, <1>2, <1>3 DEF Ends, Finish, history

\* A settled update leaves its queue.
LEMMA SettleTakes ==
    ASSUME NEW k \in Kinds, Settle(k)
    PROVE  /\ queue[userId][k] # <<>>
           /\ queue' = [queue EXCEPT ![userId][k] = Tail(queue[userId][k])]
BY DEF Settle, Update, Refuse

\* The answer to the first update of a queue.
LEMMA SettleSettles ==
    ASSUME TypeOK, QueuedOnce, NEW k \in Kinds, Settle(k)
    PROVE  \E n \in Names : Settles(k, n)
<1> DEFINE q == queue[userId][k]
           n == Head(q)
<1>1. q \in Seq(Names) /\ q # <<>> /\ userId \in Users
  BY DEF TypeOK, Settle, Update, Refuse
<1>2. /\ n \in Names /\ n = q[1] /\ 1 \in 1..Len(q)
      /\ Tail(q) \in Seq(Names) /\ Len(Tail(q)) = Len(q) - 1
      /\ \A i \in 1..Len(Tail(q)) : Tail(q)[i] = q[i + 1]
  BY <1>1
<1>3. PICK to \in {"done", "failed"} :
        /\ step' = Moved(k, n, to)
        /\ profile' = IF to = "done" THEN [profile EXCEPT ![userId][k] = n] ELSE profile
        /\ queue' = [queue EXCEPT ![userId][k] = Tail(q)]
        /\ UNCHANGED <<userId, page, stored, images, history>>
  BY DEF Settle, Update, Refuse
<1>4. step'[k][n] = to /\ OnlyMoves(k, n)
  BY <1>2, <1>3, Moves
<1>5. n \in Queued(userId, k)
  BY <1>2 DEF Queued
<1>6. ASSUME NEW u \in Users, NEW j \in Kinds
      PROVE  Queued(u, j)' = Queued(u, j) \ IF u = userId /\ j = k THEN {n} ELSE {}
  <2>1. CASE u = userId /\ j = k
    <3>1. queue'[u][j] = Tail(q)
      BY <1>3, <2>1 DEF TypeOK
    <3>2. Queued(u, j)' = {Tail(q)[i] : i \in 1..Len(Tail(q))}
      BY <3>1 DEF Queued
    <3>3. \A i \in 1..Len(Tail(q)) : Tail(q)[i] \in {q[l] : l \in 1..Len(q)} \ {n}
      <4> SUFFICES ASSUME NEW i \in 1..Len(Tail(q))
                   PROVE  Tail(q)[i] \in {q[l] : l \in 1..Len(q)} \ {n}
        OBVIOUS
      <4>1. i + 1 \in 1..Len(q) /\ i + 1 # 1 /\ Tail(q)[i] = q[i + 1]
        BY <1>1, <1>2
      <4>2. q[i + 1] # q[1]
        BY <1>1, <1>2, <4>1 DEF QueuedOnce
      <4>3. QED
        BY <1>2, <4>1, <4>2
    <3>4. \A l \in 1..Len(q) : q[l] # n => q[l] \in {Tail(q)[i] : i \in 1..Len(Tail(q))}
      <4> SUFFICES ASSUME NEW l \in 1..Len(q), q[l] # n
                   PROVE  q[l] \in {Tail(q)[i] : i \in 1..Len(Tail(q))}
        OBVIOUS
      <4>1. l - 1 \in 1..Len(Tail(q)) /\ Tail(q)[l - 1] = q[l]
        BY <1>1, <1>2
      <4>2. QED
        BY <4>1
    <3>5. Queued(u, j) = {q[l] : l \in 1..Len(q)}
      BY <2>1 DEF Queued
    <3>6. Queued(u, j)' = Queued(u, j) \ {n}
      BY <3>2, <3>3, <3>4, <3>5
    <3>7. QED
      BY <2>1, <3>6
  <2>2. CASE ~(u = userId /\ j = k)
    <3>1. queue'[u][j] = queue[u][j]
      BY <1>3, <2>2 DEF TypeOK
    <3>2. QED
      BY <2>2, <3>1 DEF Queued
  <2>3. QED
    BY <2>1, <2>2
<1>7. \A u \in Users, j \in Kinds :
         profile'[u][j] = IF u = userId /\ j = k /\ to = "done" THEN n ELSE profile[u][j]
  BY <1>3 DEF TypeOK
<1>8. Settles(k, n)
  BY <1>3, <1>4, <1>5, <1>6, <1>7 DEF Settles
<1>9. QED
  BY <1>2, <1>8

\* A tap.
LEMMA TapBegins ==
    ASSUME TypeOK, Tap
    PROVE  Begins
<1>0. SameQueues
  BY QueuesStay DEF Tap
<1> SUFFICES ASSUME NEW k \in Kinds
             PROVE  /\ k \in Sent => NewName(k) \in Names /\ step[k][NewName(k)] = "unused"
                    /\ \A n \in Names :
                          /\ step'[k][n] = IF k \in Sent /\ n = NewName(k) THEN "put" ELSE step[k][n]
                          /\ by'[k][n] = IF k \in Sent /\ n = NewName(k) THEN userId ELSE by[k][n]
                    /\ \A u \in Users :
                          last'[u][k] = IF u = userId /\ k \in Sent THEN NewName(k) ELSE last[u][k]
                    /\ overlaps[k] \subseteq overlaps'[k]
                    /\ k \in Sent /\ OwnUnderWay(k) # {} => NewName(k) \in overlaps'[k]
  BY <1>0 DEF Begins, Tap
<1>1. k \in Sent => NewName(k) \in Names /\ step[k][NewName(k)] = "unused"
  BY NewNameIsUnused DEF Tap, Sent
<1>2. \A n \in Names :
         step'[k][n] = IF k \in Sent /\ n = NewName(k) THEN "put" ELSE step[k][n]
  BY <1>1 DEF Tap, TypeOK
<1>3. \A n \in Names :
         by'[k][n] = IF k \in Sent /\ n = NewName(k) THEN userId ELSE by[k][n]
  BY <1>1 DEF Tap, TypeOK
<1>4. \A u \in Users :
         last'[u][k] = IF u = userId /\ k \in Sent THEN NewName(k) ELSE last[u][k]
  BY DEF Tap, TypeOK
<1>5. /\ overlaps[k] \subseteq overlaps'[k]
      /\ k \in Sent /\ OwnUnderWay(k) # {} => NewName(k) \in overlaps'[k]
  BY DEF Tap, TypeOK
<1>6. QED
  BY <1>1, <1>2, <1>3, <1>4, <1>5

\* A change of account.
LEMMA SignInChanges ==
    ASSUME TypeOK, NEW u \in Users, SignIn(u)
    PROVE  Changes
BY QueuesStay DEF TypeOK, SignIn, Changes

\* A crash.
LEMMA CrashCuts ==
    ASSUME TypeOK, QueuedOnce, Crash
    PROVE  Cuts
<1>1. PICK late : /\ stored' = [k \in Kinds |-> stored[k] \cup
                              {n \in Names : <<k, n>> \in late /\ step[k][n] = "put"}]
                  /\ images' = [k \in Kinds |-> images[k] \cup
                              {n \in Names : <<k, n>> \in late /\ step[k][n] = "document"}]
  BY DEF Crash
<1>2. \A k \in Kinds : stored[k] \subseteq stored'[k] /\ images[k] \subseteq images'[k]
  BY <1>1
<1>3. PICK saved \in [Kinds -> 0..MaxUploads] :
        /\ \A k \in Kinds : saved[k] <= Len(queue[userId][k])
        /\ queue' = [queue EXCEPT ![userId] =
                       [k \in Kinds |-> SubSeq(queue[userId][k], 1, saved[k])]]
        /\ step' = [k \in Kinds |-> [n \in Names |->
                      IF n \in InChain(k) \cup Unsaved(k, saved[k]) THEN "failed" ELSE step[k][n]]]
  BY DEF Crash
<1> SUFFICES ASSUME NEW k \in Kinds
             PROVE  /\ \A n \in Names :
                          /\ \/ step'[k][n] = step[k][n]
                             \/ /\ step[k][n] \in Running \cup {"updating"}
                                /\ step'[k][n] = "failed"
                          /\ step'[k][n] \notin Running
                    /\ \A u \in Users : \A n \in Queued(u, k)' :
                          n \in Queued(u, k) /\ step'[k][n] = step[k][n]
  BY <1>2 DEF Cuts, Crash
<1>4. /\ userId \in Users /\ queue[userId][k] \in Seq(Names)
      /\ saved[k] \in Nat /\ saved[k] <= Len(queue[userId][k])
      /\ Len(queue[userId][k]) \in Nat
  BY <1>3, UploadAssumption DEF TypeOK
<1>5. Unsaved(k, saved[k]) \subseteq Queued(userId, k)
  <2> SUFFICES ASSUME NEW j \in (saved[k] + 1)..Len(queue[userId][k])
               PROVE  queue[userId][k][j] \in Queued(userId, k)
    BY DEF Unsaved
  <2>1. j \in 1..Len(queue[userId][k])
    BY <1>4
  <2>2. QED
    BY <2>1 DEF Queued
<1>6. ASSUME NEW n \in Names
      PROVE  /\ \/ step'[k][n] = step[k][n]
                \/ /\ step[k][n] \in Running \cup {"updating"}
                   /\ step'[k][n] = "failed"
             /\ step'[k][n] \notin Running
  <2>1. step'[k][n] = IF n \in InChain(k) \cup Unsaved(k, saved[k]) THEN "failed" ELSE step[k][n]
    BY <1>3
  <2>2. n \in InChain(k) <=> step[k][n] \in Running
    BY DEF InChain
  <2>3. n \in Unsaved(k, saved[k]) => step[k][n] = "updating"
    BY <1>4, <1>5 DEF QueuedOnce
  <2>4. QED
    BY <2>1, <2>2, <2>3 DEF Running
<1>7. ASSUME NEW u \in Users, NEW n \in Queued(u, k)'
      PROVE  n \in Queued(u, k) /\ n \notin Unsaved(k, saved[k])
  <2>1. CASE u = userId
    <3>1. queue'[u][k] = SubSeq(queue[u][k], 1, saved[k])
      BY <1>3, <2>1 DEF TypeOK
    <3>2. /\ Len(queue'[u][k]) = saved[k]
          /\ \A i \in 1..saved[k] : queue'[u][k][i] = queue[u][k][i]
      BY <1>4, <2>1, <3>1
    <3>3. PICK i \in 1..saved[k] : n = queue[u][k][i]
      BY <3>2 DEF Queued
    <3>4. i \in 1..Len(queue[u][k])
      BY <1>4, <2>1
    <3>5. ASSUME NEW j \in (saved[k] + 1)..Len(queue[userId][k]), n = queue[userId][k][j]
          PROVE  FALSE
      <4>1. j \in 1..Len(queue[u][k]) /\ i # j
        BY <1>4, <2>1
      <4>2. QED
        BY <2>1, <3>3, <3>4, <3>5, <4>1 DEF QueuedOnce
    <3>6. QED
      BY <3>3, <3>4, <3>5 DEF Queued, Unsaved
  <2>2. CASE u # userId
    <3>1. queue'[u][k] = queue[u][k]
      BY <1>3, <2>2 DEF TypeOK
    <3>2. n \in Queued(u, k)
      BY <3>1 DEF Queued
    <3>3. QED
      BY <1>4, <1>5, <2>2, <3>2 DEF QueuedOnce
  <2>3. QED
    BY <2>1, <2>2
<1>8. ASSUME NEW u \in Users, NEW n \in Queued(u, k)'
      PROVE  n \in Queued(u, k) /\ step'[k][n] = step[k][n]
  <2>1. n \in Names /\ n \in Queued(u, k) /\ n \notin Unsaved(k, saved[k])
    BY <1>7, <1>8, QueuedNames
  <2>2. step[k][n] = "updating"
    BY <2>1 DEF QueuedOnce
  <2>3. n \notin InChain(k)
    BY <2>2 DEF InChain, Running
  <2>4. QED
    BY <1>3, <2>1, <2>3
<1>9. QED
  BY <1>6, <1>8

\* The steps of the two pages.
LEMMA PagesStep ==
    ASSUME \/ \E k \in Kinds : Pick(k)
           \/ Reopen \/ Appear \/ Refresh \/ RefreshFails \/ UNCHANGED vars
           \/ \E k \in Kinds, n \in Names : ShowHeader(k, n) \/ LoadFails(k, n)
    PROVE  PageStep
<1>1. UNCHANGED <<userId, step, queue, stored, images, profile, by, last, crossed, overlaps>>
  BY DEF Pick, Reopen, Appear, Refresh, RefreshFails, ShowHeader, LoadFails, vars, page, history
<1>2. QED
  BY <1>1, QueuesStay DEF PageStep

\* Every step is of one of these kinds.
LEMMA StepKinds ==
    ASSUME TypeOK, QueuedOnce, [Next]_vars
    PROVE  \/ PageStep
           \/ Begins
           \/ \E k \in Kinds, n \in Names : GoesOn(k, n)
           \/ \E k \in Kinds, n \in Names : Ends(k, n)
           \/ \E k \in Kinds, n \in Names : Settles(k, n)
           \/ Changes
           \/ Cuts
BY PagesStep, TapBegins, ChainGoesOn, FinishEnds, SettleSettles, SignInChanges, CrashCuts
DEF Next, Chain

-----------------------------------------------------------------------------
(* The steps keep each part of the invariant.                              *)

\* A profile gets a picture when its update is committed, only.
LEMMA DoneStep ==
    ASSUME TypeOK, QueuedOnce, ProfileIsDone, [Next]_vars
    PROVE  ProfileIsDone'
<1> SUFFICES ASSUME NEW u \in Users, NEW j \in Kinds, profile'[u][j] # None
             PROVE  step'[j][profile'[u][j]] = "done"
  BY DEF ProfileIsDone
<1>0. /\ profile[u][j] \in Names \cup {None}
      /\ profile[u][j] # None => step[j][profile[u][j]] = "done"
      /\ \A m \in Queued(userId, j) : step[j][m] = "updating"
  BY DEF TypeOK, ProfileIsDone, QueuedOnce
<1>1. CASE PageStep
  BY <1>1, <1>0 DEF Running, PageStep, SameQueues
<1>2. CASE Begins
  BY <1>2, <1>0 DEF Running, Begins, SameQueues
<1>3. CASE \E k \in Kinds, n \in Names : GoesOn(k, n)
  BY <1>3, <1>0 DEF Running, GoesOn, OnlyMoves, SameQueues, page, history
<1>4. CASE \E k \in Kinds, n \in Names : Ends(k, n)
  BY <1>4, <1>0 DEF Running, Ends, OnlyMoves, page, history
<1>5. CASE \E k \in Kinds, n \in Names : Settles(k, n)
  BY <1>5, <1>0 DEF Running, Settles, OnlyMoves, page, history
<1>6. CASE Changes
  BY <1>6, <1>0 DEF Running, Changes, SameQueues
<1>7. CASE Cuts
  BY <1>7, <1>0 DEF Running, Cuts
<1>8. QED
  BY <1>1, <1>2, <1>3, <1>4, <1>5, <1>6, <1>7, StepKinds

\* An update is in one queue, once, until it is settled.
LEMMA QueuedStep ==
    ASSUME TypeOK, QueuedOnce, [Next]_vars
    PROVE  QueuedOnce'
<1>a. ASSUME NEW u \in Users, NEW j \in Kinds
      PROVE  /\ \A m \in Queued(u, j)' : step'[j][m] = "updating"
             /\ \A w \in Users : u # w => Queued(u, j)' \cap Queued(w, j)' = {}
  <2>0. /\ \A w \in Users : Queued(w, j) \subseteq Names
        /\ \A w \in Users : \A m \in Queued(w, j) : step[j][m] = "updating"
        /\ \A w \in Users : u # w => Queued(u, j) \cap Queued(w, j) = {}
        /\ userId \in Users
    BY QueuedNames DEF QueuedOnce, TypeOK
  <2>1. CASE PageStep
    BY <2>1, <2>0 DEF Running, PageStep, SameQueues
  <2>2. CASE Begins
    BY <2>2, <2>0 DEF Running, Begins, SameQueues
  <2>3. CASE \E k \in Kinds, n \in Names : GoesOn(k, n)
    BY <2>3, <2>0 DEF Running, GoesOn, OnlyMoves, SameQueues, page, history
  <2>4. CASE \E k \in Kinds, n \in Names : Ends(k, n)
    BY <2>4, <2>0 DEF Running, Ends, OnlyMoves, page, history
  <2>5. CASE \E k \in Kinds, n \in Names : Settles(k, n)
    BY <2>5, <2>0 DEF Running, Settles, OnlyMoves, page, history
  <2>6. CASE Changes
    BY <2>6, <2>0 DEF Running, Changes, SameQueues
  <2>7. CASE Cuts
    BY <2>7, <2>0 DEF Running, Cuts
  <2>8. QED
    BY <2>1, <2>2, <2>3, <2>4, <2>5, <2>6, <2>7, StepKinds
<1>b. ASSUME NEW u \in Users, NEW j \in Kinds, NEW a \in 1..Len(queue'[u][j]),
             NEW b \in 1..Len(queue'[u][j]), queue'[u][j][a] = queue'[u][j][b]
      PROVE  a = b
  <2>0. /\ queue[u][j] \in Seq(Names) /\ userId \in Users
        /\ \A c, d \in 1..Len(queue[u][j]) : queue[u][j][c] = queue[u][j][d] => c = d
    BY DEF TypeOK, QueuedOnce
  <2>1. CASE queue'[u][j] = queue[u][j]
    BY <1>b, <2>0, <2>1
  <2>2. ASSUME NEW n \in Names, Finish(j, n), u = userId
        PROVE  a = b
    <3>1. queue'[u][j] = Append(queue[u][j], n)
      BY <2>2 DEF TypeOK, Finish
    <3>2. \A c \in 1..Len(queue[u][j]) : queue[u][j][c] # n
      BY <2>2 DEF Finish, QueuedOnce, Queued
    <3>3. QED
      BY <1>b, <2>0, <3>1, <3>2
  <2>3. ASSUME Settle(j), u = userId
        PROVE  a = b
    <3>0. queue[u][j] # <<>> /\ queue' = [queue EXCEPT ![userId][j] = Tail(queue[userId][j])]
      BY <2>3, SettleTakes
    <3>1. queue'[u][j] = Tail(queue[u][j])
      BY <2>3, <3>0 DEF TypeOK
    <3>2. QED
      BY <1>b, <2>0, <3>0, <3>1, TailKeepsOnce
  <2>4. CASE Crash /\ u = userId
    <3>1. PICK saved \in [Kinds -> 0..MaxUploads] :
            /\ \A k \in Kinds : saved[k] <= Len(queue[userId][k])
            /\ queue' = [queue EXCEPT ![userId] =
                           [k \in Kinds |-> SubSeq(queue[userId][k], 1, saved[k])]]
      BY <2>4 DEF Crash
    <3>2. /\ queue'[u][j] = SubSeq(queue[u][j], 1, saved[j])
          /\ saved[j] \in Nat /\ saved[j] <= Len(queue[u][j])
      BY <2>4, <3>1, UploadAssumption DEF TypeOK
    <3>3. /\ Len(queue'[u][j]) = saved[j]
          /\ \A c \in 1..saved[j] : queue'[u][j][c] = queue[u][j][c]
      BY <2>0, <3>2
    <3>4. a \in 1..Len(queue[u][j]) /\ b \in 1..Len(queue[u][j])
      BY <2>0, <3>2, <3>3
    <3>5. QED
      BY <1>b, <2>0, <3>3, <3>4
  <2>5. CASE UNCHANGED queue
    BY <2>1, <2>5
  <2>6. ASSUME NEW k \in Kinds, NEW n \in Names, Finish(k, n)
        PROVE  a = b
    BY <2>1, <2>2, <2>6 DEF TypeOK, Finish
  <2>7. ASSUME NEW k \in Kinds, Settle(k)
        PROVE  a = b
    BY <2>1, <2>3, <2>7, SettleTakes DEF TypeOK
  <2>8. CASE Crash
    BY <2>1, <2>4, <2>8 DEF TypeOK, Crash
  <2>9. QED
    BY <2>5, <2>6, <2>7, <2>8
    DEF Next, Chain, Pick, Tap, Reopen, Appear, Refresh, RefreshFails, ShowHeader, LoadFails,
        PutDone, UrlDone, CommitDocument, Fail, SignIn, vars
<1>1. QED
  BY <1>a, <1>b DEF QueuedOnce

\* Whoever is signed in while a chain is under way has tapped it, or it has
\* crossed a change of account.
LEMMA OwnStep ==
    ASSUME TypeOK, QueuedOnce, UnderWayIsOwn, [Next]_vars
    PROVE  UnderWayIsOwn'
<1> SUFFICES ASSUME NEW j \in Kinds, NEW m \in Names, step'[j][m] \in Running
             PROVE  by'[j][m] = userId' \/ m \in crossed'[j]
  BY DEF UnderWayIsOwn
<1>0. step[j][m] \in Running => by[j][m] = userId \/ m \in crossed[j]
  BY DEF UnderWayIsOwn
<1>1. CASE PageStep
  BY <1>1, <1>0 DEF Running, PageStep, SameQueues
<1>2. CASE Begins
  BY <1>2, <1>0 DEF Running, Begins, SameQueues
<1>3. CASE \E k \in Kinds, n \in Names : GoesOn(k, n)
  BY <1>3, <1>0 DEF Running, GoesOn, OnlyMoves, SameQueues, page, history
<1>4. CASE \E k \in Kinds, n \in Names : Ends(k, n)
  BY <1>4, <1>0 DEF Running, Ends, OnlyMoves, page, history
<1>5. CASE \E k \in Kinds, n \in Names : Settles(k, n)
  BY <1>5, <1>0 DEF Running, Settles, OnlyMoves, page, history
<1>6. CASE Changes
  BY <1>6, <1>0 DEF Running, InChain, Changes, SameQueues
<1>7. CASE Cuts
  BY <1>7, <1>0 DEF Running, Cuts
<1>8. QED
  BY <1>1, <1>2, <1>3, <1>4, <1>5, <1>6, <1>7, StepKinds

\* So whoever gets the update in the queue has.
LEMMA QueueOwnStep ==
    ASSUME TypeOK, QueuedOnce, UnderWayIsOwn, QueueIsOwn, [Next]_vars
    PROVE  QueueIsOwn'
<1> SUFFICES ASSUME NEW u \in Users, NEW j \in Kinds, NEW m \in Queued(u, j)'
             PROVE  by'[j][m] = u \/ m \in crossed'[j]
  BY DEF QueueIsOwn
<1>0. /\ \A n \in Names : step[j][n] \in Running => by[j][n] = userId \/ n \in crossed[j]
      /\ m \in Queued(u, j) => m \in Names /\ (by[j][m] = u \/ m \in crossed[j])
                                          /\ step[j][m] = "updating"
  BY QueuedNames DEF UnderWayIsOwn, QueueIsOwn, QueuedOnce
<1>1. CASE PageStep
  BY <1>1, <1>0 DEF Running, PageStep, SameQueues
<1>2. CASE Begins
  BY <1>2, <1>0 DEF Running, Begins, SameQueues
<1>3. CASE \E k \in Kinds, n \in Names : GoesOn(k, n)
  BY <1>3, <1>0 DEF Running, GoesOn, OnlyMoves, SameQueues, page, history
<1>4. CASE \E k \in Kinds, n \in Names : Ends(k, n)
  BY <1>4, <1>0 DEF Running, Ends, OnlyMoves, page, history
<1>5. CASE \E k \in Kinds, n \in Names : Settles(k, n)
  BY <1>5, <1>0 DEF Running, Settles, OnlyMoves, page, history
<1>6. CASE Changes
  BY <1>6, <1>0 DEF Running, Changes, SameQueues
<1>7. CASE Cuts
  BY <1>7, <1>0 DEF Running, Cuts
<1>8. QED
  BY <1>1, <1>2, <1>3, <1>4, <1>5, <1>6, <1>7, StepKinds

\* And whoever gets the picture.
LEMMA PictureStep ==
    ASSUME TypeOK, QueuedOnce, QueueIsOwn, ProfileIsDone, PictureIsOwn, [Next]_vars
    PROVE  PictureIsOwn'
<1> SUFFICES ASSUME NEW u \in Users, NEW j \in Kinds, profile'[u][j] # None
             PROVE  by'[j][profile'[u][j]] = u \/ profile'[u][j] \in crossed'[j]
  BY DEF PictureIsOwn
<1>0. /\ profile[u][j] \in Names \cup {None}
      /\ profile[u][j] # None => /\ step[j][profile[u][j]] = "done"
                                 /\ by[j][profile[u][j]] = u \/ profile[u][j] \in crossed[j]
      /\ \A m \in Queued(u, j) : by[j][m] = u \/ m \in crossed[j]
  BY DEF TypeOK, ProfileIsDone, PictureIsOwn, QueueIsOwn
<1>1. CASE PageStep
  BY <1>1, <1>0 DEF Running, PageStep, SameQueues
<1>2. CASE Begins
  BY <1>2, <1>0 DEF Running, Begins, SameQueues
<1>3. CASE \E k \in Kinds, n \in Names : GoesOn(k, n)
  BY <1>3, <1>0 DEF Running, GoesOn, OnlyMoves, SameQueues, page, history
<1>4. CASE \E k \in Kinds, n \in Names : Ends(k, n)
  BY <1>4, <1>0 DEF Running, Ends, OnlyMoves, page, history
<1>5. CASE \E k \in Kinds, n \in Names : Settles(k, n)
  BY <1>5, <1>0 DEF Running, Settles, OnlyMoves, page, history
<1>6. CASE Changes
  BY <1>6, <1>0 DEF Running, Changes, SameQueues
<1>7. CASE Cuts
  BY <1>7, <1>0 DEF Running, Cuts
<1>8. QED
  BY <1>1, <1>2, <1>3, <1>4, <1>5, <1>6, <1>7, StepKinds

\* The latest upload stays one of its account's own.
LEMMA LastStep ==
    ASSUME TypeOK, QueuedOnce, LastIsOwn, [Next]_vars
    PROVE  LastIsOwn'
<1> SUFFICES ASSUME NEW u \in Users, NEW j \in Kinds, last'[u][j] # None
             PROVE  by'[j][last'[u][j]] = u /\ step'[j][last'[u][j]] # "unused"
  BY DEF LastIsOwn
<1>0. /\ last[u][j] \in Names \cup {None}
      /\ last[u][j] # None => by[j][last[u][j]] = u /\ step[j][last[u][j]] # "unused"
  BY DEF TypeOK, LastIsOwn
<1>1. CASE PageStep
  BY <1>1, <1>0 DEF Running, PageStep, SameQueues
<1>2. CASE Begins
  BY <1>2, <1>0 DEF Running, Begins, SameQueues
<1>3. CASE \E k \in Kinds, n \in Names : GoesOn(k, n)
  BY <1>3, <1>0 DEF Running, GoesOn, OnlyMoves, SameQueues, page, history
<1>4. CASE \E k \in Kinds, n \in Names : Ends(k, n)
  BY <1>4, <1>0 DEF Running, Ends, OnlyMoves, page, history
<1>5. CASE \E k \in Kinds, n \in Names : Settles(k, n)
  BY <1>5, <1>0 DEF Running, Settles, OnlyMoves, page, history
<1>6. CASE Changes
  BY <1>6, <1>0 DEF Running, Changes, SameQueues
<1>7. CASE Cuts
  BY <1>7, <1>0 DEF Running, Cuts
<1>8. QED
  BY <1>1, <1>2, <1>3, <1>4, <1>5, <1>6, <1>7, StepKinds

\* A later tap overlaps what is still under way.
LEMMA OlderStep ==
    ASSUME TypeOK, QueuedOnce, OlderOverlaps, [Next]_vars
    PROVE  OlderOverlaps'
<1> SUFFICES ASSUME NEW j \in Kinds, NEW m \in Names, NEW u \in Users,
                    step'[j][m] \in Running \/ m \in Queued(u, j)',
                    by'[j][m] = u, last'[u][j] # m
             PROVE  last'[u][j] \in overlaps'[j]
  BY DEF OlderOverlaps
<1>0. /\ step[j][m] \in Running \/ m \in Queued(u, j)
      /\ by[j][m] = u /\ last[u][j] # m
      => last[u][j] \in overlaps[j]
  BY DEF OlderOverlaps
<1>00. m \in Queued(u, j) => step[j][m] = "updating"
  BY DEF QueuedOnce
<1>1. CASE PageStep
  BY <1>1, <1>0, <1>00 DEF Running, PageStep, SameQueues
<1>2. CASE Begins
  BY <1>2, <1>0, <1>00 DEF Running, OwnUnderWay, UnderWay, InChain, Begins, SameQueues
<1>3. CASE \E k \in Kinds, n \in Names : GoesOn(k, n)
  BY <1>3, <1>0, <1>00 DEF Running, GoesOn, OnlyMoves, SameQueues, page, history
<1>4. CASE \E k \in Kinds, n \in Names : Ends(k, n)
  BY <1>4, <1>0, <1>00 DEF Running, Ends, OnlyMoves, page, history
<1>5. CASE \E k \in Kinds, n \in Names : Settles(k, n)
  BY <1>5, <1>0, <1>00 DEF Running, Settles, OnlyMoves, page, history
<1>6. CASE Changes
  BY <1>6, <1>0, <1>00 DEF Running, Changes, SameQueues
<1>7. CASE Cuts
  BY <1>7, <1>0, <1>00 DEF Running, Cuts
<1>8. QED
  BY <1>1, <1>2, <1>3, <1>4, <1>5, <1>6, <1>7, StepKinds

\* No step lets an older upload replace the latest, and none settles it elsewhere.
LEMMA LatestStep ==
    ASSUME TypeOK, QueuedOnce, LastIsOwn, OlderOverlaps, QueueIsOwn, LatestWins, [Next]_vars
    PROVE  LatestWins'
<1> SUFFICES ASSUME NEW u \in Users, NEW j \in Kinds, last'[u][j] # None,
                    step'[j][last'[u][j]] = "done",
                    last'[u][j] \notin overlaps'[j] \cup crossed'[j]
             PROVE  profile'[u][j] = last'[u][j] \/ profile'[u][j] \in crossed'[j]
  BY DEF LatestWins
<1>a. /\ last[u][j] \in Names \cup {None}
      /\ last[u][j] # None => by[j][last[u][j]] = u /\ step[j][last[u][j]] # "unused"
  BY DEF TypeOK, LastIsOwn
<1>b. last[u][j] # None /\ step[j][last[u][j]] = "done" /\ last[u][j] \notin overlaps[j] \cup crossed[j]
         => profile[u][j] = last[u][j] \/ profile[u][j] \in crossed[j]
  BY DEF LatestWins
<1>c. \A m \in Queued(userId, j) : m \in Names /\ (by[j][m] = userId \/ m \in crossed[j])
  BY QueuedNames DEF QueueIsOwn, TypeOK
<1>d. \A m \in Names : m \in Queued(u, j) /\ by[j][m] = u /\ last[u][j] # m
         => last[u][j] \in overlaps[j]
  BY DEF OlderOverlaps
<1>1. CASE PageStep
  BY <1>1, <1>a, <1>b, <1>c, <1>d DEF Running, PageStep, SameQueues
<1>2. CASE Begins
  BY <1>2, <1>a, <1>b, <1>c, <1>d DEF Running, Begins, SameQueues
<1>3. CASE \E k \in Kinds, n \in Names : GoesOn(k, n)
  BY <1>3, <1>a, <1>b, <1>c, <1>d DEF Running, GoesOn, OnlyMoves, SameQueues, page, history
<1>4. CASE \E k \in Kinds, n \in Names : Ends(k, n)
  BY <1>4, <1>a, <1>b, <1>c, <1>d DEF Running, Ends, OnlyMoves, page, history
<1>5. CASE \E k \in Kinds, n \in Names : Settles(k, n)
  BY <1>5, <1>a, <1>b, <1>c, <1>d DEF Running, Settles, OnlyMoves, page, history
<1>6. CASE Changes
  BY <1>6, <1>a, <1>b, <1>c, <1>d DEF Running, Changes, SameQueues
<1>7. CASE Cuts
  BY <1>7, <1>a, <1>b, <1>c, <1>d DEF Running, Cuts
<1>8. QED
  BY <1>1, <1>2, <1>3, <1>4, <1>5, <1>6, <1>7, StepKinds

\* What a chain has done stays done.
LEMMA ChainStep ==
    ASSUME TypeOK, QueuedOnce, ChainLeaves, [Next]_vars
    PROVE  ChainLeaves'
<1> DEFINE Leaves(j, m, s) ==
              /\ s[j][m] \in {"url", "document", "written", "updating", "done"} => m \in stored'[j]
              /\ s[j][m] \in {"written", "updating", "done"} => m \in images'[j]
<1> SUFFICES ASSUME NEW j \in Kinds, NEW m \in Names
             PROVE  Leaves(j, m, step')
  BY DEF ChainLeaves
<1>0. /\ step[j][m] \in {"url", "document", "written", "updating", "done"} => m \in stored[j]
      /\ step[j][m] \in {"written", "updating", "done"} => m \in images[j]
  BY DEF ChainLeaves
<1>1. CASE PageStep
  BY <1>0, <1>1 DEF PageStep
<1>2. CASE Begins
  BY <1>0, <1>2 DEF Begins
<1>3. ASSUME NEW k \in Kinds, NEW n \in Names, Chain(k, n)
      PROVE  Leaves(j, m, step')
  <2>1. j # k \/ m # n => step'[j][m] = step[j][m]
    BY <1>3, ChainGoesOn, FinishEnds DEF Chain, GoesOn, Ends, OnlyMoves
  <2>2. stored[j] \subseteq stored'[j] /\ images[j] \subseteq images'[j]
    <3>1. CASE PutDone(k, n)
      BY <3>1 DEF TypeOK, PutDone
    <3>2. CASE CommitDocument(k, n)
      BY <3>2 DEF TypeOK, CommitDocument
    <3>3. CASE UrlDone(k, n) \/ Finish(k, n) \/ Fail(k, n)
      BY <3>3 DEF UrlDone, Finish, Fail
    <3>4. QED
      BY <1>3, <3>1, <3>2, <3>3 DEF Chain
  <2>3. CASE j # k \/ m # n
    BY <1>0, <2>1, <2>2, <2>3
  <2>4. CASE j = k /\ m = n
    BY <1>0, <1>3, <2>2, <2>4
    DEF TypeOK, Chain, PutDone, UrlDone, CommitDocument, Finish, Fail, Moved
  <2>5. QED
    BY <2>3, <2>4
<1>4. CASE \E k \in Kinds, n \in Names : Settles(k, n)
  <2>1. \A n \in Queued(userId, j) : step[j][n] = "updating"
    BY DEF QueuedOnce, TypeOK
  <2>2. QED
    BY <1>0, <1>4, <2>1 DEF Settles, OnlyMoves
<1>5. CASE Changes
  BY <1>0, <1>5 DEF Changes
<1>6. CASE Cuts
  BY <1>0, <1>6 DEF Cuts
<1>7. QED
  BY <1>1, <1>2, <1>3, <1>4, <1>5, <1>6, PagesStep, TapBegins, SettleSettles, SignInChanges,
     CrashCuts DEF Next

\* Nothing blanks a picker whose picture is unsent.
LEMMA UnsentStep ==
    ASSUME TypeOK, QueuedOnce, UnsentIsCalm, [Next]_vars
    PROVE  UnsentIsCalm'
<1> SUFFICES ASSUME NEW j \in Kinds, unsent'[j]
             PROVE  picker'[j] = "picture" /\ \A m \in here'[j] : step'[j][m] \notin Running
  BY DEF UnsentIsCalm
<1>0. /\ unsent[j] => picker[j] = "picture" /\ \A m \in here[j] : step[j][m] \notin Running
      /\ here[j] \subseteq Names
      /\ picker \in [Kinds -> {"none", "picture", "blank"}]
      /\ unsent \in [Kinds -> BOOLEAN]
  BY DEF UnsentIsCalm, TypeOK
<1>1. CASE \E k \in Kinds : Pick(k)
  BY <1>0, <1>1 DEF Running, InChain, Pick
<1>2. CASE Tap
  BY <1>0, <1>2 DEF Running, Sent, Tap
<1>3. CASE Reopen
  BY <1>0, <1>3 DEF Reopen
<1>4. CASE Appear \/ RefreshFails \/ UNCHANGED vars
  BY <1>0, <1>4 DEF Appear, RefreshFails, page, vars, history
<1>5. CASE Refresh
  BY <1>0, <1>5 DEF Refresh
<1>6. CASE \E k \in Kinds, n \in Names : ShowHeader(k, n) \/ LoadFails(k, n)
  BY <1>0, <1>6 DEF ShowHeader, LoadFails, history
<1>7. CASE \E k \in Kinds, n \in Names : GoesOn(k, n)
  BY <1>0, <1>7 DEF Running, GoesOn, OnlyMoves, page, history
<1>8. CASE \E k \in Kinds, n \in Names : Ends(k, n)
  BY <1>0, <1>8 DEF Running, Ends, OnlyMoves, page, history
<1>9. CASE \E k \in Kinds, n \in Names : Settles(k, n)
  BY <1>0, <1>9 DEF Running, Settles, OnlyMoves, page, history
<1>10. CASE \E w \in Users : SignIn(w)
  BY <1>0, <1>10 DEF SignIn, NewPage
<1>11. CASE Crash
  BY <1>0, <1>11 DEF Crash, NewPage
<1>12. QED
  BY <1>1, <1>2, <1>3, <1>4, <1>5, <1>6, <1>7, <1>8, <1>9, <1>10, <1>11,
     ChainGoesOn, FinishEnds, SettleSettles DEF Next, Chain

\* Nothing but a tap, a failing load or a crash lets a current header part from
\* the profile.
LEMMA HeaderStep ==
    ASSUME TypeOK, QueuedOnce, HeaderIsCalm, [Next]_vars
    PROVE  HeaderIsCalm'
<1> SUFFICES ASSUME NEW j \in Kinds, ~early'[j]
             PROVE  /\ profile'[userId'][j] # None
                    /\ header'[j] = profile'[userId'][j] \/ loading'[j][profile'[userId'][j]] # 0
                    /\ \A m \in Names : m # profile'[userId'][j] => loading'[j][m] = 0
                    /\ \A m \in Names : step'[j][m] \notin Running
                    /\ Queued(userId, j)' = {}
  BY DEF HeaderIsCalm
<1>0. /\ ~early[j] => /\ profile[userId][j] # None
                      /\ header[j] = profile[userId][j] \/ loading[j][profile[userId][j]] # 0
                      /\ \A m \in Names : m # profile[userId][j] => loading[j][m] = 0
                      /\ \A m \in Names : step[j][m] \notin Running
                      /\ Queued(userId, j) = {}
      /\ userId \in Users
      /\ profile[userId][j] \in Names \cup {None}
      /\ header \in [Kinds -> Names \cup {None}]
      /\ loading \in [Kinds -> [Names -> Nat]]
      /\ early \in [Kinds -> BOOLEAN]
  BY DEF HeaderIsCalm, TypeOK
<1>1. ASSUME \/ \E k \in Kinds : Pick(k)
             \/ Reopen \/ Appear \/ RefreshFails \/ UNCHANGED vars
      PROVE  /\ early'[j] = early[j]
             /\ UNCHANGED <<userId, queue, step, profile, header, loading>>
  BY <1>1 DEF Pick, Reopen, Appear, RefreshFails, vars, page, history
<1>2. CASE \/ \E k \in Kinds : Pick(k)
           \/ Reopen \/ Appear \/ RefreshFails \/ UNCHANGED vars
  BY <1>0, <1>1, <1>2, QueuesStay DEF SameQueues
<1>3. CASE Tap
  <2>1. ~early[j] /\ picker[j] = "none"
    BY <1>0, <1>3 DEF Tap
  <2>2. /\ header'[j] = header[j] /\ step'[j] = step[j]
        /\ UNCHANGED <<userId, queue, profile, loading>>
    BY <1>3, <2>1 DEF Tap, Sent
  <2>3. QED
    BY <1>0, <2>1, <2>2, QueuesStay DEF SameQueues
<1>4. CASE Refresh
  <2>1. /\ UnderWay(j) = {} /\ Seen(userId, j) # None
        /\ \A m \in Names : m # Seen(userId, j) => loading[j][m] = 0
    BY <1>0, <1>4 DEF Refresh
  <2>2. /\ \A m \in Names : step[j][m] \notin Running
        /\ Queued(userId, j) = {}
    BY <2>1 DEF UnderWay, InChain
  <2>3. Seen(userId, j) = profile[userId][j]
    BY <1>0, <2>2, QueuedNames DEF Seen
  <2>4. \A m \in Names : loading'[j][m] = IF m = profile[userId][j] THEN loading[j][m] + 1
                                          ELSE loading[j][m]
    BY <1>4, <2>3 DEF Refresh
  <2>5. profile[userId][j] \in Names /\ loading[j][profile[userId][j]] \in Nat
    BY <1>0, <2>1, <2>3
  <2>6. UNCHANGED <<userId, queue, step, profile>>
    BY <1>4 DEF Refresh
  <2>7. QED
    BY <1>0, <2>1, <2>2, <2>3, <2>4, <2>5, <2>6, QueuesStay DEF SameQueues
<1>5. ASSUME NEW k \in Kinds, NEW n \in Names, ShowHeader(k, n) \/ LoadFails(k, n)
      PROVE  /\ profile'[userId'][j] # None
             /\ header'[j] = profile'[userId'][j] \/ loading'[j][profile'[userId'][j]] # 0
             /\ \A m \in Names : m # profile'[userId'][j] => loading'[j][m] = 0
             /\ \A m \in Names : step'[j][m] \notin Running
             /\ Queued(userId, j)' = {}
  <2>1. ~early[j] /\ UNCHANGED <<userId, queue, step, profile>>
    BY <1>0, <1>5 DEF ShowHeader, LoadFails, history
  <2>2. Queued(userId, j)' = Queued(userId, j)
    BY <2>1 DEF Queued
  <2>3. CASE k # j
    <3>1. loading'[j] = loading[j] /\ header'[j] = header[j]
      BY <1>0, <1>5, <2>3 DEF ShowHeader, LoadFails, Loaded
    <3>2. QED
      BY <1>0, <2>1, <2>2, <3>1
  <2>4. CASE k = j
    <3>1. /\ header'[j] = n /\ loading[j][n] # 0
          /\ \A m \in Names : m # n => loading'[j][m] = loading[j][m]
      BY <1>0, <1>5, <2>4 DEF ShowHeader, LoadFails, Loaded
    <3>2. QED
      BY <1>0, <2>1, <2>2, <3>1
  <2>5. QED
    BY <2>3, <2>4
<1>6. CASE \E k \in Kinds, n \in Names : GoesOn(k, n)
  BY <1>0, <1>6 DEF Running, GoesOn, OnlyMoves, SameQueues, page, history
<1>7. CASE \E k \in Kinds, n \in Names : Ends(k, n)
  BY <1>0, <1>7 DEF Running, Ends, OnlyMoves, page, history
<1>8. CASE \E k \in Kinds, n \in Names : Settles(k, n)
  BY <1>0, <1>8 DEF Running, Settles, OnlyMoves, page, history
<1>9. CASE (\E w \in Users : SignIn(w)) \/ Crash
  BY <1>9 DEF SignIn, Crash, NewPage
<1>10. QED
  BY <1>2, <1>3, <1>4, <1>5, <1>6, <1>7, <1>8, <1>9,
     ChainGoesOn, FinishEnds, SettleSettles DEF Next, Chain

-----------------------------------------------------------------------------
(* The theorems.                                                           *)

\* The initial state satisfies the inductive invariant.
LEMMA InitIInv ==
    Init => IInv
<1> SUFFICES ASSUME Init PROVE IInv
  OBVIOUS
<1>1. TypeOK
  <2>1. queue \in [Users -> [Kinds -> Seq(Names)]]
    BY DEF Init
  <2>2. QED
    BY <2>1 DEF Init, TypeOK, Steps, NoLoads
<1>2. \A u \in Users, k \in Kinds : Queued(u, k) = {} /\ queue[u][k] = <<>>
  BY DEF Init, Queued
<1>3. ChainLeaves /\ UnderWayIsOwn /\ OlderOverlaps
  BY <1>2 DEF Init, ChainLeaves, UnderWayIsOwn, OlderOverlaps, Running
<1>4. QueuedOnce /\ QueueIsOwn
  BY <1>2 DEF QueuedOnce, QueueIsOwn
<1>5. ProfileIsDone /\ PictureIsOwn /\ LastIsOwn /\ LatestWins
  BY DEF Init, ProfileIsDone, PictureIsOwn, LastIsOwn, LatestWins
<1>6. UnsentIsCalm /\ HeaderIsCalm
  BY DEF Init, UnsentIsCalm, HeaderIsCalm
<1>7. QED
  BY <1>1, <1>3, <1>4, <1>5, <1>6 DEF IInv

\* Every action, or none, preserves the inductive invariant.
LEMMA StepIInv ==
    IInv /\ [Next]_vars => IInv'
BY TypeStep, ChainStep, DoneStep, QueuedStep, OwnStep, QueueOwnStep, PictureStep, LastStep,
   OlderStep, LatestStep, UnsentStep, HeaderStep DEF IInv

\* The inductive invariant holds in every state the editing screens, uploadPhoto,
\* the profile page and the services can reach.
THEOREM Invariance ==
    Spec => []IInv
BY InitIInv, StepIInv, PTL DEF Spec

\* Every variable keeps its shape.
THEOREM TypeCorrect ==
    Spec => []TypeOK
<1>1. IInv => TypeOK
  BY DEF IInv
<1>2. QED
  BY <1>1, Invariance, PTL

\* No profile names a picture that is not stored, or whose address is not in
\* "images": uploadPhoto (ImagesManager) asks for each answer before it goes on.
THEOREM PicturesExist ==
    Spec => []ProfileHasPicture
<1>1. IInv => ProfileHasPicture
  <2> SUFFICES ASSUME IInv, NEW u \in Users, NEW k \in Kinds, profile[u][k] # None
               PROVE  profile[u][k] \in stored[k] \cap images[k]
    BY DEF ProfileHasPicture
  <2>1. profile[u][k] \in Names /\ step[k][profile[u][k]] = "done"
    BY DEF IInv, TypeOK, ProfileIsDone
  <2>2. QED
    BY <2>1 DEF IInv, ChainLeaves
<1>2. QED
  BY <1>1, Invariance, PTL

\* A profile gets pictures of its own user, and of uploads that have crossed a
\* change of account.
THEOREM PicturesAreOwn ==
    Spec => []PictureIsOwn
<1>1. IInv => PictureIsOwn
  BY DEF IInv
<1>2. QED
  BY <1>1, Invariance, PTL

\* A latest upload whose update was committed (updateProfilePicture,
\* updateBackgroundPicture) stays the picture of the profile if it neither overlaps
\* another nor crosses a change of account, whatever else is refused or lost.
THEOREM LatestIsShown ==
    Spec => []LatestWins
<1>1. IInv => LatestWins
  BY DEF IInv
<1>2. QED
  BY <1>1, Invariance, PTL

\* A picture chosen while no upload of its page is under way is not blanked.
THEOREM PicksAreKept ==
    Spec => []PickIsKept
<1>1. IInv => PickIsKept
  BY DEF IInv, UnsentIsCalm, PickIsKept
<1>2. QED
  BY <1>1, Invariance, PTL

\* A profile page (loadImage in ProfileViewController) refreshed with no upload under
\* way and no other picture still being loaded shows the profile, or is loading it.
THEOREM HeadersAreCurrent ==
    Spec => []HeaderIsProfile
<1>1. IInv => HeaderIsProfile
  BY DEF IInv, HeaderIsCalm, HeaderIsProfile
<1>2. QED
  BY <1>1, Invariance, PTL
=============================================================================
