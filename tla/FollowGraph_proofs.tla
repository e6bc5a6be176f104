------------------------ MODULE FollowGraph_proofs ------------------------
(***************************************************************************)
(* Theorems about FollowGraph, for every set of accounts, phones and       *)
(* faults and every bound: the shape of the state, and that the two halves *)
(* of a follow never come apart on a pair no fault has touched.            *)
(***************************************************************************)
EXTENDS FollowGraph, SequenceTheorems, TLAPS

-----------------------------------------------------------------------------
(* What a lane looks like after a tap, an answer and a crash.              *)

\* The two writes of one tap.
TapWrites(v, op) == << [to |-> v, field |-> "followers", op |-> op],
                       [to |-> v, field |-> "following", op |-> op] >>

\* A tap issues records of the kind that lanes hold.
LEMMA TapWritesAreWrites ==
    ASSUME NEW v \in Users, NEW op \in Ops
    PROVE  TapWrites(v, op) \in Seq(Write)
BY DEF TapWrites, Write, Fields, Ops

\* UsersManager.follow writes both halves with a union,
LEMMA FollowIsATap == \A v : FollowWrites(v) = TapWrites(v, "union")
BY DEF FollowWrites, TapWrites

\* and UsersManager.unfollow with a removal.
LEMMA UnfollowIsATap == \A v : UnfollowWrites(v) = TapWrites(v, "remove")
BY DEF UnfollowWrites, TapWrites

\* A tap on v decides both halves of the pair with v and touches no other.
LEMMA LaneAfterTap ==
    ASSUME NEW s \in Seq(Write), NEW v \in Users, NEW op \in Ops,
           NEW f \in Fields, NEW x \in Users
    PROVE  LET t == s \o TapWrites(v, op)
           IN  /\ Pending(t, f, x) <=> (x = v \/ Pending(s, f, x))
               /\ LastIsUnion(t, f, x) <=> IF x = v THEN op = "union"
                                                    ELSE LastIsUnion(s, f, x)
               /\ \A i \in 1..Len(s) :
                     IsLast(t, i, f, x) <=> (x # v /\ IsLast(s, i, f, x))
<1> DEFINE w == TapWrites(v, op)
           t == s \o w
           n == Len(s)
<1>1. /\ Len(w) = 2
      /\ w[1] = [to |-> v, field |-> "followers", op |-> op]
      /\ w[2] = [to |-> v, field |-> "following", op |-> op]
  BY DEF TapWrites
<1>2. w \in Seq(Write)
  BY TapWritesAreWrites
<1>3. /\ n \in Nat
      /\ Len(t) = n + 2
      /\ \A i \in 1..n : t[i] = s[i]
      /\ t[n + 1] = w[1]
      /\ t[n + 2] = w[2]
  BY <1>1, <1>2 DEF TapWrites
<1> HIDE DEF w, t
<1>4. 1..Len(t) = (1..n) \cup {n + 1, n + 2}
  BY <1>3
<1>5. /\ Touches(t[n + 1], f, x) <=> (f = "followers" /\ x = v)
      /\ Touches(t[n + 2], f, x) <=> (f = "following" /\ x = v)
  BY <1>1, <1>3 DEF Touches
<1>6. Pending(t, f, x) <=> (x = v \/ Pending(s, f, x))
  BY <1>3, <1>4, <1>5 DEF Pending, Fields
<1>7. \A i \in 1..n : IsLast(t, i, f, x) <=> (x # v /\ IsLast(s, i, f, x))
  <2> SUFFICES ASSUME NEW i \in 1..n
               PROVE  IsLast(t, i, f, x) <=> (x # v /\ IsLast(s, i, f, x))
    OBVIOUS
  <2>1. (i + 1)..Len(t) = ((i + 1)..n) \cup {n + 1, n + 2}
    BY <1>3
  <2>2. /\ i \in 1..Len(t)
        /\ i \in 1..Len(s)
        /\ (i + 1)..n \subseteq 1..n
    BY <1>3
  <2>3. (x = v) <=> (Touches(t[n + 1], f, x) \/ Touches(t[n + 2], f, x))
    BY <1>5 DEF Fields
  <2>4. QED
    BY <1>3, <2>1, <2>2, <2>3 DEF IsLast
<1>8. IsLast(t, n + 1, f, x) <=> (f = "followers" /\ x = v)
  BY <1>3, <1>4, <1>5 DEF IsLast
<1>9. IsLast(t, n + 2, f, x) <=> (f = "following" /\ x = v)
  BY <1>3, <1>4, <1>5 DEF IsLast
<1>10. t[n + 1].op = op /\ t[n + 2].op = op
  BY <1>1, <1>3
<1>11. LastIsUnion(t, f, x) <=> IF x = v THEN op = "union" ELSE LastIsUnion(s, f, x)
  BY <1>3, <1>4, <1>7, <1>8, <1>9, <1>10 DEF LastIsUnion, Fields
<1>12. QED
  BY <1>6, <1>7, <1>11 DEF t, w

\* Dropping the first write of a lane changes nothing for the halves it is
\* not the last write of, and leaves nothing pending for the one it is.
LEMMA LaneAfterPop ==
    ASSUME NEW s \in Seq(Write), s # <<>>, NEW f \in Fields, NEW x \in Users
    PROVE  LET t == Tail(s)
           IN  /\ \A i \in Nat : IsLast(t, i, f, x) => IsLast(s, i + 1, f, x)
               /\ \A i \in 1..Len(t) : t[i] = s[i + 1]
               /\ ~IsLast(s, 1, f, x) =>
                     /\ Pending(t, f, x) <=> Pending(s, f, x)
                     /\ LastIsUnion(t, f, x) <=> LastIsUnion(s, f, x)
               /\ IsLast(s, 1, f, x) =>
                     /\ ~Pending(t, f, x)
                     /\ ~LastIsUnion(t, f, x)
                     /\ Pending(s, f, x)
                     /\ LastIsUnion(s, f, x) <=> s[1].op = "union"
<1> DEFINE t == Tail(s)
           n == Len(t)
<1>1. /\ n \in Nat
      /\ Len(s) = n + 1
      /\ \A i \in 1..n : t[i] = s[i + 1]
  OBVIOUS
<1> HIDE DEF t
<1>2. \A i \in 1..Len(s) : i = 1 \/ (i - 1 \in 1..n /\ (i - 1) + 1 = i)
  BY <1>1
<1>3. \A i \in 1..n : i + 1 \in 1..Len(s) /\ i + 1 # 1
  BY <1>1
<1>4. \A i \in 1..n : IsLast(t, i, f, x) <=> IsLast(s, i + 1, f, x)
  <2> SUFFICES ASSUME NEW i \in 1..n
               PROVE  IsLast(t, i, f, x) <=> IsLast(s, i + 1, f, x)
    OBVIOUS
  <2>1. \A j \in (i + 1)..n : j \in 1..n /\ j + 1 \in (i + 1 + 1)..Len(s)
    BY <1>1
  <2>2. \A j \in (i + 1 + 1)..Len(s) : j - 1 \in (i + 1)..n /\ j - 1 \in 1..n /\ (j - 1) + 1 = j
    BY <1>1
  <2>3. (\A j \in (i + 1)..n : ~Touches(t[j], f, x))
           <=> (\A j \in (i + 1 + 1)..Len(s) : ~Touches(s[j], f, x))
    <3>1. \A j \in (i + 1)..n : t[j] = s[j + 1]
      BY <1>1, <2>1
    <3>2. \A j \in (i + 1 + 1)..Len(s) : s[j] = t[j - 1]
      BY <1>1, <2>2
    <3> QED
      BY <2>1, <2>2, <3>1, <3>2
  <2>4. QED
    BY <1>1, <1>3, <2>3 DEF IsLast
<1>5. \A i \in Nat : IsLast(t, i, f, x) => IsLast(s, i + 1, f, x)
  BY <1>4 DEF IsLast
<1>6. Pending(s, f, x) <=> (Touches(s[1], f, x) \/ Pending(t, f, x))
  <2>1. ASSUME Pending(t, f, x) PROVE Pending(s, f, x)
    <3>1. PICK i \in 1..n : Touches(t[i], f, x)
      BY <2>1 DEF Pending
    <3>2. Touches(s[i + 1], f, x) /\ i + 1 \in 1..Len(s)
      BY <1>1, <1>3, <3>1
    <3>3. QED
      BY <3>2 DEF Pending
  <2>2. ASSUME Pending(s, f, x), ~Touches(s[1], f, x) PROVE Pending(t, f, x)
    <3>1. PICK i \in 1..Len(s) : Touches(s[i], f, x)
      BY <2>2 DEF Pending
    <3>2. i - 1 \in 1..n /\ s[i] = t[i - 1]
      BY <1>1, <1>2, <2>2, <3>1
    <3>3. QED
      BY <3>1, <3>2 DEF Pending
  <2>3. Touches(s[1], f, x) => Pending(s, f, x)
    BY <1>1 DEF Pending
  <2>4. QED
    BY <2>1, <2>2, <2>3
<1>7. IsLast(s, 1, f, x) <=> (Touches(s[1], f, x) /\ ~Pending(t, f, x))
  <2>1. \A j \in 1..n : t[j] = s[j + 1] /\ j + 1 \in 2..Len(s)
    BY <1>1
  <2>2. \A j \in 2..Len(s) : s[j] = t[j - 1] /\ j - 1 \in 1..n
    BY <1>1
  <2>3. (\A j \in 2..Len(s) : ~Touches(s[j], f, x)) <=> ~Pending(t, f, x)
    BY <2>1, <2>2 DEF Pending
  <2>4. 1 \in 1..Len(s) /\ (1 + 1)..Len(s) = 2..Len(s)
    BY <1>1
  <2>5. QED
    BY <2>3, <2>4 DEF IsLast
<1>8. LastIsUnion(s, f, x) <=> \/ IsLast(s, 1, f, x) /\ s[1].op = "union"
                               \/ LastIsUnion(t, f, x)
  <2>1. ASSUME LastIsUnion(t, f, x) PROVE LastIsUnion(s, f, x)
    <3>1. PICK i \in 1..n : IsLast(t, i, f, x) /\ t[i].op = "union"
      BY <2>1 DEF LastIsUnion
    <3>2. IsLast(s, i + 1, f, x) /\ s[i + 1].op = "union" /\ i + 1 \in 1..Len(s)
      BY <1>1, <1>3, <1>4, <3>1
    <3>3. QED
      BY <3>2 DEF LastIsUnion
  <2>2. ASSUME LastIsUnion(s, f, x), ~(IsLast(s, 1, f, x) /\ s[1].op = "union")
        PROVE  LastIsUnion(t, f, x)
    <3>1. PICK i \in 1..Len(s) : IsLast(s, i, f, x) /\ s[i].op = "union"
      BY <2>2 DEF LastIsUnion
    <3>2. i - 1 \in 1..n /\ (i - 1) + 1 = i
      BY <1>2, <2>2, <3>1
    <3>3. IsLast(t, i - 1, f, x) /\ t[i - 1] = s[i]
      BY <1>1, <1>4, <3>1, <3>2
    <3>4. QED
      BY <3>1, <3>2, <3>3 DEF LastIsUnion
  <2>3. IsLast(s, 1, f, x) /\ s[1].op = "union" => LastIsUnion(s, f, x)
    BY <1>1 DEF LastIsUnion
  <2>4. QED
    BY <2>1, <2>2, <2>3
<1>9. LastIsUnion(t, f, x) => Pending(t, f, x)
  BY DEF LastIsUnion, IsLast, Pending
<1>10. QED
  BY <1>1, <1>5, <1>6, <1>7, <1>8, <1>9 DEF t

\* Cutting a lane changes nothing for the halves no lost write touches.
LEMMA LaneAfterCut ==
    ASSUME NEW s \in Seq(Write), NEW k \in Nat, k <= Len(s),
           NEW f \in Fields, NEW x \in Users,
           \A i \in (k + 1)..Len(s) : ~Touches(s[i], f, x)
    PROVE  LET t == SubSeq(s, 1, k)
           IN  /\ Pending(t, f, x) <=> Pending(s, f, x)
               /\ LastIsUnion(t, f, x) <=> LastIsUnion(s, f, x)
<1> DEFINE t == SubSeq(s, 1, k)
<1>1. /\ Len(t) = k
      /\ \A i \in 1..k : t[i] = s[i]
  OBVIOUS
<1> HIDE DEF t
<1>2. /\ Len(s) \in Nat
      /\ 1..Len(s) = (1..k) \cup ((k + 1)..Len(s))
  OBVIOUS
<1>3. Pending(t, f, x) <=> Pending(s, f, x)
  BY <1>1, <1>2 DEF Pending
<1>4. \A i \in 1..k : IsLast(t, i, f, x) <=> IsLast(s, i, f, x)
  <2> SUFFICES ASSUME NEW i \in 1..k
               PROVE  IsLast(t, i, f, x) <=> IsLast(s, i, f, x)
    OBVIOUS
  <2>1. (i + 1)..Len(s) = ((i + 1)..k) \cup ((k + 1)..Len(s))
    BY <1>2
  <2>2. (i + 1)..k \subseteq 1..k /\ i \in 1..Len(s)
    BY <1>2
  <2>3. QED
    BY <1>1, <2>1, <2>2 DEF IsLast
<1>5. LastIsUnion(t, f, x) <=> LastIsUnion(s, f, x)
  BY <1>1, <1>2, <1>4 DEF LastIsUnion, IsLast
<1>6. QED
  BY <1>3, <1>5 DEF t

-----------------------------------------------------------------------------
(* The shape of the state.                                                 *)

\* Every variable keeps its shape whatever account, phone, server and
\* connection do; committed <= saved <= issued on every lane.
LEMMA TypeInit == Init => TypeOK
BY DEF Init, TypeOK

\* Every action keeps the shapes and the order committed <= saved <= issued.
LEMMA TypeStep == TypeOK /\ [Next]_vars => TypeOK'
<1> SUFFICES ASSUME TypeOK, [Next]_vars PROVE TypeOK'
  OBVIOUS
<1> USE DEF TypeOK
<1>1. ASSUME NEW d \in Devices, NEW u \in Users, Login(d, u) PROVE TypeOK'
  BY <1>1, FollowGraphAssumption DEF Login, server
<1>2. ASSUME NEW d \in Devices, NEW u \in Users, Persist(d, u) PROVE TypeOK'
  <2>1. saved' = [saved EXCEPT ![d][u] = saved[d][u] + 1] /\ saved[d][u] < Len(lane[d][u])
    BY <1>2 DEF Persist
  <2>2. UNCHANGED <<followers, following, session, lane, done, people, listed, suspect, faulted, taps>>
    BY <1>2 DEF Persist, server, tables
  <2>3. saved' \in [Devices -> [Users -> Nat]]
    BY <2>1
  <2>4. \A e \in Devices, x \in Users : saved'[e][x] <= Len(lane[e][x]) /\ saved[e][x] <= saved'[e][x]
    BY <2>1
  <2>5. \A e \in Devices : IF session[e] = NoUser THEN done[e] = 0
                                                ELSE done[e] <= saved'[e][session[e]]
    <3> SUFFICES ASSUME NEW e \in Devices, session[e] # NoUser
                 PROVE  done[e] <= saved'[e][session[e]]
      OBVIOUS
    <3>1. /\ session[e] \in Users
          /\ done[e] \in Nat
          /\ done[e] <= saved[e][session[e]]
      OBVIOUS
    <3>2. /\ saved[e][session[e]] \in Nat
          /\ saved'[e][session[e]] \in Nat
          /\ saved[e][session[e]] <= saved'[e][session[e]]
      BY <2>3, <2>4, <3>1
    <3>3. QED
      BY <3>1, <3>2
  <2>6. QED
    BY <2>2, <2>3, <2>4, <2>5
<1>3. ASSUME NEW d \in Devices, Logout(d) PROVE TypeOK'
  BY <1>3 DEF Logout, server, tables
<1>4. ASSUME NEW d \in Devices, RefreshDiscover(d) PROVE TypeOK'
  BY <1>4 DEF RefreshDiscover, server, Offered
<1>5. ASSUME NEW d \in Devices, RefreshConnections(d) PROVE TypeOK'
  BY <1>5 DEF RefreshConnections, server, LocalFollowing
<1>6. ASSUME NEW d \in Devices, NEW u \in Users, NEW v \in Users, NEW op \in Ops,
             Issue(d, u, v, TapWrites(v, op))
      PROVE  TypeOK'
  <2>1. TapWrites(v, op) \in Seq(Write)
    BY TapWritesAreWrites
  <2>2. /\ lane[d][u] \o TapWrites(v, op) \in Seq(Write)
        /\ Len(lane[d][u] \o TapWrites(v, op)) = Len(lane[d][u]) + Len(TapWrites(v, op))
        /\ Len(TapWrites(v, op)) \in Nat
    BY <2>1
  <2> DEFINE w == TapWrites(v, op)
  <2> HIDE DEF w
  <2>3. lane' = [lane EXCEPT ![d][u] = lane[d][u] \o w]
    BY <1>6 DEF Issue, w
  <2>4. lane' \in [Devices -> [Users -> Seq(Write)]]
    BY <2>2, <2>3 DEF w
  <2>5. ASSUME NEW e \in Devices, NEW x \in Users
        PROVE  Len(lane'[e][x]) >= Len(lane[e][x])
    <3>1. /\ lane \in [Devices -> [Users -> Seq(Write)]]
          /\ lane[e][x] \in Seq(Write)
      OBVIOUS
    <3> HIDE DEF TypeOK
    <3>2. lane'[e][x] = IF e = d /\ x = u THEN lane[d][u] \o w ELSE lane[e][x]
      BY <2>3, <3>1
    <3>3. Len(lane[e][x]) \in Nat
      BY <3>1
    <3>4. CASE e = d /\ x = u
      BY <2>2, <3>2, <3>3, <3>4 DEF w
    <3>5. CASE ~(e = d /\ x = u)
      BY <3>2, <3>3, <3>5
    <3>6. QED
      BY <3>4, <3>5
  <2>6. /\ suspect' \subseteq Users \X Users
        /\ faulted' \subseteq Users \X Users
        /\ taps' \in Nat
    BY <1>6 DEF Issue, OtherPairs
  <2>7. /\ UNCHANGED <<followers, following, session, saved, done, people, listed>>
    BY <1>6 DEF Issue, server, tables
  <2>8. \A e \in Devices, x \in Users : saved[e][x] <= Len(lane'[e][x])
    <3> SUFFICES ASSUME NEW e \in Devices, NEW x \in Users
                 PROVE  saved[e][x] <= Len(lane'[e][x])
      OBVIOUS
    <3>1. saved[e][x] <= Len(lane[e][x]) /\ saved[e][x] \in Nat
      OBVIOUS
    <3>2. Len(lane'[e][x]) >= Len(lane[e][x])
      BY <2>5
    <3> HIDE DEF TypeOK
    <3>3. lane[e][x] \in Seq(Write)
      BY DEF TypeOK
    <3>4. lane'[e][x] \in Seq(Write)
      BY <2>4
    <3>5. Len(lane[e][x]) \in Nat /\ Len(lane'[e][x]) \in Nat
      BY <3>3, <3>4
    <3>6. QED
      BY <3>1, <3>2, <3>5
  <2>9. QED
    BY <2>4, <2>6, <2>7, <2>8
<1>7. ASSUME NEW d \in Devices, Follow(d) PROVE TypeOK'
  <2>1. PICK v \in people[d] : Issue(d, session[d], v, FollowWrites(v))
    BY <1>7 DEF Follow
  <2>2. session[d] \in Users /\ v \in Users
    BY <1>7 DEF Follow
  <2>3. QED
    BY <1>6, <2>1, <2>2, FollowIsATap DEF Ops
<1>8. ASSUME NEW d \in Devices, Unfollow(d) PROVE TypeOK'
  <2>1. PICK v \in listed[d] : Issue(d, session[d], v, UnfollowWrites(v))
    BY <1>8 DEF Unfollow
  <2>2. session[d] \in Users /\ v \in Users
    BY <1>8 DEF Unfollow
  <2>3. QED
    BY <1>6, <2>1, <2>2, UnfollowIsATap DEF Ops
<1>9. ASSUME NEW d \in Devices, Commit(d) PROVE TypeOK'
  <2>1. /\ session[d] \in Users
        /\ lane[d][session[d]][done[d] + 1] \in Write
    BY <1>9 DEF Commit
  <2>2. followers' \in [Users -> SUBSET Users] /\ following' \in [Users -> SUBSET Users]
    BY <1>9, <2>1 DEF Commit, ApplyToServer, Transform, Write
  <2>3. QED
    BY <1>9, <2>1, <2>2 DEF Commit, tables
<1>10. ASSUME NEW d \in Devices, NEW u \in Users, PopHead(d, u), saved[d][u] > 0
       PROVE  /\ lane' \in [Devices -> [Users -> Seq(Write)]]
              /\ saved' \in [Devices -> [Users -> Nat]]
              /\ \A e \in Devices, x \in Users : saved'[e][x] <= Len(lane'[e][x])
              /\ saved'[d][u] = saved[d][u] - 1
              /\ \A e \in Devices : e # d => saved'[e] = saved[e]
  <2>1. /\ Tail(lane[d][u]) \in Seq(Write)
        /\ Len(Tail(lane[d][u])) = Len(lane[d][u]) - 1
    BY <1>10
  <2>2. QED
    BY <1>10, <2>1 DEF PopHead
<1>11. ASSUME NEW d \in Devices, Ack(d) PROVE TypeOK'
  <2>1. session[d] \in Users /\ saved[d][session[d]] > 0
    BY <1>11 DEF Ack
  <2>2. QED
    BY <1>10, <1>11, <2>1 DEF Ack, server, tables
<1>12. ASSUME NEW d \in Devices, Reject(d) PROVE TypeOK'
  <2>1. /\ session[d] \in Users
        /\ saved[d][session[d]] > 0
        /\ Head(lane[d][session[d]]) \in Write
    BY <1>12 DEF Reject
  <2>2. suspect' \subseteq Users \X Users /\ faulted' \subseteq Users \X Users
    BY <1>12, <2>1 DEF Reject, Write
  <2>3. /\ PopHead(d, session[d])
        /\ done[d] = 0
        /\ UNCHANGED <<followers, following, session, done, people, listed, taps>>
    BY <1>12 DEF Reject, server, tables
  <2>4. /\ lane' \in [Devices -> [Users -> Seq(Write)]]
        /\ saved' \in [Devices -> [Users -> Nat]]
        /\ \A e \in Devices, x \in Users : saved'[e][x] <= Len(lane'[e][x])
        /\ \A e \in Devices : e # d => saved'[e] = saved[e]
    BY <1>10, <2>1, <2>3
  <2>5. \A e \in Devices : IF session[e] = NoUser THEN done[e] = 0
                                                ELSE done[e] <= saved'[e][session[e]]
    <3> SUFFICES ASSUME NEW e \in Devices, session[e] # NoUser
                 PROVE  done[e] <= saved'[e][session[e]]
      OBVIOUS
    <3>1. session[e] \in Users /\ saved'[e][session[e]] \in Nat
      BY <2>4
    <3>2. CASE e = d
      BY <2>3, <3>1, <3>2
    <3>3. CASE e # d
      BY <2>4, <3>3
    <3>4. QED
      BY <3>2, <3>3
  <2>6. QED
    BY <2>2, <2>3, <2>4, <2>5
<1>13. ASSUME NEW d \in Devices, StreamBreak(d) PROVE TypeOK'
  BY <1>13 DEF StreamBreak, server, tables
<1>14. ASSUME NEW d \in Devices, Crash(d) PROVE TypeOK'
  <2>1. \A u \in Users : /\ SubSeq(lane[d][u], 1, saved[d][u]) \in Seq(Write)
                         /\ Len(SubSeq(lane[d][u], 1, saved[d][u])) = saved[d][u]
    OBVIOUS
  <2>2. /\ lane' \in [Devices -> [Users -> Seq(Write)]]
        /\ \A e \in Devices, x \in Users : saved[e][x] <= Len(lane'[e][x])
    BY <1>14, <2>1 DEF Crash
  <2>3. suspect' \subseteq Users \X Users /\ faulted' \subseteq Users \X Users
    BY <1>14 DEF Crash, UnsavedPairs
  <2>4. /\ session' = [session EXCEPT ![d] = NoUser]
        /\ done' = [done EXCEPT ![d] = 0]
        /\ UNCHANGED <<followers, following, saved, people, listed, taps>>
    BY <1>14 DEF Crash, server, tables
  <2>5. /\ session' \in [Devices -> Users \cup {NoUser}]
        /\ done' \in [Devices -> Nat]
        /\ \A e \in Devices : IF session'[e] = NoUser THEN done'[e] = 0
                                                     ELSE done'[e] <= saved[e][session'[e]]
    BY <2>4
  <2>6. /\ saved' \in [Devices -> [Users -> Nat]]
        /\ \A e \in Devices, x \in Users : saved'[e][x] <= Len(lane'[e][x])
    BY <2>2, <2>4
  <2>7. \A e \in Devices : IF session'[e] = NoUser THEN done'[e] = 0
                                                ELSE done'[e] <= saved'[e][session'[e]]
    BY <2>4, <2>5
  <2>8. /\ followers' \in [Users -> SUBSET Users]
        /\ following' \in [Users -> SUBSET Users]
        /\ people' \in [Devices -> SUBSET Users]
        /\ listed' \in [Devices -> SUBSET Users]
        /\ taps' \in Nat
    BY <2>4
  <2>9. QED
    BY <2>2, <2>3, <2>5, <2>6, <2>7, <2>8
<1>15. CASE UNCHANGED vars
  BY <1>15 DEF vars, server, tables
<1>16. QED
  BY <1>1, <1>2, <1>3, <1>4, <1>5, <1>7, <1>8, <1>9, <1>11, <1>12, <1>13,
     <1>14, <1>15 DEF Next

\* Every variable keeps its shape, and no lane has more writes committed than
\* saved, or saved than issued: the worker queue, the mutation queue on disk and
\* the pipeline (SyncEngine, LocalStore, RemoteStore) hand a write on in order.
THEOREM TypeCorrect == Spec => []TypeOK
<1>1. QED
  BY TypeInit, TypeStep, PTL DEF Spec

-----------------------------------------------------------------------------
(* The two halves of a follow stay together.                               *)

\* The last write of a half of a pair is a write of it,
LEMMA PendingIfLast ==
    ASSUME NEW s, NEW f, NEW v, NEW i, IsLast(s, i, f, v)
    PROVE  Pending(s, f, v)
BY DEF IsLast, Pending

\* and so is the last one when it is a union.
LEMMA PendingIfUnion ==
    ASSUME NEW s, NEW f, NEW v, LastIsUnion(s, f, v)
    PROVE  Pending(s, f, v)
BY PendingIfLast DEF LastIsUnion

\* Where nothing is pending, the documents decide; where something is, they
\* do not matter.
LEMMA SettledIsStored ==
    ASSUME NEW u, NEW v, NEW f, \A e \in Devices : ~Pending(lane[e][u], f, v)
    PROVE  Settled(f, u, v) <=> Stored(f, u, v)
BY PendingIfUnion DEF Settled

\* Where only one phone has writes for a half under way, its last one decides.
LEMMA SettledIsPending ==
    ASSUME NEW u, NEW v, NEW f, NEW d \in Devices, Pending(lane[d][u], f, v),
           \A e \in Devices : e # d => ~Pending(lane[e][u], f, v)
    PROVE  Settled(f, u, v) <=> LastIsUnion(lane[d][u], f, v)
BY PendingIfUnion DEF Settled

\* What is committed has been issued.
LEMMA CommittedIsIssued ==
    ASSUME TypeOK, NEW d \in Devices, NEW u \in Users, session[d] = u
    PROVE  /\ lane[d][u] \in Seq(Write)
           /\ saved[d][u] \in Nat
           /\ done[d] \in Nat
           /\ done[d] <= saved[d][u]
           /\ saved[d][u] <= Len(lane[d][u])
           /\ done[d] <= Len(lane[d][u])
<1>1. session[d] # NoUser
  BY FollowGraphAssumption
<1>2. /\ lane[d][u] \in Seq(Write)
      /\ saved[d][u] \in Nat
      /\ done[d] \in Nat
      /\ done[d] <= saved[d][u]
      /\ saved[d][u] <= Len(lane[d][u])
  BY <1>1 DEF TypeOK
<1>3. Len(lane[d][u]) \in Nat
  BY <1>2
<1>4. QED
  BY <1>2, <1>3

\* Steps that move neither a write nor a document, and keep or forget what
\* was committed.
LEMMA QuietStep ==
    ASSUME IInv, TypeOK',
           followers' = followers, following' = following, lane' = lane, suspect' = suspect,
           \A e \in Devices : \/ done'[e] = 0
                              \/ done'[e] = done[e] /\ session'[e] = session[e]
    PROVE  IInv'
<1>1. OneDevicePerPair'
  BY DEF IInv, OneDevicePerPair
<1>2. ReciprocalUnlessSuspect'
  BY DEF IInv, ReciprocalUnlessSuspect, Settled, Stored
<1>3. CommittedIsStored'
  <2> SUFFICES ASSUME NEW e \in Devices, NEW u \in Users, NEW v \in Users, NEW f \in Fields,
                      NEW i \in 1..done'[e],
                      session'[e] = u, <<u, v>> \notin suspect, IsLast(lane[e][u], i, f, v)
               PROVE  Stored(f, u, v)' <=> lane[e][u][i].op = "union"
    BY DEF CommittedIsStored
  <2>1. done'[e] = done[e] /\ session'[e] = session[e]
    OBVIOUS
  <2>2. Stored(f, u, v)' <=> Stored(f, u, v)
    BY DEF Stored
  <2>3. QED
    BY <2>1, <2>2 DEF IInv, CommittedIsStored
<1>4. QED
  BY <1>1, <1>2, <1>3 DEF IInv

\* A tap writes both halves in one go: whatever they were, they agree after,
\* and it settles no other pair.
LEMMA IssueStep ==
    ASSUME IInv, TypeOK', NEW d \in Devices, NEW u \in Users, NEW v \in Users,
           NEW op \in Ops, Issue(d, u, v, TapWrites(v, op))
    PROVE  /\ IInv'
           /\ \A x, y \in Users, f \in Fields : <<x, y>> \notin suspect' =>
                 (Settled(f, x, y)' <=> IF x = u /\ y = v THEN op = "union"
                                                         ELSE Settled(f, x, y))
<1> DEFINE s == lane[d][u]
           t == s \o TapWrites(v, op)
<1>1. /\ lane' = [lane EXCEPT ![d][u] = t]
      /\ UNCHANGED <<followers, following, session, done>>
      /\ suspect' = IF Contended(d, u, v) THEN suspect \cup {<<u, v>>}
                                          ELSE OtherPairs(suspect, u, v)
  BY DEF Issue, server, tables
<1>2. TypeOK /\ s \in Seq(Write)
  BY DEF IInv, TypeOK
<1>3. /\ lane'[d][u] = t
      /\ \A e \in Devices, x \in Users : e # d \/ x # u => lane'[e][x] = lane[e][x]
  BY <1>1, <1>2 DEF TypeOK
<1>4. \A f \in Fields, x \in Users :
         /\ Pending(t, f, x) <=> (x = v \/ Pending(s, f, x))
         /\ LastIsUnion(t, f, x) <=> IF x = v THEN op = "union"
                                              ELSE LastIsUnion(s, f, x)
         /\ \A i \in 1..Len(s) : IsLast(t, i, f, x) <=> (x # v /\ IsLast(s, i, f, x))
  BY <1>2, LaneAfterTap
<1> HIDE DEF s, t
<1>5. \A x, y \in Users : <<x, y>> \notin suspect' =>
         \/ x = u /\ y = v /\ ~Contended(d, u, v)
         \/ <<x, y>> # <<u, v>> /\ <<x, y>> \notin suspect
  BY <1>1 DEF OtherPairs
<1>6. ~Contended(d, u, v) =>
         \A e \in Devices, f \in Fields : e # d => ~Pending(lane'[e][u], f, v)
  BY <1>3 DEF Contended
<1>7. ASSUME NEW x \in Users, NEW y \in Users, <<x, y>> # <<u, v>>,
             NEW e \in Devices, NEW f \in Fields
      PROVE  /\ Pending(lane'[e][x], f, y) <=> Pending(lane[e][x], f, y)
             /\ LastIsUnion(lane'[e][x], f, y) <=> LastIsUnion(lane[e][x], f, y)
  BY <1>3, <1>4, <1>7 DEF s
<1>8. OneDevicePerPair'
  <2> SUFFICES ASSUME NEW x \in Users, NEW y \in Users, NEW e1 \in Devices, NEW e2 \in Devices,
                      NEW f \in Fields, NEW g \in Fields,
                      <<x, y>> \notin suspect',
                      Pending(lane'[e1][x], f, y), Pending(lane'[e2][x], g, y)
               PROVE  e1 = e2
    BY DEF OneDevicePerPair
  <2>1. CASE x = u /\ y = v /\ ~Contended(d, u, v)
    BY <1>6, <2>1
  <2>2. CASE <<x, y>> # <<u, v>> /\ <<x, y>> \notin suspect
    BY <1>7, <2>2 DEF IInv, OneDevicePerPair
  <2>3. QED
    BY <1>5, <2>1, <2>2
<1>9. CommittedIsStored'
  <2> SUFFICES ASSUME NEW e \in Devices, NEW x \in Users, NEW y \in Users, NEW f \in Fields,
                      NEW i \in 1..done[e],
                      session[e] = x, <<x, y>> \notin suspect', IsLast(lane'[e][x], i, f, y)
               PROVE  Stored(f, x, y)' <=> lane'[e][x][i].op = "union"
    BY <1>1 DEF CommittedIsStored
  <2>1. Stored(f, x, y)' <=> Stored(f, x, y)
    BY <1>1 DEF Stored
  <2>2. /\ i \in 1..Len(lane[e][x])
        /\ lane'[e][x][i] = lane[e][x][i]
    <3>1. /\ lane[e][x] \in Seq(Write)
          /\ done[e] \in Nat
          /\ done[e] <= Len(lane[e][x])
      BY <1>2, CommittedIsIssued
    <3>2. \A j \in 1..Len(s) : t[j] = s[j]
      BY <1>2, TapWritesAreWrites DEF t
    <3>3. QED
      BY <1>3, <3>1, <3>2 DEF s
  <2>3. <<x, y>> # <<u, v>> /\ IsLast(lane[e][x], i, f, y)
    <3>1. CASE x = u /\ e = d
      BY <1>3, <1>4, <2>2, <3>1 DEF s
    <3>2. CASE ~(x = u /\ e = d)
      BY <1>3, <1>5, <1>6, <3>2, PendingIfLast
    <3>3. QED
      BY <3>1, <3>2
  <2>4. <<x, y>> \notin suspect
    BY <1>5, <2>3
  <2>5. QED
    BY <2>1, <2>2, <2>3, <2>4 DEF IInv, CommittedIsStored
<1>10. ASSUME NEW x \in Users, NEW y \in Users, NEW f \in Fields, <<x, y>> \notin suspect'
       PROVE  Settled(f, x, y)' <=> IF x = u /\ y = v THEN op = "union" ELSE Settled(f, x, y)
  <2>1. CASE x = u /\ y = v /\ ~Contended(d, u, v)
    <3>1. Settled(f, u, v)' <=> op = "union"
      BY <1>3, <1>4, <1>6, <2>1, PendingIfUnion DEF Settled
    <3>2. QED
      BY <2>1, <3>1
  <2>2. CASE <<x, y>> # <<u, v>> /\ <<x, y>> \notin suspect
    <3>1. Stored(f, x, y)' <=> Stored(f, x, y)
      BY <1>1 DEF Stored
    <3>2. Settled(f, x, y)' <=> Settled(f, x, y)
      BY <1>7, <2>2, <3>1 DEF Settled
    <3>3. QED
      BY <2>2, <3>2
  <2>3. QED
    BY <1>5, <1>10, <2>1, <2>2
<1>11. ReciprocalUnlessSuspect'
  <2> SUFFICES ASSUME NEW x \in Users, NEW y \in Users, <<x, y>> \notin suspect'
               PROVE  Settled("followers", x, y)' <=> Settled("following", x, y)'
    BY DEF ReciprocalUnlessSuspect
  <2>1. (x = u /\ y = v) \/ <<x, y>> \notin suspect
    BY <1>5
  <2>2. <<x, y>> \notin suspect => (Settled("followers", x, y) <=> Settled("following", x, y))
    BY DEF IInv, ReciprocalUnlessSuspect
  <2>3. QED
    BY <1>10, <2>1, <2>2 DEF Fields
<1>12. QED
  BY <1>8, <1>9, <1>10, <1>11 DEF IInv

\* A write sets or clears one half of one pair in the documents.
LEMMA AppliedIsStored ==
    ASSUME TypeOK, NEW u \in Users, NEW w \in Write, ApplyToServer(u, w)
    PROVE  \A f \in Fields, x, y \in Users :
              Stored(f, x, y)' <=> IF f = w.field /\ x = u /\ y = w.to
                                   THEN w.op = "union" ELSE Stored(f, x, y)
<1>1. /\ followers \in [Users -> SUBSET Users]
      /\ following \in [Users -> SUBSET Users]
      /\ w.to \in Users
      /\ w.op \in {"union", "remove"}
      /\ w.field \in {"followers", "following"}
  BY DEF TypeOK, Write, Fields, Ops
<1>2. CASE w.field = "followers"
  <2>1. /\ followers' = [followers EXCEPT ![w.to] = Transform(@, w.op, u)]
        /\ following' = following
    BY <1>2 DEF ApplyToServer
  <2>2. QED
    BY <1>1, <1>2, <2>1 DEF Transform, Stored, Fields
<1>3. CASE w.field = "following"
  <2>1. /\ following' = [following EXCEPT ![u] = Transform(@, w.op, w.to)]
        /\ followers' = followers
    BY <1>3 DEF ApplyToServer
  <2>2. QED
    BY <1>1, <1>3, <2>1 DEF Transform, Stored, Fields
<1>4. QED
  BY <1>1, <1>2, <1>3

\* The server applies a write that is still pending: the documents catch up
\* with what was settled already.
LEMMA CommitStep ==
    ASSUME IInv, TypeOK', NEW d \in Devices, Commit(d)
    PROVE  /\ IInv'
           /\ \A x, y \in Users, f \in Fields : Settled(f, x, y)' <=> Settled(f, x, y)
<1> DEFINE u == session[d]
           k == done[d] + 1
           w == lane[d][u][k]
<1>1. /\ u \in Users
      /\ TypeOK
      /\ k \in 1..Len(lane[d][u])
      /\ w \in Write
  <2>1. u \in Users /\ TypeOK
    BY DEF IInv, TypeOK, Commit
  <2>2. QED
    BY <2>1, CommittedIsIssued DEF Commit
<1>2. /\ UNCHANGED <<session, lane, suspect>>
      /\ done' = [done EXCEPT ![d] = k]
  BY DEF Commit
<1>3. ApplyToServer(u, w)
  BY DEF Commit
<1> HIDE DEF w, k
<1>4. Pending(lane[d][u], w.field, w.to)
  BY <1>1 DEF Pending, Touches, w
<1>5. \A f \in Fields, x, y \in Users :
         Stored(f, x, y)' <=> IF f = w.field /\ x = u /\ y = w.to
                              THEN w.op = "union" ELSE Stored(f, x, y)
  BY <1>1, <1>3, AppliedIsStored
<1>6. OneDevicePerPair'
  BY <1>2 DEF IInv, OneDevicePerPair
<1>7. ASSUME NEW x \in Users, NEW y \in Users, NEW f \in Fields
      PROVE  Settled(f, x, y)' <=> Settled(f, x, y)
  <2>1. CASE f = w.field /\ x = u /\ y = w.to
    BY <1>2, <1>4, <2>1 DEF Settled
  <2>2. CASE ~(f = w.field /\ x = u /\ y = w.to)
    BY <1>2, <1>5, <2>2 DEF Settled
  <2>3. QED
    BY <2>1, <2>2
<1>8. CommittedIsStored'
  <2> SUFFICES ASSUME NEW e \in Devices, NEW x \in Users, NEW y \in Users, NEW f \in Fields,
                      NEW i \in 1..done'[e],
                      session[e] = x, <<x, y>> \notin suspect, IsLast(lane[e][x], i, f, y)
               PROVE  Stored(f, x, y)' <=> lane[e][x][i].op = "union"
    BY <1>2 DEF CommittedIsStored
  <2>1. done \in [Devices -> Nat] /\ (e # d => done'[e] = done[e]) /\ done'[d] = k /\ k = done[d] + 1
    BY <1>1, <1>2 DEF TypeOK, k
  <2>2. CASE f = w.field /\ x = u /\ y = w.to
    <3>1. e = d
      BY <1>1, <1>4, <2>2, PendingIfLast DEF IInv, OneDevicePerPair, Write
    <3>2. Touches(lane[d][u][k], f, y)
      BY <2>2 DEF Touches, w
    <3>3. ~(i < k)
      <4>1. i < k => k \in (i + 1)..Len(lane[d][u])
        BY <1>1, <2>1
      <4>2. QED
        BY <2>2, <3>1, <3>2, <4>1 DEF IsLast
    <3>4. i = k
      BY <2>1, <3>1, <3>3
    <3>5. QED
      BY <1>5, <2>2, <3>1, <3>4 DEF w
  <2>3. CASE ~(f = w.field /\ x = u /\ y = w.to)
    <3>1. i \in 1..done[e]
      <4>1. e = d => i # k
        BY <2>3 DEF IsLast, Touches, w
      <4>2. QED
        BY <2>1, <4>1
    <3>2. Stored(f, x, y) <=> lane[e][x][i].op = "union"
      BY <3>1 DEF IInv, CommittedIsStored
    <3>3. QED
      BY <1>5, <2>3, <3>2
  <2>4. QED
    BY <2>2, <2>3
<1>9. ReciprocalUnlessSuspect'
  BY <1>2, <1>7 DEF IInv, ReciprocalUnlessSuspect, Fields
<1>10. QED
  BY <1>6, <1>7, <1>8, <1>9 DEF IInv

\* The first write of a lane leaves it, answered or refused.
LEMMA PopStep ==
    ASSUME IInv, TypeOK', NEW d \in Devices, NEW u \in Users,
           session[d] = u, saved[d][u] > 0, PopHead(d, u),
           UNCHANGED <<followers, following, session>>,
           \A e \in Devices : e # d => done'[e] = done[e],
           \/ done[d] > 0 /\ done'[d] = done[d] - 1
           \/ done'[d] = 0,
           suspect \subseteq suspect',
           \A f \in Fields, v \in Users :
              IsLast(lane[d][u], 1, f, v) => done[d] > 0 \/ <<u, v>> \in suspect'
    PROVE  /\ IInv'
           /\ \A x, y \in Users, f \in Fields : <<x, y>> \notin suspect' =>
                 (Settled(f, x, y)' <=> Settled(f, x, y))
<1> DEFINE s == lane[d][u]
           t == Tail(s)
<1>1. /\ TypeOK
      /\ s \in Seq(Write)
      /\ s # <<>>
  <2>1. TypeOK /\ s \in Seq(Write)
    BY DEF IInv, TypeOK
  <2>2. Len(s) # 0
    BY <2>1, CommittedIsIssued
  <2>3. QED
    BY <2>1, <2>2
<1>2. /\ lane'[d][u] = t
      /\ \A e \in Devices, x \in Users : e # d \/ x # u => lane'[e][x] = lane[e][x]
  BY <1>1 DEF PopHead, TypeOK
<1>3. \A f \in Fields, x \in Users :
         /\ \A i \in Nat : IsLast(t, i, f, x) => IsLast(s, i + 1, f, x)
         /\ ~IsLast(s, 1, f, x) =>
               /\ Pending(t, f, x) <=> Pending(s, f, x)
               /\ LastIsUnion(t, f, x) <=> LastIsUnion(s, f, x)
         /\ IsLast(s, 1, f, x) =>
               /\ ~Pending(t, f, x)
               /\ ~LastIsUnion(t, f, x)
               /\ Pending(s, f, x)
               /\ LastIsUnion(s, f, x) <=> s[1].op = "union"
  BY <1>1, LaneAfterPop
<1>4. \A i \in 1..Len(t) : t[i] = s[i + 1]
  BY <1>1
<1> HIDE DEF s, t
<1>5. \A e \in Devices, x, y \in Users, f \in Fields :
         Pending(lane'[e][x], f, y) => Pending(lane[e][x], f, y)
  BY <1>2, <1>3 DEF s
<1>6. OneDevicePerPair'
  BY <1>5 DEF IInv, OneDevicePerPair
<1>7. ASSUME NEW x \in Users, NEW y \in Users, NEW f \in Fields, <<x, y>> \notin suspect'
      PROVE  Settled(f, x, y)' <=> Settled(f, x, y)
  <2>1. Stored(f, x, y)' <=> Stored(f, x, y)
    BY DEF Stored
  <2>2. CASE x = u /\ IsLast(s, 1, f, y)
    <3>1. \A e \in Devices : e # d => ~Pending(lane[e][u], f, y)
      BY <1>3, <1>7, <2>2 DEF IInv, OneDevicePerPair, s
    <3>2. Settled(f, u, y) <=> s[1].op = "union"
      BY <1>3, <2>2, <3>1, SettledIsPending DEF s
    <3>3. \A e \in Devices : ~Pending(lane'[e][u], f, y)
      BY <1>2, <1>3, <2>2, <3>1
    <3>4. Settled(f, u, y)' <=> Stored(f, u, y)'
      BY <3>3, PendingIfUnion DEF Settled
    <3>5. 1 \in 1..done[d]
      BY <1>1, <1>7, <2>2, CommittedIsIssued DEF s
    <3>6. Stored(f, u, y) <=> s[1].op = "union"
      BY <1>7, <2>2, <3>5 DEF IInv, CommittedIsStored, s
    <3>7. QED
      BY <2>1, <2>2, <3>2, <3>4, <3>6
  <2>3. CASE ~(x = u /\ IsLast(s, 1, f, y))
    <3>1. \A e \in Devices :
             /\ Pending(lane'[e][x], f, y) <=> Pending(lane[e][x], f, y)
             /\ LastIsUnion(lane'[e][x], f, y) <=> LastIsUnion(lane[e][x], f, y)
      BY <1>2, <1>3, <2>3 DEF s
    <3>2. QED
      BY <2>1, <3>1 DEF Settled
  <2>4. QED
    BY <2>2, <2>3
<1>8. ReciprocalUnlessSuspect'
  BY <1>7 DEF IInv, ReciprocalUnlessSuspect, Fields
<1>9. CommittedIsStored'
  <2> SUFFICES ASSUME NEW e \in Devices, NEW x \in Users, NEW y \in Users, NEW f \in Fields,
                      NEW i \in 1..done'[e],
                      session[e] = x, <<x, y>> \notin suspect', IsLast(lane'[e][x], i, f, y)
               PROVE  Stored(f, x, y)' <=> lane'[e][x][i].op = "union"
    BY DEF CommittedIsStored
  <2>1. Stored(f, x, y)' <=> Stored(f, x, y)
    BY DEF Stored
  <2>2. CASE e = d
    <3>1. x = u /\ done[d] \in Nat /\ i \in Nat /\ i + 1 \in 1..done[d]
      BY <1>1, <2>2, CommittedIsIssued
    <3>2. IsLast(s, i + 1, f, y) /\ t[i] = s[i + 1]
      BY <1>2, <1>3, <1>4, <2>2, <3>1 DEF IsLast
    <3>3. QED
      BY <1>2, <2>1, <2>2, <3>1, <3>2 DEF IInv, CommittedIsStored, s
  <2>3. CASE e # d
    BY <1>2, <2>1, <2>3 DEF IInv, CommittedIsStored
  <2>4. QED
    BY <2>2, <2>3
<1>10. QED
  BY <1>6, <1>7, <1>8, <1>9 DEF IInv

\* A crash cuts lanes, and marks the pairs of the writes it cuts.
LEMMA CrashStep ==
    ASSUME IInv, TypeOK', NEW d \in Devices, Crash(d)
    PROVE  IInv'
<1>1. TypeOK
  BY DEF IInv
<1>2. /\ lane' = [lane EXCEPT ![d] = [u \in Users |-> SubSeq(lane[d][u], 1, saved[d][u])]]
      /\ suspect' = suspect \cup UnsavedPairs(d)
      /\ session'[d] = NoUser
      /\ done'[d] = 0
      /\ \A e \in Devices : e # d => session'[e] = session[e] /\ done'[e] = done[e]
      /\ UNCHANGED <<followers, following>>
  BY <1>1 DEF Crash, TypeOK, server
<1>3. \A x \in Users : /\ lane'[d][x] = SubSeq(lane[d][x], 1, saved[d][x])
                       /\ \A e \in Devices : e # d => lane'[e][x] = lane[e][x]
  BY <1>1, <1>2 DEF TypeOK
<1>4. ASSUME NEW x \in Users, NEW y \in Users, <<x, y>> \notin suspect',
             NEW e \in Devices, NEW f \in Fields
      PROVE  /\ Pending(lane'[e][x], f, y) <=> Pending(lane[e][x], f, y)
             /\ LastIsUnion(lane'[e][x], f, y) <=> LastIsUnion(lane[e][x], f, y)
  <2>1. CASE e = d
    <3>1. /\ lane[d][x] \in Seq(Write)
          /\ saved[d][x] \in Nat
          /\ saved[d][x] <= Len(lane[d][x])
      BY <1>1 DEF TypeOK
    <3>2. \A i \in (saved[d][x] + 1)..Len(lane[d][x]) : ~Touches(lane[d][x][i], f, y)
      BY <1>2, <1>4 DEF UnsavedPairs, Touches
    <3> DEFINE s == lane[d][x]
               t == SubSeq(s, 1, saved[d][x])
    <3>3. /\ Pending(t, f, y) <=> Pending(s, f, y)
          /\ LastIsUnion(t, f, y) <=> LastIsUnion(s, f, y)
      <4> HIDE DEF s
      <4>1. /\ s \in Seq(Write)
            /\ saved[d][x] <= Len(s)
            /\ \A i \in (saved[d][x] + 1)..Len(s) : ~Touches(s[i], f, y)
        BY <3>1, <3>2 DEF s
      <4>2. QED
        BY <3>1, <4>1, LaneAfterCut
    <3>4. QED
      BY <1>3, <2>1, <3>3
  <2>2. CASE e # d
    BY <1>3, <2>2
  <2>3. QED
    BY <2>1, <2>2
<1>5. OneDevicePerPair'
  BY <1>2, <1>4 DEF IInv, OneDevicePerPair
<1>6. ReciprocalUnlessSuspect'
  <2>1. \A x, y \in Users, f \in Fields :
           <<x, y>> \notin suspect' => (Settled(f, x, y)' <=> Settled(f, x, y))
    BY <1>2, <1>4 DEF Settled, Stored
  <2>2. QED
    BY <1>2, <2>1 DEF IInv, ReciprocalUnlessSuspect, Fields
<1>7. CommittedIsStored'
  <2> SUFFICES ASSUME NEW e \in Devices, NEW x \in Users, NEW y \in Users, NEW f \in Fields,
                      NEW i \in 1..done'[e],
                      session'[e] = x, <<x, y>> \notin suspect', IsLast(lane'[e][x], i, f, y)
               PROVE  Stored(f, x, y)' <=> lane'[e][x][i].op = "union"
    BY DEF CommittedIsStored
  <2>1. e # d
    BY <1>2
  <2>2. Stored(f, x, y)' <=> Stored(f, x, y)
    BY <1>2 DEF Stored
  <2>3. QED
    BY <1>2, <1>3, <2>1, <2>2 DEF IInv, CommittedIsStored
<1>8. QED
  BY <1>5, <1>6, <1>7 DEF IInv

\* A fresh installation satisfies the inductive invariant.
LEMMA IndInit == Init => IInv
<1> SUFFICES ASSUME Init PROVE IInv
  OBVIOUS
<1>1. TypeOK
  BY TypeInit
<1>2. \A d \in Devices, u, v \in Users, f \in Fields : ~Pending(lane[d][u], f, v)
  BY DEF Init, Pending
<1>3. OneDevicePerPair
  BY <1>2 DEF OneDevicePerPair
<1>4. CommittedIsStored
  BY DEF Init, CommittedIsStored
<1>5. ReciprocalUnlessSuspect
  <2>1. PICK rel \in SUBSET {p \in Users \X Users : p[1] # p[2]} :
           /\ followers = [v \in Users |-> {u \in Users : <<u, v>> \in rel}]
           /\ following = [u \in Users |-> {v \in Users : <<u, v>> \in rel}]
    BY DEF Init
  <2>3. \A u, v \in Users : Stored("followers", u, v) <=> Stored("following", u, v)
    BY <2>1 DEF Stored
  <2>4. QED
    BY <1>2, <2>3, SettledIsStored DEF ReciprocalUnlessSuspect, Fields
<1>6. QED
  BY <1>1, <1>3, <1>4, <1>5 DEF IInv

\* Every action, or none, preserves the inductive invariant.
LEMMA IndStep == IInv /\ [Next]_vars => IInv'
<1> SUFFICES ASSUME IInv, [Next]_vars PROVE IInv'
  OBVIOUS
<1>1. TypeOK /\ TypeOK'
  BY TypeStep DEF IInv
<1>2. ASSUME NEW d \in Devices, NEW u \in Users, Login(d, u) PROVE IInv'
  <2>1. done[d] = 0 /\ \A e \in Devices : e # d => session'[e] = session[e]
    BY <1>1, <1>2 DEF Login, TypeOK
  <2>2. /\ followers' = followers /\ following' = following
        /\ lane' = lane /\ suspect' = suspect /\ done' = done
    BY <1>2 DEF Login, server
  <2>3. \A e \in Devices : done'[e] = 0 \/ (done'[e] = done[e] /\ session'[e] = session[e])
    BY <2>1, <2>2
  <2>4. QED
    BY <1>1, <2>2, <2>3, QuietStep
<1>3. ASSUME NEW d \in Devices, NEW u \in Users, Persist(d, u) PROVE IInv'
  BY <1>1, <1>3, QuietStep DEF Persist, server
<1>4. ASSUME NEW d \in Devices, Logout(d) PROVE IInv'
  <2>1. \A e \in Devices : done'[e] = 0 \/ (done'[e] = done[e] /\ session'[e] = session[e])
    BY <1>1, <1>4 DEF Logout, TypeOK
  <2>2. /\ followers' = followers /\ following' = following
        /\ lane' = lane /\ suspect' = suspect
    BY <1>4 DEF Logout, server
  <2>3. QED
    BY <1>1, <2>1, <2>2, QuietStep
<1>5. ASSUME NEW d \in Devices, RefreshDiscover(d) PROVE IInv'
  BY <1>1, <1>5, QuietStep DEF RefreshDiscover, server
<1>6. ASSUME NEW d \in Devices, RefreshConnections(d) PROVE IInv'
  BY <1>1, <1>6, QuietStep DEF RefreshConnections, server
<1>7. ASSUME NEW d \in Devices, Follow(d) PROVE IInv'
  <2>1. PICK v \in people[d] : Issue(d, session[d], v, FollowWrites(v))
    BY <1>7 DEF Follow
  <2>2. session[d] \in Users /\ v \in Users
    BY <1>1, <1>7 DEF Follow, TypeOK
  <2>3. QED
    BY <1>1, <2>1, <2>2, FollowIsATap, IssueStep DEF Ops
<1>8. ASSUME NEW d \in Devices, Unfollow(d) PROVE IInv'
  <2>1. PICK v \in listed[d] : Issue(d, session[d], v, UnfollowWrites(v))
    BY <1>8 DEF Unfollow
  <2>2. session[d] \in Users /\ v \in Users
    BY <1>1, <1>8 DEF Unfollow, TypeOK
  <2>3. QED
    BY <1>1, <2>1, <2>2, UnfollowIsATap, IssueStep DEF Ops
<1>9. ASSUME NEW d \in Devices, Commit(d) PROVE IInv'
  BY <1>1, <1>9, CommitStep
<1>10. ASSUME NEW d \in Devices, Ack(d) PROVE IInv'
  <2>1. /\ session[d] \in Users
        /\ saved[d][session[d]] > 0
        /\ done[d] > 0
        /\ done'[d] = done[d] - 1
        /\ \A e \in Devices : e # d => done'[e] = done[e]
        /\ PopHead(d, session[d])
        /\ UNCHANGED <<followers, following, session, suspect>>
    <3>1. session[d] \in Users
      BY <1>1, <1>10 DEF Ack, TypeOK
    <3>2. saved[d][session[d]] > 0
      BY <1>1, <1>10, <3>1, CommittedIsIssued DEF Ack
    <3>3. QED
      BY <1>1, <1>10, <3>1, <3>2 DEF Ack, server, TypeOK
  <2>2. QED
    BY <1>1, <2>1, PopStep
<1>11. ASSUME NEW d \in Devices, Reject(d) PROVE IInv'
  <2> DEFINE u == session[d]
             w == Head(lane[d][u])
  <2>1. /\ u \in Users
        /\ saved[d][u] > 0
        /\ done' = done
        /\ done[d] = 0
        /\ PopHead(d, u)
        /\ UNCHANGED <<followers, following, session>>
    BY <1>1, <1>11 DEF Reject, server, TypeOK
  <2>2. suspect' = IF IsLast(lane[d][u], 1, w.field, w.to)
                   THEN suspect \cup {<<u, w.to>>} ELSE suspect
    BY <1>11 DEF Reject
  <2>3. w = lane[d][u][1]
    <3>1. /\ lane[d][u] \in Seq(Write)
          /\ saved[d][u] \in Nat
          /\ saved[d][u] <= Len(lane[d][u])
      BY <1>1, <2>1 DEF TypeOK
    <3>2. QED
      BY <2>1, <3>1
  <2> HIDE DEF w, u
  <2>4. \A f \in Fields, v \in Users : IsLast(lane[d][u], 1, f, v) => <<u, v>> \in suspect'
    BY <2>2, <2>3 DEF IsLast, Touches
  <2>5. suspect \subseteq suspect'
    BY <2>2
  <2>6. QED
    BY <1>1, <2>1, <2>4, <2>5, PopStep DEF u
<1>12. ASSUME NEW d \in Devices, StreamBreak(d) PROVE IInv'
  <2>1. \A e \in Devices : done'[e] = 0 \/ (done'[e] = done[e] /\ session'[e] = session[e])
    BY <1>1, <1>12 DEF StreamBreak, TypeOK
  <2>2. /\ followers' = followers /\ following' = following
        /\ lane' = lane /\ suspect' = suspect
    BY <1>12 DEF StreamBreak, server
  <2>3. QED
    BY <1>1, <2>1, <2>2, QuietStep
<1>13. ASSUME NEW d \in Devices, Crash(d) PROVE IInv'
  BY <1>1, <1>13, CrashStep
<1>14. CASE UNCHANGED vars
  BY <1>1, <1>14, QuietStep DEF vars, server
<1>15. QED
  BY <1>2, <1>3, <1>4, <1>5, <1>6, <1>7, <1>8, <1>9, <1>10, <1>11, <1>12,
     <1>13, <1>14 DEF Next

\* Whatever the bounds and the faults: on every pair no fault has touched, the
\* follower is in the followee's "followers" exactly when the followee is in
\* the follower's "following", counting what is still on its way.
THEOREM Reciprocity == Spec => []ReciprocalUnlessSuspect
<1>1. IInv => ReciprocalUnlessSuspect
  BY DEF IInv
<1>2. QED
  BY IndInit, IndStep, <1>1, PTL DEF Spec

\* No two phones of an account write to the same pair at once, unless the pair
\* is suspect: this is what rules write races out of the argument.
THEOREM NoWriteRaces == Spec => []OneDevicePerPair
<1>1. IInv => OneDevicePerPair
  BY DEF IInv
<1>2. QED
  BY IndInit, IndStep, <1>1, PTL DEF Spec

\* A write the server has committed but not yet answered for may be sent again
\* or forgotten without changing what the documents say.
THEOREM CommitsAreVisible == Spec => []CommittedIsStored
<1>1. IInv => CommittedIsStored
  BY DEF IInv
<1>2. QED
  BY IndInit, IndStep, <1>1, PTL DEF Spec

\* And so in the documents themselves, once the lanes of an account are empty.
Drained(u) == \A d \in Devices : lane[d][u] = <<>>
DocumentsAgree ==
    \A u, v \in Users :
        Drained(u) /\ <<u, v>> \notin suspect => (u \in followers[v] <=> v \in following[u])

\* Once an account has no write under way on any phone, its "following" array and
\* the "followers" arrays of the others agree in the documents themselves, on every
\* pair no fault has touched (UsersManager.follow and unfollow write both).
THEOREM DrainedReciprocity == Spec => []DocumentsAgree
<1>1. ReciprocalUnlessSuspect => DocumentsAgree
  <2> SUFFICES ASSUME ReciprocalUnlessSuspect, NEW u \in Users, NEW v \in Users,
                      Drained(u), <<u, v>> \notin suspect
               PROVE  u \in followers[v] <=> v \in following[u]
    BY DEF DocumentsAgree
  <2>1. \A d \in Devices, f \in Fields : ~Pending(lane[d][u], f, v)
    BY DEF Drained, Pending
  <2>2. \A f \in Fields : Settled(f, u, v) <=> Stored(f, u, v)
    BY <2>1, SettledIsStored
  <2>3. QED
    BY <2>2 DEF ReciprocalUnlessSuspect, Stored, Fields
<1>2. QED
  BY <1>1, Reciprocity, PTL

-----------------------------------------------------------------------------
(* Nobody follows themselves.                                              *)

\* Strengthens NobodyFollowsSelf: no screen ever offers an account itself.
NotOfferedSelf ==
    \A d \in Devices : session[d] \notin people[d] /\ session[d] \notin listed[d]

SelfInv == TypeOK /\ NobodyFollowsSelf /\ NotOfferedSelf

\* The prefix of a lane holds nothing the lane does not.
LEMMA PendingInPrefix ==
    ASSUME NEW s \in Seq(Write), NEW k \in Nat, k <= Len(s), NEW f, NEW v,
           Pending(SubSeq(s, 1, k), f, v)
    PROVE  Pending(s, f, v)
<1>1. PICK i \in 1..k : Touches(s[i], f, v)
  BY DEF Pending
<1>2. i \in 1..Len(s)
  OBVIOUS
<1>3. QED
  BY <1>1, <1>2 DEF Pending

\* No action offers an account to itself or writes it into its own arrays.
LEMMA SelfStep == SelfInv /\ [Next]_vars => SelfInv'
<1> SUFFICES ASSUME SelfInv, [Next]_vars PROVE NobodyFollowsSelf' /\ NotOfferedSelf'
  BY TypeStep DEF SelfInv
<1>1. TypeOK /\ TypeOK' /\ NobodyFollowsSelf /\ NotOfferedSelf
  BY TypeStep DEF SelfInv
<1>2. \A d \in Devices : LET u == session[d]
                          IN u \in Users => u \notin LocalFollowing(d, u)
  <2> SUFFICES ASSUME NEW d \in Devices, NEW u \in Users, u = session[d]
               PROVE  u \notin LocalFollowing(d, u)
    OBVIOUS
  <2>1. ~Pending(SubSeq(lane[d][u], 1, saved[d][u]), "following", u)
    BY <1>1, CommittedIsIssued, PendingInPrefix DEF NobodyFollowsSelf, Fields
  <2>2. ~Stored("following", u, u)
    BY <1>1 DEF NobodyFollowsSelf, Stored
  <2>3. QED
    BY <2>1, <2>2 DEF LocalFollowing, LocalMember
<1>3. ASSUME NEW d \in Devices, NEW u \in Users, Login(d, u)
      PROVE  NobodyFollowsSelf' /\ NotOfferedSelf'
  BY <1>1, <1>3 DEF Login, server, TypeOK, NobodyFollowsSelf, NotOfferedSelf
<1>4. ASSUME NEW d \in Devices, NEW u \in Users, Persist(d, u)
      PROVE  NobodyFollowsSelf' /\ NotOfferedSelf'
  BY <1>1, <1>4 DEF Persist, server, tables, NobodyFollowsSelf, NotOfferedSelf
<1>5. ASSUME NEW d \in Devices, Logout(d)
      PROVE  NobodyFollowsSelf' /\ NotOfferedSelf'
  BY <1>1, <1>5, FollowGraphAssumption
     DEF Logout, server, tables, TypeOK, NobodyFollowsSelf, NotOfferedSelf
<1>6. ASSUME NEW d \in Devices, RefreshDiscover(d)
      PROVE  NobodyFollowsSelf' /\ NotOfferedSelf'
  BY <1>1, <1>6 DEF RefreshDiscover, server, TypeOK, NobodyFollowsSelf, NotOfferedSelf, Offered
<1>7. ASSUME NEW d \in Devices, RefreshConnections(d)
      PROVE  NobodyFollowsSelf' /\ NotOfferedSelf'
  <2>1. session[d] \in Users
    BY <1>1, <1>7 DEF RefreshConnections, TypeOK
  <2>2. session[d] \notin LocalFollowing(d, session[d]) \cup followers[session[d]]
    BY <1>1, <1>2, <2>1 DEF NobodyFollowsSelf
  <2>3. QED
    BY <1>1, <1>7, <2>2 DEF RefreshConnections, server, TypeOK, NobodyFollowsSelf, NotOfferedSelf
<1>8. ASSUME NEW d \in Devices, NEW u \in Users, NEW v \in Users, NEW op \in Ops, u # v,
             Issue(d, u, v, TapWrites(v, op))
      PROVE  NobodyFollowsSelf' /\ NotOfferedSelf'
  <2>1. NotOfferedSelf'
    BY <1>1, <1>8 DEF Issue, tables, NotOfferedSelf
  <2>2. \A e \in Devices, x \in Users, f \in Fields : ~Pending(lane'[e][x], f, x)
    <3> SUFFICES ASSUME NEW e \in Devices, NEW x \in Users, NEW f \in Fields
                 PROVE  ~Pending(lane'[e][x], f, x)
      OBVIOUS
    <3>1. ~Pending(lane[e][x], f, x)
      BY <1>1 DEF NobodyFollowsSelf
    <3>2. CASE e = d /\ x = u
      <4>1. lane'[e][x] = lane[d][u] \o TapWrites(v, op)
        BY <1>1, <1>8, <3>2 DEF Issue, TypeOK
      <4>2. lane[d][u] \in Seq(Write)
        BY <1>1 DEF TypeOK
      <4>3. QED
        BY <1>8, <3>1, <3>2, <4>1, <4>2, LaneAfterTap
    <3>3. CASE ~(e = d /\ x = u)
      <4>1. lane'[e][x] = lane[e][x]
        BY <1>1, <1>8, <3>3 DEF Issue, TypeOK
      <4>2. QED
        BY <3>1, <4>1
    <3>4. QED
      BY <3>2, <3>3
  <2>3. QED
    BY <1>1, <1>8, <2>1, <2>2 DEF Issue, server, NobodyFollowsSelf
<1>9. ASSUME NEW d \in Devices, Follow(d)
      PROVE  NobodyFollowsSelf' /\ NotOfferedSelf'
  <2>1. PICK v \in people[d] : Issue(d, session[d], v, FollowWrites(v))
    BY <1>9 DEF Follow
  <2>2. session[d] \in Users /\ v \in Users /\ session[d] # v
    BY <1>1, <1>9 DEF Follow, TypeOK, NotOfferedSelf
  <2>3. QED
    BY <1>8, <2>1, <2>2, FollowIsATap DEF Ops
<1>10. ASSUME NEW d \in Devices, Unfollow(d)
       PROVE  NobodyFollowsSelf' /\ NotOfferedSelf'
  <2>1. PICK v \in listed[d] : Issue(d, session[d], v, UnfollowWrites(v))
    BY <1>10 DEF Unfollow
  <2>2. session[d] \in Users /\ v \in Users /\ session[d] # v
    BY <1>1, <1>10 DEF Unfollow, TypeOK, NotOfferedSelf
  <2>3. QED
    BY <1>8, <2>1, <2>2, UnfollowIsATap DEF Ops
<1>11. ASSUME NEW d \in Devices, Commit(d)
       PROVE  NobodyFollowsSelf' /\ NotOfferedSelf'
  <2> DEFINE u == session[d]
             w == lane[d][u][done[d] + 1]
  <2>1. u \in Users /\ done[d] + 1 \in 1..Len(lane[d][u])
    <3>1. u \in Users
      BY <1>1, <1>11 DEF Commit, TypeOK
    <3>2. QED
      BY <1>1, <1>11, <3>1, CommittedIsIssued DEF Commit
  <2>2. w.to # u
    <3>1. w \in Write
      BY <1>1, <2>1 DEF TypeOK
    <3>2. w.field \in Fields
      BY <3>1 DEF Write
    <3>3. QED
      BY <1>1, <2>1, <3>2 DEF NobodyFollowsSelf, Pending, Touches
  <2>3. /\ following' = IF w.field = "following"
                        THEN [following EXCEPT ![u] = Transform(@, w.op, w.to)]
                        ELSE following
        /\ followers' = IF w.field = "followers"
                        THEN [followers EXCEPT ![w.to] = Transform(@, w.op, u)]
                        ELSE followers
    BY <1>11 DEF Commit, ApplyToServer
  <2> HIDE DEF u, w
  <2>4. ASSUME NEW x \in Users PROVE x \notin following'[x] /\ x \notin followers'[x]
    <3>1. x \notin following[x] /\ x \notin followers[x]
      BY <1>1 DEF NobodyFollowsSelf
    <3>2. following \in [Users -> SUBSET Users] /\ followers \in [Users -> SUBSET Users]
      BY <1>1 DEF TypeOK
    <3>3. \/ following'[x] = following[x]
          \/ x = u /\ following'[x] = Transform(following[x], w.op, w.to)
      BY <2>3, <3>2
    <3>4. \/ followers'[x] = followers[x]
          \/ x = w.to /\ followers'[x] = Transform(followers[x], w.op, u)
      BY <2>3, <3>2
    <3>5. QED
      BY <2>2, <3>1, <3>3, <3>4 DEF Transform
  <2>5. QED
    BY <1>1, <1>11, <2>4 DEF Commit, tables, NobodyFollowsSelf, NotOfferedSelf
<1>12. ASSUME NEW d \in Devices, NEW u \in Users, saved[d][u] > 0, PopHead(d, u),
              UNCHANGED <<server, session, people, listed>>
       PROVE  NobodyFollowsSelf' /\ NotOfferedSelf'
  <2>1. /\ lane[d][u] \in Seq(Write)
        /\ saved[d][u] \in Nat
        /\ saved[d][u] <= Len(lane[d][u])
    BY <1>1 DEF TypeOK
  <2>2. lane[d][u] # <<>>
    BY <1>12, <2>1
  <2>3. \A x \in Users, f \in Fields :
           Pending(Tail(lane[d][u]), f, x) => Pending(lane[d][u], f, x)
    BY <2>1, <2>2, LaneAfterPop
  <2>4. \A e \in Devices, x \in Users, f \in Fields : ~Pending(lane'[e][x], f, x)
    <3> SUFFICES ASSUME NEW e \in Devices, NEW x \in Users, NEW f \in Fields
                 PROVE  ~Pending(lane'[e][x], f, x)
      OBVIOUS
    <3>1. lane'[e][x] = IF e = d /\ x = u THEN Tail(lane[d][u]) ELSE lane[e][x]
      BY <1>1, <1>12 DEF PopHead, TypeOK
    <3>2. QED
      BY <1>1, <2>3, <3>1 DEF NobodyFollowsSelf
  <2>5. QED
    BY <1>1, <1>12, <2>4 DEF server, NobodyFollowsSelf, NotOfferedSelf
<1>13. ASSUME NEW d \in Devices, Ack(d)
       PROVE  NobodyFollowsSelf' /\ NotOfferedSelf'
  <2>1. session[d] \in Users
    BY <1>1, <1>13 DEF Ack, TypeOK
  <2>2. saved[d][session[d]] > 0
    BY <1>1, <1>13, <2>1, CommittedIsIssued DEF Ack
  <2>3. QED
    BY <1>12, <1>13, <2>1, <2>2 DEF Ack, server, tables
<1>14. ASSUME NEW d \in Devices, Reject(d)
       PROVE  NobodyFollowsSelf' /\ NotOfferedSelf'
  <2>1. session[d] \in Users
    BY <1>1, <1>14 DEF Reject, TypeOK
  <2>2. QED
    BY <1>12, <1>14, <2>1 DEF Reject, server, tables
<1>15. ASSUME NEW d \in Devices, StreamBreak(d)
       PROVE  NobodyFollowsSelf' /\ NotOfferedSelf'
  BY <1>1, <1>15 DEF StreamBreak, server, tables, NobodyFollowsSelf, NotOfferedSelf
<1>16. ASSUME NEW d \in Devices, Crash(d)
       PROVE  NobodyFollowsSelf' /\ NotOfferedSelf'
  <2>1. \A e \in Devices, x \in Users, f \in Fields : ~Pending(lane'[e][x], f, x)
    <3> SUFFICES ASSUME NEW e \in Devices, NEW x \in Users, NEW f \in Fields
                 PROVE  ~Pending(lane'[e][x], f, x)
      OBVIOUS
    <3>1. lane'[e][x] = IF e = d THEN SubSeq(lane[d][x], 1, saved[d][x]) ELSE lane[e][x]
      BY <1>1, <1>16 DEF Crash, TypeOK
    <3>2. /\ lane[d][x] \in Seq(Write)
          /\ saved[d][x] \in Nat
          /\ saved[d][x] <= Len(lane[d][x])
      BY <1>1 DEF TypeOK
    <3>3. QED
      BY <1>1, <3>1, <3>2, PendingInPrefix DEF NobodyFollowsSelf
  <2>2. NotOfferedSelf'
    BY <1>1, <1>16, FollowGraphAssumption DEF Crash, tables, TypeOK, NotOfferedSelf
  <2>3. QED
    BY <1>1, <1>16, <2>1, <2>2 DEF Crash, server, NobodyFollowsSelf
<1>17. CASE UNCHANGED vars
  BY <1>1, <1>17 DEF vars, NobodyFollowsSelf, NotOfferedSelf
<1>18. QED
  BY <1>3, <1>4, <1>5, <1>6, <1>7, <1>9, <1>10, <1>11, <1>13, <1>14, <1>15,
     <1>16, <1>17 DEF Next

\* Nobody follows themselves in the documents the app starts from.
LEMMA SelfInit == Init => SelfInv
<1> SUFFICES ASSUME Init PROVE NobodyFollowsSelf /\ NotOfferedSelf
  BY TypeInit DEF SelfInv
<1>1. PICK rel \in SUBSET {p \in Users \X Users : p[1] # p[2]} :
         /\ followers = [v \in Users |-> {u \in Users : <<u, v>> \in rel}]
         /\ following = [u \in Users |-> {v \in Users : <<u, v>> \in rel}]
  BY DEF Init
<1>2. \A u \in Users : u \notin following[u] /\ u \notin followers[u]
  BY <1>1
<1>3. \A d \in Devices, u \in Users : lane[d][u] = <<>>
  BY DEF Init
<1>4. \A d \in Devices, u \in Users, f \in Fields : ~Pending(lane[d][u], f, u)
  BY <1>3 DEF Pending
<1>5. QED
  BY <1>2, <1>4, FollowGraphAssumption DEF Init, NobodyFollowsSelf, NotOfferedSelf

\* Discover never offers an account itself, so none ever follows itself, in
\* the documents or in a lane.
THEOREM NoSelfFollow == Spec => []NobodyFollowsSelf
<1>1. SelfInv => NobodyFollowsSelf
  BY DEF SelfInv
<1>2. QED
  BY <1>1, SelfInit, SelfStep, PTL DEF Spec

-----------------------------------------------------------------------------
(* A saved tap survives.                                                   *)

\* What is on disk of a lane is a prefix of it, as long as "saved" says.
LEMMA SavedPrefixLength ==
    ASSUME TypeOK, NEW d \in Devices, NEW u \in Users
    PROVE  /\ lane[d][u] \in Seq(Write)
           /\ saved[d][u] \in Nat
           /\ saved[d][u] <= Len(lane[d][u])
           /\ Len(SubSeq(lane[d][u], 1, saved[d][u])) = saved[d][u]
<1>1. /\ lane[d][u] \in Seq(Write)
      /\ saved[d][u] \in Nat
      /\ saved[d][u] <= Len(lane[d][u])
  BY DEF TypeOK
<1>2. QED
  BY <1>1

\* Popping the head of a lane pops the head of what is saved of it.
LEMMA SavedPrefixAfterPop ==
    ASSUME NEW s \in Seq(Write), NEW k \in Nat, k > 0, k <= Len(s)
    PROVE  SubSeq(Tail(s), 1, k - 1) = Tail(SubSeq(s, 1, k))
<1> DEFINE a == SubSeq(Tail(s), 1, k - 1)
           b == Tail(SubSeq(s, 1, k))
<1>1. /\ Len(s) \in Nat
      /\ Len(Tail(s)) = Len(s) - 1
      /\ Tail(s) \in Seq(Write)
      /\ \A i \in 1..(Len(s) - 1) : Tail(s)[i] = s[i + 1]
  OBVIOUS
<1>2. /\ a \in Seq(Write)
      /\ Len(a) = k - 1
      /\ \A i \in 1..(k - 1) : a[i] = s[i + 1]
  BY <1>1
<1>3. /\ SubSeq(s, 1, k) \in Seq(Write)
      /\ Len(SubSeq(s, 1, k)) = k
      /\ \A i \in 1..k : SubSeq(s, 1, k)[i] = s[i]
  OBVIOUS
<1>4. /\ b \in Seq(Write)
      /\ Len(b) = k - 1
      /\ \A i \in 1..(k - 1) : b[i] = s[i + 1]
  BY <1>3
<1> HIDE DEF a, b
<1>5. a = b
  BY <1>2, <1>4, SeqEqual
<1>6. QED
  BY <1>5 DEF a, b

\* The step form of SavedWritesSurvive.
KeptOrAnswered(d, u) ==
    LET before == SubSeq(lane[d][u], 1, saved[d][u])
        after  == SubSeq(lane'[d][u], 1, saved'[d][u])
    IN  (Len(after) < Len(before)) =>
           /\ session[d] = u
           /\ after = Tail(before)
           /\ done[d] > 0 \/ "reject" \in Faults

\* Where a step saves no less of a lane than before, nothing has left it.
LEMMA KeptIfNotFewer ==
    ASSUME TypeOK, TypeOK', NEW d \in Devices, NEW u \in Users, saved[d][u] <= saved'[d][u]
    PROVE  KeptOrAnswered(d, u)
<1>1. /\ Len(SubSeq(lane[d][u], 1, saved[d][u])) = saved[d][u]
      /\ saved[d][u] \in Nat
  BY SavedPrefixLength
<1>2. /\ lane'[d][u] \in Seq(Write)
      /\ saved'[d][u] \in Nat
      /\ saved'[d][u] <= Len(lane'[d][u])
  BY DEF TypeOK
<1>3. Len(SubSeq(lane'[d][u], 1, saved'[d][u])) = saved'[d][u]
  BY <1>2
<1>4. QED
  BY <1>1, <1>2, <1>3 DEF KeptOrAnswered

\* Where a step pops the head of the lane of the account signed in, that head
\* has been answered or refused.
LEMMA AnsweredIfPopped ==
    ASSUME TypeOK, NEW d \in Devices, NEW u \in Users, session[d] = u, saved[d][u] > 0,
           PopHead(d, u), done[d] > 0 \/ "reject" \in Faults, NEW e \in Devices, NEW x \in Users,
           TypeOK'
    PROVE  KeptOrAnswered(e, x)
<1>1. CASE e = d /\ x = u
  <2>1. lane'[d][u] = Tail(lane[d][u]) /\ saved'[d][u] = saved[d][u] - 1
    BY DEF PopHead, TypeOK
  <2>2. SubSeq(lane'[d][u], 1, saved'[d][u]) = Tail(SubSeq(lane[d][u], 1, saved[d][u]))
    BY <2>1, SavedPrefixLength, SavedPrefixAfterPop
  <2>3. QED
    BY <1>1, <2>2 DEF KeptOrAnswered
<1>2. CASE ~(e = d /\ x = u)
  <2>1. saved'[e][x] = saved[e][x] /\ saved[e][x] \in Nat
    BY <1>2 DEF PopHead, TypeOK
  <2>2. QED
    BY <2>1, KeptIfNotFewer
<1>3. QED
  BY <1>1, <1>2

\* Of all steps only an answer and a refusal take a saved write from a lane.
LEMMA SurviveStep ==
    ASSUME TypeOK, TypeOK', [Next]_vars, NEW e \in Devices, NEW x \in Users
    PROVE  KeptOrAnswered(e, x)
<1>1. saved'[e][x] \in Nat /\ saved[e][x] \in Nat
  BY DEF TypeOK
<1>2. ASSUME UNCHANGED saved PROVE KeptOrAnswered(e, x)
  BY <1>1, <1>2, KeptIfNotFewer
<1>3. ASSUME NEW d \in Devices, NEW u \in Users, Persist(d, u) PROVE KeptOrAnswered(e, x)
  <2>1. saved'[e][x] = IF e = d /\ x = u THEN saved[e][x] + 1 ELSE saved[e][x]
    BY <1>3 DEF Persist, TypeOK
  <2>2. saved[e][x] <= saved'[e][x]
    BY <1>1, <2>1
  <2>3. QED
    BY <2>2, KeptIfNotFewer
<1>4. ASSUME NEW d \in Devices, Ack(d) PROVE KeptOrAnswered(e, x)
  <2>1. session[d] \in Users
    BY <1>4 DEF Ack, TypeOK
  <2>2. saved[d][session[d]] > 0
    BY <1>4, <2>1, CommittedIsIssued DEF Ack
  <2>3. QED
    BY <1>4, <2>1, <2>2, AnsweredIfPopped DEF Ack
<1>5. ASSUME NEW d \in Devices, Reject(d) PROVE KeptOrAnswered(e, x)
  <2>1. session[d] \in Users
    BY <1>5 DEF Reject, TypeOK
  <2>2. QED
    BY <1>5, <2>1, AnsweredIfPopped DEF Reject
<1>6. ASSUME NEW d \in Devices,
             \/ \E u \in Users : Login(d, u)
             \/ Logout(d) \/ RefreshDiscover(d) \/ RefreshConnections(d)
             \/ Follow(d) \/ Unfollow(d) \/ Commit(d) \/ StreamBreak(d) \/ Crash(d)
      PROVE  UNCHANGED saved
  BY <1>6 DEF Login, Logout, RefreshDiscover, RefreshConnections, Follow, Unfollow, Issue,
              Commit, StreamBreak, Crash
<1>7. CASE UNCHANGED vars
  BY <1>2, <1>7 DEF vars
<1>8. QED
  BY <1>2, <1>3, <1>4, <1>5, <1>6, <1>7 DEF Next

\* Whatever the bounds and the faults: a saved write leaves its lane only from
\* the front, answered or refused, while its account is signed in; no logout, no
\* crash, no stream that breaks and no change of account loses it.
THEOREM TapsSurvive == Spec => SavedWritesSurvive
<1>1. TypeOK /\ TypeOK' /\ [Next]_vars => \A d \in Devices, u \in Users : KeptOrAnswered(d, u)
  BY SurviveStep
<1>2. TypeOK /\ TypeOK' /\ [Next]_vars =>
         [\A d \in Devices, u \in Users :
             LET before == SubSeq(lane[d][u], 1, saved[d][u])
                 after  == SubSeq(lane'[d][u], 1, saved'[d][u])
             IN  (Len(after) < Len(before)) =>
                    /\ session[d] = u
                    /\ after = Tail(before)
                    /\ done[d] > 0 \/ "reject" \in Faults]_vars
  BY <1>1 DEF KeptOrAnswered
<1>3. QED
  BY <1>2, TypeCorrect, PTL DEF Spec, SavedWritesSurvive

-----------------------------------------------------------------------------
(* Without faults the documents, lanes and phones implement one relation.  *)

\* Strengthens the refinement: each account is in use on one phone, and so no
\* pair is ever suspect.
OnePhoneEach ==
    \A u \in Users, d, e \in Devices :
        d # e /\ (session[d] = u \/ lane[d][u] # <<>>) => session[e] # u /\ lane[e][u] = <<>>

FaultlessInv == OnePhoneEach /\ suspect = {}

\* Steps that bring no account and no write to a phone.
LEMMA NoNewPhone ==
    ASSUME OnePhoneEach,
           \A d \in Devices, u \in Users :
              session'[d] = u \/ lane'[d][u] # <<>> => session[d] = u \/ lane[d][u] # <<>>
    PROVE  OnePhoneEach'
BY DEF OnePhoneEach

\* A tap on a phone of an account with one phone has no rival.
LEMMA NotContended ==
    ASSUME OnePhoneEach, NEW d \in Devices, NEW u \in Users, session[d] = u, NEW v
    PROVE  ~Contended(d, u, v)
BY DEF OnePhoneEach, Contended, Pending

\* Without faults every step keeps accounts apart and marks no pair.
LEMMA FaultlessStep ==
    ASSUME Faults = {}, TypeOK, FaultlessInv, [Next]_vars
    PROVE  FaultlessInv'
<1> USE DEF FaultlessInv
<1>1. ASSUME UNCHANGED <<session, lane, suspect>> PROVE FaultlessInv'
  BY <1>1 DEF OnePhoneEach
<1>2. ASSUME NEW d \in Devices, NEW u \in Users, Login(d, u) PROVE FaultlessInv'
  <2>1. NobodyElseHas(d, u)
    BY <1>2 DEF Login
  <2>2. \A e \in Devices : session'[e] = IF e = d THEN u ELSE session[e]
    BY <1>2 DEF Login, TypeOK
  <2>3. session[d] = NoUser /\ UNCHANGED <<lane, suspect>>
    BY <1>2 DEF Login
  <2>4. QED
    BY <2>1, <2>2, <2>3 DEF OnePhoneEach, NobodyElseHas
<1>3. ASSUME NEW d \in Devices, Logout(d) PROVE FaultlessInv'
  <2>1. \A e \in Devices : session'[e] = IF e = d THEN NoUser ELSE session[e]
    BY <1>3 DEF Logout, TypeOK
  <2>2. UNCHANGED <<lane, suspect>>
    BY <1>3 DEF Logout
  <2>3. QED
    BY <2>1, <2>2, NoNewPhone, FollowGraphAssumption
<1>4. ASSUME NEW d \in Devices, NEW v, NEW w, session[d] \in Users, Issue(d, session[d], v, w)
      PROVE  FaultlessInv'
  <2>1. ~Contended(d, session[d], v)
    BY <1>4, NotContended
  <2>2. suspect' = {}
    BY <1>4, <2>1 DEF Issue, OtherPairs
  <2>3. UNCHANGED session
    BY <1>4 DEF Issue
  <2>4. \A e \in Devices, x \in Users :
           (e = d /\ x = session[d]) \/ lane'[e][x] = lane[e][x]
    BY <1>4 DEF Issue, TypeOK
  <2>5. QED
    BY <2>2, <2>3, <2>4, NoNewPhone
<1>5. ASSUME NEW d \in Devices, Ack(d) PROVE FaultlessInv'
  <2>1. session[d] \in Users
    BY <1>5 DEF Ack, TypeOK
  <2>2. UNCHANGED <<session, suspect>>
    BY <1>5 DEF Ack
  <2>3. \A e \in Devices, x \in Users :
           (e = d /\ x = session[d]) \/ lane'[e][x] = lane[e][x]
    BY <1>5 DEF Ack, PopHead, TypeOK
  <2>4. QED
    BY <2>1, <2>2, <2>3, NoNewPhone
<1>6. ASSUME NEW d \in Devices, Follow(d) PROVE FaultlessInv'
  BY <1>4, <1>6 DEF Follow, TypeOK
<1>7. ASSUME NEW d \in Devices, Unfollow(d) PROVE FaultlessInv'
  BY <1>4, <1>7 DEF Unfollow, TypeOK
<1>8. ASSUME NEW d \in Devices,
             \/ \E u \in Users : Persist(d, u)
             \/ RefreshDiscover(d) \/ RefreshConnections(d) \/ Commit(d) \/ StreamBreak(d)
      PROVE  UNCHANGED <<session, lane, suspect>>
  BY <1>8 DEF Persist, RefreshDiscover, RefreshConnections, Commit, StreamBreak
<1>9. ASSUME NEW d \in Devices PROVE ~Reject(d) /\ ~Crash(d)
  BY DEF Reject, Crash
<1>10. CASE UNCHANGED vars
  BY <1>1, <1>10 DEF vars
<1>11. QED
  BY <1>1, <1>2, <1>3, <1>5, <1>6, <1>7, <1>8, <1>9, <1>10 DEF Next

\* A pair is in the relation when its "following" half settles to be set.
Rel == {p \in Users \X Users : Settled("following", p[1], p[2])}

\* Steps that settle nothing anew.
LEMMA RelUnchanged ==
    ASSUME \A u, v \in Users : Settled("following", u, v)' <=> Settled("following", u, v)
    PROVE  Rel' = Rel
<1>1. \A p \in Users \X Users :
         Settled("following", p[1], p[2])' <=> Settled("following", p[1], p[2])
  OBVIOUS
<1>2. QED
  BY <1>1 DEF Rel

\* A tap puts its pair into the relation or takes it out.
LEMMA TapChangesRel ==
    ASSUME Faults = {}, IInv, SelfInv, FaultlessInv, TypeOK',
           NEW d \in Devices, NEW v \in Users, NEW op \in Ops,
           session[d] \in Users, v # session[d], Issue(d, session[d], v, TapWrites(v, op))
    PROVE  Relation!Next
<1> DEFINE u == session[d]
           p == <<u, v>>
<1>1. suspect' = {}
  BY NotContended DEF FaultlessInv, Issue, OtherPairs
<1>2. \A x, y \in Users :
         Settled("following", x, y)' <=> IF x = u /\ y = v THEN op = "union"
                                                          ELSE Settled("following", x, y)
  BY <1>1, IssueStep DEF Fields
<1>3. p \in Relation!NotSelf
  BY DEF Relation!NotSelf
<1>4. CASE op = "union"
  <2>1. Rel' = Rel \cup {p}
    BY <1>2, <1>4 DEF Rel
  <2>2. QED
    BY <1>3, <2>1 DEF Issue, Relation!Next, Relation!Follow, Rel
<1>5. CASE op = "remove"
  <2>1. Rel' = Rel \ {p}
    BY <1>2, <1>5 DEF Rel
  <2>2. QED
    BY <1>3, <2>1 DEF Issue, Relation!Next, Relation!Unfollow, Rel
<1>6. QED
  BY <1>4, <1>5 DEF Ops

\* Every step is a tap of the relation or none of its business.
LEMMA RefinementStep ==
    ASSUME Faults = {}, IInv, SelfInv, FaultlessInv, [Next]_vars
    PROVE  [Relation!Next]_<<Rel, taps>>
<1>1. TypeOK /\ TypeOK'
  BY TypeStep DEF IInv
<1>2. FaultlessInv'
  BY <1>1, FaultlessStep
<1>3. ASSUME UNCHANGED <<followers, following, lane>> PROVE Rel' = Rel
  <2>1. \A x, y \in Users : Settled("following", x, y)' <=> Settled("following", x, y)
    BY <1>3 DEF Settled, Stored
  <2>2. QED
    BY <2>1, RelUnchanged
<1>4. ASSUME NEW d \in Devices, Commit(d) PROVE UNCHANGED <<Rel, taps>>
  <2>1. Rel' = Rel
    BY <1>1, <1>4, CommitStep, RelUnchanged DEF Fields
  <2>2. QED
    BY <1>4, <2>1 DEF Commit
<1>5. ASSUME NEW d \in Devices, Ack(d) PROVE UNCHANGED <<Rel, taps>>
  <2>1. session[d] \in Users
    BY <1>1, <1>5 DEF Ack, TypeOK
  <2>2. saved[d][session[d]] > 0
    BY <1>1, <1>5, <2>1, CommittedIsIssued DEF Ack
  <2>3. /\ done[d] > 0
        /\ done'[d] = done[d] - 1
        /\ \A e \in Devices : e # d => done'[e] = done[e]
        /\ PopHead(d, session[d])
        /\ UNCHANGED <<followers, following, session, suspect, taps>>
    BY <1>1, <1>5 DEF Ack, server, TypeOK
  <2>4. suspect' = {}
    BY <1>2 DEF FaultlessInv
  <2>5. \A x, y \in Users, f \in Fields : Settled(f, x, y)' <=> Settled(f, x, y)
    BY <1>1, <2>1, <2>2, <2>3, <2>4, PopStep
  <2>6. QED
    BY <2>3, <2>5, RelUnchanged DEF Fields
<1>6. ASSUME NEW d \in Devices, Follow(d) PROVE Relation!Next
  <2>1. PICK v \in people[d] : Issue(d, session[d], v, FollowWrites(v))
    BY <1>6 DEF Follow
  <2>2. session[d] \in Users /\ v \in Users /\ v # session[d]
    BY <1>1, <1>6 DEF Follow, TypeOK, SelfInv, NotOfferedSelf
  <2>3. QED
    BY <1>1, <2>1, <2>2, FollowIsATap, TapChangesRel DEF Ops
<1>7. ASSUME NEW d \in Devices, Unfollow(d) PROVE Relation!Next
  <2>1. PICK v \in listed[d] : Issue(d, session[d], v, UnfollowWrites(v))
    BY <1>7 DEF Unfollow
  <2>2. session[d] \in Users /\ v \in Users /\ v # session[d]
    BY <1>1, <1>7 DEF Unfollow, TypeOK, SelfInv, NotOfferedSelf
  <2>3. QED
    BY <1>1, <2>1, <2>2, UnfollowIsATap, TapChangesRel DEF Ops
<1>8. ASSUME NEW d \in Devices,
             \/ \E u \in Users : Login(d, u) \/ Persist(d, u)
             \/ Logout(d) \/ RefreshDiscover(d) \/ RefreshConnections(d) \/ StreamBreak(d)
      PROVE  UNCHANGED <<followers, following, lane, taps>>
  BY <1>8 DEF Login, Persist, Logout, RefreshDiscover, RefreshConnections, StreamBreak, server
<1>9. ASSUME NEW d \in Devices PROVE ~Reject(d) /\ ~Crash(d)
  BY DEF Reject, Crash
<1>10. CASE UNCHANGED vars
  BY <1>3, <1>10 DEF vars, server
<1>11. QED
  BY <1>3, <1>4, <1>5, <1>6, <1>7, <1>8, <1>9, <1>10 DEF Next

\* For any number of accounts and phones and any bound: as long as no fault
\* strikes, the two arrays, the lanes and the stream implement one relation
\* between accounts that a tap changes in one step and nothing else does.
THEOREM FaultlessRefinement == ASSUME Faults = {} PROVE Spec => ImplementsFollowRelation
<1>1. Init => SelfInv /\ IInv
  BY SelfInit, IndInit
<1>2. Init => FaultlessInv
  BY FollowGraphAssumption DEF Init, FaultlessInv, OnePhoneEach
<1>3. Init => Relation!Init
  <2> SUFFICES ASSUME Init PROVE Relation!Init
    OBVIOUS
  <2>1. \A u, v \in Users : Settled("following", u, v) => u # v
    <3>1. \A d \in Devices, u, v \in Users : ~Pending(lane[d][u], "following", v)
      <4>1. \A d \in Devices, u \in Users : lane[d][u] = <<>>
        BY DEF Init
      <4>2. QED
        BY <4>1 DEF Pending
    <3>2. \A u, v \in Users : Settled("following", u, v) <=> v \in following[u]
      BY <3>1, SettledIsStored DEF Stored
    <3>3. \A u \in Users : u \notin following[u]
      BY <1>1 DEF SelfInv, NobodyFollowsSelf
    <3>4. QED
      BY <3>2, <3>3
  <2>2. Rel \subseteq Relation!NotSelf
    BY <2>1 DEF Rel, Relation!NotSelf
  <2>3. QED
    BY <2>2 DEF Init, Relation!Init, Rel
<1>4. IInv /\ SelfInv /\ FaultlessInv /\ [Next]_vars => FaultlessInv'
  BY FaultlessStep DEF IInv
<1>5. IInv /\ SelfInv /\ FaultlessInv /\ [Next]_vars => [Relation!Next]_<<Rel, taps>>
  BY RefinementStep
<1>6. QED
  BY <1>1, <1>2, <1>3, <1>4, <1>5, IndStep, SelfStep, PTL
     DEF Spec, ImplementsFollowRelation, Relation!Spec, Rel

-----------------------------------------------------------------------------
(* A crash tears at most one pair.                                         *)

\* How half f of the pair <<u, v>> reads with the writes s before it.
View(s, f, u, v) == IF Pending(s, f, v) THEN LastIsUnion(s, f, v) ELSE Stored(f, u, v)

\* What is left of a lane when only its first m writes survive.
Cut(d, u, m) == SubSeq(lane[d][u], 1, m)

Holds(d, u, v) == \E f \in Fields : Pending(lane[d][u], f, v)

\* The next write is the second half of a tap on v.
HalfCut(d, u, v, m) ==
    m < Len(lane[d][u]) /\ Touches(lane[d][u][m + 1], "following", v)

\* Cut a lane anywhere a crash may still cut it, but not through a tap on v: the
\* halves of the pair agree in what is left.
CutsAreWhole ==
    \A d \in Devices, u, v \in Users : \A m \in saved[d][u]..Len(lane[d][u]) :
        <<u, v>> \notin faulted /\ Holds(d, u, v) /\ ~HalfCut(d, u, v, m) =>
            (View(Cut(d, u, m), "followers", u, v) <=> View(Cut(d, u, m), "following", u, v))

\* CommittedIsStored for what a crash would leave.
CutsAreStored ==
    \A d \in Devices, u, v \in Users, f \in Fields : \A m \in saved[d][u]..Len(lane[d][u]) :
        \A i \in 1..done[d] :
            session[d] = u /\ <<u, v>> \notin faulted /\ IsLast(Cut(d, u, m), i, f, v) =>
                (Stored(f, u, v) <=> lane[d][u][i].op = "union")

\* Only the account signed in has writes in memory.
OneWriter ==
    \A d \in Devices, u \in Users :
        session[d] \notin {NoUser, u} => saved[d][u] = Len(lane[d][u])

CrashInv ==
    /\ IInv
    /\ suspect \subseteq faulted
    /\ OneWriter
    /\ CutsAreStored
    /\ CutsAreWhole

\* What a cut is made of.
LEMMA CutFacts ==
    ASSUME TypeOK, NEW d \in Devices, NEW u \in Users, NEW m \in saved[d][u]..Len(lane[d][u])
    PROVE  /\ lane[d][u] \in Seq(Write)
           /\ m \in Nat
           /\ m <= Len(lane[d][u])
           /\ Cut(d, u, m) \in Seq(Write)
           /\ Len(Cut(d, u, m)) = m
           /\ \A i \in 1..m : Cut(d, u, m)[i] = lane[d][u][i]
<1>1. lane[d][u] \in Seq(Write) /\ saved[d][u] \in Nat
  BY DEF TypeOK
<1>2. m \in Nat /\ m <= Len(lane[d][u])
  BY <1>1
<1>3. QED
  BY <1>1, <1>2 DEF Cut

\* The last write of a longer prefix is the last one of a shorter one that has it.
LEMMA LastInShorter ==
    ASSUME NEW s \in Seq(Write), NEW k \in Nat, NEW m \in Nat, k <= m, m <= Len(s),
           NEW i \in 1..k, NEW f, NEW v, IsLast(SubSeq(s, 1, m), i, f, v)
    PROVE  IsLast(SubSeq(s, 1, k), i, f, v)
<1> DEFINE a == SubSeq(s, 1, m)
           b == SubSeq(s, 1, k)
<1>1. Len(a) = m /\ \A j \in 1..m : a[j] = s[j]
  OBVIOUS
<1>2. k <= Len(s) /\ Len(s) \in Nat
  OBVIOUS
<1>3. Len(b) = k /\ \A j \in 1..k : b[j] = s[j]
  BY <1>2
<1>4. IsLast(a, i, f, v)
  OBVIOUS
<1> HIDE DEF a, b
<1>5. /\ i \in 1..m
      /\ (i + 1)..k \subseteq 1..k
      /\ (i + 1)..k \subseteq (i + 1)..m
      /\ 1..k \subseteq 1..m
  OBVIOUS
<1>6. IsLast(b, i, f, v)
  BY <1>1, <1>3, <1>4, <1>5 DEF IsLast
<1>7. QED
  BY <1>6 DEF b

\* What reads the same to the end of both halves reads the same in the view.
LEMMA SameView ==
    ASSUME NEW s, NEW t, NEW f, NEW u, NEW v,
           Pending(t, f, v) <=> Pending(s, f, v),
           LastIsUnion(t, f, v) <=> LastIsUnion(s, f, v)
    PROVE  View(t, f, u, v) <=> View(s, f, u, v)
BY DEF View

\* A phone that holds writes for a pair no fault has touched holds them all.
HeldAlone ==
    \A d \in Devices, u, v \in Users : <<u, v>> \notin suspect /\ Holds(d, u, v) =>
        \A e \in Devices, f \in Fields : e # d => ~Pending(lane[e][u], f, v)

\* OneDevicePerPair in the form needed here.
LEMMA HoldersAreAlone == IInv => HeldAlone
BY DEF IInv, HeldAlone, Holds, OneDevicePerPair

\* The whole lane of the only phone that may write to a pair.
WholeLanesAgree ==
    \A d \in Devices, u, v \in Users :
        /\ <<u, v>> \notin suspect
        /\ \A e \in Devices, f \in Fields : e # d => ~Pending(lane[e][u], f, v)
        => (View(lane[d][u], "followers", u, v) <=> View(lane[d][u], "following", u, v))

\* ReciprocalUnlessSuspect in the form needed here.
LEMMA WholeAgree == IInv => WholeLanesAgree
<1> SUFFICES ASSUME IInv, NEW d \in Devices, NEW u \in Users, NEW v \in Users,
                    <<u, v>> \notin suspect,
                    \A e \in Devices, f \in Fields : e # d => ~Pending(lane[e][u], f, v)
             PROVE  View(lane[d][u], "followers", u, v) <=> View(lane[d][u], "following", u, v)
  BY DEF WholeLanesAgree
<1>1. ASSUME NEW f \in Fields PROVE Settled(f, u, v) <=> View(lane[d][u], f, u, v)
  <2>1. CASE Pending(lane[d][u], f, v)
    BY <2>1, SettledIsPending DEF View
  <2>2. CASE ~Pending(lane[d][u], f, v)
    <3>1. \A e \in Devices : ~Pending(lane[e][u], f, v)
      BY <2>2
    <3>2. QED
      BY <2>2, <3>1, SettledIsStored DEF View
  <2>3. QED
    BY <2>1, <2>2
<1>2. QED
  BY <1>1 DEF Fields, IInv, ReciprocalUnlessSuspect

\* Steps that move no write and no document and forget no fault.
LEMMA QuietCut ==
    ASSUME CrashInv, TypeOK, TypeOK', IInv',
           followers' = followers, following' = following, lane' = lane,
           suspect' = suspect, faulted' = faulted, OneWriter',
           \A e \in Devices, x \in Users : saved[e][x] <= saved'[e][x],
           \A e \in Devices : \/ done'[e] = 0
                              \/ done'[e] = done[e] /\ session'[e] = session[e]
    PROVE  CrashInv'
<1>1. \A e \in Devices, x \in Users :
         saved'[e][x]..Len(lane'[e][x]) \subseteq saved[e][x]..Len(lane[e][x])
  BY DEF TypeOK
<1>2. CutsAreStored'
  <2> SUFFICES ASSUME NEW e \in Devices, NEW x \in Users, NEW y \in Users, NEW f \in Fields,
                      NEW m \in saved'[e][x]..Len(lane'[e][x]), NEW i \in 1..done'[e],
                      session'[e] = x, <<x, y>> \notin faulted, IsLast(Cut(e, x, m), i, f, y)
               PROVE  Stored(f, x, y) <=> lane[e][x][i].op = "union"
    BY DEF CutsAreStored, Cut, Stored
  <2>1. done'[e] = done[e] /\ session'[e] = session[e]
    OBVIOUS
  <2>2. m \in saved[e][x]..Len(lane[e][x])
    BY <1>1
  <2>3. QED
    BY <2>1, <2>2 DEF CrashInv, CutsAreStored
<1>3. CutsAreWhole'
  <2> SUFFICES ASSUME NEW e \in Devices, NEW x \in Users, NEW y \in Users,
                      NEW m \in saved'[e][x]..Len(lane'[e][x]),
                      <<x, y>> \notin faulted, Holds(e, x, y), ~HalfCut(e, x, y, m)
               PROVE  View(Cut(e, x, m), "followers", x, y) <=> View(Cut(e, x, m), "following", x, y)
    BY DEF CutsAreWhole, Cut, Holds, HalfCut, View, Stored
  <2>1. m \in saved[e][x]..Len(lane[e][x])
    BY <1>1
  <2>2. QED
    BY <2>1 DEF CrashInv, CutsAreWhole
<1>4. QED
  BY <1>2, <1>3 DEF CrashInv

\* A lane with two more writes.
LEMMA PairAppended ==
    ASSUME NEW s \in Seq(Write), NEW w \in Seq(Write), Len(w) = 2
    PROVE  /\ s \o w \in Seq(Write)
           /\ Len(s \o w) = Len(s) + 2
           /\ \A i \in 1..Len(s) : (s \o w)[i] = s[i]
           /\ (s \o w)[Len(s) + 1] = w[1]
           /\ (s \o w)[Len(s) + 2] = w[2]
<1> DEFINE t == s \o w
<1>1. /\ t \in Seq(Write)
      /\ Len(t) = Len(s) + Len(w)
      /\ \A i \in 1..Len(s) + Len(w) : t[i] = IF i <= Len(s) THEN s[i] ELSE w[i - Len(s)]
  BY ConcatProperties
<1>2. Len(s) \in Nat
  OBVIOUS
<1> HIDE DEF t
<1>3. Len(t) = Len(s) + 2 /\ \A i \in 1..Len(s) : t[i] = s[i]
  BY <1>1, <1>2
<1>4. t[Len(s) + 1] = w[1] /\ t[Len(s) + 2] = w[2]
  BY <1>1, <1>2
<1>5. QED
  BY <1>1, <1>3, <1>4 DEF t

\* A tap lengthens one lane by a pair: every cut of it is an old one, goes
\* through the new tap, or leaves the new tap whole.
LEMMA IssueCut ==
    ASSUME CrashInv, TypeOK, TypeOK', IInv', NEW d \in Devices, NEW u \in Users, NEW v \in Users,
           NEW op \in Ops, session[d] = u, Issue(d, u, v, TapWrites(v, op))
    PROVE  CrashInv'
<1> DEFINE s == lane[d][u]
           w == TapWrites(v, op)
           t == s \o w
           n == Len(s)
<1>1. /\ lane' = [lane EXCEPT ![d][u] = t]
      /\ UNCHANGED <<followers, following, session, saved, done>>
      /\ suspect' = IF Contended(d, u, v) THEN suspect \cup {<<u, v>>}
                                          ELSE OtherPairs(suspect, u, v)
      /\ faulted' = IF Contended(d, u, v) THEN faulted \cup {<<u, v>>} ELSE faulted
  BY DEF Issue, server, tables
<1>2. /\ s \in Seq(Write)
      /\ n \in Nat
      /\ saved[d][u] \in Nat
      /\ saved[d][u] <= n
      /\ done[d] \in Nat
      /\ done[d] <= saved[d][u]
  BY CommittedIsIssued
<1>3. /\ lane'[d][u] = t
      /\ \A e \in Devices, x \in Users : e # d \/ x # u => lane'[e][x] = lane[e][x]
  BY <1>1 DEF TypeOK
<1>4. /\ t \in Seq(Write)
      /\ Len(t) = n + 2
      /\ \A i \in 1..n : t[i] = s[i]
      /\ t[n + 1] = [to |-> v, field |-> "followers", op |-> op]
      /\ t[n + 2] = [to |-> v, field |-> "following", op |-> op]
  <2>1. /\ Len(w) = 2
        /\ w[1] = [to |-> v, field |-> "followers", op |-> op]
        /\ w[2] = [to |-> v, field |-> "following", op |-> op]
    BY DEF TapWrites
  <2>2. w \in Seq(Write)
    BY TapWritesAreWrites
  <2> HIDE DEF s, w
  <2>3. QED
    BY <1>2, <2>1, <2>2, PairAppended
<1>5. \A m \in 0..n : SubSeq(t, 1, m) = SubSeq(s, 1, m)
  <2> HIDE DEF t, s
  <2> SUFFICES ASSUME NEW m \in 0..n PROVE SubSeq(t, 1, m) = SubSeq(s, 1, m)
    OBVIOUS
  <2>1. SubSeq(t, 1, m) \in Seq(Write) /\ SubSeq(s, 1, m) \in Seq(Write)
    BY <1>2, <1>4
  <2>2. Len(SubSeq(t, 1, m)) = m /\ Len(SubSeq(s, 1, m)) = m
    BY <1>2, <1>4
  <2>3. \A i \in 1..m : SubSeq(t, 1, m)[i] = SubSeq(s, 1, m)[i]
    BY <1>2, <1>4
  <2>4. QED
    BY <2>1, <2>2, <2>3, SeqEqual
<1>6. suspect' \subseteq faulted' /\ faulted \subseteq faulted'
  BY <1>1 DEF CrashInv, OtherPairs
<1>7. OneWriter'
  BY <1>1, <1>3 DEF CrashInv, OneWriter
<1>8. \A f \in Fields, x, y \in Users : Stored(f, x, y)' <=> Stored(f, x, y)
  BY <1>1 DEF Stored
<1> HIDE DEF s, t, w
<1>9. CutsAreStored'
  <2> SUFFICES ASSUME NEW e \in Devices, NEW x \in Users, NEW y \in Users, NEW f \in Fields,
                      NEW m \in saved[e][x]..Len(lane'[e][x]), NEW i \in 1..done[e],
                      session[e] = x, <<x, y>> \notin faulted',
                      IsLast(SubSeq(lane'[e][x], 1, m), i, f, y)
               PROVE  Stored(f, x, y) <=> lane'[e][x][i].op = "union"
    BY <1>1, <1>8 DEF CutsAreStored, Cut
  <2>1. <<x, y>> \notin faulted
    BY <1>6
  <2>2. CASE e = d
    <3>1. x = u /\ lane'[e][x] = t
      BY <1>3, <2>2
    <3> DEFINE k == IF m <= n THEN m ELSE n
    <3>2. /\ m \in Nat
          /\ m <= Len(t)
          /\ k \in saved[d][u]..n
          /\ k <= m
          /\ k \in 0..n
          /\ i \in 1..k
          /\ i \in 1..n
      BY <1>2, <1>4, <2>2, <3>1
    <3>3. IsLast(SubSeq(t, 1, k), i, f, y)
      BY <1>4, <3>1, <3>2, LastInShorter
    <3>4. IsLast(SubSeq(s, 1, k), i, f, y)
      BY <1>5, <3>2, <3>3
    <3>5. IsLast(Cut(d, u, k), i, f, y)
      BY <3>4 DEF Cut, s
    <3>6. Stored(f, u, y) <=> s[i].op = "union"
      BY <2>1, <2>2, <3>1, <3>2, <3>5 DEF CrashInv, CutsAreStored, s
    <3>7. QED
      BY <1>4, <3>1, <3>2, <3>6
  <2>3. CASE e # d
    <3>1. lane'[e][x] = lane[e][x]
      BY <1>3, <2>3
    <3>2. QED
      BY <2>1, <3>1 DEF CrashInv, CutsAreStored, Cut
  <2>4. QED
    BY <2>2, <2>3
<1>10. WholeLanesAgree /\ WholeLanesAgree' /\ HeldAlone /\ HeldAlone'
  <2>1. IInv
    BY DEF CrashInv
  <2>2. (IInv => WholeLanesAgree) /\ (IInv => HeldAlone)
    BY WholeAgree, HoldersAreAlone
  <2>3. (IInv => WholeLanesAgree)' /\ (IInv => HeldAlone)'
    BY WholeAgree, HoldersAreAlone, PTL
  <2>4. QED
    BY <2>1, <2>2, <2>3
<1>11. CutsAreWhole'
  <2> SUFFICES ASSUME NEW e \in Devices, NEW x \in Users, NEW y \in Users,
                      NEW m \in saved[e][x]..Len(lane'[e][x]),
                      <<x, y>> \notin faulted', Holds(e, x, y)', ~HalfCut(e, x, y, m)'
               PROVE  View(SubSeq(lane'[e][x], 1, m), "followers", x, y)
                         <=> View(SubSeq(lane'[e][x], 1, m), "following", x, y)
    BY <1>1, <1>8 DEF CutsAreWhole, Cut, View, Fields
  <2>1. <<x, y>> \notin faulted /\ <<x, y>> \notin suspect /\ <<x, y>> \notin suspect'
    BY <1>6 DEF CrashInv
  <2>2. CASE e = d /\ x = u /\ m > n
    <3>1. lane'[e][x] = t /\ m \in Nat /\ m <= Len(t) /\ n < m
      BY <1>2, <1>3, <1>4, <2>2
    <3>2. \A i \in (m + 1)..Len(t), f \in Fields : ~Touches(t[i], f, y)
      <4>1. CASE m = n + 1
        <5>1. ~Touches(t[m + 1], "following", y)
          BY <1>4, <1>3, <2>2, <3>1, <4>1 DEF HalfCut
        <5>2. v # y
          BY <1>4, <4>1, <5>1 DEF Touches
        <5>3. \A i \in (m + 1)..Len(t) : t[i] = t[n + 2]
          BY <1>2, <1>4, <4>1
        <5>4. QED
          BY <1>4, <5>2, <5>3 DEF Touches
      <4>2. CASE m = n + 2
        BY <1>2, <1>4, <4>2
      <4>3. QED
        BY <1>2, <1>4, <3>1, <4>1, <4>2
    <3>3. \A f \in Fields : View(SubSeq(t, 1, m), f, x, y) <=> View(t, f, x, y)
      <4> SUFFICES ASSUME NEW f \in Fields
                   PROVE  View(SubSeq(t, 1, m), f, x, y) <=> View(t, f, x, y)
        OBVIOUS
      <4>1. \A i \in (m + 1)..Len(t) : ~Touches(t[i], f, y)
        BY <3>2
      <4>2. /\ Pending(SubSeq(t, 1, m), f, y) <=> Pending(t, f, y)
            /\ LastIsUnion(SubSeq(t, 1, m), f, y) <=> LastIsUnion(t, f, y)
        BY <1>4, <3>1, <4>1, LaneAfterCut
      <4>3. QED
        BY <4>2, SameView
    <3>4. View(lane[e][x], "followers", x, y)' <=> View(lane[e][x], "following", x, y)'
      BY <1>10, <2>1, <2>2, <3>1 DEF HeldAlone, WholeLanesAgree
    <3>5. View(t, "followers", x, y) <=> View(t, "following", x, y)
      BY <1>8, <3>1, <3>4 DEF View, Fields
    <3>6. QED
      BY <3>1, <3>3, <3>5 DEF Fields
  <2>3. CASE ~(e = d /\ x = u /\ m > n)
    <3>1. /\ m \in saved[e][x]..Len(lane[e][x])
          /\ SubSeq(lane'[e][x], 1, m) = Cut(e, x, m)
          /\ ~HalfCut(e, x, y, m)
      <4>1. CASE e = d /\ x = u
        <5>1. m \in saved[e][x]..n /\ m \in 0..n
          BY <1>2, <1>3, <1>4, <2>3, <4>1
        <5>2. SubSeq(t, 1, m) = SubSeq(s, 1, m)
          BY <1>5, <5>1
        <5>3. m < n => ~Touches(s[m + 1], "following", y)
          BY <1>2, <1>3, <1>4, <4>1, <5>1 DEF HalfCut
        <5>4. QED
          BY <1>3, <4>1, <5>1, <5>2, <5>3 DEF HalfCut, Cut, s
      <4>2. CASE ~(e = d /\ x = u)
        BY <1>3, <4>2 DEF HalfCut, Cut
      <4>3. QED
        BY <4>1, <4>2
    <3>2. CASE Holds(e, x, y)
      BY <2>1, <3>1, <3>2 DEF CrashInv, CutsAreWhole
    <3>3. CASE ~Holds(e, x, y)
      <4>1. e = d /\ x = u /\ ~Contended(d, u, y)
        <5>1. e = d /\ x = u
          BY <1>3, <3>3 DEF Holds
        <5>2. y # v => ~Contended(d, u, y)
          <6>1. y # v => \A f \in Fields : Pending(t, f, y) <=> Pending(s, f, y)
            BY <1>2, LaneAfterTap DEF t, w
          <6>2. y = v
            BY <1>3, <3>3, <5>1, <6>1 DEF Holds, s
          <6>3. QED
            BY <6>2
        <5>3. y = v => ~Contended(d, u, y)
          BY <1>1, <5>1
        <5>4. QED
          BY <5>1, <5>2, <5>3
      <4>2. \A a \in Devices, f \in Fields : a # d => ~Pending(lane[a][u], f, y)
        BY <4>1 DEF Contended
      <4>3. View(lane[d][u], "followers", u, y) <=> View(lane[d][u], "following", u, y)
        BY <1>10, <2>1, <4>1, <4>2 DEF WholeLanesAgree
      <4>4. \A f \in Fields : ~Pending(lane[d][u], f, y) /\ ~Pending(Cut(d, u, m), f, y)
        <5>1. m \in Nat /\ m <= Len(lane[d][u]) /\ lane[d][u] \in Seq(Write)
          BY <3>1, <4>1, CutFacts
        <5>2. QED
          BY <3>3, <4>1, <5>1, PendingInPrefix DEF Holds, Cut
      <4>5. QED
        BY <3>1, <4>1, <4>3, <4>4 DEF View, Fields
    <3>4. QED
      BY <3>2, <3>3
  <2>4. QED
    BY <2>2, <2>3
<1>12. QED
  BY <1>6, <1>7, <1>9, <1>11 DEF CrashInv

\* The server applies a write that every cut still to be feared keeps: what a
\* cut says does not depend on the document written.
LEMMA CommitCut ==
    ASSUME CrashInv, TypeOK, TypeOK', IInv', NEW d \in Devices, Commit(d)
    PROVE  CrashInv'
<1> DEFINE u == session[d]
           k == done[d] + 1
           w == lane[d][u][k]
<1>1. /\ u \in Users
      /\ k \in 1..Len(lane[d][u])
      /\ k <= saved[d][u]
      /\ k \in Nat
      /\ w \in Write
      /\ done' = [done EXCEPT ![d] = k]
      /\ UNCHANGED <<session, lane, saved, suspect, faulted>>
  <2>1. u \in Users
    BY DEF TypeOK, Commit
  <2>2. QED
    BY <2>1, CommittedIsIssued DEF Commit, TypeOK
<1>2. ApplyToServer(u, w)
  BY DEF Commit
<1> HIDE DEF k, w
<1>3. \A f \in Fields, x, y \in Users :
         Stored(f, x, y)' <=> IF f = w.field /\ x = u /\ y = w.to
                              THEN w.op = "union" ELSE Stored(f, x, y)
  BY <1>1, <1>2, AppliedIsStored
<1>4. ASSUME NEW m \in saved[d][u]..Len(lane[d][u])
      PROVE  k \in 1..m /\ Touches(Cut(d, u, m)[k], w.field, w.to)
  <2>1. m \in Nat /\ \A i \in 1..m : Cut(d, u, m)[i] = lane[d][u][i]
    BY <1>1, <1>4, CutFacts
  <2>2. k \in 1..m
    <3>1. saved[d][u] \in Nat /\ Len(lane[d][u]) \in Nat
      BY <1>1, CutFacts, <1>4 DEF TypeOK
    <3>2. QED
      BY <1>1, <1>4, <3>1
  <2>3. QED
    BY <2>1, <2>2 DEF Touches, w
<1>5. Holds(d, u, w.to)
  BY <1>1 DEF Holds, Pending, Touches, w, Write
<1>6. <<u, w.to>> \notin faulted =>
         \A e \in Devices, f \in Fields : e # d => ~Pending(lane[e][u], f, w.to)
  BY <1>1, <1>5, HoldersAreAlone DEF CrashInv, HeldAlone, Write
<1>7. OneWriter'
  BY <1>1 DEF CrashInv, OneWriter
<1>8. CutsAreStored'
  <2> SUFFICES ASSUME NEW e \in Devices, NEW x \in Users, NEW y \in Users, NEW f \in Fields,
                      NEW m \in saved[e][x]..Len(lane[e][x]), NEW i \in 1..done'[e],
                      session[e] = x, <<x, y>> \notin faulted, IsLast(Cut(e, x, m), i, f, y)
               PROVE  Stored(f, x, y)' <=> lane[e][x][i].op = "union"
    BY <1>1 DEF CutsAreStored, Cut
  <2>1. /\ done'[d] = k
        /\ k = done[d] + 1
        /\ done[d] \in Nat
        /\ e # d => done'[e] = done[e]
    BY <1>1 DEF TypeOK, k
  <2>2. /\ Len(Cut(e, x, m)) = m
        /\ Cut(e, x, m) \in Seq(Write)
        /\ lane[e][x] \in Seq(Write)
        /\ m \in Nat
        /\ m <= Len(lane[e][x])
    BY CutFacts
  <2>3. CASE f = w.field /\ x = u /\ y = w.to
    <3>1. e = d
      <4>1. Pending(lane[e][x], f, y)
        BY <2>2, PendingIfLast, PendingInPrefix DEF Cut
      <4>2. QED
        BY <1>6, <2>3, <4>1
    <3>2. k \in 1..m /\ Touches(Cut(d, u, m)[k], f, y)
      BY <1>4, <2>3, <3>1
    <3>3. ~(i < k)
      <4>1. i < k => k \in (i + 1)..Len(Cut(d, u, m))
        BY <2>1, <2>2, <2>3, <3>1, <3>2
      <4>2. QED
        BY <2>3, <3>1, <3>2, <4>1 DEF IsLast
    <3>4. i = k
      BY <2>1, <3>1, <3>3
    <3>5. QED
      BY <1>3, <2>3, <3>1, <3>4 DEF w
  <2>4. CASE ~(f = w.field /\ x = u /\ y = w.to)
    <3>1. i \in 1..done[e]
      <4>1. CASE e = d
        <5>1. i # k
          BY <1>4, <2>4, <4>1 DEF IsLast, Touches
        <5>2. QED
          BY <2>1, <4>1, <5>1
      <4>2. CASE e # d
        BY <2>1, <4>2
      <4>3. QED
        BY <4>1, <4>2
    <3>2. Stored(f, x, y) <=> lane[e][x][i].op = "union"
      BY <3>1 DEF CrashInv, CutsAreStored
    <3>3. QED
      BY <1>3, <2>4, <3>2
  <2>5. QED
    BY <2>3, <2>4
<1>9. CutsAreWhole'
  <2> SUFFICES ASSUME NEW e \in Devices, NEW x \in Users, NEW y \in Users,
                      NEW m \in saved[e][x]..Len(lane[e][x]),
                      <<x, y>> \notin faulted, Holds(e, x, y), ~HalfCut(e, x, y, m)
               PROVE  View(Cut(e, x, m), "followers", x, y)' <=> View(Cut(e, x, m), "following", x, y)'
    BY <1>1 DEF CutsAreWhole, Holds, HalfCut
  <2>1. \A f \in Fields : View(Cut(e, x, m), f, x, y)' <=> View(Cut(e, x, m), f, x, y)
    <3> SUFFICES ASSUME NEW f \in Fields
                 PROVE  View(Cut(e, x, m), f, x, y)' <=> View(Cut(e, x, m), f, x, y)
      OBVIOUS
    <3>1. Cut(e, x, m)' = Cut(e, x, m)
      BY <1>1 DEF Cut
    <3>2. CASE f = w.field /\ x = u /\ y = w.to
      <4>1. e = d
        BY <1>6, <3>2 DEF Holds
      <4>2. Pending(Cut(e, x, m), f, y)
        <5>1. k \in 1..m /\ Touches(Cut(d, u, m)[k], f, y)
          BY <1>4, <3>2, <4>1
        <5>2. Len(Cut(d, u, m)) = m
          BY <1>1, <3>2, <4>1, CutFacts
        <5>3. QED
          BY <3>2, <4>1, <5>1, <5>2 DEF Pending
      <4>3. QED
        BY <3>1, <4>2 DEF View
    <3>3. CASE ~(f = w.field /\ x = u /\ y = w.to)
      BY <1>3, <3>1, <3>3 DEF View
    <3>4. QED
      BY <3>2, <3>3
  <2>2. View(Cut(e, x, m), "followers", x, y) <=> View(Cut(e, x, m), "following", x, y)
    BY DEF CrashInv, CutsAreWhole
  <2>3. QED
    BY <2>1, <2>2 DEF Fields
<1>10. QED
  BY <1>1, <1>7, <1>8, <1>9 DEF CrashInv

\* The first write of a lane leaves it and every cut of it, answered or refused.
LEMMA PopCut ==
    ASSUME CrashInv, TypeOK, TypeOK', IInv', NEW d \in Devices, NEW u \in Users,
           session[d] = u, saved[d][u] > 0, PopHead(d, u),
           UNCHANGED <<followers, following, session>>,
           \A e \in Devices : e # d => done'[e] = done[e],
           \/ done[d] > 0 /\ done'[d] = done[d] - 1
           \/ done'[d] = 0 /\ <<u, lane[d][u][1].to>> \in faulted',
           suspect' \subseteq faulted', faulted \subseteq faulted'
    PROVE  CrashInv'
<1> DEFINE s == lane[d][u]
<1>1. /\ s \in Seq(Write)
      /\ Len(s) \in Nat
      /\ saved[d][u] \in Nat
      /\ saved[d][u] <= Len(s)
      /\ done[d] \in Nat
      /\ done[d] <= saved[d][u]
      /\ s # <<>>
  BY CommittedIsIssued
<1>2. /\ lane'[d][u] = Tail(s)
      /\ saved'[d][u] = saved[d][u] - 1
      /\ \A e \in Devices, x \in Users : e # d \/ x # u =>
            lane'[e][x] = lane[e][x] /\ saved'[e][x] = saved[e][x]
  <2>1. lane \in [Devices -> [Users -> Seq(Write)]] /\ saved \in [Devices -> [Users -> Nat]]
    BY DEF TypeOK
  <2>2. /\ lane' = [lane EXCEPT ![d][u] = Tail(s)]
        /\ saved' = [saved EXCEPT ![d][u] = saved[d][u] - 1]
    BY DEF PopHead
  <2> HIDE DEF s
  <2>3. QED
    BY <2>1, <2>2
<1>3. \A f, x, y : Stored(f, x, y)' <=> Stored(f, x, y)
  BY DEF Stored
<1>4. Len(Tail(s)) = Len(s) - 1 /\ \A i \in 1..(Len(s) - 1) : Tail(s)[i] = s[i + 1]
  BY <1>1
<1> HIDE DEF s
<1>5. ASSUME NEW m \in saved'[d][u]..Len(lane'[d][u])
      PROVE  /\ m + 1 \in saved[d][u]..Len(s)
             /\ m \in Nat
             /\ SubSeq(lane'[d][u], 1, m) = Tail(Cut(d, u, m + 1))
             /\ Cut(d, u, m + 1) \in Seq(Write)
             /\ Cut(d, u, m + 1) # <<>>
             /\ Len(Cut(d, u, m + 1)) = m + 1
             /\ Cut(d, u, m + 1)[1] = s[1]
             /\ m < Len(lane'[d][u]) => m + 1 < Len(s) /\ lane'[d][u][m + 1] = s[m + 1 + 1]
  <2>1. m + 1 \in saved[d][u]..Len(s) /\ m \in Nat
    BY <1>1, <1>2, <1>4, <1>5
  <2>2. SubSeq(Tail(s), 1, (m + 1) - 1) = Tail(SubSeq(s, 1, m + 1))
    <3>1. m + 1 \in Nat /\ m + 1 > 0 /\ m + 1 <= Len(s)
      BY <1>1, <2>1
    <3>2. QED
      BY <1>1, <3>1, SavedPrefixAfterPop
  <2>3. /\ Cut(d, u, m + 1) \in Seq(Write)
        /\ Len(Cut(d, u, m + 1)) = m + 1
        /\ Cut(d, u, m + 1)[1] = s[1]
    <3>1. 1 \in 1..(m + 1)
      BY <2>1
    <3>2. QED
      BY <2>1, <3>1, CutFacts DEF s
  <2>4. Cut(d, u, m + 1) # <<>>
    BY <2>1, <2>3
  <2>5. SubSeq(lane'[d][u], 1, m) = Tail(Cut(d, u, m + 1))
    <3>1. (m + 1) - 1 = m
      BY <2>1
    <3>2. QED
      BY <1>2, <2>2, <3>1 DEF Cut, s
  <2>6. m < Len(lane'[d][u]) => m + 1 < Len(s) /\ lane'[d][u][m + 1] = s[m + 1 + 1]
    BY <1>1, <1>2, <1>4, <2>1
  <2>7. QED
    BY <2>1, <2>3, <2>4, <2>5, <2>6
<1>6. ASSUME NEW m \in saved'[d][u]..Len(lane'[d][u]), NEW f \in Fields, NEW y \in Users
      PROVE  LET c == Cut(d, u, m + 1)
             IN  /\ \A i \in Nat : IsLast(Tail(c), i, f, y) => IsLast(c, i + 1, f, y)
                 /\ ~IsLast(c, 1, f, y) =>
                       /\ Pending(Tail(c), f, y) <=> Pending(c, f, y)
                       /\ LastIsUnion(Tail(c), f, y) <=> LastIsUnion(c, f, y)
                 /\ IsLast(c, 1, f, y) =>
                       /\ ~Pending(Tail(c), f, y)
                       /\ Pending(c, f, y)
                       /\ LastIsUnion(c, f, y) <=> c[1].op = "union"
  BY <1>5, <1>6, LaneAfterPop
<1>7. OneWriter'
  BY <1>2 DEF CrashInv, OneWriter
<1>8. CutsAreStored'
  <2> SUFFICES ASSUME NEW e \in Devices, NEW x \in Users, NEW y \in Users, NEW f \in Fields,
                      NEW m \in saved'[e][x]..Len(lane'[e][x]), NEW i \in 1..done'[e],
                      session[e] = x, <<x, y>> \notin faulted',
                      IsLast(SubSeq(lane'[e][x], 1, m), i, f, y)
               PROVE  Stored(f, x, y) <=> lane'[e][x][i].op = "union"
    BY <1>3 DEF CutsAreStored, Cut
  <2>1. <<x, y>> \notin faulted
    OBVIOUS
  <2>2. CASE e = d
    <3> DEFINE c == Cut(d, u, m + 1)
    <3>1. x = u /\ m + 1 \in saved[d][u]..Len(s) /\ m \in Nat /\ i \in Nat
          /\ i + 1 \in 1..done[d] /\ i \in 1..(Len(s) - 1)
      <4>1. x = u
        BY <2>2
      <4>2. m + 1 \in saved[d][u]..Len(s) /\ m \in Nat
        BY <1>5, <2>2, <4>1
      <4>3. done'[d] = done[d] - 1
        BY <1>1, <2>2
      <4>4. QED
        BY <1>1, <2>2, <4>1, <4>2, <4>3
    <3>2. IsLast(c, i + 1, f, y)
      <4>1. m \in saved'[d][u]..Len(lane'[d][u])
        BY <2>2, <3>1
      <4>2. SubSeq(lane'[d][u], 1, m) = Tail(c)
        BY <1>5, <4>1
      <4>3. IsLast(Tail(c), i, f, y)
        BY <2>2, <3>1, <4>2
      <4>4. QED
        BY <1>6, <3>1, <4>1, <4>3
    <3>3. Stored(f, u, y) <=> s[i + 1].op = "union"
      BY <2>1, <2>2, <3>1, <3>2 DEF CrashInv, CutsAreStored, s
    <3>4. lane'[e][x][i] = s[i + 1]
      BY <1>2, <1>4, <2>2, <3>1
    <3>5. QED
      BY <2>2, <3>1, <3>3, <3>4
  <2>3. CASE e # d
    <3>1. lane'[e][x] = lane[e][x] /\ done'[e] = done[e] /\ saved'[e][x] = saved[e][x]
      BY <1>2, <2>3
    <3>2. QED
      BY <2>1, <3>1 DEF CrashInv, CutsAreStored, Cut
  <2>4. QED
    BY <2>2, <2>3
<1>9. \A e \in Devices, x, y \in Users : Holds(e, x, y)' => Holds(e, x, y)
  <2> SUFFICES ASSUME NEW e \in Devices, NEW x \in Users, NEW y \in Users, NEW f \in Fields,
                      Pending(lane'[e][x], f, y)
               PROVE  Pending(lane[e][x], f, y)
    BY DEF Holds, Fields
  <2>1. CASE e = d /\ x = u
    BY <1>1, <1>2, <2>1, LaneAfterPop DEF s
  <2>2. CASE ~(e = d /\ x = u)
    BY <1>2, <2>2
  <2>3. QED
    BY <2>1, <2>2
<1>10. CutsAreWhole'
  <2> SUFFICES ASSUME NEW e \in Devices, NEW x \in Users, NEW y \in Users,
                      NEW m \in saved'[e][x]..Len(lane'[e][x]),
                      <<x, y>> \notin faulted', Holds(e, x, y)', ~HalfCut(e, x, y, m)'
               PROVE  View(SubSeq(lane'[e][x], 1, m), "followers", x, y)
                         <=> View(SubSeq(lane'[e][x], 1, m), "following", x, y)
    BY <1>3 DEF CutsAreWhole, Cut, View
  <2>1. <<x, y>> \notin faulted /\ Holds(e, x, y)
    BY <1>9
  <2>2. CASE e = d /\ x = u
    <3> DEFINE c == Cut(d, u, m + 1)
    <3>1. m + 1 \in saved[d][u]..Len(s) /\ SubSeq(lane'[d][u], 1, m) = Tail(c) /\ c[1] = s[1]
      BY <1>5, <2>2
    <3>2. ~HalfCut(d, u, y, m + 1)
      <4> SUFFICES ASSUME m + 1 < Len(s), Touches(s[m + 1 + 1], "following", y) PROVE FALSE
        BY DEF HalfCut, s
      <4>1. m \in Nat
        BY <1>5, <2>2
      <4>2. m < Len(lane'[d][u]) /\ lane'[d][u][m + 1] = s[m + 1 + 1]
        BY <1>1, <1>2, <1>4, <4>1
      <4>3. QED
        BY <2>2, <4>2 DEF HalfCut
    <3>3. View(c, "followers", u, y) <=> View(c, "following", u, y)
      BY <2>1, <2>2, <3>1, <3>2 DEF CrashInv, CutsAreWhole, s
    <3>4. \A f \in Fields : View(Tail(c), f, u, y) <=> View(c, f, u, y)
      <4> SUFFICES ASSUME NEW f \in Fields
                   PROVE  View(Tail(c), f, u, y) <=> View(c, f, u, y)
        OBVIOUS
      <4>1. CASE ~IsLast(c, 1, f, y)
        BY <1>6, <2>2, <4>1, SameView
      <4>2. CASE IsLast(c, 1, f, y)
        <5>1. c[1].to = y
          BY <4>2 DEF IsLast, Touches
        <5>2. 1 \in 1..done[d]
          BY <1>1, <2>2, <3>1, <5>1 DEF s
        <5>3. Stored(f, u, y) <=> s[1].op = "union"
          BY <2>1, <2>2, <3>1, <4>2, <5>2 DEF CrashInv, CutsAreStored, s
        <5>4. /\ ~Pending(Tail(c), f, y)
              /\ Pending(c, f, y)
              /\ LastIsUnion(c, f, y) <=> c[1].op = "union"
          BY <1>6, <2>2, <4>2
        <5>5. QED
          BY <3>1, <5>3, <5>4 DEF View
      <4>3. QED
        BY <4>1, <4>2
    <3> HIDE DEF c
    <3>5. QED
      BY <2>2, <3>1, <3>3, <3>4 DEF Fields
  <2>3. CASE ~(e = d /\ x = u)
    <3>1. lane'[e][x] = lane[e][x] /\ saved'[e][x] = saved[e][x]
      BY <1>2, <2>3
    <3>2. QED
      BY <2>1, <3>1 DEF CrashInv, CutsAreWhole, Cut, HalfCut
  <2>4. QED
    BY <2>2, <2>3
<1>11. QED
  BY <1>7, <1>8, <1>10 DEF CrashInv

\* What a crash of phone d does to the lanes.
LEMMA CrashLanes ==
    ASSUME TypeOK, NEW d \in Devices, Crash(d)
    PROVE  /\ \A x \in Users : lane'[d][x] = Cut(d, x, saved[d][x])
           /\ \A e \in Devices, x \in Users : e # d => lane'[e][x] = lane[e][x]
           /\ \A e \in Devices : e # d => session'[e] = session[e] /\ done'[e] = done[e]
           /\ session'[d] = NoUser
           /\ done'[d] = 0
           /\ UNCHANGED <<followers, following, saved>>
           /\ suspect' = suspect \cup UnsavedPairs(d)
           /\ faulted' = faulted \cup UnsavedPairs(d)
<1>1. lane' = [lane EXCEPT ![d] = [x \in Users |-> SubSeq(lane[d][x], 1, saved[d][x])]]
  BY DEF Crash, TypeOK
<1>2. /\ \A x \in Users : lane'[d][x] = SubSeq(lane[d][x], 1, saved[d][x])
      /\ \A e \in Devices, x \in Users : e # d => lane'[e][x] = lane[e][x]
  BY <1>1 DEF TypeOK
<1>3. QED
  BY <1>2 DEF Crash, TypeOK, server, Cut

\* A crash leaves whole lanes behind, and Reciprocity speaks of those.
LEMMA CrashCut ==
    ASSUME CrashInv, TypeOK, TypeOK', IInv', NEW d \in Devices, Crash(d)
    PROVE  CrashInv'
<1>1. /\ \A x \in Users : lane'[d][x] = Cut(d, x, saved[d][x])
      /\ \A e \in Devices, x \in Users : e # d => lane'[e][x] = lane[e][x]
      /\ \A e \in Devices : e # d => session'[e] = session[e] /\ done'[e] = done[e]
      /\ session'[d] = NoUser
      /\ done'[d] = 0
      /\ UNCHANGED <<followers, following, saved>>
      /\ suspect' = suspect \cup UnsavedPairs(d)
      /\ faulted' = faulted \cup UnsavedPairs(d)
  BY CrashLanes
<1>2. \A f, x, y : Stored(f, x, y)' <=> Stored(f, x, y)
  BY <1>1 DEF Stored
<1>3. suspect' \subseteq faulted'
  BY <1>1 DEF CrashInv
<1>4. OneWriter'
  BY <1>1 DEF CrashInv, OneWriter
<1>5. CutsAreStored'
  <2> SUFFICES ASSUME NEW e \in Devices, NEW x \in Users, NEW y \in Users, NEW f \in Fields,
                      NEW m \in saved[e][x]..Len(lane'[e][x]), NEW i \in 1..done'[e],
                      session'[e] = x, <<x, y>> \notin faulted',
                      IsLast(SubSeq(lane'[e][x], 1, m), i, f, y)
               PROVE  Stored(f, x, y) <=> lane'[e][x][i].op = "union"
    BY <1>1, <1>2 DEF CutsAreStored, Cut
  <2>1. e # d
    BY <1>1
  <2>2. QED
    BY <1>1, <2>1 DEF CrashInv, CutsAreStored, Cut
<1>6. WholeLanesAgree' /\ HeldAlone'
  <2>1. (IInv => WholeLanesAgree)' /\ (IInv => HeldAlone)'
    BY WholeAgree, HoldersAreAlone, PTL
  <2>2. QED
    BY <2>1
<1>7. CutsAreWhole'
  <2> SUFFICES ASSUME NEW e \in Devices, NEW x \in Users, NEW y \in Users,
                      NEW m \in saved[e][x]..Len(lane'[e][x]),
                      <<x, y>> \notin faulted', Holds(e, x, y)', ~HalfCut(e, x, y, m)'
               PROVE  View(SubSeq(lane'[e][x], 1, m), "followers", x, y)
                         <=> View(SubSeq(lane'[e][x], 1, m), "following", x, y)
    BY <1>1, <1>2 DEF CutsAreWhole, Cut, View
  <2>1. CASE e = d
    <3>1. lane'[d][x] \in Seq(Write) /\ m = Len(lane'[d][x])
      <4>1. saved[d][x] \in saved[d][x]..Len(lane[d][x]) /\ saved[d][x] \in Nat
        <5>1. /\ saved[d][x] \in Nat
              /\ lane[d][x] \in Seq(Write)
              /\ saved[d][x] <= Len(lane[d][x])
          BY SavedPrefixLength
        <5>2. QED
          BY <5>1
      <4>2. Len(Cut(d, x, saved[d][x])) = saved[d][x] /\ Cut(d, x, saved[d][x]) \in Seq(Write)
        BY <4>1, CutFacts
      <4>3. QED
        BY <1>1, <2>1, <4>1, <4>2
    <3>2. SubSeq(lane'[d][x], 1, m) = lane'[d][x]
      BY <3>1
    <3>3. <<x, y>> \notin suspect'
      BY <1>3
    <3>4. View(lane[d][x], "followers", x, y)' <=> View(lane[d][x], "following", x, y)'
      BY <1>6, <2>1, <3>3 DEF HeldAlone, WholeLanesAgree
    <3>5. QED
      BY <1>2, <2>1, <3>2, <3>4 DEF View
  <2>2. CASE e # d
    BY <1>1, <2>2 DEF CrashInv, CutsAreWhole, Cut, HalfCut, Holds
  <2>3. QED
    BY <2>1, <2>2
<1>8. QED
  BY <1>3, <1>4, <1>5, <1>7 DEF CrashInv

\* Every action, or none, preserves it.
LEMMA CrashInvStep == CrashInv /\ [Next]_vars => CrashInv'
<1> SUFFICES ASSUME CrashInv, [Next]_vars PROVE CrashInv'
  OBVIOUS
<1>1. TypeOK /\ TypeOK' /\ IInv /\ IInv'
  BY TypeStep, IndStep DEF IInv, CrashInv
<1>2. ASSUME NEW d \in Devices, NEW u \in Users, Login(d, u) PROVE CrashInv'
  <2>1. /\ UNCHANGED <<followers, following, lane, saved, done, suspect, faulted>>
        /\ \A a \in Users : saved[d][a] = Len(lane[d][a])
        /\ \A e \in Devices : e # d => session'[e] = session[e]
    BY <1>1, <1>2 DEF Login, server, TypeOK
  <2>2. OneWriter'
    BY <2>1 DEF CrashInv, OneWriter
  <2>3. done[d] = 0 /\ saved \in [Devices -> [Users -> Nat]]
    BY <1>1, <1>2 DEF Login, TypeOK
  <2>4. \A e \in Devices : done'[e] = 0 \/ (done'[e] = done[e] /\ session'[e] = session[e])
    BY <2>1, <2>3
  <2>5. \A e \in Devices, x \in Users : saved[e][x] <= saved'[e][x]
    BY <2>1, <2>3
  <2>6. QED
    BY <1>1, <2>1, <2>2, <2>4, <2>5, QuietCut
<1>3. ASSUME NEW d \in Devices, NEW u \in Users, Persist(d, u) PROVE CrashInv'
  <2>1. /\ UNCHANGED <<followers, following, session, lane, done, suspect, faulted>>
        /\ saved[d][u] < Len(lane[d][u])
        /\ \A e \in Devices, x \in Users :
              saved'[e][x] = IF e = d /\ x = u THEN saved[e][x] + 1 ELSE saved[e][x]
    BY <1>1, <1>3 DEF Persist, server, TypeOK
  <2>2. OneWriter'
    <3>1. lane[d][u] \in Seq(Write) /\ saved[d][u] \in Nat
      BY <1>1 DEF TypeOK
    <3>2. saved[d][u] # Len(lane[d][u])
      BY <2>1, <3>1
    <3>3. QED
      BY <2>1, <3>2 DEF CrashInv, OneWriter
  <2>3. saved \in [Devices -> [Users -> Nat]]
    BY <1>1 DEF TypeOK
  <2>4. \A e \in Devices, x \in Users : saved[e][x] <= saved'[e][x]
    BY <2>1, <2>3
  <2>5. QED
    BY <1>1, <2>1, <2>2, <2>4, QuietCut
<1>4. ASSUME UNCHANGED <<followers, following, lane, saved, suspect, faulted>>,
             \A e \in Devices : \/ done'[e] = 0 /\ session'[e] \in {session[e], NoUser}
                                \/ done'[e] = done[e] /\ session'[e] = session[e]
      PROVE  CrashInv'
  <2>1. \A e \in Devices, x \in Users : saved[e][x] <= saved'[e][x]
    BY <1>1, <1>4 DEF TypeOK
  <2>2. OneWriter'
    BY <1>4 DEF CrashInv, OneWriter
  <2>3. QED
    BY <1>1, <1>4, <2>1, <2>2, QuietCut
<1>5. ASSUME NEW d \in Devices, Logout(d) PROVE CrashInv'
  <2>1. \A e \in Devices : \/ done'[e] = 0 /\ session'[e] \in {session[e], NoUser}
                           \/ done'[e] = done[e] /\ session'[e] = session[e]
    BY <1>1, <1>5 DEF Logout, TypeOK
  <2>2. QED
    BY <1>4, <1>5, <2>1 DEF Logout, server
<1>6. ASSUME NEW d \in Devices, StreamBreak(d) PROVE CrashInv'
  <2>1. \A e \in Devices : \/ done'[e] = 0 /\ session'[e] \in {session[e], NoUser}
                           \/ done'[e] = done[e] /\ session'[e] = session[e]
    BY <1>1, <1>6 DEF StreamBreak, TypeOK
  <2>2. QED
    BY <1>4, <1>6, <2>1 DEF StreamBreak, server
<1>7. ASSUME NEW d \in Devices, RefreshDiscover(d) PROVE CrashInv'
  BY <1>4, <1>7 DEF RefreshDiscover, server
<1>8. ASSUME NEW d \in Devices, RefreshConnections(d) PROVE CrashInv'
  BY <1>4, <1>8 DEF RefreshConnections, server
<1>9. ASSUME NEW d \in Devices, Follow(d) PROVE CrashInv'
  <2>1. PICK v \in people[d] : Issue(d, session[d], v, FollowWrites(v))
    BY <1>9 DEF Follow
  <2>2. session[d] \in Users /\ v \in Users
    BY <1>1, <1>9 DEF Follow, TypeOK
  <2>3. QED
    BY <1>1, <2>1, <2>2, FollowIsATap, IssueCut DEF Ops
<1>10. ASSUME NEW d \in Devices, Unfollow(d) PROVE CrashInv'
  <2>1. PICK v \in listed[d] : Issue(d, session[d], v, UnfollowWrites(v))
    BY <1>10 DEF Unfollow
  <2>2. session[d] \in Users /\ v \in Users
    BY <1>1, <1>10 DEF Unfollow, TypeOK
  <2>3. QED
    BY <1>1, <2>1, <2>2, UnfollowIsATap, IssueCut DEF Ops
<1>11. ASSUME NEW d \in Devices, Commit(d) PROVE CrashInv'
  BY <1>1, <1>11, CommitCut
<1>12. ASSUME NEW d \in Devices, Ack(d) PROVE CrashInv'
  <2>1. session[d] \in Users
    BY <1>1, <1>12 DEF Ack, TypeOK
  <2>2. saved[d][session[d]] > 0
    BY <1>1, <1>12, <2>1, CommittedIsIssued DEF Ack
  <2>3. /\ done[d] > 0
        /\ done'[d] = done[d] - 1
        /\ \A e \in Devices : e # d => done'[e] = done[e]
        /\ PopHead(d, session[d])
        /\ UNCHANGED <<followers, following, session, suspect, faulted>>
    BY <1>1, <1>12 DEF Ack, server, TypeOK
  <2>4. QED
    BY <1>1, <2>1, <2>2, <2>3, PopCut DEF CrashInv
<1>13. ASSUME NEW d \in Devices, Reject(d) PROVE CrashInv'
  <2>1. /\ session[d] \in Users
        /\ saved[d][session[d]] > 0
        /\ done' = done
        /\ done[d] = 0
        /\ PopHead(d, session[d])
        /\ UNCHANGED <<followers, following, session>>
    BY <1>1, <1>13 DEF Reject, server, TypeOK
  <2>2. Head(lane[d][session[d]]) = lane[d][session[d]][1]
    BY <1>1, <2>1, CommittedIsIssued
  <2>3. /\ faulted' = faulted \cup {<<session[d], lane[d][session[d]][1].to>>}
        /\ suspect' \subseteq suspect \cup {<<session[d], lane[d][session[d]][1].to>>}
    BY <1>13, <2>2 DEF Reject
  <2>4. suspect' \subseteq faulted' /\ faulted \subseteq faulted'
    BY <2>3 DEF CrashInv
  <2>5. QED
    BY <1>1, <2>1, <2>3, <2>4, PopCut
<1>14. ASSUME NEW d \in Devices, Crash(d) PROVE CrashInv'
  BY <1>1, <1>14, CrashCut
<1>15. CASE UNCHANGED vars
  BY <1>4, <1>15 DEF vars
<1>16. QED
  BY <1>2, <1>3, <1>5, <1>6, <1>7, <1>8, <1>9, <1>10, <1>11, <1>12, <1>13, <1>14, <1>15 DEF Next

\* A pair no fault had touched that a crash leaves torn is the one whose tap was
\* half saved on that phone.
LEMMA TornIsHalfSaved ==
    ASSUME CrashInv, CrashInv', NEW d \in Devices, Crash(d),
           NEW u \in Users, NEW v \in Users, <<u, v>> \in TornPairs', <<u, v>> \notin faulted
    PROVE  /\ u = session[d]
           /\ lane[d][u][saved[d][u] + 1].to = v
<1> DEFINE m == saved[d][u]
           c == Cut(d, u, m)
<1>1. /\ \A x \in Users : lane'[d][x] = Cut(d, x, saved[d][x])
      /\ \A e \in Devices, x \in Users : e # d => lane'[e][x] = lane[e][x]
      /\ UNCHANGED <<followers, following, saved>>
  BY CrashLanes DEF CrashInv, IInv
<1>2. TypeOK /\ session[d] # NoUser
  BY DEF CrashInv, IInv, Crash
<1>3. m \in m..Len(lane[d][u])
  BY <1>2 DEF TypeOK
<1>4. /\ lane[d][u] \in Seq(Write)
      /\ m \in Nat
      /\ m <= Len(lane[d][u])
  BY <1>2, <1>3, CutFacts
<1>5. ~(Settled("followers", u, v)' <=> Settled("following", u, v)')
  BY DEF TornPairs
<1>6. Settled("followers", u, v) <=> Settled("following", u, v)
  BY DEF CrashInv, IInv, ReciprocalUnlessSuspect
<1>7. \E f \in Fields : Pending(lane[d][u], f, v)
  <2> SUFFICES ASSUME \A f \in Fields : ~Pending(lane[d][u], f, v) PROVE FALSE
    OBVIOUS
  <2>1. \A f \in Fields : ~Pending(lane'[d][u], f, v)
    <3>1. lane'[d][u] = SubSeq(lane[d][u], 1, m)
      BY <1>1 DEF Cut
    <3>2. QED
      BY <1>4, <3>1, PendingInPrefix
  <2>2. \A f \in Fields : ~LastIsUnion(lane'[d][u], f, v) /\ ~LastIsUnion(lane[d][u], f, v)
    BY <2>1, PendingIfUnion
  <2>3. \A f \in Fields : Settled(f, u, v)' <=> Settled(f, u, v)
    BY <1>1, <2>1, <2>2 DEF Settled, Stored
  <2>4. QED
    BY <1>5, <1>6, <2>3 DEF Fields
<1>8. \A e \in Devices, f \in Fields : e # d => ~Pending(lane[e][u], f, v)
  BY <1>7, HoldersAreAlone DEF CrashInv, HeldAlone, Holds
<1>9. \A f \in Fields : Settled(f, u, v)' <=> View(c, f, u, v)
  <2> SUFFICES ASSUME NEW f \in Fields PROVE Settled(f, u, v)' <=> View(c, f, u, v)
    OBVIOUS
  <2>1. \A e \in Devices : e # d => ~Pending(lane'[e][u], f, v)
    BY <1>1, <1>8
  <2>2. Stored(f, u, v)' <=> Stored(f, u, v)
    BY <1>1 DEF Stored
  <2>3. lane'[d][u] = c
    BY <1>1
  <2> HIDE DEF c
  <2>4. QED
    BY <2>1, <2>2, <2>3, PendingIfUnion DEF Settled, View
<1>10. HalfCut(d, u, v, m)
  BY <1>3, <1>5, <1>7, <1>9 DEF CrashInv, CutsAreWhole, Holds, Fields
<1>11. m < Len(lane[d][u]) /\ lane[d][u][m + 1].to = v
  BY <1>10 DEF HalfCut, Touches
<1>12. u = session[d]
  BY <1>2, <1>4, <1>11 DEF CrashInv, OneWriter
<1>13. QED
  BY <1>11, <1>12

\* However many accounts and phones there are and whatever faults strike: a
\* crash tears at most one pair that no fault had touched before, the one whose
\* tap the worker queue had saved half of.
THEOREM CrashTearsOnePair == Spec => CrashTearsAtMostOnePair
<1>1. Init => CrashInv
  <2> SUFFICES ASSUME Init PROVE CrashInv
    OBVIOUS
  <2>1. IInv
    BY IndInit
  <2>2. \A d \in Devices, u \in Users : lane[d][u] = <<>> /\ saved[d][u] = 0 /\ done[d] = 0
    BY DEF Init
  <2>3. OneWriter /\ CutsAreStored
    BY <2>2 DEF OneWriter, CutsAreStored
  <2>4. \A d \in Devices, u, v \in Users : ~Holds(d, u, v)
    BY <2>2 DEF Holds, Pending
  <2>5. suspect \subseteq faulted
    BY DEF Init
  <2>6. QED
    BY <2>1, <2>3, <2>4, <2>5 DEF CrashInv, CutsAreWhole
<1>2. CrashInv /\ CrashInv' /\ [Next]_vars =>
         [\A d \in Devices : Crash(d) => \A p, q \in TornPairs' \ faulted : p = q]_vars
  <2> SUFFICES ASSUME CrashInv, CrashInv', NEW d \in Devices, Crash(d),
                      NEW p \in TornPairs' \ faulted, NEW q \in TornPairs' \ faulted
               PROVE  p = q
    OBVIOUS
  <2>1. PICK u \in Users, v \in Users : p = <<u, v>>
    BY DEF TornPairs
  <2>2. PICK x \in Users, y \in Users : q = <<x, y>>
    BY DEF TornPairs
  <2>3. u = session[d] /\ lane[d][u][saved[d][u] + 1].to = v
    BY <2>1, TornIsHalfSaved
  <2>4. x = session[d] /\ lane[d][x][saved[d][x] + 1].to = y
    BY <2>2, TornIsHalfSaved
  <2>5. QED
    BY <2>1, <2>2, <2>3, <2>4
<1>3. QED
  BY <1>1, <1>2, CrashInvStep, PTL DEF Spec, CrashTearsAtMostOnePair
=============================================================================
