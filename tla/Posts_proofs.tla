---------------------------- MODULE Posts_proofs ----------------------------
(***************************************************************************)
(* Theorems about Posts, for any accounts, phones, posts, faults and       *)
(* number of taps.                                                         *)
(***************************************************************************)
EXTENDS Posts, SequenceTheorems, WellFoundedInduction, TLAPS

-----------------------------------------------------------------------------
(* The inductive invariant, in parts.                                      *)

Toggles == {"like", "unlike"}

\* In one queue, nothing about a post comes before its "create", and only the
\* "create" comes before its "name".
Ordered(s) ==
    \A i, j \in 1..Len(s) : i < j /\ s[i].id = s[j].id =>
        s[j].kind # "create" /\ (s[j].kind = "name" => s[i].kind = "create")
Behind(s, t) ==
    \A i \in 1..Len(s), j \in 1..Len(t) : s[i].id = t[j].id =>
        t[j].kind # "create" /\ (t[j].kind = "name" => s[i].kind = "create")
InOrder == \A d \in Devices : Ordered(lane[d]) /\ Ordered(worker[d]) /\ Behind(lane[d], worker[d])

\* d has a task of these kinds for p, in memory or on disk.
Has(d, p, kinds) == HasTask(lane[d], p, kinds) \/ HasTask(worker[d], p, kinds)
Writing(d, p) == Has(d, p, {"create", "name"})

\* d's account has tapped p's like on d, and the server does not know it yet.
Active(d, p) == Reading(d, p) \/ Has(d, p, Toggles)

\* A post is written by one phone, of its author.
OneWriter ==
    \A d \in Devices, p \in Ids : Writing(d, p) =>
        /\ by[p] = owner[d]
        /\ \A e \in Devices : Writing(e, p) => e = d

\* Nobody has met a document id that is not in use.
UnusedIsUnknown ==
    \A p \in Ids : by[p] = NoUser =>
        /\ docs[p] = NoDoc /\ p \notin deleted
        /\ \A d \in Devices :
              /\ cache[d][p] = NoDoc
              /\ \A b \in BOOLEAN : <<p, b>> \notin rows[d]
              /\ ~Has(d, p, Kinds)
              /\ ~Reading(d, p)

\* The second write of a post waits behind the first.
NameFollows ==
    \A d \in Devices, p \in Ids :
        /\ (HasTask(lane[d], p, {"create"}) /\ p \notin torn) => Has(d, p, {"name"})
        /\ HasTask(worker[d], p, {"create"}) =>
              HasTask(worker[d], p, {"name"}) /\ docs[p] = NoDoc

CommittedNames ==
    \A d \in Devices : \A i \in 1..done[d] :
        lane[d][i].kind = "name" => docs[lane[d][i].id] = NoDoc \/ docs[lane[d][i].id].named

\* EveryPostGetsItsId, of queues in memory and on disk.
NamesOnTheirWay ==
    \A p \in Ids \ torn :
        Readable(docs[p]) /\ ~docs[p].named => \E d \in Devices : owner[d] = by[p] /\ Has(d, p, {"name"})

\* Queued tasks that delete a post, and what they have done.
Deletes ==
    /\ \A d \in Devices, p \in Ids : Has(d, p, {"delete"}) => p \in deleted
    /\ \A d, e \in Devices, p \in Ids \ contested :
          Has(d, p, {"delete"}) /\ Writing(e, p) => e = d
    /\ \A d \in Devices : \A i \in 1..done[d] :
          lane[d][i].kind = "delete" /\ lane[d][i].id \notin contested => docs[lane[d][i].id] = NoDoc
    /\ \A p \in deleted \ contested :
          \/ \E d \in Devices : Has(d, p, {"delete"})
          \/ docs[p] = NoDoc /\ \A d \in Devices : ~Writing(d, p)

\* The documents of posts that were not deleted can be read.
Authored ==
    \A p \in Ids \ deleted :
        /\ docs[p] # NoDoc => docs[p].author # NoUser
        /\ \A d \in Devices : cache[d][p] # NoDoc => cache[d][p].author # NoUser

\* What the server has committed to them is there.
Arrived ==
    \A p \in Ids \ deleted, d \in Devices : \A i \in 1..done[d] : lane[d][i].id = p => docs[p] # NoDoc

\* Those that are not on the server, or on disk, are still being created by
\* whoever knows them.
StillComing ==
    \A p \in Ids \ deleted, d \in Devices :
        /\ docs[p] = NoDoc => /\ cache[d][p] = NoDoc
                              /\ Active(d, p) \/ <<p, TRUE>> \in rows[d] => Has(d, p, {"create"})
        /\ cache[d][p] = NoDoc /\ Has(d, p, {"name"}) => Has(d, p, {"create"})

Clear(u, p) == u \in Users /\ p \in Ids \ deleted /\ <<u, p>> \notin blurred

\* Clear taps of an account wait on one phone only.
OneBusy ==
    \A d, e \in Devices, p \in Ids :
        /\ owner[d] = owner[e] /\ Clear(owner[d], p)
        /\ Active(d, p)
        /\ Active(e, p) \/ Has(e, p, {"create"})
        => e = d

\* One of them waits for the document, and no later one has been decided.
Asked(d, p) == \E i \in 1..Len(reads[d]) : reads[d][i] = p
Told(d, p) == \E i \in 1..Len(answers[d]) : answers[d][i].id = p
InTurn(s, p) ==
    \A i, j \in 1..Len(s) :
        i < j /\ s[i].id = p /\ s[i].kind = "read" /\ s[j].id = p =>
            s[j].kind \notin Toggles \cup {"read"}
InTurnOn(d, p) ==
    /\ InTurn(worker[d], p)
    /\ Asked(d, p) \/ Told(d, p) => ~HasTask(worker[d], p, Toggles \cup {"read"})
    /\ Asked(d, p) => ~Told(d, p)
    /\ \A i, j \in 1..Len(reads[d]) : reads[d][i] = p /\ reads[d][j] = p => i = j
    /\ \A i, j \in 1..Len(answers[d]) : answers[d][i].id = p /\ answers[d][j].id = p => i = j
OneRead == \A d \in Devices, p \in Ids : Clear(owner[d], p) => InTurnOn(d, p)

LikesUpTo(s, n, p) ==
    \E i \in 1..n :
        /\ s[i].id = p /\ s[i].kind = "like"
        /\ \A j \in i + 1 .. n : s[j].id = p => s[j].kind # "unlike"

\* The server's document shows the last toggle it has committed.
CommittedToggles ==
    \A d \in Devices, p \in Ids :
        /\ Clear(owner[d], p)
        /\ \E i \in 1..done[d] : lane[d][i].id = p /\ lane[d][i].kind \in Toggles
        => (owner[d] \in docs[p].likes <=> LikesUpTo(lane[d], done[d], p))

\* Nobody likes a post that their own phone is still creating.
NoLikeYet ==
    \A d \in Devices, p \in Ids :
        /\ Clear(owner[d], p)
        /\ HasTask(lane[d], p, {"create"})
        /\ ~HasTask(lane[d], p, Toggles)
        /\ docs[p] # NoDoc
        => owner[d] \notin docs[p].likes

\* The documents on disk agree with the server's about an account that uses
\* one phone and has no toggle on its way.
CacheAgrees ==
    \A d \in Devices, p \in Ids :
        /\ Clear(owner[d], p)
        /\ DevicesOf(owner[d]) = {d}
        /\ cache[d][p] # NoDoc
        /\ ~HasTask(lane[d], p, Toggles)
        => (owner[d] \in cache[d][p].likes <=> owner[d] \in docs[p].likes)

\* An answer that is still to be decided by tells what the account's writes make
\* of the likes.
Answered ==
    \A d \in Devices, p \in Ids : Clear(owner[d], p) =>
        \A i \in 1..Len(answers[d]) : answers[d][i].id = p =>
            /\ answers[d][i].seen \in {"gone", "liked", "plain"}
            /\ answers[d][i].seen = "liked" => WillLike(owner[d], p)
            /\ answers[d][i].seen = "plain" => ~WillLike(owner[d], p)

\* Every tap counts, but for the one whose document is still read.
Parity ==
    \A u \in Users, p \in Ids : Clear(u, p) =>
        (WillLike(u, p) <=> (<<u, p>> \in odd <=> \A d \in DevicesOf(u) : ~Reading(d, p)))

-----------------------------------------------------------------------------
(* Documents under the writes of a queue.                                  *)

\* A set of numbers with 0 and, with each number, the next one has them all.
LEMMA NatInd ==
    ASSUME NEW S, 0 \in S, \A n \in Nat : n \in S => n + 1 \in S
    PROVE  Nat \subseteq S
<1> DEFINE R == OpToRel(<, Nat)
           T == Nat \ S
<1> SUFFICES ASSUME T # {} PROVE FALSE
  OBVIOUS
<1>1. PICK x \in T : \A y \in T : <<y, x>> \notin R
  <2>1. IsWellFoundedOn(R, Nat)
    BY NatLessThanWellFounded
  <2>2. T \subseteq Nat
    OBVIOUS
  <2> HIDE DEF R, T
  <2>3. QED
    BY <2>1, <2>2, WFMin
<1>2. x # 0 /\ x \in Nat
  OBVIOUS
<1>3. x - 1 \in Nat /\ (x - 1) + 1 = x /\ x - 1 < x
  BY <1>2
<1>4. x - 1 \in T
  BY <1>2, <1>3
<1>5. <<x - 1, x>> \in R
  BY <1>2, <1>3 DEF OpToRel
<1>6. QED
  BY <1>1, <1>4, <1>5

\* What one more write makes of a document of p.
OneMore(doc, w, u, p) == IF w.id = p THEN Apply(doc, w.kind, u) ELSE doc
Layers(v, s, u, p, doc) ==
    v = [i \in 0..Len(s) |-> IF i = 0 THEN doc
                             ELSE IF s[i].id = p THEN Apply(v[i - 1], s[i].kind, u)
                             ELSE v[i - 1]]

\* The recursion of After has a solution for every queue.
LEMMA LayersExist ==
    ASSUME NEW s, Len(s) \in Nat, NEW u, NEW p, NEW doc
    PROVE  \E v : Layers(v, s, u, p, doc)
<1> DEFINE Upto(v, n) == v = [i \in 0..n |-> IF i = 0 THEN doc ELSE OneMore(v[i - 1], s[i], u, p)]
           S == {n \in Nat : \E v : Upto(v, n)}
<1>1. 0 \in S
  <2>1. Upto([i \in 0..0 |-> doc], 0)
    OBVIOUS
  <2>2. QED
    BY <2>1
<1>2. ASSUME NEW n \in Nat, n \in S PROVE n + 1 \in S
  <2>1. PICK v : Upto(v, n)
    BY <1>2
  <2> DEFINE w == [i \in 0..n + 1 |-> IF i = n + 1 THEN OneMore(v[n], s[n + 1], u, p) ELSE v[i]]
  <2>2. v[0] = doc /\ w[0] = doc
    BY <2>1
  <2>3. ASSUME NEW i \in 0..n + 1, i # 0 PROVE w[i] = OneMore(w[i - 1], s[i], u, p)
    <3>1. i - 1 \in 0..n /\ w[i - 1] = v[i - 1]
      BY <2>3
    <3>2. CASE i = n + 1
      BY <3>1, <3>2
    <3>3. CASE i # n + 1
      <4>1. i \in 0..n
        BY <3>3, <2>3
      <4>2. v[i] = OneMore(v[i - 1], s[i], u, p)
        BY <2>1, <4>1, <2>3
      <4>3. QED
        BY <3>1, <3>3, <4>1, <4>2
    <3>4. QED
      BY <3>2, <3>3
  <2>4. w = [i \in 0..n + 1 |-> IF i = 0 THEN doc ELSE OneMore(w[i - 1], s[i], u, p)]
    <3>1. \A i \in 0..n + 1 : w[i] = IF i = 0 THEN doc ELSE OneMore(w[i - 1], s[i], u, p)
      BY <2>2, <2>3
    <3> DEFINE x == [i \in 0..n + 1 |-> IF i = 0 THEN doc ELSE OneMore(w[i - 1], s[i], u, p)]
    <3>2. \A i \in 0..n + 1 : w[i] = x[i]
      BY <3>1
    <3>3. w = x
      BY <3>2
    <3>4. QED
      BY <3>3
  <2>5. Upto(w, n + 1)
    BY <2>4
  <2>6. \E x : Upto(x, n + 1)
    BY <2>5
  <2>7. QED
    BY <2>6
<1>3. Nat \subseteq S
  <2> HIDE DEF S
  <2>1. QED
    BY <1>1, <1>2, NatInd
<1>4. Len(s) \in S
  BY <1>3
<1>5. PICK v : Upto(v, Len(s))
  BY <1>4
<1>6. Layers(v, s, u, p, doc)
  BY <1>5 DEF Layers, OneMore
<1>7. QED
  BY <1>6

\* v[i] is what the first i writes of s make of doc.
Stacked(v, s, u, p, doc) ==
    /\ v[0] = doc
    /\ \A i \in 1..Len(s) : v[i] = OneMore(v[i - 1], s[i], u, p)
    /\ After(s, u, p, doc) = v[Len(s)]

\* After takes one write after the other.
LEMMA AfterSteps ==
    ASSUME NEW s, Len(s) \in Nat, NEW u, NEW p, NEW doc
    PROVE  \E v : Stacked(v, s, u, p, doc)
<1> DEFINE v == CHOOSE v : Layers(v, s, u, p, doc)
<1>1. Layers(v, s, u, p, doc)
  BY LayersExist
<1>2. After(s, u, p, doc) = v[Len(s)]
  BY DEF After, Layers
<1> HIDE DEF v
<1>3. v[0] = doc
  BY <1>1 DEF Layers
<1>4. ASSUME NEW i \in 1..Len(s) PROVE v[i] = OneMore(v[i - 1], s[i], u, p)
  <2>1. i \in 0..Len(s) /\ i # 0
    OBVIOUS
  <2>2. QED
    BY <1>1, <2>1 DEF Layers, OneMore
<1>5. QED
  BY <1>2, <1>3, <1>4 DEF Stacked

\* A write makes a document of a document, or of none.
LEMMA ApplyType ==
    ASSUME NEW doc \in Doc \cup {NoDoc}, NEW kind \in Kinds, NEW u \in Users
    PROVE  Apply(doc, kind, u) \in Doc \cup {NoDoc}
<1>1. CASE kind = "create"
  BY <1>1 DEF Apply, Doc
<1>2. CASE kind = "name"
  BY <1>2 DEF Apply, Doc
<1>3. CASE kind = "like"
  BY <1>3 DEF Apply, Doc
<1>4. CASE kind = "unlike"
  BY <1>4 DEF Apply, Doc
<1>5. CASE kind = "delete"
  BY <1>5 DEF Apply, Doc
<1>6. QED
  BY <1>1, <1>2, <1>3, <1>4, <1>5 DEF Kinds

\* So does a queue.
LEMMA AfterType ==
    ASSUME NEW s \in Seq(Write), NEW u \in Users, NEW p \in Ids, NEW doc \in Doc \cup {NoDoc}
    PROVE  After(s, u, p, doc) \in Doc \cup {NoDoc}
<1>1. Len(s) \in Nat
  OBVIOUS
<1>2. PICK v : Stacked(v, s, u, p, doc)
  BY <1>1, AfterSteps
<1>3. /\ v[0] = doc
      /\ \A i \in 1..Len(s) : v[i] = OneMore(v[i - 1], s[i], u, p)
      /\ After(s, u, p, doc) = v[Len(s)]
  BY <1>2 DEF Stacked
<1> DEFINE S == {n \in Nat : n <= Len(s) => v[n] \in Doc \cup {NoDoc}}
<1>4. 0 \in S
  BY <1>3
<1>5. ASSUME NEW n \in Nat, n \in S PROVE n + 1 \in S
  <2>1. SUFFICES ASSUME n + 1 <= Len(s) PROVE v[n + 1] \in Doc \cup {NoDoc}
    OBVIOUS
  <2>2. v[n] \in Doc \cup {NoDoc} /\ s[n + 1] \in Write
    BY <2>1, <1>5
  <2>3. n + 1 \in 1..Len(s) /\ (n + 1) - 1 = n
    BY <2>1
  <2>4. v[n + 1] = OneMore(v[n], s[n + 1], u, p)
    BY <1>3, <2>3
  <2>5. Apply(v[n], s[n + 1].kind, u) \in Doc \cup {NoDoc}
    BY <2>2, ApplyType DEF Write
  <2>6. QED
    BY <2>2, <2>4, <2>5 DEF OneMore
<1>6. Nat \subseteq S
  <2> HIDE DEF S
  <2>1. QED
    BY <1>4, <1>5, NatInd
<1>7. QED
  BY <1>1, <1>3, <1>6

\* No queue makes a post that it does not write.
LEMMA AfterNothing ==
    ASSUME NEW s \in Seq(Write), NEW u \in Users, NEW p \in Ids,
           ~HasTask(s, p, {"create", "name"})
    PROVE  After(s, u, p, NoDoc) = NoDoc
<1>1. Len(s) \in Nat
  OBVIOUS
<1>2. PICK v : Stacked(v, s, u, p, NoDoc)
  BY <1>1, AfterSteps
<1>3. /\ v[0] = NoDoc
      /\ \A i \in 1..Len(s) : v[i] = OneMore(v[i - 1], s[i], u, p)
      /\ After(s, u, p, NoDoc) = v[Len(s)]
  BY <1>2 DEF Stacked
<1> DEFINE S == {n \in Nat : n <= Len(s) => v[n] = NoDoc}
<1>4. 0 \in S
  BY <1>3
<1>5. ASSUME NEW n \in Nat, n \in S PROVE n + 1 \in S
  <2>1. SUFFICES ASSUME n + 1 <= Len(s) PROVE v[n + 1] = NoDoc
    OBVIOUS
  <2>2. v[n] = NoDoc /\ s[n + 1] \in Write
    BY <2>1, <1>5
  <2>3. n + 1 \in 1..Len(s) /\ (n + 1) - 1 = n
    BY <2>1
  <2>4. v[n + 1] = OneMore(v[n], s[n + 1], u, p)
    BY <1>3, <2>3
  <2>5. s[n + 1].id = p => s[n + 1].kind \in {"like", "unlike", "delete"}
    BY <2>2, <2>3 DEF HasTask, Write, Kinds
  <2>6. QED
    BY <2>2, <2>4, <2>5 DEF OneMore, Apply
<1>6. Nat \subseteq S
  <2> HIDE DEF S
  <2>1. QED
    BY <1>4, <1>5, NatInd
<1>7. QED
  BY <1>1, <1>3, <1>6

\* What an ordered queue without a "delete" makes of a document: the likes of u
\* are decided by its last toggle, else by its "create", else by the document.
LEMMA AfterLikes ==
    ASSUME NEW s \in Seq(Write), NEW u \in Users, NEW p \in Ids, NEW doc \in Doc \cup {NoDoc},
           Ordered(s), ~HasTask(s, p, {"delete"}),
           After(s, u, p, doc) # NoDoc
    PROVE  u \in After(s, u, p, doc).likes <=>
               \/ LikesLast(s, p)
               \/ /\ ~HasTask(s, p, Toggles \cup {"create"})
                  /\ doc # NoDoc
                  /\ u \in doc.likes
<1>1. Len(s) \in Nat
  OBVIOUS
<1>2. PICK v : Stacked(v, s, u, p, doc)
  BY <1>1, AfterSteps
<1>3. /\ v[0] = doc
      /\ \A i \in 1..Len(s) : v[i] = OneMore(v[i - 1], s[i], u, p)
      /\ After(s, u, p, doc) = v[Len(s)]
  BY <1>2 DEF Stacked
<1> DEFINE Unmarked(n) == \A i \in 1..n : s[i].id = p => s[i].kind \notin Toggles \cup {"create"}
           Good(n) == /\ v[n] \in Doc \cup {NoDoc}
                      /\ v[n] = NoDoc => doc = NoDoc
                      /\ v[n] # NoDoc => (u \in v[n].likes <=>
                             \/ LikesUpTo(s, n, p)
                             \/ Unmarked(n) /\ doc # NoDoc /\ u \in doc.likes)
           S == {n \in Nat : n <= Len(s) => Good(n)}
<1>4. 0 \in S
  BY <1>3 DEF LikesUpTo
<1>5. ASSUME NEW n \in Nat, n \in S PROVE n + 1 \in S
  <2>1. SUFFICES ASSUME n + 1 <= Len(s) PROVE Good(n + 1)
    OBVIOUS
  <2> DEFINE w == s[n + 1]
  <2>2. Good(n) /\ w \in Write
    BY <2>1, <1>5
  <2>3. n + 1 \in 1..Len(s) /\ (n + 1) - 1 = n /\ \A i \in 1..n + 1 : i \in 1..Len(s)
    BY <2>1
  <2>4. v[n + 1] = OneMore(v[n], w, u, p)
    BY <1>3, <2>3
  <2>5. Unmarked(n + 1) <=> Unmarked(n) /\ (w.id = p => w.kind \notin Toggles \cup {"create"})
    BY <2>3
  <2>6. ASSUME w.id = p /\ w.kind = "like" PROVE LikesUpTo(s, n + 1, p)
    BY <2>3, <2>6 DEF LikesUpTo
  <2>7. ASSUME w.id = p /\ w.kind = "unlike" PROVE ~LikesUpTo(s, n + 1, p)
    BY <2>3, <2>7 DEF LikesUpTo
  <2>8. ASSUME ~(w.id = p /\ w.kind \in Toggles)
        PROVE  LikesUpTo(s, n + 1, p) <=> LikesUpTo(s, n, p)
    <3>1. \A i \in 1..n + 1 : s[i].id = p /\ s[i].kind = "like" => i \in 1..n
      BY <2>8 DEF Toggles
    <3>2. ASSUME NEW i \in 1..n
          PROVE  (\A j \in i + 1 .. n + 1 : s[j].id = p => s[j].kind # "unlike")
                     <=> (\A j \in i + 1 .. n : s[j].id = p => s[j].kind # "unlike")
      BY <2>8 DEF Toggles
    <3>3. QED
      BY <3>1, <3>2 DEF LikesUpTo
  <2>9. w.id = p => w.kind # "delete"
    BY <2>3 DEF HasTask
  <2>10. w.id = p /\ w.kind \in {"create", "name"} => ~LikesUpTo(s, n, p)
    <3>1. SUFFICES ASSUME w.id = p, w.kind \in {"create", "name"}, NEW i \in 1..n,
                          s[i].id = p, s[i].kind = "like"
                   PROVE  FALSE
      BY DEF LikesUpTo
    <3>2. i \in 1..Len(s) /\ n + 1 \in 1..Len(s) /\ i < n + 1 /\ s[i].id = s[n + 1].id
      BY <2>3, <3>1
    <3>3. s[n + 1].kind # "create" /\ (s[n + 1].kind = "name" => s[i].kind = "create")
      BY <3>2 DEF Ordered
    <3>4. QED
      BY <3>1, <3>3
  <2> HIDE DEF w, Unmarked
  <2>11. CASE w.id # p
    BY <2>11, <2>2, <2>4, <2>5, <2>8 DEF OneMore
  <2>12. CASE w.id = p /\ w.kind = "create"
    <3>1. v[n + 1] = [named |-> FALSE, author |-> u, likes |-> {}]
      BY <2>12, <2>4 DEF OneMore, Apply
    <3>2. v[n + 1] \in Doc /\ u \notin v[n + 1].likes
      BY <3>1 DEF Doc
    <3>3. ~LikesUpTo(s, n + 1, p) /\ ~Unmarked(n + 1)
      BY <2>12, <2>5, <2>8, <2>10 DEF Toggles
    <3>4. QED
      BY <3>2, <3>3, PostsAssumption
  <2>13. CASE w.id = p /\ w.kind = "name"
    <3>1. v[n] = NoDoc => v[n + 1] = [named |-> TRUE, author |-> NoUser, likes |-> {}]
      BY <2>13, <2>4 DEF OneMore, Apply
    <3>2. v[n] # NoDoc => v[n + 1] = [v[n] EXCEPT !.named = TRUE]
      BY <2>13, <2>4 DEF OneMore, Apply
    <3>3. CASE v[n] = NoDoc
      <4> DEFINE x == v[n + 1]
      <4>1. x = [named |-> TRUE, author |-> NoUser, likes |-> {}]
        BY <3>1, <3>3
      <4> HIDE DEF x
      <4>2. x \in Doc /\ u \notin x.likes
        BY <4>1 DEF Doc
      <4>3. ~LikesUpTo(s, n + 1, p)
        BY <2>8, <2>10, <2>13 DEF Toggles
      <4> USE DEF x
      <4>4. QED
        BY <4>2, <4>3, <3>3, <2>2, PostsAssumption
    <3>4. CASE v[n] # NoDoc
      <4>1. v[n + 1] \in Doc /\ v[n + 1].likes = v[n].likes
        BY <3>2, <3>4, <2>2 DEF Doc
      <4>2. QED
        BY <4>1, <3>4, <2>2, <2>5, <2>8, <2>13, PostsAssumption DEF Toggles
    <3>5. QED
      BY <3>3, <3>4
  <2>14. CASE w.id = p /\ w.kind = "like"
    <3>1. CASE v[n] = NoDoc
      BY <3>1, <2>14, <2>2, <2>4 DEF OneMore, Apply
    <3>2. CASE v[n] # NoDoc
      <4>1. v[n + 1] = [v[n] EXCEPT !.likes = @ \cup {u}]
        BY <3>2, <2>14, <2>4 DEF OneMore, Apply
      <4>2. v[n + 1] \in Doc /\ u \in v[n + 1].likes
        BY <4>1, <3>2, <2>2 DEF Doc
      <4>3. QED
        BY <4>2, <2>6, <2>14, PostsAssumption
    <3>3. QED
      BY <3>1, <3>2
  <2>15. CASE w.id = p /\ w.kind = "unlike"
    <3>1. CASE v[n] = NoDoc
      BY <3>1, <2>15, <2>2, <2>4 DEF OneMore, Apply
    <3>2. CASE v[n] # NoDoc
      <4>1. v[n + 1] = [v[n] EXCEPT !.likes = @ \ {u}]
        BY <3>2, <2>15, <2>4 DEF OneMore, Apply
      <4>2. v[n + 1] \in Doc /\ u \notin v[n + 1].likes
        BY <4>1, <3>2, <2>2 DEF Doc
      <4>3. ~Unmarked(n + 1)
        BY <2>5, <2>15 DEF Toggles
      <4>4. QED
        BY <4>2, <4>3, <2>7, <2>15, PostsAssumption
    <3>3. QED
      BY <3>1, <3>2
  <2>16. QED
    BY <2>2, <2>9, <2>11, <2>12, <2>13, <2>14, <2>15 DEF Write, Kinds
<1>6. Nat \subseteq S
  <2> HIDE DEF S
  <2>1. QED
    BY <1>4, <1>5, NatInd
<1>7. Good(Len(s))
  BY <1>1, <1>6
<1>8. LikesUpTo(s, Len(s), p) <=> LikesLast(s, p)
  BY DEF LikesUpTo, LikesLast
<1>9. Unmarked(Len(s)) <=> ~HasTask(s, p, Toggles \cup {"create"})
  BY DEF HasTask
<1>10. QED
  BY <1>3, <1>7, <1>8, <1>9

\* Such a queue makes readable documents of readable ones, and of none if it
\* creates what it names.
LEMMA AfterReadable ==
    ASSUME NEW s \in Seq(Write), NEW u \in Users, NEW p \in Ids, NEW doc \in Doc \cup {NoDoc},
           Ordered(s), ~HasTask(s, p, {"delete"}),
           doc # NoDoc => doc.author # NoUser,
           doc = NoDoc /\ HasTask(s, p, {"name"}) => HasTask(s, p, {"create"}),
           After(s, u, p, doc) # NoDoc
    PROVE  After(s, u, p, doc).author # NoUser
<1>1. Len(s) \in Nat
  OBVIOUS
<1>2. PICK v : Stacked(v, s, u, p, doc)
  BY <1>1, AfterSteps
<1>3. /\ v[0] = doc
      /\ \A i \in 1..Len(s) : v[i] = OneMore(v[i - 1], s[i], u, p)
      /\ After(s, u, p, doc) = v[Len(s)]
  BY <1>2 DEF Stacked
<1> DEFINE Created(n) == \E i \in 1..n : s[i].id = p /\ s[i].kind = "create"
           Good(n) == /\ v[n] \in Doc \cup {NoDoc}
                      /\ v[n] = NoDoc => doc = NoDoc /\ ~Created(n)
                      /\ v[n] # NoDoc => v[n].author # NoUser
           S == {n \in Nat : n <= Len(s) => Good(n)}
<1>4. 0 \in S
  BY <1>3
<1>5. ASSUME NEW n \in Nat, n \in S PROVE n + 1 \in S
  <2>1. SUFFICES ASSUME n + 1 <= Len(s) PROVE Good(n + 1)
    OBVIOUS
  <2> DEFINE w == s[n + 1]
  <2>2. Good(n) /\ w \in Write
    BY <2>1, <1>5
  <2>3. n + 1 \in 1..Len(s) /\ (n + 1) - 1 = n /\ \A i \in 1..n + 1 : i \in 1..Len(s)
    BY <2>1
  <2>4. v[n + 1] = OneMore(v[n], w, u, p)
    BY <1>3, <2>3
  <2>5. w.id = p => w.kind # "delete"
    BY <2>3 DEF HasTask
  <2>6. Created(n + 1) <=> Created(n) \/ (w.id = p /\ w.kind = "create")
    BY <2>3
  <2>7. w.id = p /\ w.kind = "name" => doc # NoDoc \/ Created(n)
    <3>1. SUFFICES ASSUME w.id = p, w.kind = "name", doc = NoDoc PROVE Created(n)
      OBVIOUS
    <3>2. PICK j \in 1..Len(s) : s[j].id = p /\ s[j].kind = "create"
      BY <2>3, <3>1 DEF HasTask
    <3>3. j < n + 1
      <4>1. ~(n + 1 < j)
        BY <2>3, <3>1, <3>2 DEF Ordered
      <4>2. n + 1 # j
        BY <3>1, <3>2
      <4>3. QED
        BY <4>1, <4>2
    <3>4. QED
      BY <3>2, <3>3
  <2> HIDE DEF w, Created
  <2>8. w.id = p => v[n + 1] = Apply(v[n], w.kind, u)
    BY <2>4 DEF OneMore
  <2>9. CASE w.id # p
    BY <2>9, <2>2, <2>4, <2>6 DEF OneMore
  <2>10. CASE w.id = p /\ w.kind = "create"
    <3>1. v[n + 1] = [named |-> FALSE, author |-> u, likes |-> {}]
      BY <2>8, <2>10 DEF Apply
    <3>2. v[n + 1] \in Doc /\ v[n + 1].author = u
      BY <3>1 DEF Doc
    <3>3. QED
      BY <3>2, PostsAssumption
  <2>11. CASE w.id = p /\ w.kind \in {"name", "like", "unlike"}
    <3>1. CASE v[n] # NoDoc
      <4>1. v[n + 1] = CASE w.kind = "name" -> [v[n] EXCEPT !.named = TRUE]
                         [] w.kind = "like" -> [v[n] EXCEPT !.likes = @ \cup {u}]
                         [] w.kind = "unlike" -> [v[n] EXCEPT !.likes = @ \ {u}]
        BY <2>8, <2>11, <3>1 DEF Apply
      <4>2. v[n] \in Doc
        BY <2>2, <3>1
      <4>3. v[n + 1] \in Doc /\ v[n + 1].author = v[n].author
        <5>1. CASE w.kind = "name"
          BY <4>1, <4>2, <5>1 DEF Doc
        <5>2. CASE w.kind = "like"
          BY <4>1, <4>2, <5>2 DEF Doc
        <5>3. CASE w.kind = "unlike"
          BY <4>1, <4>2, <5>3 DEF Doc
        <5>4. QED
          BY <2>11, <5>1, <5>2, <5>3
      <4>4. QED
        BY <2>2, <3>1, <4>3, PostsAssumption
    <3>2. CASE v[n] = NoDoc /\ w.kind # "name"
      BY <2>2, <2>6, <2>8, <2>11, <3>2 DEF Apply
    <3>3. QED
      BY <2>2, <2>7, <2>11, <3>1, <3>2
  <2>12. QED
    BY <2>2, <2>5, <2>9, <2>10, <2>11 DEF Write, Kinds
<1>6. Nat \subseteq S
  <2> HIDE DEF S
  <2>1. QED
    BY <1>4, <1>5, NatInd
<1>7. QED
  BY <1>1, <1>3, <1>6

-----------------------------------------------------------------------------
(* Queues.                                                                 *)

\* A longer queue has the tasks of both parts.
LEMMA HasJoined ==
    ASSUME NEW s \in Seq(Task), NEW t \in Seq(Task), NEW p, NEW K
    PROVE  HasTask(s \o t, p, K) <=> HasTask(s, p, K) \/ HasTask(t, p, K)
<1> DEFINE r == s \o t
<1>1. /\ Len(r) = Len(s) + Len(t)
      /\ \A i \in 1..Len(s) + Len(t) : r[i] = IF i <= Len(s) THEN s[i] ELSE t[i - Len(s)]
  BY ConcatProperties
<1>2. Len(s) \in Nat /\ Len(t) \in Nat
  OBVIOUS
<1> HIDE DEF r
<1>3. \A i \in 1..Len(s) : i \in 1..Len(r) /\ r[i] = s[i]
  BY <1>1, <1>2
<1>4. \A i \in 1..Len(t) : i + Len(s) \in 1..Len(r) /\ r[i + Len(s)] = t[i]
  BY <1>1, <1>2
<1>5. \A i \in 1..Len(r) : i \in 1..Len(s) \/ (i - Len(s) \in 1..Len(t) /\ r[i] = t[i - Len(s)])
  BY <1>1, <1>2
<1>6. HasTask(r, p, K) <=> HasTask(s, p, K) \/ HasTask(t, p, K)
  BY <1>3, <1>4, <1>5 DEF HasTask
<1>7. QED
  BY <1>6 DEF r

\* A queue has its first task and those behind it.
LEMMA HasHead ==
    ASSUME NEW s \in Seq(Task), s # <<>>, NEW p, NEW K
    PROVE  HasTask(s, p, K) <=> (Head(s).id = p /\ Head(s).kind \in K) \/ HasTask(Tail(s), p, K)
<1>1. /\ Len(Tail(s)) = Len(s) - 1
      /\ \A i \in 1..Len(Tail(s)) : Tail(s)[i] = s[i + 1]
      /\ Head(s) = s[1]
  BY HeadTailProperties
<1>2. Len(s) \in Nat /\ 1 \in 1..Len(s)
  OBVIOUS
<1> DEFINE t == Tail(s)
<1> HIDE DEF t
<1>3. \A i \in 1..Len(t) : i + 1 \in 1..Len(s) /\ s[i + 1] = t[i]
  BY <1>1, <1>2 DEF t
<1>4. \A i \in 1..Len(s) : i = 1 \/ (i - 1 \in 1..Len(t) /\ s[i] = t[i - 1])
  BY <1>1, <1>2 DEF t
<1>5. HasTask(s, p, K) <=> (s[1].id = p /\ s[1].kind \in K) \/ HasTask(t, p, K)
  BY <1>2, <1>3, <1>4 DEF HasTask
<1>6. QED
  BY <1>1, <1>5 DEF t

\* The tasks of very short queues.
LEMMA HasFew ==
    ASSUME NEW p, NEW K
    PROVE  /\ ~HasTask(<<>>, p, K)
           /\ \A x : HasTask(<<x>>, p, K) <=> x.id = p /\ x.kind \in K
           /\ \A x, y : HasTask(<<x, y>>, p, K) <=>
                  (x.id = p /\ x.kind \in K) \/ (y.id = p /\ y.kind \in K)
BY DEF HasTask

\* More kinds, more tasks.
LEMMA HasMore ==
    ASSUME NEW s, NEW p, NEW K, NEW L
    PROVE  HasTask(s, p, K \cup L) <=> HasTask(s, p, K) \/ HasTask(s, p, L)
BY DEF HasTask

\* Joining two queues in order, and what is left of them.
LEMMA OrderedJoined ==
    ASSUME NEW s \in Seq(Task), NEW t \in Seq(Task), Ordered(s), Ordered(t), Behind(s, t)
    PROVE  Ordered(s \o t)
<1> DEFINE r == s \o t
<1>1. /\ Len(r) = Len(s) + Len(t)
      /\ \A i \in 1..Len(s) + Len(t) : r[i] = IF i <= Len(s) THEN s[i] ELSE t[i - Len(s)]
  BY ConcatProperties
<1>2. Len(s) \in Nat /\ Len(t) \in Nat
  OBVIOUS
<1> HIDE DEF r
<1>3. SUFFICES ASSUME NEW i \in 1..Len(r), NEW j \in 1..Len(r), i < j, r[i].id = r[j].id
               PROVE  r[j].kind # "create" /\ (r[j].kind = "name" => r[i].kind = "create")
  BY DEF Ordered, r
<1>4. CASE j <= Len(s)
  <2>1. i \in 1..Len(s) /\ j \in 1..Len(s) /\ r[i] = s[i] /\ r[j] = s[j]
    BY <1>1, <1>2, <1>3, <1>4
  <2>2. QED
    BY <1>3, <2>1 DEF Ordered
<1>5. CASE i <= Len(s) /\ ~(j <= Len(s))
  <2>1. i \in 1..Len(s) /\ j - Len(s) \in 1..Len(t) /\ r[i] = s[i] /\ r[j] = t[j - Len(s)]
    BY <1>1, <1>2, <1>3, <1>5
  <2>2. QED
    BY <1>3, <2>1 DEF Behind
<1>6. CASE ~(i <= Len(s))
  <2>1. /\ i - Len(s) \in 1..Len(t) /\ j - Len(s) \in 1..Len(t) /\ i - Len(s) < j - Len(s)
        /\ r[i] = t[i - Len(s)] /\ r[j] = t[j - Len(s)]
    BY <1>1, <1>2, <1>3, <1>6
  <2>2. QED
    BY <1>3, <2>1 DEF Ordered
<1>7. QED
  BY <1>2, <1>4, <1>5, <1>6

\* The rest of a queue in order, behind its first task.
LEMMA OrderedHead ==
    ASSUME NEW s \in Seq(Task), s # <<>>, Ordered(s)
    PROVE  /\ Ordered(Tail(s))
           /\ Behind(<<Head(s)>>, Tail(s))
           /\ Ordered(<<Head(s)>>)
<1>1. /\ Len(Tail(s)) = Len(s) - 1
      /\ \A i \in 1..Len(Tail(s)) : Tail(s)[i] = s[i + 1]
      /\ Head(s) = s[1]
  BY HeadTailProperties
<1>2. Len(s) \in Nat /\ 1 \in 1..Len(s)
  OBVIOUS
<1> DEFINE t == Tail(s)
<1> HIDE DEF t
<1>3. \A i \in 1..Len(t) : i + 1 \in 1..Len(s) /\ s[i + 1] = t[i] /\ 1 < i + 1
  BY <1>1, <1>2 DEF t
<1>4. Ordered(t)
  BY <1>3 DEF Ordered
<1>5. Behind(<<s[1]>>, t)
  BY <1>2, <1>3 DEF Ordered, Behind
<1>6. QED
  BY <1>1, <1>4, <1>5 DEF t, Ordered

\* What follows two queues follows their joint, and the other way round.
LEMMA BehindJoined ==
    ASSUME NEW s \in Seq(Task), NEW t \in Seq(Task), NEW r \in Seq(Task)
    PROVE  /\ Behind(s, r) /\ Behind(t, r) => Behind(s \o t, r)
           /\ Behind(r, s) /\ Behind(r, t) => Behind(r, s \o t)
<1> DEFINE q == s \o t
<1>1. /\ Len(q) = Len(s) + Len(t)
      /\ \A i \in 1..Len(s) + Len(t) : q[i] = IF i <= Len(s) THEN s[i] ELSE t[i - Len(s)]
  BY ConcatProperties
<1>2. Len(s) \in Nat /\ Len(t) \in Nat
  OBVIOUS
<1> HIDE DEF q
<1>3. \A i \in 1..Len(q) : (i \in 1..Len(s) /\ q[i] = s[i]) \/ (i - Len(s) \in 1..Len(t) /\ q[i] = t[i - Len(s)])
  BY <1>1, <1>2
<1>4. ASSUME Behind(s, r), Behind(t, r) PROVE Behind(q, r)
  <2>1. SUFFICES ASSUME NEW i \in 1..Len(q), NEW j \in 1..Len(r), q[i].id = r[j].id
                 PROVE  r[j].kind # "create" /\ (r[j].kind = "name" => q[i].kind = "create")
    BY DEF Behind
  <2>2. CASE i \in 1..Len(s) /\ q[i] = s[i]
    BY <1>4, <2>1, <2>2 DEF Behind
  <2>3. CASE i - Len(s) \in 1..Len(t) /\ q[i] = t[i - Len(s)]
    BY <1>4, <2>1, <2>3 DEF Behind
  <2>4. QED
    BY <1>3, <2>2, <2>3
<1>5. Behind(r, s) /\ Behind(r, t) => Behind(r, q)
  BY <1>3 DEF Behind
<1>6. QED
  BY <1>4, <1>5 DEF q

\* The rests of two queues, and the first task of the second.
LEMMA BehindTails ==
    ASSUME NEW s \in Seq(Task), NEW t \in Seq(Task), Behind(s, t)
    PROVE  /\ s # <<>> => Behind(Tail(s), t)
           /\ t # <<>> => Behind(s, Tail(t)) /\ Behind(s, <<Head(t)>>)
<1>1. ASSUME s # <<>> PROVE Behind(Tail(s), t)
  <2>1. /\ Len(Tail(s)) = Len(s) - 1
        /\ \A i \in 1..Len(Tail(s)) : Tail(s)[i] = s[i + 1]
    BY <1>1, HeadTailProperties
  <2>2. \A i \in 1..Len(Tail(s)) : i + 1 \in 1..Len(s)
    BY <2>1
  <2>3. QED
    BY <2>1, <2>2 DEF Behind
<1>2. ASSUME t # <<>> PROVE Behind(s, Tail(t)) /\ Behind(s, <<Head(t)>>)
  <2>1. /\ Len(Tail(t)) = Len(t) - 1
        /\ \A i \in 1..Len(Tail(t)) : Tail(t)[i] = t[i + 1]
        /\ Head(t) = t[1] /\ 1 \in 1..Len(t)
    BY <1>2, HeadTailProperties
  <2>2. \A i \in 1..Len(Tail(t)) : i + 1 \in 1..Len(t)
    BY <2>1
  <2>3. Behind(s, Tail(t))
    BY <2>1, <2>2 DEF Behind
  <2>4. Behind(s, <<t[1]>>)
    BY <2>1 DEF Behind
  <2>5. QED
    BY <2>1, <2>3, <2>4
<1>3. QED
  BY <1>1, <1>2

\* What a sequence with one more element holds.
LEMMA Appended ==
    ASSUME NEW S, NEW s \in Seq(S), NEW x \in S
    PROVE  /\ Len(Append(s, x)) = Len(s) + 1
           /\ Append(s, x)[Len(s) + 1] = x
           /\ \A i \in 1..Len(s) : Append(s, x)[i] = s[i]
           /\ \A i \in 1..Len(Append(s, x)) :
                 \/ i \in 1..Len(s) /\ Append(s, x)[i] = s[i]
                 \/ i = Len(s) + 1 /\ Append(s, x)[i] = x
<1>1. /\ Len(Append(s, x)) = Len(s) + 1
      /\ Append(s, x)[Len(s) + 1] = x
      /\ \A i \in 1..Len(s) : Append(s, x)[i] = s[i]
  OBVIOUS
<1>2. Len(s) \in Nat
  OBVIOUS
<1> DEFINE n == Len(s)
           r == Append(s, x)
<1> HIDE DEF n, r
<1>3. \A i \in 1..n + 1 : i \in 1..n \/ i = n + 1
  BY <1>2 DEF n
<1>4. Len(r) = n + 1 /\ r[n + 1] = x /\ \A i \in 1..n : r[i] = s[i]
  BY <1>1 DEF n, r
<1>5. \A i \in 1..Len(r) : (i \in 1..n /\ r[i] = s[i]) \/ (i = n + 1 /\ r[i] = x)
  BY <1>3, <1>4
<1>6. QED
  BY <1>1, <1>5 DEF n, r

\* A sequence without its i-th element.
Cut(s, i) == SubSeq(s, 1, i - 1) \o SubSeq(s, i + 1, Len(s))

\* Those before it stay, the others move up.
LEMMA CutElements ==
    ASSUME NEW S, NEW s \in Seq(S), NEW i \in 1..Len(s)
    PROVE  /\ Cut(s, i) \in Seq(S)
           /\ Len(Cut(s, i)) = Len(s) - 1
           /\ \A j \in 1..Len(s) - 1 : Cut(s, i)[j] = IF j < i THEN s[j] ELSE s[j + 1]
<1> DEFINE t == Cut(s, i)
<1> DEFINE a == SubSeq(s, 1, i - 1)
           b == SubSeq(s, i + 1, Len(s))
<1>1. Len(s) \in Nat /\ i \in Nat
  OBVIOUS
<1>2. a \in Seq(S) /\ Len(a) = i - 1 /\ \A j \in 1..i - 1 : a[j] = s[j]
  <2>1. \A j \in 1..i - 1 : s[j] \in S
    BY <1>1
  <2>2. QED
    BY <1>1, <2>1, SubSeqProperties
<1>3. b \in Seq(S) /\ Len(b) = Len(s) - i /\ \A j \in 1..Len(s) - i : b[j] = s[i + j]
  <2>1. \A j \in i + 1 .. Len(s) : s[j] \in S
    BY <1>1
  <2>2. QED
    BY <1>1, <2>1, SubSeqProperties
<1>4. /\ a \o b \in Seq(S)
      /\ Len(a \o b) = Len(a) + Len(b)
      /\ \A j \in 1..Len(a) + Len(b) : (a \o b)[j] = IF j <= Len(a) THEN a[j] ELSE b[j - Len(a)]
  BY <1>2, <1>3, ConcatProperties
<1>5. t = a \o b
  BY DEF Cut
<1> HIDE DEF a, b, t
<1>6. Len(t) = Len(s) - 1
  <2>1. Len(t) = Len(a) + Len(b)
    BY <1>4, <1>5
  <2>2. Len(t) = (i - 1) + (Len(s) - i)
    BY <1>2, <1>3, <2>1
  <2> DEFINE n == Len(s)
             m == Len(t)
  <2>3. n \in Nat /\ i \in Nat /\ m = (i - 1) + (n - i)
    BY <1>1, <2>2
  <2> HIDE DEF n, m
  <2>4. m = n - 1
    BY <2>3
  <2>5. QED
    BY <2>4 DEF n, m
<1>7. ASSUME NEW j \in 1..Len(t) PROVE t[j] = IF j < i THEN s[j] ELSE s[j + 1]
  <2>1. t[j] = IF j <= i - 1 THEN a[j] ELSE b[j - (i - 1)]
    BY <1>1, <1>2, <1>3, <1>4, <1>5, <1>6
  <2>2. CASE j < i
    BY <1>1, <1>2, <2>1, <2>2
  <2>3. CASE ~(j < i)
    <3>1. j - (i - 1) \in 1..Len(s) - i /\ i + (j - (i - 1)) = j + 1
      <4> DEFINE n == Len(s)
      <4>1. n \in Nat /\ i \in Nat /\ j \in 1..n - 1
        BY <1>1, <1>6
      <4> HIDE DEF n
      <4>2. j - (i - 1) \in 1..n - i /\ i + (j - (i - 1)) = j + 1
        BY <4>1, <2>3
      <4>3. QED
        BY <4>2 DEF n
    <3>2. QED
      BY <1>1, <1>3, <2>1, <2>3, <3>1
  <2>4. QED
    BY <2>2, <2>3
<1>8. t \in Seq(S) /\ \A j \in 1..Len(s) - 1 : t[j] = IF j < i THEN s[j] ELSE s[j + 1]
  BY <1>4, <1>5, <1>6, <1>7
<1>9. QED
  BY <1>6, <1>8 DEF t

-----------------------------------------------------------------------------
(* The shape of the state.                                                 *)

\* A step that makes an app end keeps the shape of the state.
LEMMA DieType ==
    ASSUME TypeOK, NEW d \in Devices, Die(d)
    PROVE  TypeOK'
<1>1. done' \in [Devices -> Nat] /\ \A e \in Devices : done'[e] <= Len(lane'[e])
  BY DEF TypeOK, Die
<1>2. UNCHANGED <<owner, docs, cache, lane, by, taps, odd, deleted>>
  BY DEF Die
<1>3. up' \in [Devices -> BOOLEAN] /\ rows' \in [Devices -> SUBSET (Ids \X BOOLEAN)]
  BY DEF TypeOK, Die
<1>4. /\ worker' \in [Devices -> Seq(Task)]
      /\ reads' \in [Devices -> Seq(Ids)]
      /\ answers' \in [Devices -> Seq([id : Ids, seen : Seen])]
  <2> DEFINE A == [id : Ids, seen : Seen]
  <2>1. <<>> \in Seq(Task) /\ <<>> \in Seq(Ids) /\ <<>> \in Seq(A)
    OBVIOUS
  <2>2. worker \in [Devices -> Seq(Task)] /\ reads \in [Devices -> Seq(Ids)] /\ answers \in [Devices -> Seq(A)]
    BY DEF TypeOK
  <2> HIDE DEF A
  <2>3. worker' \in [Devices -> Seq(Task)] /\ reads' \in [Devices -> Seq(Ids)] /\ answers' \in [Devices -> Seq(A)]
    BY <2>1, <2>2 DEF Die
  <2>4. QED
    BY <2>3 DEF A
<1>5. \A e \in Devices : ~up'[e] => worker'[e] = <<>> /\ reads'[e] = <<>> /\ answers'[e] = <<>>
  BY DEF TypeOK, Die
<1>6. torn' \subseteq Ids /\ contested' \subseteq Ids
  BY DEF TypeOK, Die, Lost
<1>7. blurred' \subseteq Users \X Ids
  <2>1. owner[d] \in Users
    BY DEF TypeOK
  <2>2. QED
    BY <2>1 DEF TypeOK, Die, Lost
<1>8. QED
  BY <1>1, <1>2, <1>3, <1>4, <1>5, <1>6, <1>7 DEF TypeOK

\* Tasks given to a running app's SDK keep its queue one of tasks.
LEMMA GiveType ==
    ASSUME TypeOK, NEW d \in Devices, up[d], NEW t \in Seq(Task), Give(d, t)
    PROVE  /\ worker' \in [Devices -> Seq(Task)]
           /\ \A e \in Devices : e # d => worker'[e] = worker[e]
           /\ worker'[d] = worker[d] \o t
BY DEF TypeOK, Give

\* What is laid over a document is one.
LEMMA OverlayType ==
    ASSUME TypeOK, NEW d \in Devices, NEW p \in Ids, NEW doc \in Doc \cup {NoDoc}
    PROVE  Overlay(d, p, doc) \in Doc \cup {NoDoc}
BY AfterType DEF Overlay, TypeOK

\* An answer moves one read to the callbacks.
LEMMA AnswerType ==
    ASSUME TypeOK, NEW d \in Devices, NEW i \in 1..Len(reads[d]), NEW seen \in Seen,
           Answer(d, i, seen)
    PROVE  /\ reads' \in [Devices -> Seq(Ids)]
           /\ answers' \in [Devices -> Seq([id : Ids, seen : Seen])]
           /\ \A e \in Devices : e # d => reads'[e] = reads[e] /\ answers'[e] = answers[e]
           /\ answers'[d] = Append(answers[d], [id |-> reads[d][i], seen |-> seen])
           /\ Len(reads'[d]) = Len(reads[d]) - 1
           /\ \A j \in 1..Len(reads'[d]) :
                 reads'[d][j] = IF j < i THEN reads[d][j] ELSE reads[d][j + 1]
           /\ up[d]
<1>1. reads[d] \in Seq(Ids) /\ reads[d][i] \in Ids
  BY DEF TypeOK
<1> DEFINE t == Cut(reads[d], i)
<1>2. /\ t \in Seq(Ids)
      /\ Len(t) = Len(reads[d]) - 1
      /\ \A j \in 1..Len(reads[d]) - 1 : t[j] = IF j < i THEN reads[d][j] ELSE reads[d][j + 1]
  BY <1>1, CutElements
<1>3. reads' = [reads EXCEPT ![d] = t]
  BY DEF Answer, Cut
<1> HIDE DEF t
<1>4. reads' \in [Devices -> Seq(Ids)] /\ reads'[d] = t /\ \A e \in Devices : e # d => reads'[e] = reads[e]
  BY <1>2, <1>3 DEF TypeOK
<1> DEFINE A == [id : Ids, seen : Seen]
           a == [id |-> reads[d][i], seen |-> seen]
<1>5. a \in A
  BY <1>1
<1>6. /\ answers' \in [Devices -> Seq(A)]
      /\ answers'[d] = Append(answers[d], a)
      /\ \A e \in Devices : e # d => answers'[e] = answers[e]
  <2>1. answers' = [answers EXCEPT ![d] = Append(@, a)] /\ answers \in [Devices -> Seq(A)]
    BY DEF Answer, TypeOK
  <2> HIDE DEF A, a
  <2>2. Append(answers[d], a) \in Seq(A)
    BY <1>5, <2>1
  <2>3. QED
    BY <2>1, <2>2
<1>7. up[d]
  BY DEF TypeOK
<1>8. QED
  BY <1>2, <1>4, <1>6, <1>7

\* What the tables show is what a read makes of the source's documents.
LEMMA ShowEffect ==
    ASSUME NEW d \in Devices, Show(d)
    PROVE  \E source \in Sources(d) :
              /\ rows' = [rows EXCEPT ![d] =
                    {<<p, Overlay(d, p, source[p]).named>> :
                        p \in {q \in Ids : Readable(Overlay(d, q, source[q]))}}]
              /\ cache' = [cache EXCEPT ![d] =
                    [p \in Ids |-> IF Readable(source[p]) THEN source[p] ELSE @[p]]]
<1>1. PICK source \in Sources(d) :
         LET seen == [p \in Ids |-> Overlay(d, p, source[p])]
         IN  /\ rows' = [rows EXCEPT ![d] =
                   {<<p, seen[p].named>> : p \in {q \in Ids : Readable(seen[q])}}]
             /\ cache' = [cache EXCEPT ![d] =
                   [p \in Ids |-> IF Readable(source[p]) THEN source[p] ELSE @[p]]]
  BY DEF Show
<1> DEFINE seen == [p \in Ids |-> Overlay(d, p, source[p])]
<1>2. {<<p, seen[p].named>> : p \in {q \in Ids : Readable(seen[q])}}
          = {<<p, Overlay(d, p, source[p]).named>> : p \in {q \in Ids : Readable(Overlay(d, q, source[q]))}}
  OBVIOUS
<1>3. rows' = [rows EXCEPT ![d] = {<<p, seen[p].named>> : p \in {q \in Ids : Readable(seen[q])}}]
  BY <1>1
<1>4. QED
  BY <1>1, <1>2, <1>3

\* Every step keeps the shape of the state.
LEMMA TypeStep ==
    ASSUME TypeOK, [Next]_vars
    PROVE  TypeOK'
<1>1. ASSUME NEW d \in Devices, WritePost(d) PROVE TypeOK'
  <2>1. PICK p \in Ids : by' = [by EXCEPT ![p] = owner[d]] /\ Give(d, CreateWrites(p))
    BY <1>1 DEF WritePost
  <2>2. CreateWrites(p) \in Seq(Task)
    BY DEF CreateWrites, Task, Kinds
  <2>3. worker' \in [Devices -> Seq(Task)] /\ \A e \in Devices : e # d => worker'[e] = worker[e]
    BY <1>1, <2>1, <2>2, GiveType DEF WritePost
  <2>4. taps' \in Nat /\ by' \in [Ids -> Users \cup {NoUser}]
    BY <1>1, <2>1 DEF TypeOK, WritePost, Tap
  <2>5. UNCHANGED <<owner, docs, cache, up, lane, done, liking, rows, history>>
    BY <1>1 DEF WritePost
  <2>6. QED
    BY <1>1, <2>3, <2>4, <2>5 DEF TypeOK, WritePost, liking, history
<1>2. ASSUME NEW d \in Devices, Show(d) PROVE TypeOK'
  <2>1. PICK source \in Sources(d) :
           /\ rows' = [rows EXCEPT ![d] =
                 {<<p, Overlay(d, p, source[p]).named>> :
                     p \in {q \in Ids : Readable(Overlay(d, q, source[q]))}}]
           /\ cache' = [cache EXCEPT ![d] =
                 [p \in Ids |-> IF Readable(source[p]) THEN source[p] ELSE @[p]]]
    BY <1>2, ShowEffect
  <2>2. source \in [Ids -> Doc \cup {NoDoc}]
    BY DEF Sources, TypeOK
  <2>3. cache' \in [Devices -> [Ids -> Doc \cup {NoDoc}]]
    BY <2>1, <2>2 DEF TypeOK
  <2>4. ASSUME NEW p \in Ids, Readable(Overlay(d, p, source[p]))
        PROVE  Overlay(d, p, source[p]).named \in BOOLEAN
    <3>1. Overlay(d, p, source[p]) \in Doc \cup {NoDoc}
      BY <2>2, OverlayType
    <3>2. QED
      BY <2>4, <3>1 DEF Readable, Doc
  <2>5. rows' \in [Devices -> SUBSET (Ids \X BOOLEAN)]
    BY <2>1, <2>4 DEF TypeOK
  <2>6. UNCHANGED <<owner, docs, up, sdk, liking, by, taps, history>>
    BY <1>2 DEF Show
  <2>7. QED
    BY <2>3, <2>5, <2>6 DEF TypeOK, sdk, liking, history
<1>3. ASSUME NEW d \in Devices, TapLike(d) PROVE TypeOK'
  <2>1. PICK p \in Ids :
           /\ Give(d, <<[kind |-> "read", id |-> p]>>)
           /\ odd' \in {odd \ {<<owner[d], p>>}, odd \cup {<<owner[d], p>>}}
           /\ blurred' \in {blurred, blurred \cup {<<owner[d], p>>}}
    BY <1>3 DEF TapLike
  <2>2. <<[kind |-> "read", id |-> p]>> \in Seq(Task)
    BY DEF Task, Kinds
  <2>3. worker' \in [Devices -> Seq(Task)] /\ \A e \in Devices : e # d => worker'[e] = worker[e]
    BY <1>3, <2>1, <2>2, GiveType DEF TapLike
  <2>4. taps' \in Nat
    BY <1>3 DEF TypeOK, TapLike, Tap
  <2>5. odd' \subseteq Users \X Ids /\ blurred' \subseteq Users \X Ids
    BY <2>1 DEF TypeOK
  <2>6. UNCHANGED <<owner, docs, cache, up, lane, done, liking, rows, by, deleted, contested, torn>>
    BY <1>3 DEF TapLike
  <2>7. QED
    BY <1>3, <2>3, <2>4, <2>5, <2>6 DEF TypeOK, TapLike, liking
<1>4. ASSUME NEW d \in Devices, TapDelete(d) PROVE TypeOK'
  <2>1. PICK p \in Ids :
           /\ Give(d, <<[kind |-> "delete", id |-> p]>>)
           /\ deleted' = deleted \cup {p}
           /\ contested' \in {contested, contested \cup {p}}
    BY <1>4 DEF TapDelete
  <2>2. <<[kind |-> "delete", id |-> p]>> \in Seq(Task)
    BY DEF Task, Kinds
  <2>3. worker' \in [Devices -> Seq(Task)] /\ \A e \in Devices : e # d => worker'[e] = worker[e]
    BY <1>4, <2>1, <2>2, GiveType DEF TapDelete
  <2>4. taps' \in Nat
    BY <1>4 DEF TypeOK, TapDelete, Tap
  <2>5. deleted' \subseteq Ids /\ contested' \subseteq Ids
    BY <2>1 DEF TypeOK
  <2>6. UNCHANGED <<owner, docs, cache, up, lane, done, liking, rows, by, odd, blurred, torn>>
    BY <1>4 DEF TapDelete
  <2>7. QED
    BY <1>4, <2>3, <2>4, <2>5, <2>6 DEF TypeOK, TapDelete, liking
<1>5. ASSUME NEW d \in Devices, Kill(d) \/ TapUnnamed(d) \/ CallbackTraps(d) PROVE TypeOK'
  BY <1>5, DieType DEF Kill, TapUnnamed, CallbackTraps
<1>6. ASSUME NEW d \in Devices, Launch(d) PROVE TypeOK'
  BY <1>6 DEF TypeOK, Launch, sdk, liking, history
<1>7. ASSUME NEW d \in Devices, Work(d) PROVE TypeOK'
  <2> DEFINE t == Head(worker[d])
  <2>1. t \in Task /\ Tail(worker[d]) \in Seq(Task)
    BY <1>7 DEF TypeOK, Work
  <2>2. worker' \in [Devices -> Seq(Task)] /\ \A e \in Devices : e # d => worker'[e] = worker[e]
    BY <1>7, <2>1 DEF TypeOK, Work
  <2>3. UNCHANGED <<owner, docs, cache, up, done, answers, rows, by, taps, history>> /\ up[d]
    BY <1>7 DEF Work
  <2>4. CASE t.kind = "read"
    <3>1. lane' = lane /\ reads' = [reads EXCEPT ![d] = Append(@, t.id)]
      BY <1>7, <2>4 DEF Work
    <3>2. t.id \in Ids
      BY <2>1 DEF Task
    <3>3. reads' \in [Devices -> Seq(Ids)] /\ \A e \in Devices : e # d => reads'[e] = reads[e]
      BY <3>1, <3>2 DEF TypeOK
    <3>4. QED
      BY <2>2, <2>3, <3>1, <3>3 DEF TypeOK, history
  <2>5. CASE t.kind # "read"
    <3>1. reads' = reads /\ lane' = [lane EXCEPT ![d] = Append(@, t)]
      BY <1>7, <2>5 DEF Work
    <3>2. t \in Write
      BY <2>1, <2>5 DEF Task, Write
    <3>3. /\ lane' \in [Devices -> Seq(Write)]
          /\ \A e \in Devices : Len(lane'[e]) >= Len(lane[e])
      BY <3>1, <3>2 DEF TypeOK
    <3>4. \A e \in Devices : done[e] <= Len(lane'[e])
      BY <3>3 DEF TypeOK
    <3>5. QED
      BY <2>2, <2>3, <3>1, <3>3, <3>4 DEF TypeOK, history
  <2>6. QED
    BY <2>4, <2>5
<1>8. ASSUME NEW d \in Devices, Commit(d) PROVE TypeOK'
  <2> DEFINE w == lane[d][done[d] + 1]
  <2>1. w \in Write /\ owner[d] \in Users
    BY <1>8 DEF TypeOK, Commit
  <2>2. docs[w.id] \in Doc \cup {NoDoc} /\ w.id \in Ids /\ w.kind \in Kinds
    BY <2>1 DEF TypeOK, Write
  <2>3. docs' = [docs EXCEPT ![w.id] = Apply(docs[w.id], w.kind, owner[d])]
    BY <1>8 DEF Commit
  <2>4. docs' \in [Ids -> Doc \cup {NoDoc}]
    <3>1. Apply(docs[w.id], w.kind, owner[d]) \in Doc \cup {NoDoc}
      BY <2>1, <2>2, ApplyType
    <3>2. QED
      BY <2>2, <2>3, <3>1 DEF TypeOK
  <2>5. blurred' \subseteq Users \X Ids
    <3>1. CASE blurred' = blurred
      BY <3>1 DEF TypeOK
    <3>2. CASE docs[w.id] # NoDoc /\ blurred' = blurred \cup {<<u, w.id>> : u \in docs[w.id].likes}
      <4>1. docs[w.id].likes \subseteq Users
        BY <2>2, <3>2 DEF Doc
      <4>2. QED
        BY <2>2, <3>2, <4>1 DEF TypeOK
    <3>3. QED
      BY <1>8, <3>1, <3>2 DEF Commit
  <2>6. done' \in [Devices -> Nat] /\ \A e \in Devices : done'[e] <= Len(lane[e])
    <3>1. Len(lane[d]) \in Nat /\ done[d] + 1 <= Len(lane[d])
      BY <1>8 DEF TypeOK, Commit
    <3>2. QED
      BY <1>8, <3>1 DEF TypeOK, Commit
  <2>7. UNCHANGED <<owner, cache, up, worker, lane, liking, rows, by, taps, odd, deleted, contested, torn>>
    BY <1>8 DEF Commit
  <2>8. QED
    BY <2>4, <2>5, <2>6, <2>7 DEF TypeOK, liking
<1>9. ASSUME NEW d \in Devices, Ack(d) \/ Refuse(d) PROVE TypeOK'
  <2> DEFINE w == lane[d][1]
  <2>1. lane[d] \in Seq(Write) /\ lane[d] # <<>> /\ done[d] <= Len(lane[d]) /\ done[d] \in Nat
    BY <1>9 DEF TypeOK, Ack, Refuse
  <2>2. Tail(lane[d]) \in Seq(Write) /\ Len(Tail(lane[d])) = Len(lane[d]) - 1 /\ w \in Write
    BY <2>1, HeadTailProperties
  <2>3. lane' = [lane EXCEPT ![d] = Tail(lane[d])]
    BY <1>9 DEF Ack, Refuse
  <2>4. lane' \in [Devices -> Seq(Write)] /\ Len(lane'[d]) = Len(lane[d]) - 1
    BY <2>2, <2>3 DEF TypeOK
  <2>5. done' \in [Devices -> Nat] /\ \A e \in Devices : done'[e] <= Len(lane'[e])
    <3>1. \A e \in Devices : e # d => lane'[e] = lane[e] /\ done'[e] = done[e]
      <4>1. done' = done \/ done' = [done EXCEPT ![d] = done[d] - 1]
        BY <1>9 DEF Ack, Refuse
      <4>2. QED
        BY <2>3, <4>1 DEF TypeOK
    <3>2. Len(lane[d]) \in Nat /\ Len(lane[d]) >= 1
      BY <2>1
    <3>3. done'[d] \in Nat /\ done'[d] <= Len(lane[d]) - 1
      <4>1. CASE Ack(d)
        <5>1. done'[d] = done[d] - 1 /\ done[d] > 0
          BY <4>1 DEF TypeOK, Ack
        <5>2. QED
          BY <2>1, <3>2, <5>1
      <4>2. CASE Refuse(d)
        BY <2>1, <3>2, <4>2 DEF Refuse
      <4>3. QED
        BY <1>9, <4>1, <4>2
    <3>4. done' \in [Devices -> Nat]
      <4>1. done' = done \/ done' = [done EXCEPT ![d] = done'[d]]
        BY <1>9 DEF Ack, Refuse, TypeOK
      <4>2. QED
        BY <3>3, <4>1 DEF TypeOK
    <3>5. QED
      BY <2>4, <3>1, <3>3, <3>4 DEF TypeOK
  <2>6. cache' \in [Devices -> [Ids -> Doc \cup {NoDoc}]]
    <3>1. CASE cache' = cache
      BY <3>1 DEF TypeOK
    <3>2. CASE cache' = [cache EXCEPT ![d][w.id] = Apply(@, w.kind, owner[d])]
      <4>1. w.id \in Ids /\ w.kind \in Kinds /\ owner[d] \in Users /\ cache[d][w.id] \in Doc \cup {NoDoc}
        BY <2>2 DEF Write, TypeOK
      <4>2. Apply(cache[d][w.id], w.kind, owner[d]) \in Doc \cup {NoDoc}
        BY <4>1, ApplyType
      <4>3. QED
        BY <3>2, <4>1, <4>2 DEF TypeOK
    <3>3. QED
      BY <1>9, <3>1, <3>2 DEF Ack, Refuse
  <2>7. UNCHANGED <<owner, docs, up, worker, liking, rows, by, taps, history>>
    BY <1>9 DEF Ack, Refuse
  <2>8. QED
    BY <2>4, <2>5, <2>6, <2>7 DEF TypeOK, liking, history
<1>10. ASSUME NEW d \in Devices, Break(d) PROVE TypeOK'
  <2>1. done' = [done EXCEPT ![d] = 0]
    BY <1>10 DEF Break
  <2>2. done' \in [Devices -> Nat] /\ \A e \in Devices : done'[e] <= Len(lane[e])
    <3>1. \A e \in Devices : Len(lane[e]) \in Nat
      BY DEF TypeOK
    <3>2. QED
      BY <2>1, <3>1 DEF TypeOK
  <2>3. UNCHANGED <<owner, docs, cache, up, worker, lane, liking, rows, by, taps, history>>
    BY <1>10 DEF Break
  <2>4. QED
    BY <2>2, <2>3 DEF TypeOK, liking, history
<1>11. ASSUME NEW d \in Devices, Serve(d) \/ ServeOffline(d) PROVE TypeOK'
  <2>1. PICK i \in 1..Len(reads[d]), seen \in Seen :
           /\ Answer(d, i, seen)
           /\ cache' \in {cache, [cache EXCEPT ![d][reads[d][i]] = docs[reads[d][i]]]}
           /\ blurred' \in {blurred, blurred \cup {<<owner[d], reads[d][i]>>}}
    <3>1. \A u, doc : SeenBy(u, doc) \in Seen /\ "unreachable" \in Seen
      BY DEF SeenBy, Seen
    <3>2. CASE Serve(d)
      <4>1. PICK i \in 1..Len(reads[d]) :
               /\ Answer(d, i, SeenBy(owner[d], Overlay(d, reads[d][i], docs[reads[d][i]])))
               /\ cache' = [cache EXCEPT ![d][reads[d][i]] = docs[reads[d][i]]]
        BY <3>2 DEF Serve
      <4>2. blurred' = blurred
        BY <3>2 DEF Serve, history
      <4>3. QED
        BY <3>1, <4>1, <4>2
    <3>3. CASE ServeOffline(d)
      <4>1. PICK i \in 1..Len(reads[d]), seen \in Seen :
               /\ Answer(d, i, seen)
               /\ blurred' \in {blurred, blurred \cup {<<owner[d], reads[d][i]>>}}
        BY <3>1, <3>3 DEF ServeOffline
      <4>2. cache' = cache
        BY <3>3 DEF ServeOffline
      <4>3. QED
        BY <4>1, <4>2
    <3>4. QED
      BY <1>11, <3>2, <3>3
  <2>2. /\ reads' \in [Devices -> Seq(Ids)]
        /\ answers' \in [Devices -> Seq([id : Ids, seen : Seen])]
        /\ \A e \in Devices : e # d => reads'[e] = reads[e] /\ answers'[e] = answers[e]
        /\ up[d]
    BY <2>1, AnswerType
  <2>3. reads[d][i] \in Ids
    BY DEF TypeOK
  <2>4. cache' \in [Devices -> [Ids -> Doc \cup {NoDoc}]] /\ blurred' \subseteq Users \X Ids
    <3>1. [cache EXCEPT ![d][reads[d][i]] = docs[reads[d][i]]] \in [Devices -> [Ids -> Doc \cup {NoDoc}]]
      BY <2>3 DEF TypeOK
    <3>2. cache' \in [Devices -> [Ids -> Doc \cup {NoDoc}]]
      BY <2>1, <3>1 DEF TypeOK
    <3>3. blurred' \subseteq Users \X Ids
      BY <2>1, <2>3 DEF TypeOK
    <3>4. QED
      BY <3>2, <3>3
  <2>5. UNCHANGED <<owner, docs, up, sdk, rows, by, taps, odd, deleted, contested, torn>>
    BY <1>11 DEF Serve, ServeOffline, history
  <2>6. QED
    BY <2>2, <2>4, <2>5 DEF TypeOK, sdk
<1>12. ASSUME NEW d \in Devices, Callback(d) PROVE TypeOK'
  <2>1. answers[d] # <<>> /\ Give(d, Toggle(Head(answers[d]))) /\ answers' = [answers EXCEPT ![d] = Tail(@)]
    BY <1>12 DEF Callback
  <2> DEFINE A == [id : Ids, seen : Seen]
  <2>2. Head(answers[d]) \in A /\ Tail(answers[d]) \in Seq(A)
    <3>1. answers[d] \in Seq(A)
      BY DEF TypeOK
    <3> HIDE DEF A
    <3>2. QED
      BY <2>1, <3>1, HeadTailProperties
  <2>3. Toggle(Head(answers[d])) \in Seq(Task)
    <3>1. Head(answers[d]).id \in Ids
      BY <2>2
    <3>2. /\ [kind |-> "like", id |-> Head(answers[d]).id] \in Task
          /\ [kind |-> "unlike", id |-> Head(answers[d]).id] \in Task
      BY <3>1 DEF Task, Kinds
    <3>3. QED
      BY <3>2 DEF Toggle
  <2>4. up[d]
    BY <2>1 DEF TypeOK
  <2>5. worker' \in [Devices -> Seq(Task)] /\ \A e \in Devices : e # d => worker'[e] = worker[e]
    BY <2>1, <2>3, <2>4, GiveType
  <2>6. /\ answers' \in [Devices -> Seq([id : Ids, seen : Seen])]
        /\ \A e \in Devices : e # d => answers'[e] = answers[e]
    <3>1. answers \in [Devices -> Seq(A)]
      BY DEF TypeOK
    <3> HIDE DEF A
    <3>2. answers' \in [Devices -> Seq(A)] /\ \A e \in Devices : e # d => answers'[e] = answers[e]
      BY <2>1, <2>2, <3>1
    <3>3. QED
      BY <3>2 DEF A
  <2>7. UNCHANGED <<owner, docs, cache, up, lane, done, reads, rows, by, taps, history>>
    BY <1>12 DEF Callback
  <2>8. QED
    BY <2>4, <2>5, <2>6, <2>7 DEF TypeOK, history
<1>13. CASE UNCHANGED vars
  BY <1>13 DEF vars, TypeOK
<1>14. QED
  BY <1>1, <1>2, <1>3, <1>4, <1>5, <1>6, <1>7, <1>8, <1>9, <1>10, <1>11, <1>12, <1>13 DEF Next

\* Whatever happens, the state keeps its shape.
THEOREM TypeCorrect == Spec => []TypeOK
<1>1. Init => TypeOK
  BY DEF Init, TypeOK, Doc
<1>2. TypeOK /\ [Next]_vars => TypeOK'
  BY TypeStep
<1>3. QED
  BY <1>1, <1>2, PTL DEF Spec

-----------------------------------------------------------------------------
(* What the steps do to the queues.                                        *)

\* Given tasks stand behind those of the worker queue.
LEMMA GiveQueues ==
    ASSUME TypeOK, NEW d \in Devices, up[d], NEW t \in Seq(Task), Give(d, t), UNCHANGED lane
    PROVE  \A e \in Devices : \A p, K :
               /\ HasTask(worker'[e], p, K) <=> HasTask(worker[e], p, K) \/ (e = d /\ HasTask(t, p, K))
               /\ HasTask(lane'[e], p, K) <=> HasTask(lane[e], p, K)
<1>1. \A e \in Devices : e # d => worker'[e] = worker[e]
  BY GiveType
<1>2. worker'[d] = worker[d] \o t /\ worker[d] \in Seq(Task)
  BY GiveType DEF TypeOK
<1>3. \A p, K : HasTask(worker'[d], p, K) <=> HasTask(worker[d], p, K) \/ HasTask(t, p, K)
  BY <1>2, HasJoined
<1>4. QED
  BY <1>1, <1>3

\* A process that ends takes its worker queue with it.
LEMMA DieQueues ==
    ASSUME TypeOK, NEW d \in Devices, Die(d)
    PROVE  \A e \in Devices : \A p, K :
               /\ HasTask(worker'[e], p, K) <=> e # d /\ HasTask(worker[e], p, K)
               /\ HasTask(lane'[e], p, K) <=> HasTask(lane[e], p, K)
<1>1. worker'[d] = <<>> /\ lane' = lane /\ \A e \in Devices : e # d => worker'[e] = worker[e]
  BY DEF Die, TypeOK
<1>2. QED
  BY <1>1, HasFew

\* The worker queue hands its first task on, a write to the lane.
LEMMA WorkQueues ==
    ASSUME TypeOK, NEW d \in Devices, Work(d), NEW t, t = Head(worker[d])
    PROVE  /\ worker[d] # <<>> /\ t \in Task
           /\ worker'[d] = Tail(worker[d])
           /\ lane'[d] = IF t.kind = "read" THEN lane[d] ELSE lane[d] \o <<t>>
           /\ reads'[d] = IF t.kind = "read" THEN Append(reads[d], t.id) ELSE reads[d]
           /\ \A e \in Devices : e # d =>
                 worker'[e] = worker[e] /\ lane'[e] = lane[e] /\ reads'[e] = reads[e]
           /\ \A p, K :
                 /\ HasTask(worker[d], p, K) <=>
                       (t.id = p /\ t.kind \in K) \/ HasTask(worker'[d], p, K)
                 /\ HasTask(lane'[d], p, K) <=>
                       HasTask(lane[d], p, K) \/ (t.id = p /\ t.kind \in K /\ t.kind # "read")
<1>1. worker[d] # <<>> /\ worker[d] \in Seq(Task) /\ lane[d] \in Seq(Write)
  BY DEF Work, TypeOK
<1>2. t \in Task
  BY <1>1, HeadTailProperties
<1>3. worker'[d] = Tail(worker[d]) /\ \A e \in Devices : e # d => worker'[e] = worker[e]
  BY DEF Work, TypeOK
<1>4. CASE t.kind = "read"
  <2>1. lane' = lane /\ reads' = [reads EXCEPT ![d] = Append(@, t.id)]
    BY <1>4 DEF Work
  <2>2. reads'[d] = Append(reads[d], t.id) /\ \A e \in Devices : e # d => reads'[e] = reads[e]
    BY <2>1 DEF TypeOK
  <2>3. \A p, K : HasTask(worker[d], p, K) <=>
                      (t.id = p /\ t.kind \in K) \/ HasTask(worker'[d], p, K)
    BY <1>1, <1>3, HasHead
  <2>4. QED
    BY <1>1, <1>2, <1>3, <1>4, <2>1, <2>2, <2>3
<1>5. CASE t.kind # "read"
  <2>1. reads' = reads /\ lane' = [lane EXCEPT ![d] = Append(@, t)]
    BY <1>5 DEF Work
  <2>2. Append(lane[d], t) = lane[d] \o <<t>>
    BY <1>1
  <2>3. lane'[d] = lane[d] \o <<t>> /\ \A e \in Devices : e # d => lane'[e] = lane[e]
    BY <2>1, <2>2 DEF TypeOK
  <2>4. \A p, K : HasTask(worker[d], p, K) <=>
                      (t.id = p /\ t.kind \in K) \/ HasTask(worker'[d], p, K)
    BY <1>1, <1>3, HasHead
  <2>5. lane[d] \in Seq(Task) /\ <<t>> \in Seq(Task)
    <3>1. Write \subseteq Task
      BY DEF Write, Task
    <3>2. QED
      BY <1>1, <1>2, <3>1
  <2>6. \A p, K : HasTask(lane'[d], p, K) <=> HasTask(lane[d], p, K) \/ (t.id = p /\ t.kind \in K)
    <3>1. \A p, K : HasTask(<<t>>, p, K) <=> t.id = p /\ t.kind \in K
      BY HasFew
    <3> DEFINE s == lane[d]
               r == <<t>>
    <3>2. lane'[d] = s \o r /\ s \in Seq(Task) /\ r \in Seq(Task)
      BY <2>3, <2>5
    <3> HIDE DEF s, r
    <3>3. \A p, K : HasTask(lane'[d], p, K) <=> HasTask(s, p, K) \/ HasTask(r, p, K)
      BY <3>2, HasJoined
    <3>4. QED
      BY <3>1, <3>3 DEF s, r
  <2>7. QED
    BY <1>1, <1>2, <1>3, <1>5, <2>1, <2>3, <2>4, <2>6
<1>6. QED
  BY <1>4, <1>5

\* The first write of a lane leaves it.
LEMMA PopQueues ==
    ASSUME TypeOK, NEW d \in Devices, Ack(d) \/ Refuse(d), NEW h, h = lane[d][1]
    PROVE  /\ lane[d] # <<>> /\ h \in Write /\ h = Head(lane[d])
           /\ lane'[d] = Tail(lane[d])
           /\ Len(lane'[d]) = Len(lane[d]) - 1
           /\ \A i \in 1..Len(lane'[d]) : lane'[d][i] = lane[d][i + 1]
           /\ \A e \in Devices : e # d => lane'[e] = lane[e]
           /\ worker' = worker
           /\ \A p, K : HasTask(lane[d], p, K) <=>
                 (h.id = p /\ h.kind \in K) \/ HasTask(lane'[d], p, K)
<1>1. lane[d] # <<>> /\ lane[d] \in Seq(Write) /\ lane[d] \in Seq(Task)
  <2>1. Write \subseteq Task
    BY DEF Write, Task
  <2>2. QED
    BY <2>1 DEF Ack, Refuse, TypeOK
<1>2. h \in Write /\ h = Head(lane[d])
  BY <1>1
<1>3. lane'[d] = Tail(lane[d]) /\ \A e \in Devices : e # d => lane'[e] = lane[e]
  BY DEF Ack, Refuse, TypeOK
<1>4. \A p, K : HasTask(lane[d], p, K) <=> (h.id = p /\ h.kind \in K) \/ HasTask(lane'[d], p, K)
  BY <1>1, <1>2, <1>3, HasHead
<1>5. Len(lane'[d]) = Len(lane[d]) - 1 /\ \A i \in 1..Len(lane'[d]) : lane'[d][i] = lane[d][i + 1]
  BY <1>1, <1>3, HeadTailProperties
<1>6. QED
  BY <1>1, <1>2, <1>3, <1>4, <1>5 DEF Ack, Refuse

\* Lanes are queues of tasks.
LEMMA LanesAreTasks ==
    ASSUME TypeOK, NEW d \in Devices
    PROVE  lane[d] \in Seq(Task) /\ worker[d] \in Seq(Task) /\ lane[d] \in Seq(Write)
<1>1. Write \subseteq Task
  BY DEF Write, Task
<1>2. QED
  BY <1>1 DEF TypeOK

-----------------------------------------------------------------------------
(* The order of the queues.                                                *)

\* Given tasks keep the order if they are about posts being created, or do not
\* create.
LEMMA GiveOrder ==
    ASSUME TypeOK, InOrder, NEW d \in Devices, up[d], NEW t \in Seq(Task), Give(d, t), UNCHANGED lane,
           Ordered(t), Behind(lane[d], t), Behind(worker[d], t)
    PROVE  InOrder'
<1>1. /\ \A e \in Devices : e # d => worker'[e] = worker[e]
      /\ worker'[d] = worker[d] \o t /\ worker[d] \in Seq(Task) /\ lane[d] \in Seq(Task)
  BY GiveType, LanesAreTasks
<1>2. Ordered(worker[d]) /\ Behind(lane[d], worker[d])
  BY DEF InOrder
<1>3. Ordered(worker'[d]) /\ Behind(lane[d], worker'[d])
  BY <1>1, <1>2, OrderedJoined, BehindJoined
<1>4. ASSUME NEW e \in Devices
      PROVE  Ordered(lane'[e]) /\ Ordered(worker'[e]) /\ Behind(lane'[e], worker'[e])
  BY <1>1, <1>3 DEF InOrder
<1>5. QED
  BY <1>4 DEF InOrder

\* So do the worker queue and a lane that loses its first write.
LEMMA WorkOrder ==
    ASSUME TypeOK, InOrder, NEW d \in Devices, Work(d)
    PROVE  InOrder'
<1> DEFINE t == Head(worker[d])
<1>1. /\ worker[d] # <<>> /\ t \in Task
      /\ worker'[d] = Tail(worker[d])
      /\ lane'[d] = IF t.kind = "read" THEN lane[d] ELSE lane[d] \o <<t>>
      /\ \A e \in Devices : e # d => worker'[e] = worker[e] /\ lane'[e] = lane[e]
  BY WorkQueues
<1>2. worker[d] \in Seq(Task) /\ lane[d] \in Seq(Task) /\ worker'[d] \in Seq(Task) /\ <<t>> \in Seq(Task)
  BY <1>1, LanesAreTasks, HeadTailProperties
<1>3. Ordered(lane[d]) /\ Ordered(worker[d]) /\ Behind(lane[d], worker[d])
  BY DEF InOrder
<1>4. Ordered(worker'[d]) /\ Behind(<<t>>, worker'[d]) /\ Ordered(<<t>>)
  BY <1>1, <1>2, <1>3, OrderedHead
<1>5. Behind(lane[d], worker'[d]) /\ Behind(lane[d], <<t>>)
  BY <1>1, <1>2, <1>3, BehindTails
<1>6. Ordered(lane[d] \o <<t>>) /\ Behind(lane[d] \o <<t>>, worker'[d])
  BY <1>2, <1>3, <1>4, <1>5, OrderedJoined, BehindJoined
<1>7. ASSUME NEW e \in Devices
      PROVE  Ordered(lane'[e]) /\ Ordered(worker'[e]) /\ Behind(lane'[e], worker'[e])
  BY <1>1, <1>3, <1>4, <1>5, <1>6 DEF InOrder
<1>8. QED
  BY <1>7 DEF InOrder

\* A lane that loses its first task is still in order.
LEMMA PopOrder ==
    ASSUME TypeOK, InOrder, NEW d \in Devices, Ack(d) \/ Refuse(d)
    PROVE  InOrder'
<1>1. /\ lane[d] # <<>> /\ lane'[d] = Tail(lane[d])
      /\ \A e \in Devices : e # d => lane'[e] = lane[e]
      /\ worker' = worker
  BY PopQueues
<1>2. worker[d] \in Seq(Task) /\ lane[d] \in Seq(Task)
  BY LanesAreTasks
<1>3. Ordered(lane[d]) /\ Ordered(worker[d]) /\ Behind(lane[d], worker[d])
  BY DEF InOrder
<1>4. Ordered(lane'[d]) /\ Behind(lane'[d], worker[d])
  BY <1>1, <1>2, <1>3, OrderedHead, BehindTails
<1>5. ASSUME NEW e \in Devices
      PROVE  Ordered(lane'[e]) /\ Ordered(worker'[e]) /\ Behind(lane'[e], worker'[e])
  BY <1>1, <1>3, <1>4 DEF InOrder
<1>6. QED
  BY <1>5 DEF InOrder

-----------------------------------------------------------------------------
(* Posts get their ids, deleted posts stay deleted.                        *)

PostInv ==
    /\ TypeOK
    /\ InOrder
    /\ OneWriter
    /\ UnusedIsUnknown
    /\ NameFollows
    /\ CommittedNames
    /\ NamesOnTheirWay
    /\ Deletes

\* The parts of the invariant that only look at the queues and the documents
\* do not mind tasks, given to a running app, that do not write a post.
LEMMA GivePost ==
    ASSUME PostInv, NEW d \in Devices, up[d], NEW t \in Seq(Task), Give(d, t),
           lane' = lane, done' = done, docs' = docs, owner' = owner, by' = by, torn' = torn,
           Len(t) <= 1, \A i \in 1..Len(t) : t[i].kind \notin {"create", "name"}
    PROVE  InOrder' /\ OneWriter' /\ NameFollows' /\ CommittedNames' /\ NamesOnTheirWay'
<1>1. \A e \in Devices : \A q, K :
          /\ HasTask(worker'[e], q, K) <=> HasTask(worker[e], q, K) \/ (e = d /\ HasTask(t, q, K))
          /\ HasTask(lane'[e], q, K) <=> HasTask(lane[e], q, K)
  BY GiveQueues DEF PostInv
<1>2. \A q : ~HasTask(t, q, {"create"}) /\ ~HasTask(t, q, {"name"}) /\ ~HasTask(t, q, {"create", "name"})
  BY DEF HasTask
<1>3. \A e \in Devices, q \in Ids, K \in {{"create"}, {"name"}, {"create", "name"}} :
          HasTask(worker'[e], q, K) <=> HasTask(worker[e], q, K)
  BY <1>1, <1>2
<1>4. Ordered(t) /\ Behind(lane[d], t) /\ Behind(worker[d], t)
  BY DEF Ordered, Behind
<1>5. InOrder'
  BY <1>4, GiveOrder DEF PostInv
<1>6. OneWriter'
  BY <1>1, <1>3 DEF PostInv, OneWriter, Writing, Has
<1>7. NameFollows'
  BY <1>1, <1>3 DEF PostInv, NameFollows, Has
<1>8. CommittedNames'
  BY DEF PostInv, CommittedNames
<1>9. NamesOnTheirWay'
  BY <1>1, <1>3 DEF PostInv, NamesOnTheirWay, Has
<1>10. QED
  BY <1>5, <1>6, <1>7, <1>8, <1>9

\* A post is written.
LEMMA WritePostPost ==
    ASSUME PostInv, NEW d \in Devices, WritePost(d)
    PROVE  PostInv'
<1>1. PICK p \in Ids : by[p] = NoUser /\ by' = [by EXCEPT ![p] = owner[d]] /\ Give(d, CreateWrites(p))
  BY DEF WritePost
<1> DEFINE c == [kind |-> "create", id |-> p]
           n == [kind |-> "name", id |-> p]
           t == CreateWrites(p)
<1>2. t = <<c, n>> /\ t \in Seq(Task)
  BY DEF CreateWrites, Task, Kinds
<1>3. /\ lane' = lane /\ done' = done /\ docs' = docs /\ owner' = owner /\ torn' = torn
      /\ cache' = cache /\ rows' = rows /\ reads' = reads /\ answers' = answers
      /\ deleted' = deleted /\ contested' = contested
      /\ up[d]
  BY DEF WritePost, liking, history
<1>4. owner[d] \in Users /\ owner[d] # NoUser
  BY PostsAssumption DEF PostInv, TypeOK
<1>5. /\ by'[p] = owner[d] /\ \A q \in Ids : q # p => by'[q] = by[q]
  BY <1>1 DEF PostInv, TypeOK
<1>6. \A e \in Devices : ~Has(e, p, Kinds) /\ ~Reading(e, p) /\ docs[p] = NoDoc /\ p \notin deleted
  BY <1>1 DEF PostInv, UnusedIsUnknown
<1> HIDE DEF t
<1>7. \A e \in Devices : \A q, K :
          /\ HasTask(worker'[e], q, K) <=> HasTask(worker[e], q, K) \/ (e = d /\ HasTask(t, q, K))
          /\ HasTask(lane'[e], q, K) <=> HasTask(lane[e], q, K)
  BY <1>1, <1>2, <1>3, GiveQueues DEF PostInv, t
<1>8. \A q, K : HasTask(t, q, K) <=> q = p /\ ("create" \in K \/ "name" \in K)
  BY <1>2 DEF HasTask
<1>9. \A e \in Devices :
          /\ \A i \in 1..Len(lane[e]) : lane[e][i].id # p
          /\ \A i \in 1..Len(worker[e]) : worker[e][i].id # p
  <2>1. ASSUME NEW e \in Devices, NEW i \in 1..Len(lane[e]) PROVE lane[e][i].id # p
    <3>1. lane[e][i] \in Write
      BY LanesAreTasks DEF PostInv
    <3>2. QED
      BY <1>6, <3>1 DEF Has, HasTask, Write
  <2>2. ASSUME NEW e \in Devices, NEW i \in 1..Len(worker[e]) PROVE worker[e][i].id # p
    <3>1. worker[e][i] \in Task
      BY LanesAreTasks DEF PostInv
    <3>2. QED
      BY <1>6, <3>1 DEF Has, HasTask, Reading, Task
  <2>3. QED
    BY <2>1, <2>2
<1>10. TypeOK'
  BY TypeStep DEF PostInv, Next
<1>11. InOrder'
  <2>1. Ordered(t)
    BY <1>2 DEF Ordered
  <2>2. \A i \in 1..Len(t) : t[i].id = p
    BY <1>2
  <2>3. Behind(lane[d], t) /\ Behind(worker[d], t)
    BY <1>9, <2>2 DEF Behind
  <2>4. QED
    BY <1>1, <1>2, <1>3, <2>1, <2>3, GiveOrder DEF PostInv, t
<1>12. OneWriter'
  <2>1. \A e \in Devices : ~Writing(e, p)
    BY <1>6 DEF Writing, Has, HasTask, Kinds
  <2>2. \A e \in Devices, q \in Ids : Writing(e, q)' <=> Writing(e, q) \/ (e = d /\ q = p)
    BY <1>7, <1>8 DEF Writing, Has
  <2>3. QED
    BY <1>3, <1>5, <2>1, <2>2 DEF PostInv, OneWriter
<1>13. UnusedIsUnknown'
  <2>1. SUFFICES ASSUME NEW q \in Ids, by'[q] = NoUser
                 PROVE  /\ docs'[q] = NoDoc /\ q \notin deleted'
                        /\ \A e \in Devices :
                              /\ cache'[e][q] = NoDoc
                              /\ \A b \in BOOLEAN : <<q, b>> \notin rows'[e]
                              /\ ~Has(e, q, Kinds)'
                              /\ ~Reading(e, q)'
    BY DEF UnusedIsUnknown
  <2>2. q # p /\ by[q] = NoUser
    BY <1>4, <1>5, <2>1
  <2>3. \A e \in Devices : \A K : (HasTask(worker'[e], q, K) <=> HasTask(worker[e], q, K))
                           /\ (HasTask(lane'[e], q, K) <=> HasTask(lane[e], q, K))
    BY <1>7, <1>8, <2>2
  <2>4. /\ docs[q] = NoDoc /\ q \notin deleted
        /\ \A e \in Devices :
              /\ cache[e][q] = NoDoc
              /\ \A b \in BOOLEAN : <<q, b>> \notin rows[e]
              /\ ~Has(e, q, Kinds)
              /\ ~Reading(e, q)
    BY <2>2 DEF PostInv, UnusedIsUnknown
  <2>5. \A e \in Devices : ~Has(e, q, Kinds)'
    BY <2>3, <2>4 DEF Has
  <2>6. \A e \in Devices : ~Reading(e, q)'
    BY <1>3, <2>3, <2>4 DEF Reading
  <2>7. QED
    BY <1>3, <2>4, <2>5, <2>6
<1>14. NameFollows'
  <2>1. ~HasTask(lane[d], p, {"create"})
    BY <1>9 DEF HasTask
  <2>2. \A e \in Devices, q \in Ids : Has(e, q, {"name"}) => Has(e, q, {"name"})'
    BY <1>7 DEF Has
  <2>3. QED
    BY <1>3, <1>6, <1>7, <1>8, <2>2 DEF PostInv, NameFollows
<1>15. CommittedNames'
  BY <1>3 DEF PostInv, CommittedNames
<1>16. NamesOnTheirWay'
  <2>1. \A e \in Devices, q \in Ids : Has(e, q, {"name"}) => Has(e, q, {"name"})'
    BY <1>7 DEF Has
  <2>2. QED
    BY <1>3, <1>5, <1>6, <2>1 DEF PostInv, NamesOnTheirWay, Readable
<1>17. Deletes'
  <2>1. \A e \in Devices, q \in Ids : Writing(e, q)' <=> Writing(e, q) \/ (e = d /\ q = p)
    BY <1>7, <1>8 DEF Writing, Has
  <2>2. \A e \in Devices, q \in Ids : Has(e, q, {"delete"})' <=> Has(e, q, {"delete"})
    BY <1>7, <1>8 DEF Has
  <2>3. \A e \in Devices : ~Has(e, p, {"delete"})
    BY <1>6 DEF PostInv, Deletes
  <2>4. \A e \in Devices, q \in Ids : Has(e, q, {"delete"})' => q \in deleted'
    BY <1>3, <2>2 DEF PostInv, Deletes
  <2>5. \A x, e \in Devices, q \in Ids \ contested' :
            Has(x, q, {"delete"})' /\ Writing(e, q)' => e = x
    BY <1>3, <2>1, <2>2, <2>3 DEF PostInv, Deletes
  <2>6. \A e \in Devices : \A i \in 1..done'[e] :
            lane'[e][i].kind = "delete" /\ lane'[e][i].id \notin contested' => docs'[lane'[e][i].id] = NoDoc
    BY <1>3 DEF PostInv, Deletes
  <2>7. \A q \in deleted' \ contested' :
            \/ \E e \in Devices : Has(e, q, {"delete"})'
            \/ docs'[q] = NoDoc /\ \A e \in Devices : ~Writing(e, q)'
    BY <1>3, <1>6, <2>1, <2>2 DEF PostInv, Deletes, TypeOK
  <2>8. QED
    BY <2>4, <2>5, <2>6, <2>7 DEF Deletes
<1>18. QED
  BY <1>10, <1>11, <1>12, <1>13, <1>14, <1>15, <1>16, <1>17 DEF PostInv

\* The two parts that GivePost leaves out, for a task about a known post.
LEMMA GiveKnown ==
    ASSUME PostInv, NEW d \in Devices, up[d], NEW t \in Seq(Task), Give(d, t),
           lane' = lane, done' = done, docs' = docs, owner' = owner, by' = by,
           cache' = cache, rows' = rows, reads' = reads,
           \A e \in Devices, q \in Ids : q \in {answers'[e][i].id : i \in 1..Len(answers'[e])}
                                      => q \in {answers[e][i].id : i \in 1..Len(answers[e])},
           \A i \in 1..Len(t) : by[t[i].id] # NoUser,
           deleted \subseteq deleted', \A q \in deleted' \ deleted : by[q] # NoUser
    PROVE  UnusedIsUnknown'
<1>1. \A e \in Devices : \A q, K :
          /\ HasTask(worker'[e], q, K) <=> HasTask(worker[e], q, K) \/ (e = d /\ HasTask(t, q, K))
          /\ HasTask(lane'[e], q, K) <=> HasTask(lane[e], q, K)
  BY GiveQueues DEF PostInv
<1>2. SUFFICES ASSUME NEW q \in Ids, by'[q] = NoUser
               PROVE  /\ docs'[q] = NoDoc /\ q \notin deleted'
                      /\ \A e \in Devices :
                            /\ cache'[e][q] = NoDoc
                            /\ \A b \in BOOLEAN : <<q, b>> \notin rows'[e]
                            /\ ~Has(e, q, Kinds)'
                            /\ ~Reading(e, q)'
  BY DEF UnusedIsUnknown
<1>3. /\ docs[q] = NoDoc /\ q \notin deleted
      /\ \A e \in Devices :
            /\ cache[e][q] = NoDoc
            /\ \A b \in BOOLEAN : <<q, b>> \notin rows[e]
            /\ ~Has(e, q, Kinds)
            /\ ~Reading(e, q)
  BY <1>2 DEF PostInv, UnusedIsUnknown
<1>4. \A K : ~HasTask(t, q, K)
  BY <1>2 DEF HasTask
<1>5. \A e \in Devices : ~Has(e, q, Kinds)'
  BY <1>1, <1>3, <1>4 DEF Has
<1>6. ASSUME NEW e \in Devices PROVE ~Reading(e, q)'
  <2>1. ~HasTask(worker'[e], q, {"read"})
    <3>1. ~HasTask(worker[e], q, {"read"})
      BY <1>3 DEF Reading
    <3>2. QED
      BY <1>1, <1>4, <3>1
  <2>2. \A i \in 1..Len(reads'[e]) : reads'[e][i] # q
    BY <1>3 DEF Reading
  <2>3. q \notin {answers[e][i].id : i \in 1..Len(answers[e])}
    BY <1>3 DEF Reading
  <2>4. q \notin {answers'[e][i].id : i \in 1..Len(answers'[e])}
    BY <2>3
  <2>5. QED
    BY <2>1, <2>2, <2>4 DEF Reading
<1>7. QED
  BY <1>2, <1>3, <1>5, <1>6

\* Given tasks are had, in memory or on disk.
LEMMA GiveHas ==
    ASSUME TypeOK, NEW d \in Devices, up[d], NEW t \in Seq(Task), Give(d, t), lane' = lane
    PROVE  \A e \in Devices : \A p, K : Has(e, p, K)' <=> Has(e, p, K) \/ (e = d /\ HasTask(t, p, K))
<1>1. \A e \in Devices : \A p, K :
          /\ HasTask(worker'[e], p, K) <=> HasTask(worker[e], p, K) \/ (e = d /\ HasTask(t, p, K))
          /\ HasTask(lane'[e], p, K) <=> HasTask(lane[e], p, K)
  BY GiveQueues
<1>2. QED
  BY <1>1 DEF Has

\* Steps that leave the writes and the deletes alone.
LEMMA KeepDeletes ==
    ASSUME PostInv, lane' = lane, done' = done, docs' = docs, deleted' = deleted,
           contested' = contested,
           \A e \in Devices, q \in Ids :
               /\ Has(e, q, {"delete"})' <=> Has(e, q, {"delete"})
               /\ Writing(e, q)' <=> Writing(e, q)
    PROVE  Deletes'
<1>1. \A e \in Devices, q \in Ids : Has(e, q, {"delete"})' => q \in deleted'
  BY DEF PostInv, Deletes
<1>2. \A x, e \in Devices, q \in Ids \ contested' :
          Has(x, q, {"delete"})' /\ Writing(e, q)' => e = x
  BY DEF PostInv, Deletes
<1>3. \A e \in Devices : \A i \in 1..done'[e] :
          lane'[e][i].kind = "delete" /\ lane'[e][i].id \notin contested' => docs'[lane'[e][i].id] = NoDoc
  BY DEF PostInv, Deletes
<1>4. \A q \in deleted' \ contested' :
          \/ \E e \in Devices : Has(e, q, {"delete"})'
          \/ docs'[q] = NoDoc /\ \A e \in Devices : ~Writing(e, q)'
  BY DEF PostInv, Deletes, TypeOK
<1>5. QED
  BY <1>1, <1>2, <1>3, <1>4 DEF Deletes

\* A like is tapped.
LEMMA TapLikePost ==
    ASSUME PostInv, NEW d \in Devices, TapLike(d)
    PROVE  PostInv'
<1>1. PICK p \in Ids : <<p, TRUE>> \in rows[d] /\ Give(d, <<[kind |-> "read", id |-> p]>>)
  BY DEF TapLike
<1> DEFINE t == <<[kind |-> "read", id |-> p]>>
<1>2. t \in Seq(Task) /\ Len(t) = 1 /\ t[1].kind = "read" /\ t[1].id = p
  BY DEF Task, Kinds
<1>3. /\ lane' = lane /\ done' = done /\ docs' = docs /\ owner' = owner /\ torn' = torn /\ by' = by
      /\ cache' = cache /\ rows' = rows /\ reads' = reads /\ answers' = answers
      /\ deleted' = deleted /\ contested' = contested
      /\ up[d]
  BY DEF TapLike, liking
<1>4. by[p] # NoUser
  BY <1>1 DEF PostInv, UnusedIsUnknown
<1> HIDE DEF t
<1>5. Give(d, t) /\ \A i \in 1..Len(t) : t[i].kind = "read" /\ by[t[i].id] # NoUser
  BY <1>1, <1>2, <1>4 DEF t
<1>6. TypeOK'
  BY TypeStep DEF PostInv, Next
<1>7. InOrder' /\ OneWriter' /\ NameFollows' /\ CommittedNames' /\ NamesOnTheirWay'
  <2>1. \A i \in 1..Len(t) : t[i].kind \notin {"create", "name"}
    BY <1>5
  <2>2. Len(t) <= 1
    BY <1>2
  <2>3. QED
    BY <1>2, <1>3, <1>5, <2>1, <2>2, GivePost
<1>8. UnusedIsUnknown'
  BY <1>2, <1>3, <1>5, GiveKnown
<1>9. Deletes'
  <2>1. \A q, K : HasTask(t, q, K) => "read" \in K
    BY <1>5 DEF HasTask
  <2>2. \A e \in Devices : \A q, K : Has(e, q, K)' <=> Has(e, q, K) \/ (e = d /\ HasTask(t, q, K))
    BY <1>2, <1>3, <1>5, GiveHas DEF PostInv
  <2>3. \A e \in Devices, q \in Ids : (Has(e, q, {"delete"})' <=> Has(e, q, {"delete"}))
                                   /\ (Writing(e, q)' <=> Writing(e, q))
    BY <2>1, <2>2 DEF Writing
  <2>4. QED
    BY <1>3, <2>3, KeepDeletes
<1>10. QED
  BY <1>6, <1>7, <1>8, <1>9 DEF PostInv

\* What likePost decided is given to the SDK.
LEMMA CallbackPost ==
    ASSUME PostInv, NEW d \in Devices, Callback(d)
    PROVE  PostInv'
<1> DEFINE a == Head(answers[d])
           t == Toggle(a)
           A == [id : Ids, seen : Seen]
<1>1. answers[d] # <<>> /\ Give(d, t) /\ answers' = [answers EXCEPT ![d] = Tail(@)]
  BY DEF Callback
<1>2. /\ lane' = lane /\ done' = done /\ docs' = docs /\ owner' = owner /\ torn' = torn /\ by' = by
      /\ cache' = cache /\ rows' = rows /\ reads' = reads
      /\ deleted' = deleted /\ contested' = contested
  BY DEF Callback, history
<1>3. answers \in [Devices -> Seq(A)] /\ up[d]
  BY <1>1 DEF PostInv, TypeOK
<1>4. /\ a \in A /\ a = answers[d][1] /\ 1 \in 1..Len(answers[d])
      /\ Len(Tail(answers[d])) = Len(answers[d]) - 1
      /\ \A i \in 1..Len(Tail(answers[d])) :
            i + 1 \in 1..Len(answers[d]) /\ Tail(answers[d])[i] = answers[d][i + 1]
  <2> HIDE DEF A
  <2>1. answers[d] \in Seq(A)
    BY <1>3
  <2>2. QED
    BY <1>1, <2>1, HeadTailProperties
<1>5. by[a.id] # NoUser
  <2>1. Reading(d, a.id)
    BY <1>4 DEF Reading
  <2>2. QED
    BY <1>4, <2>1 DEF PostInv, UnusedIsUnknown
<1>6. /\ t \in Seq(Task) /\ Len(t) <= 1
      /\ \A i \in 1..Len(t) : t[i].kind \in Toggles /\ t[i].id = a.id
  <2>1. \A k \in Toggles : [kind |-> k, id |-> a.id] \in Task
    BY <1>4 DEF Toggles, Task, Kinds
  <2>2. QED
    BY <2>1 DEF Toggle, Toggles
<1>7. ASSUME NEW e \in Devices, NEW q \in Ids, q \in {answers'[e][i].id : i \in 1..Len(answers'[e])}
      PROVE  q \in {answers[e][i].id : i \in 1..Len(answers[e])}
  <2>1. CASE e = d
    <3>1. answers'[d] = Tail(answers[d])
      BY <1>1, <1>3
    <3>2. QED
      BY <1>4, <1>7, <2>1, <3>1
  <2>2. CASE e # d
    BY <1>1, <1>3, <1>7, <2>2
  <2>3. QED
    BY <2>1, <2>2
<1> HIDE DEF t, a, A
<1>8. \A i \in 1..Len(t) : t[i].kind \notin {"create", "name", "delete"} /\ by[t[i].id] # NoUser
  BY <1>5, <1>6 DEF Toggles
<1>9. TypeOK'
  BY TypeStep DEF PostInv, Next
<1>10. InOrder' /\ OneWriter' /\ NameFollows' /\ CommittedNames' /\ NamesOnTheirWay'
  BY <1>1, <1>2, <1>3, <1>6, <1>8, GivePost
<1>11. UnusedIsUnknown'
  BY <1>1, <1>2, <1>3, <1>6, <1>7, <1>8, GiveKnown
<1>12. Deletes'
  <2>1. \A q : ~HasTask(t, q, {"delete"}) /\ ~HasTask(t, q, {"create", "name"})
    BY <1>8 DEF HasTask
  <2>2. \A e \in Devices : \A q, K : Has(e, q, K)' <=> Has(e, q, K) \/ (e = d /\ HasTask(t, q, K))
    BY <1>1, <1>2, <1>3, <1>6, GiveHas DEF PostInv
  <2>3. \A e \in Devices, q \in Ids : (Has(e, q, {"delete"})' <=> Has(e, q, {"delete"}))
                                   /\ (Writing(e, q)' <=> Writing(e, q))
    BY <2>1, <2>2 DEF Writing
  <2>4. QED
    BY <1>2, <2>3, KeepDeletes
<1>13. QED
  BY <1>9, <1>10, <1>11, <1>12 DEF PostInv

\* What is queued on disk and in memory is what is queued.
LEMMA QueuedHas ==
    ASSUME TypeOK, NEW d \in Devices
    PROVE  \A p, K : HasTask(Queued(d), p, K) <=> Has(d, p, K)
BY HasJoined, LanesAreTasks DEF Queued, Has

\* A post is deleted.
LEMMA TapDeletePost ==
    ASSUME PostInv, NEW d \in Devices, TapDelete(d)
    PROVE  PostInv'
<1>1. PICK p \in Ids :
         /\ <<p, TRUE>> \in rows[d]
         /\ Give(d, <<[kind |-> "delete", id |-> p]>>)
         /\ deleted' = deleted \cup {p}
         /\ contested' = IF \E e \in Devices \ {d} : HasTask(Queued(e), p, {"create", "name"})
                         THEN contested \cup {p} ELSE contested
  BY DEF TapDelete
<1> DEFINE t == <<[kind |-> "delete", id |-> p]>>
<1>2. t \in Seq(Task) /\ Len(t) = 1 /\ t[1].kind = "delete" /\ t[1].id = p
  BY DEF Task, Kinds
<1>3. /\ lane' = lane /\ done' = done /\ docs' = docs /\ owner' = owner /\ torn' = torn /\ by' = by
      /\ cache' = cache /\ rows' = rows /\ reads' = reads /\ answers' = answers
      /\ up[d]
  BY DEF TapDelete, liking
<1>4. by[p] # NoUser
  BY <1>1 DEF PostInv, UnusedIsUnknown
<1> HIDE DEF t
<1>5. Give(d, t) /\ \A i \in 1..Len(t) : t[i].kind = "delete" /\ t[i].id = p /\ by[t[i].id] # NoUser
  BY <1>1, <1>2, <1>4 DEF t
<1>6. TypeOK'
  BY TypeStep DEF PostInv, Next
<1>7. InOrder' /\ OneWriter' /\ NameFollows' /\ CommittedNames' /\ NamesOnTheirWay'
  BY <1>2, <1>3, <1>5, GivePost
<1>8. UnusedIsUnknown'
  BY <1>1, <1>2, <1>3, <1>4, <1>5, GiveKnown
<1>9. Deletes'
  <2>1. \A q, K : HasTask(t, q, K) <=> q = p /\ "delete" \in K
    BY <1>2, <1>5 DEF HasTask
  <2>2. \A e \in Devices, q \in Ids :
            /\ Has(e, q, {"delete"})' <=> Has(e, q, {"delete"}) \/ (e = d /\ q = p)
            /\ Writing(e, q)' <=> Writing(e, q)
    <3>1. \A e \in Devices : \A q, K : Has(e, q, K)' <=> Has(e, q, K) \/ (e = d /\ HasTask(t, q, K))
      BY <1>2, <1>3, <1>5, GiveHas DEF PostInv
    <3>2. QED
      BY <2>1, <3>1 DEF Writing
  <2>3. \A e \in Devices, q \in Ids : Has(e, q, {"delete"})' => q \in deleted'
    BY <1>1, <2>2 DEF PostInv, Deletes
  <2>4. ASSUME NEW x \in Devices, NEW e \in Devices, NEW q \in Ids \ contested',
               Has(x, q, {"delete"})', Writing(e, q)'
        PROVE  e = x
    <3>1. q \notin contested /\ Writing(e, q)
      BY <1>1, <2>2, <2>4
    <3>2. CASE Has(x, q, {"delete"})
      BY <3>1, <3>2 DEF PostInv, Deletes
    <3>3. CASE x = d /\ q = p
      BY <1>1, <2>4, <3>1, <3>3, QueuedHas DEF PostInv, Writing
    <3>4. QED
      BY <2>2, <2>4, <3>2, <3>3
  <2>5. \A e \in Devices : \A i \in 1..done'[e] :
            lane'[e][i].kind = "delete" /\ lane'[e][i].id \notin contested' => docs'[lane'[e][i].id] = NoDoc
    BY <1>1, <1>3 DEF PostInv, Deletes
  <2>6. \A q \in deleted' \ contested' :
            \/ \E e \in Devices : Has(e, q, {"delete"})'
            \/ docs'[q] = NoDoc /\ \A e \in Devices : ~Writing(e, q)'
    BY <1>1, <1>3, <2>2 DEF PostInv, Deletes, TypeOK
  <2>7. QED
    BY <2>3, <2>4, <2>5, <2>6 DEF Deletes
<1>10. QED
  BY <1>6, <1>7, <1>8, <1>9 DEF PostInv

\* A process ends.
LEMMA DiePost ==
    ASSUME PostInv, NEW d \in Devices, Die(d)
    PROVE  PostInv'
<1>1. \A e \in Devices : \A p, K :
          /\ HasTask(worker'[e], p, K) <=> e # d /\ HasTask(worker[e], p, K)
          /\ HasTask(lane'[e], p, K) <=> HasTask(lane[e], p, K)
  BY DieQueues DEF PostInv
<1>2. /\ owner' = owner /\ docs' = docs /\ cache' = cache /\ lane' = lane /\ by' = by
      /\ deleted' = deleted
  BY DEF Die
<1>3. /\ torn' = torn \cup {p \in Lost(d, {"name"}) : ~HasTask(worker[d], p, {"create"})}
      /\ contested' = contested \cup Lost(d, {"delete"})
      /\ worker'[d] = <<>> /\ \A e \in Devices : e # d => worker'[e] = worker[e]
      /\ done'[d] = 0 /\ \A e \in Devices : e # d => done'[e] = done[e]
      /\ rows'[d] = {} /\ \A e \in Devices : e # d => rows'[e] = rows[e]
      /\ reads'[d] = <<>> /\ \A e \in Devices : e # d => reads'[e] = reads[e]
      /\ answers'[d] = <<>> /\ \A e \in Devices : e # d => answers'[e] = answers[e]
  BY DEF Die, PostInv, TypeOK
<1>4. \A e \in Devices : \A p, K : Has(e, p, K)' => Has(e, p, K)
  BY <1>1 DEF Has
<1>5. \A e \in Devices : \A p : Writing(e, p)' => Writing(e, p)
  BY <1>4 DEF Writing
<1>6. TypeOK'
  BY DieType DEF PostInv
<1>7. InOrder'
  <2>1. \A e \in Devices : Ordered(lane[e]) /\ Ordered(worker[e]) /\ Behind(lane[e], worker[e])
    BY DEF PostInv, InOrder
  <2>2. \A s : Ordered(<<>>) /\ Behind(s, <<>>)
    BY DEF Ordered, Behind
  <2>3. ASSUME NEW e \in Devices
        PROVE  Ordered(lane'[e]) /\ Ordered(worker'[e]) /\ Behind(lane'[e], worker'[e])
    BY <1>2, <1>3, <2>1, <2>2
  <2>4. QED
    BY <2>3 DEF InOrder
<1>8. OneWriter'
  BY <1>2, <1>5 DEF PostInv, OneWriter
<1>9. UnusedIsUnknown'
  <2>1. SUFFICES ASSUME NEW q \in Ids, by'[q] = NoUser
                 PROVE  /\ docs'[q] = NoDoc /\ q \notin deleted'
                        /\ \A e \in Devices :
                              /\ cache'[e][q] = NoDoc
                              /\ \A b \in BOOLEAN : <<q, b>> \notin rows'[e]
                              /\ ~Has(e, q, Kinds)'
                              /\ ~Reading(e, q)'
    BY DEF UnusedIsUnknown
  <2>2. /\ docs[q] = NoDoc /\ q \notin deleted
        /\ \A e \in Devices :
              /\ cache[e][q] = NoDoc
              /\ \A b \in BOOLEAN : <<q, b>> \notin rows[e]
              /\ ~Has(e, q, Kinds)
              /\ ~Reading(e, q)
    BY <1>2, <2>1 DEF PostInv, UnusedIsUnknown
  <2>3. ASSUME NEW e \in Devices PROVE ~Reading(e, q)'
    <3>1. ~HasTask(worker'[e], q, {"read"})
      BY <1>1, <2>2 DEF Reading
    <3>2. CASE e = d
      <4>1. Len(reads'[e]) = 0 /\ Len(answers'[e]) = 0
        BY <1>3, <3>2
      <4>2. QED
        BY <3>1, <4>1 DEF Reading
    <3>3. CASE e # d
      <4>1. reads'[e] = reads[e] /\ answers'[e] = answers[e]
        BY <1>3, <3>3
      <4>2. QED
        BY <2>2, <3>1, <4>1 DEF Reading
    <3>4. QED
      BY <3>2, <3>3
  <2>4. \A e \in Devices : \A b \in BOOLEAN : <<q, b>> \notin rows'[e]
    BY <1>3, <2>2
  <2>5. QED
    BY <1>2, <1>4, <2>2, <2>3, <2>4
<1>10. NameFollows'
  <2>1. ASSUME NEW e \in Devices, NEW p \in Ids, HasTask(lane'[e], p, {"create"}), p \notin torn'
        PROVE  Has(e, p, {"name"})'
    <3>1. HasTask(lane[e], p, {"create"}) /\ p \notin torn
      BY <1>1, <1>3, <2>1
    <3>2. Has(e, p, {"name"})
      BY <3>1 DEF PostInv, NameFollows
    <3>3. CASE HasTask(lane[e], p, {"name"}) \/ e # d
      BY <1>1, <3>2, <3>3 DEF Has
    <3>4. CASE e = d /\ HasTask(worker[d], p, {"name"})
      <4>1. HasTask(worker[d], p, {"create"})
        BY <1>3, <2>1, <3>4 DEF Lost
      <4>2. Behind(lane[d], worker[d])
        BY DEF PostInv, InOrder
      <4>3. QED
        BY <3>1, <3>4, <4>1, <4>2 DEF Behind, HasTask
    <3>5. QED
      BY <3>2, <3>3, <3>4 DEF Has
  <2>2. ASSUME NEW e \in Devices, NEW p \in Ids, HasTask(worker'[e], p, {"create"})
        PROVE  HasTask(worker'[e], p, {"name"}) /\ docs'[p] = NoDoc
    BY <1>1, <1>2, <2>2 DEF PostInv, NameFollows
  <2>3. QED
    BY <2>1, <2>2 DEF NameFollows
<1>11. CommittedNames'
  BY <1>2, <1>3 DEF PostInv, CommittedNames
<1>12. NamesOnTheirWay'
  <2>1. SUFFICES ASSUME NEW p \in Ids \ torn', Readable(docs[p]), ~docs[p].named
                 PROVE  \E e \in Devices : owner[e] = by[p] /\ Has(e, p, {"name"})'
    BY <1>2 DEF NamesOnTheirWay
  <2>2. PICK e \in Devices : owner[e] = by[p] /\ Has(e, p, {"name"})
    BY <1>3, <2>1 DEF PostInv, NamesOnTheirWay
  <2>3. CASE HasTask(lane[e], p, {"name"}) \/ e # d
    BY <1>1, <2>2, <2>3 DEF Has
  <2>4. CASE e = d /\ HasTask(worker[d], p, {"name"})
    <3>1. HasTask(worker[d], p, {"create"})
      BY <1>3, <2>1, <2>4 DEF Lost
    <3>2. docs[p] = NoDoc
      BY <3>1 DEF PostInv, NameFollows
    <3>3. QED
      BY <2>1, <3>2 DEF Readable
  <2>5. QED
    BY <2>2, <2>3, <2>4 DEF Has
<1>13. Deletes'
  <2>1. \A e \in Devices, q \in Ids : Has(e, q, {"delete"})' => q \in deleted'
    BY <1>2, <1>4 DEF PostInv, Deletes
  <2>2. \A x, e \in Devices, q \in Ids \ contested' :
            Has(x, q, {"delete"})' /\ Writing(e, q)' => e = x
    BY <1>3, <1>4, <1>5 DEF PostInv, Deletes
  <2>3. \A e \in Devices : \A i \in 1..done'[e] :
            lane'[e][i].kind = "delete" /\ lane'[e][i].id \notin contested' => docs'[lane'[e][i].id] = NoDoc
    BY <1>2, <1>3 DEF PostInv, Deletes
  <2>4. ASSUME NEW q \in deleted' \ contested'
        PROVE  \/ \E e \in Devices : Has(e, q, {"delete"})'
               \/ docs'[q] = NoDoc /\ \A e \in Devices : ~Writing(e, q)'
    <3>1. q \in Ids /\ q \in deleted \ contested
      BY <1>2, <1>3 DEF PostInv, TypeOK
    <3>2. CASE docs[q] = NoDoc /\ \A e \in Devices : ~Writing(e, q)
      BY <1>2, <1>5, <3>2
    <3>3. ASSUME NEW e \in Devices, Has(e, q, {"delete"}) PROVE Has(e, q, {"delete"})'
      <4>1. HasTask(worker[d], q, {"delete"}) => q \in contested'
        BY <1>3, <3>1 DEF Lost
      <4>2. QED
        BY <1>1, <3>3, <4>1 DEF Has
    <3>4. QED
      BY <3>1, <3>2, <3>3 DEF PostInv, Deletes
  <2>5. QED
    BY <2>1, <2>2, <2>3, <2>4 DEF Deletes
<1>14. QED
  BY <1>6, <1>7, <1>8, <1>9, <1>10, <1>11, <1>12, <1>13 DEF PostInv

\* The worker queue runs a task.
LEMMA WorkPost ==
    ASSUME PostInv, NEW d \in Devices, Work(d)
    PROVE  PostInv'
<1> DEFINE t == Head(worker[d])
<1>1. /\ worker[d] # <<>> /\ t \in Task
      /\ worker'[d] = Tail(worker[d])
      /\ lane'[d] = IF t.kind = "read" THEN lane[d] ELSE lane[d] \o <<t>>
      /\ reads'[d] = IF t.kind = "read" THEN Append(reads[d], t.id) ELSE reads[d]
      /\ \A e \in Devices : e # d =>
            worker'[e] = worker[e] /\ lane'[e] = lane[e] /\ reads'[e] = reads[e]
      /\ \A p, K :
            /\ HasTask(worker[d], p, K) <=> (t.id = p /\ t.kind \in K) \/ HasTask(worker'[d], p, K)
            /\ HasTask(lane'[d], p, K) <=>
                  HasTask(lane[d], p, K) \/ (t.id = p /\ t.kind \in K /\ t.kind # "read")
  BY WorkQueues DEF PostInv
<1>2. /\ owner' = owner /\ docs' = docs /\ cache' = cache /\ by' = by /\ done' = done
      /\ answers' = answers /\ rows' = rows /\ deleted' = deleted /\ contested' = contested
      /\ torn' = torn
  BY DEF Work, history
<1> HIDE DEF t
<1>3. \A e \in Devices : \A p, K : "read" \notin K => (Has(e, p, K)' <=> Has(e, p, K))
  <2>1. ASSUME NEW e \in Devices, NEW p, NEW K, "read" \notin K PROVE Has(e, p, K)' <=> Has(e, p, K)
    <3>1. CASE e = d
      BY <1>1, <2>1, <3>1 DEF Has
    <3>2. CASE e # d
      BY <1>1, <3>2 DEF Has
    <3>3. QED
      BY <3>1, <3>2
  <2>2. QED
    BY <2>1
<1>4. \A e \in Devices : \A p : /\ Writing(e, p)' <=> Writing(e, p)
                                /\ Has(e, p, {"delete"})' <=> Has(e, p, {"delete"})
                                /\ Has(e, p, {"name"})' <=> Has(e, p, {"name"})
                                /\ Has(e, p, Kinds)' <=> Has(e, p, Kinds)
  BY <1>3 DEF Writing, Kinds
<1>5. \A e \in Devices : \A i \in 1..done[e] : lane'[e][i] = lane[e][i]
  <2>1. ASSUME NEW i \in 1..done[d] PROVE lane'[d][i] = lane[d][i]
    <3>1. done[d] \in Nat /\ done[d] <= Len(lane[d]) /\ Len(lane[d]) \in Nat
      BY DEF PostInv, TypeOK
    <3>2. i \in 1..Len(lane[d])
      BY <3>1
    <3>3. lane[d] \in Seq(Task) /\ <<t>> \in Seq(Task)
      BY <1>1, LanesAreTasks DEF PostInv
    <3>4. (lane[d] \o <<t>>)[i] = lane[d][i]
      BY <3>2, <3>3
    <3>5. QED
      BY <1>1, <3>4
  <2>2. QED
    BY <1>1, <2>1
<1>6. TypeOK'
  BY TypeStep DEF PostInv, Next
<1>7. InOrder'
  BY WorkOrder DEF PostInv
<1>8. OneWriter'
  BY <1>2, <1>4 DEF PostInv, OneWriter
<1>9. UnusedIsUnknown'
  <2>1. SUFFICES ASSUME NEW q \in Ids, by'[q] = NoUser
                 PROVE  /\ docs'[q] = NoDoc /\ q \notin deleted'
                        /\ \A e \in Devices :
                              /\ cache'[e][q] = NoDoc
                              /\ \A b \in BOOLEAN : <<q, b>> \notin rows'[e]
                              /\ ~Has(e, q, Kinds)'
                              /\ ~Reading(e, q)'
    BY DEF UnusedIsUnknown
  <2>2. /\ docs[q] = NoDoc /\ q \notin deleted
        /\ \A e \in Devices :
              /\ cache[e][q] = NoDoc
              /\ \A b \in BOOLEAN : <<q, b>> \notin rows[e]
              /\ ~Has(e, q, Kinds)
              /\ ~Reading(e, q)
    BY <1>2, <2>1 DEF PostInv, UnusedIsUnknown
  <2>3. ASSUME NEW e \in Devices PROVE ~Reading(e, q)'
    <3>1. ~HasTask(worker[e], q, {"read"}) /\ \A i \in 1..Len(reads[e]) : reads[e][i] # q
      BY <2>2 DEF Reading
    <3>2. ~HasTask(worker'[e], q, {"read"})
      BY <1>1, <3>1
    <3>3. \A i \in 1..Len(reads'[e]) : reads'[e][i] # q
      <4>1. reads[d] \in Seq(Ids)
        BY DEF PostInv, TypeOK
      <4>2. e = d /\ t.kind = "read" => t.id # q
        BY <1>1, <3>1
      <4>3. QED
        <5>1. CASE e = d /\ t.kind = "read"
          <6>1. reads'[e] = Append(reads[d], t.id)
            BY <1>1, <5>1
          <6>2. t.id \in Ids
            BY <1>1 DEF Task
          <6>3. QED
            BY <3>1, <4>1, <4>2, <5>1, <6>1, <6>2, Appended
        <5>2. CASE ~(e = d /\ t.kind = "read")
          <6>1. reads'[e] = reads[e]
            BY <1>1, <5>2
          <6>2. QED
            BY <3>1, <6>1
        <5>3. QED
          BY <5>1, <5>2
    <3>4. QED
      BY <1>2, <2>2, <3>2, <3>3 DEF Reading
  <2>4. QED
    BY <1>2, <1>4, <2>2, <2>3
<1>10. NameFollows'
  <2>1. ASSUME NEW e \in Devices, NEW p \in Ids, HasTask(lane'[e], p, {"create"}), p \notin torn'
        PROVE  Has(e, p, {"name"})
    <3>1. HasTask(lane[e], p, {"create"}) \/ HasTask(worker[e], p, {"create"})
      BY <1>1, <2>1
    <3>2. QED
      BY <1>2, <2>1, <3>1 DEF PostInv, NameFollows, Has
  <2>2. ASSUME NEW e \in Devices, NEW p \in Ids, HasTask(worker'[e], p, {"create"})
        PROVE  HasTask(worker'[e], p, {"name"}) /\ docs'[p] = NoDoc
    <3>1. HasTask(worker[e], p, {"create"})
      BY <1>1, <2>2
    <3>2. HasTask(worker[e], p, {"name"}) /\ docs[p] = NoDoc
      BY <3>1 DEF PostInv, NameFollows
    <3>3. e = d => ~(t.id = p /\ t.kind = "name")
      <4>1. SUFFICES ASSUME e = d, t.id = p, t.kind = "name" PROVE FALSE
        OBVIOUS
      <4>2. Behind(<<t>>, worker'[d])
        BY <1>1, LanesAreTasks, OrderedHead DEF PostInv, InOrder, t
      <4>3. QED
        BY <2>2, <4>1, <4>2 DEF Behind, HasTask
    <3>4. QED
      BY <1>1, <1>2, <3>2, <3>3
  <2>3. QED
    BY <1>4, <2>1, <2>2 DEF NameFollows
<1>11. CommittedNames'
  BY <1>2, <1>5 DEF PostInv, CommittedNames
<1>12. NamesOnTheirWay'
  BY <1>2, <1>4 DEF PostInv, NamesOnTheirWay
<1>13. Deletes'
  <2>1. \A e \in Devices, q \in Ids : Has(e, q, {"delete"})' => q \in deleted'
    BY <1>2, <1>4 DEF PostInv, Deletes
  <2>2. \A x, e \in Devices, q \in Ids \ contested' :
            Has(x, q, {"delete"})' /\ Writing(e, q)' => e = x
    BY <1>2, <1>4 DEF PostInv, Deletes
  <2>3. \A e \in Devices : \A i \in 1..done'[e] :
            lane'[e][i].kind = "delete" /\ lane'[e][i].id \notin contested' => docs'[lane'[e][i].id] = NoDoc
    BY <1>2, <1>5 DEF PostInv, Deletes
  <2>4. \A q \in deleted' \ contested' :
            \/ \E e \in Devices : Has(e, q, {"delete"})'
            \/ docs'[q] = NoDoc /\ \A e \in Devices : ~Writing(e, q)'
    BY <1>2, <1>4 DEF PostInv, Deletes
  <2>5. QED
    BY <2>1, <2>2, <2>3, <2>4 DEF Deletes
<1>14. QED
  BY <1>6, <1>7, <1>8, <1>9, <1>10, <1>11, <1>12, <1>13 DEF PostInv

\* What a commit does: the write that is next, and what becomes of its document.
LEMMA CommitEffect ==
    ASSUME TypeOK, NEW d \in Devices, Commit(d), NEW w, w = lane[d][done[d] + 1]
    PROVE  /\ w \in Write /\ done[d] + 1 \in 1..Len(lane[d]) /\ done[d] \in Nat
           /\ HasTask(lane[d], w.id, {w.kind})
           /\ Allowed(w)
           /\ \A q \in Ids : q # w.id => docs'[q] = docs[q]
           /\ docs'[w.id] = Apply(docs[w.id], w.kind, owner[d])
           /\ docs[w.id] \in Doc \cup {NoDoc}
           /\ done'[d] = done[d] + 1
           /\ \A e \in Devices : e # d => done'[e] = done[e]
           /\ lane' = lane /\ worker' = worker /\ owner' = owner /\ cache' = cache /\ by' = by
           /\ reads' = reads /\ answers' = answers /\ rows' = rows /\ deleted' = deleted
           /\ contested' = contested /\ torn' = torn
<1>1. done[d] + 1 \in 1..Len(lane[d]) /\ w \in Write /\ done[d] \in Nat
  BY DEF TypeOK, Commit
<1>2. docs[w.id] \in Doc \cup {NoDoc} /\ w.id \in Ids
  BY <1>1 DEF TypeOK, Write
<1>3. HasTask(lane[d], w.id, {w.kind})
  BY <1>1 DEF HasTask
<1>4. docs' = [docs EXCEPT ![w.id] = Apply(@, w.kind, owner[d])] /\ Allowed(w)
  BY DEF Commit
<1>5. done' = [done EXCEPT ![d] = @ + 1]
  BY DEF Commit
<1>6. docs'[w.id] = Apply(docs[w.id], w.kind, owner[d]) /\ \A q \in Ids : q # w.id => docs'[q] = docs[q]
  BY <1>2, <1>4 DEF TypeOK
<1>7. done'[d] = done[d] + 1 /\ \A e \in Devices : e # d => done'[e] = done[e]
  BY <1>5 DEF TypeOK
<1>8. QED
  BY <1>1, <1>2, <1>3, <1>4, <1>6, <1>7 DEF Commit, liking

\* The second write of a post fills in its id.
LEMMA ApplyNamed ==
    ASSUME NEW doc \in Doc \cup {NoDoc}, NEW u \in Users
    PROVE  Apply(doc, "name", u).named = TRUE
<1>1. CASE doc = NoDoc
  <2>1. Apply(doc, "name", u) = [named |-> TRUE, author |-> NoUser, likes |-> {}]
    BY <1>1 DEF Apply
  <2>2. QED
    BY <2>1
<1>2. CASE doc # NoDoc
  <2>1. Apply(doc, "name", u) = [doc EXCEPT !.named = TRUE]
    BY <1>2 DEF Apply
  <2>2. [doc EXCEPT !.named = TRUE].named = TRUE
    BY <1>2 DEF Doc
  <2>3. QED
    BY <2>1, <2>2
<1>3. QED
  BY <1>1, <1>2

\* The kinds of writes, one by one.
LEMMA ApplyKinds ==
    ASSUME NEW doc \in Doc \cup {NoDoc}, NEW u \in Users
    PROVE  /\ Apply(doc, "create", u).likes = {}
           /\ Apply(doc, "create", u).author = u
           /\ doc # NoDoc => /\ Apply(doc, "name", u).author = doc.author
                             /\ Apply(doc, "name", u).likes = doc.likes
           /\ \A k \in Toggles :
                 /\ doc = NoDoc => Apply(doc, k, u) = NoDoc
                 /\ doc # NoDoc => /\ Apply(doc, k, u).named = doc.named
                                   /\ Apply(doc, k, u).author = doc.author
           /\ doc # NoDoc => /\ Apply(doc, "like", u).likes = doc.likes \cup {u}
                             /\ Apply(doc, "unlike", u).likes = doc.likes \ {u}
           /\ Apply(doc, "delete", u) = NoDoc
           /\ \A k \in Kinds \ {"delete"} : doc # NoDoc => Apply(doc, k, u) # NoDoc
           /\ \A k \in {"create", "name"} : Apply(doc, k, u) # NoDoc
<1>1. /\ Apply(doc, "create", u) = [named |-> FALSE, author |-> u, likes |-> {}]
      /\ doc = NoDoc => Apply(doc, "name", u) = [named |-> TRUE, author |-> NoUser, likes |-> {}]
      /\ doc = NoDoc => \A k \in Toggles : Apply(doc, k, u) = NoDoc
      /\ Apply(doc, "delete", u) = NoDoc
  BY DEF Apply, Toggles
<1>2. /\ doc # NoDoc => Apply(doc, "name", u) = [doc EXCEPT !.named = TRUE]
      /\ doc # NoDoc => Apply(doc, "like", u) = [doc EXCEPT !.likes = @ \cup {u}]
      /\ doc # NoDoc => Apply(doc, "unlike", u) = [doc EXCEPT !.likes = @ \ {u}]
  BY DEF Apply
<1>3. /\ [named |-> FALSE, author |-> u, likes |-> {}] \in Doc
      /\ [named |-> TRUE, author |-> NoUser, likes |-> {}] \in Doc
  BY DEF Doc
<1>4. ASSUME doc # NoDoc
      PROVE  /\ [doc EXCEPT !.named = TRUE] \in Doc
             /\ [doc EXCEPT !.likes = @ \cup {u}] \in Doc
             /\ [doc EXCEPT !.likes = @ \ {u}] \in Doc
  BY <1>4 DEF Doc
<1>5. ASSUME doc # NoDoc
      PROVE  /\ [doc EXCEPT !.named = TRUE].named = TRUE
             /\ [doc EXCEPT !.named = TRUE].author = doc.author
             /\ [doc EXCEPT !.named = TRUE].likes = doc.likes
             /\ [doc EXCEPT !.likes = @ \cup {u}].likes = doc.likes \cup {u}
             /\ [doc EXCEPT !.likes = @ \cup {u}].named = doc.named
             /\ [doc EXCEPT !.likes = @ \cup {u}].author = doc.author
             /\ [doc EXCEPT !.likes = @ \ {u}].likes = doc.likes \ {u}
             /\ [doc EXCEPT !.likes = @ \ {u}].named = doc.named
             /\ [doc EXCEPT !.likes = @ \ {u}].author = doc.author
  BY <1>5 DEF Doc
<1>6. NoDoc \notin Doc
  BY PostsAssumption
<1>7. \A k \in Kinds \ {"delete"} : doc # NoDoc => Apply(doc, k, u) # NoDoc
  BY <1>1, <1>2, <1>3, <1>4, <1>6 DEF Kinds
<1>8. \A k \in {"create", "name"} : Apply(doc, k, u) # NoDoc
  BY <1>1, <1>2, <1>3, <1>4, <1>6
<1>10. ASSUME doc # NoDoc, NEW k \in Toggles
       PROVE  Apply(doc, k, u).named = doc.named /\ Apply(doc, k, u).author = doc.author
  BY <1>2, <1>5, <1>10 DEF Toggles
<1>11. Apply(doc, "create", u).likes = {} /\ Apply(doc, "create", u).author = u
  BY <1>1
<1>12. ASSUME doc # NoDoc
       PROVE  /\ Apply(doc, "name", u).author = doc.author
              /\ Apply(doc, "name", u).likes = doc.likes
              /\ Apply(doc, "like", u).likes = doc.likes \cup {u}
              /\ Apply(doc, "unlike", u).likes = doc.likes \ {u}
  BY <1>2, <1>5, <1>12
<1>13. doc = NoDoc => \A k \in Toggles : Apply(doc, k, u) = NoDoc
  BY <1>1
<1>14. Apply(doc, "delete", u) = NoDoc
  BY <1>1
<1>15. QED
  BY <1>7, <1>8, <1>10, <1>11, <1>12, <1>13, <1>14

\* The server commits a write.
LEMMA CommitPost ==
    ASSUME PostInv, NEW d \in Devices, Commit(d)
    PROVE  PostInv'
<1> DEFINE w == lane[d][done[d] + 1]
           u == owner[d]
<1>1. /\ w \in Write /\ done[d] + 1 \in 1..Len(lane[d]) /\ done[d] \in Nat
      /\ HasTask(lane[d], w.id, {w.kind})
      /\ Allowed(w)
      /\ \A q \in Ids : q # w.id => docs'[q] = docs[q]
      /\ docs'[w.id] = Apply(docs[w.id], w.kind, u)
      /\ docs[w.id] \in Doc \cup {NoDoc}
      /\ done'[d] = done[d] + 1
      /\ \A e \in Devices : e # d => done'[e] = done[e]
      /\ lane' = lane /\ worker' = worker /\ owner' = owner /\ cache' = cache /\ by' = by
      /\ reads' = reads /\ answers' = answers /\ rows' = rows /\ deleted' = deleted
      /\ contested' = contested /\ torn' = torn
  BY CommitEffect DEF PostInv
<1>2. u \in Users /\ w.id \in Ids /\ w.kind \in Kinds
  BY <1>1 DEF PostInv, TypeOK, Write
<1>3. \A e \in Devices : \A p, K : /\ Has(e, p, K)' <=> Has(e, p, K)
                                   /\ Writing(e, p)' <=> Writing(e, p)
  BY <1>1 DEF Has, Writing
<1>4. /\ w.kind = "name" => docs'[w.id].named = TRUE
      /\ w.kind \in Toggles => docs[w.id] # NoDoc
      /\ w.kind \in Toggles => docs'[w.id].named = docs[w.id].named
      /\ w.kind \in Toggles => docs'[w.id].author = docs[w.id].author
      /\ w.kind = "delete" => docs'[w.id] = NoDoc
      /\ docs[w.id] = NoDoc /\ docs'[w.id] # NoDoc => w.kind \in {"create", "name"}
  <2> DEFINE doc == docs[w.id]
  <2>1. doc \in Doc \cup {NoDoc} /\ docs'[w.id] = Apply(doc, w.kind, u)
    BY <1>1
  <2>2. w.kind \in Toggles => doc # NoDoc
    BY <1>1 DEF Allowed, Toggles
  <2> HIDE DEF doc, w, u
  <2>3. Apply(doc, "name", u).named = TRUE
    BY <1>2, <2>1, ApplyNamed
  <2>6. \A k \in Toggles : doc # NoDoc => /\ Apply(doc, k, u).named = doc.named
                                         /\ Apply(doc, k, u).author = doc.author
    BY <1>2, <2>1, ApplyKinds
  <2>7. Apply(doc, "delete", u) = NoDoc
    BY <1>2, <2>1, ApplyKinds
  <2>4. w.kind \in Toggles \cup {"create", "name", "delete"}
    BY <1>2 DEF Kinds, Toggles
  <2>5. QED
    BY <2>1, <2>2, <2>3, <2>4, <2>6, <2>7 DEF doc
<1>5. w.kind \in {"create", "name"} => Writing(d, w.id)
  BY <1>1 DEF Has, Writing, HasTask
<1>6. \A i \in 1..done[d] : i \in 1..Len(lane[d]) /\ i < done[d] + 1
  BY <1>1 DEF PostInv, TypeOK
<1>7. Ordered(lane[d]) /\ Behind(lane[d], worker[d])
  BY DEF PostInv, InOrder
<1>8. w.kind \in Toggles => docs[w.id] # NoDoc
  BY <1>1 DEF Allowed, Toggles
<1>9. TypeOK'
  BY TypeStep DEF PostInv, Next
<1>10. \A e \in Devices : \A i \in 1..done'[e] : i \in 1..done[e] \/ (e = d /\ i = done[d] + 1)
  BY <1>1
<1> HIDE DEF w, u
<1>11. InOrder' /\ OneWriter'
  BY <1>1, <1>3 DEF PostInv, InOrder, OneWriter
<1>12. UnusedIsUnknown'
  <2>1. Has(d, w.id, Kinds)
    BY <1>1, <1>2 DEF Has, HasTask
  <2>2. by[w.id] # NoUser
    BY <1>2, <2>1 DEF PostInv, UnusedIsUnknown
  <2>3. \A q \in Ids : by'[q] = NoUser => docs'[q] = docs[q]
    BY <1>1, <2>2
  <2>4. \A e \in Devices : \A q : Reading(e, q)' <=> Reading(e, q)
    BY <1>1 DEF Reading
  <2>5. QED
    BY <1>1, <1>3, <2>3, <2>4 DEF PostInv, UnusedIsUnknown
<1>13. NameFollows'
  <2>1. ASSUME NEW e \in Devices, NEW p \in Ids, HasTask(worker[e], p, {"create"})
        PROVE  docs'[p] = NoDoc
    <3>1. docs[p] = NoDoc /\ Writing(e, p)
      BY <2>1 DEF PostInv, NameFollows, Writing, Has, HasTask
    <3>2. CASE p # w.id
      BY <1>1, <3>1, <3>2
    <3>3. CASE p = w.id /\ w.kind \in {"create", "name"}
      <4>1. e = d
        BY <1>5, <3>1, <3>3 DEF PostInv, OneWriter
      <4>2. QED
        BY <1>1, <1>7, <2>1, <3>3, <4>1 DEF Behind, HasTask
    <3>4. CASE p = w.id /\ w.kind = "delete"
      BY <1>1, <1>2, <3>4, <1>4
    <3>5. QED
      BY <1>2, <1>8, <3>1, <3>2, <3>3, <3>4 DEF Kinds, Toggles
  <2>2. QED
    BY <1>1, <1>3, <2>1 DEF PostInv, NameFollows
<1>14. CommittedNames'
  <2>1. SUFFICES ASSUME NEW e \in Devices, NEW i \in 1..done'[e], lane[e][i].kind = "name",
                        docs'[lane[e][i].id] # NoDoc
                 PROVE  docs'[lane[e][i].id].named
    BY <1>1 DEF CommittedNames
  <2> DEFINE p == lane[e][i].id
  <2>2. CASE i \in 1..done[e]
    <3>1. i \in 1..Len(lane[e]) /\ lane[e][i] \in Write
      BY <2>2 DEF PostInv, TypeOK
    <3>2. p \in Ids /\ Writing(e, p)
      BY <2>1, <3>1 DEF Writing, Has, HasTask, Write
    <3>3. docs[p] = NoDoc \/ docs[p].named
      BY <2>1, <2>2 DEF PostInv, CommittedNames
    <3>4. CASE p # w.id
      BY <1>1, <2>1, <3>2, <3>3, <3>4
    <3>5. CASE p = w.id /\ w.kind = "create"
      <4>1. e = d
        BY <1>5, <3>2, <3>5 DEF PostInv, OneWriter
      <4>2. QED
        BY <1>1, <1>6, <1>7, <2>1, <2>2, <3>1, <3>5, <4>1 DEF Ordered, w
    <3>6. CASE p = w.id /\ w.kind # "create"
      <4> HIDE DEF p
      <4>1. CASE w.kind = "name"
        BY <1>1, <1>2, <3>6, <4>1, <1>4 DEF p
      <4>2. CASE w.kind \in Toggles
        BY <1>1, <1>2, <1>8, <3>3, <3>6, <4>2, <1>4 DEF p
      <4>3. CASE w.kind = "delete"
        BY <1>1, <1>2, <2>1, <3>6, <4>3, <1>4 DEF p
      <4>4. QED
        BY <1>2, <3>6, <4>1, <4>2, <4>3 DEF Kinds, Toggles
    <3>7. QED
      BY <3>4, <3>5, <3>6
  <2>3. CASE e = d /\ i = done[d] + 1
    BY <1>1, <1>2, <2>1, <2>3, <1>4 DEF w
  <2>4. QED
    BY <1>10, <2>2, <2>3
<1>15. NamesOnTheirWay'
  <2>1. SUFFICES ASSUME NEW p \in Ids \ torn, Readable(docs'[p]), ~docs'[p].named
                 PROVE  \E e \in Devices : owner[e] = by[p] /\ Has(e, p, {"name"})
    BY <1>1, <1>3 DEF NamesOnTheirWay
  <2>2. CASE p # w.id
    BY <1>1, <2>1, <2>2 DEF PostInv, NamesOnTheirWay
  <2>3. CASE p = w.id /\ w.kind = "create"
    <3>1. Has(d, p, {"name"})
      BY <1>1, <2>1, <2>3 DEF PostInv, NameFollows
    <3>2. owner[d] = by[p]
      BY <1>5, <2>3 DEF PostInv, OneWriter
    <3>3. QED
      BY <3>1, <3>2
  <2>4. CASE p = w.id /\ w.kind \in {"name", "delete"}
    BY <1>1, <1>2, <2>1, <2>4, <1>4 DEF Readable
  <2>5. CASE p = w.id /\ w.kind \in Toggles
    <3>1. docs[p] # NoDoc /\ docs'[p].named = docs[p].named /\ docs'[p].author = docs[p].author
      BY <1>1, <1>2, <1>4, <2>5
    <3>2. Readable(docs[p]) /\ ~docs[p].named
      BY <2>1, <3>1 DEF Readable
    <3>3. QED
      BY <2>1, <3>2 DEF PostInv, NamesOnTheirWay
  <2>6. QED
    BY <1>2, <2>2, <2>3, <2>4, <2>5 DEF Kinds, Toggles
<1>16. Deletes'
  <2>1. \A e \in Devices, q \in Ids : Has(e, q, {"delete"})' => q \in deleted'
    BY <1>1, <1>3 DEF PostInv, Deletes
  <2>2. \A x, e \in Devices, q \in Ids \ contested' :
            Has(x, q, {"delete"})' /\ Writing(e, q)' => e = x
    BY <1>1, <1>3 DEF PostInv, Deletes
  <2>3. \A q \in Ids : docs[q] = NoDoc /\ docs'[q] # NoDoc => q = w.id /\ w.kind \in {"create", "name"}
    BY <1>1, <1>2, <1>4 DEF Kinds, Toggles
  <2>4. ASSUME NEW e \in Devices, NEW i \in 1..done'[e],
               lane[e][i].kind = "delete", lane[e][i].id \notin contested
        PROVE  docs'[lane[e][i].id] = NoDoc
    <3>1. CASE i \in 1..done[e]
      <4>1. i \in 1..Len(lane[e]) /\ lane[e][i] \in Write
        BY <3>1 DEF PostInv, TypeOK
      <4>2. lane[e][i].id \in Ids /\ Has(e, lane[e][i].id, {"delete"})
        BY <2>4, <4>1 DEF Has, HasTask, Write
      <4>3. docs[lane[e][i].id] = NoDoc
        BY <2>4, <3>1 DEF PostInv, Deletes
      <4>4. ASSUME lane[e][i].id = w.id, w.kind \in {"create", "name"} PROVE FALSE
        <5>1. e = d
          BY <1>5, <2>4, <4>2, <4>4 DEF PostInv, Deletes
        <5>2. QED
          BY <1>1, <1>6, <1>7, <2>4, <3>1, <4>1, <4>4, <5>1 DEF Ordered, w
      <4>5. QED
        BY <2>3, <4>2, <4>3, <4>4
    <3>2. CASE e = d /\ i = done[d] + 1
      BY <1>1, <1>2, <2>4, <3>2, <1>4 DEF w
    <3>3. QED
      BY <1>10, <3>1, <3>2
  <2>5. ASSUME NEW q \in deleted \ contested
        PROVE  \/ \E e \in Devices : Has(e, q, {"delete"})'
               \/ docs'[q] = NoDoc /\ \A e \in Devices : ~Writing(e, q)'
    <3>1. q \in Ids
      BY DEF PostInv, TypeOK
    <3>2. \/ \E e \in Devices : Has(e, q, {"delete"})
          \/ docs[q] = NoDoc /\ \A e \in Devices : ~Writing(e, q)
      BY DEF PostInv, Deletes
    <3>3. QED
      BY <1>3, <1>5, <2>3, <3>1, <3>2
  <2>6. QED
    BY <1>1, <2>1, <2>2, <2>4, <2>5 DEF Deletes
<1>17. QED
  BY <1>9, <1>11, <1>12, <1>13, <1>14, <1>15, <1>16 DEF PostInv

\* What an acknowledged or refused write leaves behind.
LEMMA PopEffect ==
    ASSUME PostInv, NEW d \in Devices, Ack(d) \/ Refuse(d), NEW h, h = lane[d][1]
    PROVE  /\ docs' = docs /\ owner' = owner /\ by' = by /\ worker' = worker
           /\ reads' = reads /\ answers' = answers /\ rows' = rows
           /\ deleted' = deleted /\ contested' = contested /\ torn' = torn
           /\ h \in Write
           /\ \A e \in Devices : \A p, K :
                 Has(e, p, K) <=> (e = d /\ h.id = p /\ h.kind \in K) \/ Has(e, p, K)'
           /\ \A e \in Devices : \A p : Writing(e, p)' => Writing(e, p)
           /\ \A e \in Devices : \A i \in 1..done'[e] :
                 \E j \in 1..done[e] : lane[e][j] = lane'[e][i]
           /\ Behind(<<h>>, lane'[d]) /\ Behind(<<h>>, worker[d])
           /\ h.kind \notin Toggles => 1 \in 1..done[d]
           /\ \A e \in Devices, p \in Ids : cache'[e][p] # cache[e][p] => e = d /\ p = h.id
<1>1. /\ lane[d] # <<>> /\ h \in Write /\ h = Head(lane[d])
      /\ lane'[d] = Tail(lane[d])
      /\ Len(lane'[d]) = Len(lane[d]) - 1
      /\ \A i \in 1..Len(lane'[d]) : lane'[d][i] = lane[d][i + 1]
      /\ \A e \in Devices : e # d => lane'[e] = lane[e]
      /\ worker' = worker
      /\ \A p, K : HasTask(lane[d], p, K) <=>
            (h.id = p /\ h.kind \in K) \/ HasTask(lane'[d], p, K)
  BY PopQueues DEF PostInv
<1>2. \A e \in Devices : \A p, K :
          Has(e, p, K) <=> (e = d /\ h.id = p /\ h.kind \in K) \/ Has(e, p, K)'
  BY <1>1 DEF Has
<1>3. \A e \in Devices : \A p : Writing(e, p)' => Writing(e, p)
  BY <1>2 DEF Writing
<1>4. /\ done[d] \in Nat /\ done[d] <= Len(lane[d]) /\ Len(lane[d]) \in Nat
      /\ done'[d] <= Len(lane'[d])
  <2>1. TypeOK'
    BY TypeStep DEF PostInv, Next
  <2>2. QED
    BY <2>1 DEF PostInv, TypeOK
<1>5. /\ \A e \in Devices : e # d => done'[e] = done[e]
      /\ Ack(d) => done'[d] = done[d] - 1 /\ done[d] > 0
      /\ ~Ack(d) => done'[d] = done[d] /\ done[d] = 0
  BY DEF Ack, Refuse, PostInv, TypeOK
<1>6. ASSUME NEW e \in Devices, NEW i \in 1..done'[e]
      PROVE  \E j \in 1..done[e] : lane[e][j] = lane'[e][i]
  <2>1. CASE e = d
    <3>1. i + 1 \in 1..done[d] /\ i \in 1..Len(lane'[d])
      <4>1. Ack(d)
        BY <1>5, <1>6, <2>1
      <4>2. QED
        BY <1>1, <1>4, <1>5, <1>6, <2>1, <4>1
    <3>2. QED
      BY <1>1, <2>1, <3>1
  <2>2. CASE e # d
    BY <1>1, <1>5, <1>6, <2>2
  <2>3. QED
    BY <2>1, <2>2
<1>7. Behind(<<h>>, lane'[d]) /\ Behind(<<h>>, worker[d])
  <2>1. lane[d] \in Seq(Task) /\ Ordered(lane[d]) /\ Behind(lane[d], worker[d])
    BY LanesAreTasks DEF PostInv, InOrder
  <2>2. Behind(<<h>>, lane'[d])
    BY <1>1, <2>1, OrderedHead
  <2>3. 1 \in 1..Len(lane[d])
    BY <1>1, <1>4
  <2>4. Behind(<<h>>, worker[d])
    BY <2>1, <2>3 DEF Behind
  <2>5. QED
    BY <2>2, <2>4
<1>8. h.kind \notin Toggles => 1 \in 1..done[d]
  <2>1. Refuse(d) => h.kind \in Toggles
    BY DEF Refuse, Allowed, Toggles
  <2>2. QED
    BY <1>4, <1>5, <2>1
<1>9. \A e \in Devices, p \in Ids : cache'[e][p] # cache[e][p] => e = d /\ p = h.id
  <2>1. cache' = cache \/ cache' = [cache EXCEPT ![d][h.id] = Apply(@, h.kind, owner[d])]
    BY DEF Ack, Refuse
  <2>2. QED
    BY <2>1 DEF PostInv, TypeOK
<1>10. QED
  BY <1>1, <1>2, <1>3, <1>6, <1>7, <1>8, <1>9 DEF Ack, Refuse, liking, history

\* A write leaves the lane.
LEMMA PopPost ==
    ASSUME PostInv, NEW d \in Devices, Ack(d) \/ Refuse(d)
    PROVE  PostInv'
<1> DEFINE h == lane[d][1]
<1>1. /\ docs' = docs /\ owner' = owner /\ by' = by /\ worker' = worker
      /\ reads' = reads /\ answers' = answers /\ rows' = rows
      /\ deleted' = deleted /\ contested' = contested /\ torn' = torn
      /\ h \in Write
      /\ \A e \in Devices : \A p, K :
            Has(e, p, K) <=> (e = d /\ h.id = p /\ h.kind \in K) \/ Has(e, p, K)'
      /\ \A e \in Devices : \A p : Writing(e, p)' => Writing(e, p)
      /\ \A e \in Devices : \A i \in 1..done'[e] :
            \E j \in 1..done[e] : lane[e][j] = lane'[e][i]
      /\ Behind(<<h>>, lane'[d]) /\ Behind(<<h>>, worker[d])
      /\ h.kind \notin Toggles => 1 \in 1..done[d]
      /\ \A e \in Devices, p \in Ids : cache'[e][p] # cache[e][p] => e = d /\ p = h.id
  BY PopEffect
<1>2. TypeOK' /\ InOrder'
  BY TypeStep, PopOrder DEF PostInv, Next
<1>3. OneWriter'
  BY <1>1 DEF PostInv, OneWriter
<1>4. h.id \in Ids /\ h.kind \in Kinds
  BY <1>1 DEF Write
<1> HIDE DEF h
<1>5. UnusedIsUnknown'
  <2>1. SUFFICES ASSUME NEW q \in Ids, by[q] = NoUser
                 PROVE  /\ docs[q] = NoDoc /\ q \notin deleted
                        /\ \A e \in Devices :
                              /\ cache'[e][q] = NoDoc
                              /\ \A b \in BOOLEAN : <<q, b>> \notin rows[e]
                              /\ ~Has(e, q, Kinds)'
                              /\ ~Reading(e, q)'
    BY <1>1 DEF UnusedIsUnknown
  <2>2. /\ docs[q] = NoDoc /\ q \notin deleted
        /\ \A e \in Devices :
              /\ cache[e][q] = NoDoc
              /\ \A b \in BOOLEAN : <<q, b>> \notin rows[e]
              /\ ~Has(e, q, Kinds)
              /\ ~Reading(e, q)
    BY <2>1 DEF PostInv, UnusedIsUnknown
  <2>3. h.id # q
    BY <1>1, <1>4, <2>2
  <2>4. \A e \in Devices : ~Reading(e, q)'
    BY <1>1, <2>2 DEF Reading
  <2>5. QED
    BY <1>1, <2>2, <2>3, <2>4
<1>6. NameFollows'
  <2>1. ASSUME NEW e \in Devices, NEW p \in Ids, HasTask(lane'[e], p, {"create"}), p \notin torn
        PROVE  Has(e, p, {"name"})'
    <3>1. Has(e, p, {"name"})
      <4>1. HasTask(lane[e], p, {"create"})
        BY <1>1, <2>1, PopQueues DEF PostInv
      <4>2. QED
        BY <2>1, <4>1 DEF PostInv, NameFollows
    <3>2. ~(e = d /\ h.id = p)
      BY <1>1, <2>1 DEF Behind, HasTask
    <3>3. QED
      BY <1>1, <3>1, <3>2
  <2>2. QED
    BY <1>1, <2>1 DEF PostInv, NameFollows
<1>7. CommittedNames'
  BY <1>1 DEF PostInv, CommittedNames
<1>8. NamesOnTheirWay'
  <2>1. SUFFICES ASSUME NEW p \in Ids \ torn, Readable(docs[p]), ~docs[p].named
                 PROVE  \E e \in Devices : owner[e] = by[p] /\ Has(e, p, {"name"})'
    BY <1>1 DEF NamesOnTheirWay
  <2>2. PICK e \in Devices : owner[e] = by[p] /\ Has(e, p, {"name"})
    BY <2>1 DEF PostInv, NamesOnTheirWay
  <2>3. ~(e = d /\ h.id = p /\ h.kind = "name")
    <3>1. SUFFICES ASSUME h.id = p, h.kind = "name" PROVE FALSE
      OBVIOUS
    <3>2. 1 \in 1..done[d]
      BY <1>1, <3>1 DEF Toggles
    <3>3. docs[p] = NoDoc \/ docs[p].named
      BY <3>1, <3>2 DEF PostInv, CommittedNames, h
    <3>4. QED
      BY <2>1, <3>3 DEF Readable
  <2>4. QED
    BY <1>1, <2>2, <2>3
<1>9. Deletes'
  <2>1. \A e \in Devices, q \in Ids : Has(e, q, {"delete"})' => q \in deleted'
    BY <1>1 DEF PostInv, Deletes
  <2>2. \A x, e \in Devices, q \in Ids \ contested' :
            Has(x, q, {"delete"})' /\ Writing(e, q)' => e = x
    BY <1>1 DEF PostInv, Deletes
  <2>3. \A e \in Devices : \A i \in 1..done'[e] :
            lane'[e][i].kind = "delete" /\ lane'[e][i].id \notin contested' => docs'[lane'[e][i].id] = NoDoc
    BY <1>1 DEF PostInv, Deletes
  <2>4. ASSUME NEW q \in deleted \ contested
        PROVE  \/ \E e \in Devices : Has(e, q, {"delete"})'
               \/ docs[q] = NoDoc /\ \A e \in Devices : ~Writing(e, q)'
    <3>1. q \in Ids
      BY DEF PostInv, TypeOK
    <3>2. CASE h.id = q /\ h.kind = "delete"
      <4>1. docs[q] = NoDoc
        <5>1. 1 \in 1..done[d]
          BY <1>1, <3>2 DEF Toggles
        <5>2. QED
          BY <2>4, <3>2, <5>1 DEF PostInv, Deletes, h
      <4>2. ASSUME NEW e \in Devices, Writing(e, q)' PROVE FALSE
        <5>1. Has(d, q, {"delete"}) /\ Writing(e, q)
          BY <1>1, <3>2, <4>2
        <5>2. e = d
          BY <2>4, <3>1, <5>1 DEF PostInv, Deletes
        <5>3. HasTask(lane'[d], q, {"create", "name"}) \/ HasTask(worker[d], q, {"create", "name"})
          BY <1>1, <4>2, <5>2 DEF Writing, Has
        <5>4. QED
          BY <1>1, <3>2, <5>3 DEF Behind, HasTask
      <4>3. QED
        BY <4>1, <4>2
    <3>3. CASE ~(h.id = q /\ h.kind = "delete")
      BY <1>1, <3>1, <3>3 DEF PostInv, Deletes
    <3>4. QED
      BY <3>2, <3>3
  <2>5. QED
    BY <1>1, <2>1, <2>2, <2>3, <2>4 DEF Deletes
<1>10. QED
  BY <1>2, <1>3, <1>5, <1>6, <1>7, <1>8, <1>9 DEF PostInv

\* Steps that leave the queues and the documents alone.
LEMMA KeepPost ==
    ASSUME PostInv,
           lane' = lane, worker' = worker, docs' = docs, owner' = owner, by' = by,
           deleted' = deleted, contested' = contested, torn' = torn,
           \A e \in Devices : 1..done'[e] \subseteq 1..done[e]
    PROVE  InOrder' /\ OneWriter' /\ NameFollows' /\ CommittedNames' /\ NamesOnTheirWay' /\ Deletes'
<1>1. \A e \in Devices : \A p, K : /\ Has(e, p, K)' <=> Has(e, p, K)
                                   /\ Writing(e, p)' <=> Writing(e, p)
  BY DEF Has, Writing
<1>2. InOrder' /\ OneWriter'
  BY <1>1 DEF PostInv, InOrder, OneWriter
<1>3. NameFollows'
  BY <1>1 DEF PostInv, NameFollows
<1>4. CommittedNames' /\ NamesOnTheirWay'
  BY <1>1 DEF PostInv, CommittedNames, NamesOnTheirWay
<1>5. Deletes'
  <2>1. \A e \in Devices, q \in Ids : Has(e, q, {"delete"})' => q \in deleted'
    BY <1>1 DEF PostInv, Deletes
  <2>2. \A x, e \in Devices, q \in Ids \ contested' :
            Has(x, q, {"delete"})' /\ Writing(e, q)' => e = x
    BY <1>1 DEF PostInv, Deletes
  <2>3. \A e \in Devices : \A i \in 1..done'[e] :
            lane'[e][i].kind = "delete" /\ lane'[e][i].id \notin contested' => docs'[lane'[e][i].id] = NoDoc
    BY DEF PostInv, Deletes
  <2>4. \A q \in deleted' \ contested' :
            \/ \E e \in Devices : Has(e, q, {"delete"})'
            \/ docs'[q] = NoDoc /\ \A e \in Devices : ~Writing(e, q)'
    BY <1>1 DEF PostInv, Deletes
  <2>5. QED
    BY <2>1, <2>2, <2>3, <2>4 DEF Deletes
<1>6. QED
  BY <1>2, <1>3, <1>4, <1>5

\* The write stream breaks, or an app starts.
LEMMA BreakPost ==
    ASSUME PostInv, NEW d \in Devices, Break(d) \/ Launch(d)
    PROVE  PostInv'
<1>1. /\ lane' = lane /\ worker' = worker /\ docs' = docs /\ owner' = owner /\ by' = by
      /\ deleted' = deleted /\ contested' = contested /\ torn' = torn
      /\ cache' = cache /\ rows' = rows /\ reads' = reads /\ answers' = answers
  BY DEF Break, Launch, sdk, liking, history
<1>2. \A e \in Devices : 1..done'[e] \subseteq 1..done[e]
  <2>1. done' = done \/ done' = [done EXCEPT ![d] = 0]
    BY DEF Break, Launch, sdk
  <2>2. \A e \in Devices : done'[e] \in {0, done[e]}
    BY <2>1 DEF PostInv, TypeOK
  <2>3. QED
    BY <2>2
<1>3. TypeOK'
  BY TypeStep DEF PostInv, Next
<1>4. UnusedIsUnknown'
  <2>1. \A e \in Devices : \A p, K : Has(e, p, K)' <=> Has(e, p, K)
    BY <1>1 DEF Has
  <2>2. \A e \in Devices : \A p : Reading(e, p)' <=> Reading(e, p)
    BY <1>1 DEF Reading
  <2>3. QED
    BY <1>1, <2>1, <2>2 DEF PostInv, UnusedIsUnknown
<1>5. QED
  BY <1>1, <1>2, <1>3, <1>4, KeepPost DEF PostInv

\* A table is loaded.
LEMMA ShowPost ==
    ASSUME PostInv, NEW d \in Devices, Show(d)
    PROVE  PostInv'
<1>1. PICK source \in Sources(d) :
         /\ rows' = [rows EXCEPT ![d] =
               {<<p, Overlay(d, p, source[p]).named>> :
                   p \in {q \in Ids : Readable(Overlay(d, q, source[q]))}}]
         /\ cache' = [cache EXCEPT ![d] =
               [p \in Ids |-> IF Readable(source[p]) THEN source[p] ELSE @[p]]]
  BY ShowEffect
<1>2. /\ lane' = lane /\ worker' = worker /\ done' = done /\ docs' = docs /\ owner' = owner /\ by' = by
      /\ deleted' = deleted /\ contested' = contested /\ torn' = torn
      /\ reads' = reads /\ answers' = answers
  BY DEF Show, sdk, liking, history
<1>3. TypeOK'
  BY TypeStep DEF PostInv, Next
<1>4. UnusedIsUnknown'
  <2>1. SUFFICES ASSUME NEW q \in Ids, by[q] = NoUser
                 PROVE  \A e \in Devices : /\ cache'[e][q] = NoDoc
                                           /\ \A b \in BOOLEAN : <<q, b>> \notin rows'[e]
    <3>1. \A e \in Devices : \A p, K : Has(e, p, K)' <=> Has(e, p, K)
      BY <1>2 DEF Has
    <3>2. \A e \in Devices : \A p : Reading(e, p)' <=> Reading(e, p)
      BY <1>2 DEF Reading
    <3>3. QED
      BY <1>2, <3>1, <3>2 DEF PostInv, UnusedIsUnknown
  <2>2. /\ docs[q] = NoDoc
        /\ \A e \in Devices : /\ cache[e][q] = NoDoc
                              /\ \A b \in BOOLEAN : <<q, b>> \notin rows[e]
                              /\ ~Has(e, q, Kinds)
    BY <2>1 DEF PostInv, UnusedIsUnknown
  <2>3. source[q] = NoDoc
    BY <2>2 DEF Sources
  <2>4. Overlay(d, q, source[q]) = NoDoc
    <3>1. ~HasTask(lane[d], q, {"create", "name"})
      BY <2>2 DEF Has, HasTask, Kinds
    <3>2. lane[d] \in Seq(Write) /\ owner[d] \in Users
      BY DEF PostInv, TypeOK
    <3>3. QED
      BY <2>3, <3>1, <3>2, AfterNothing DEF Overlay
  <2>5. cache'[d][q] = NoDoc /\ \A e \in Devices : e # d => cache'[e] = cache[e] /\ rows'[e] = rows[e]
    BY <1>1, <2>2, <2>3 DEF PostInv, TypeOK, Readable
  <2>6. \A b \in BOOLEAN : <<q, b>> \notin rows'[d]
    BY <1>1, <2>4 DEF PostInv, TypeOK, Readable
  <2>7. QED
    BY <2>2, <2>5, <2>6
<1>5. QED
  BY <1>2, <1>3, <1>4, KeepPost DEF PostInv

\* What an answer to likePost is, and where the read it answers is gone from.
LEMMA ServeEffect ==
    ASSUME TypeOK, NEW d \in Devices, Serve(d) \/ ServeOffline(d)
    PROVE  \E i \in 1..Len(reads[d]), seen \in Seen :
              /\ reads[d][i] \in Ids
              /\ Answer(d, i, seen)
              /\ \/ /\ Serve(d)
                    /\ seen = SeenBy(owner[d], Overlay(d, reads[d][i], docs[reads[d][i]]))
                    /\ cache' = [cache EXCEPT ![d][reads[d][i]] = docs[reads[d][i]]]
                    /\ blurred' = blurred
                 \/ /\ ServeOffline(d)
                    /\ seen = IF Overlay(d, reads[d][i], cache[d][reads[d][i]]) = NoDoc
                              THEN "unreachable"
                              ELSE SeenBy(owner[d], Overlay(d, reads[d][i], cache[d][reads[d][i]]))
                    /\ cache' = cache
                    /\ blurred' = IF \/ Overlay(d, reads[d][i], cache[d][reads[d][i]]) = NoDoc
                                     \/ DevicesOf(owner[d]) # {d}
                                  THEN blurred \cup {<<owner[d], reads[d][i]>>} ELSE blurred
<1>1. \A u, doc : SeenBy(u, doc) \in Seen /\ "unreachable" \in Seen
  BY DEF SeenBy, Seen
<1>2. \A i \in 1..Len(reads[d]) : reads[d][i] \in Ids
  BY DEF TypeOK
<1>3. CASE Serve(d)
  <2>1. PICK i \in 1..Len(reads[d]) :
           /\ Answer(d, i, SeenBy(owner[d], Overlay(d, reads[d][i], docs[reads[d][i]])))
           /\ cache' = [cache EXCEPT ![d][reads[d][i]] = docs[reads[d][i]]]
    BY <1>3 DEF Serve
  <2>2. blurred' = blurred
    BY <1>3 DEF Serve, history
  <2> DEFINE seen == SeenBy(owner[d], Overlay(d, reads[d][i], docs[reads[d][i]]))
  <2>3. seen \in Seen
    BY <1>1
  <2>4. QED
    BY <1>2, <1>3, <2>1, <2>2, <2>3
<1>4. CASE ServeOffline(d)
  <2>1. PICK i \in 1..Len(reads[d]) :
           /\ Answer(d, i, IF Overlay(d, reads[d][i], cache[d][reads[d][i]]) = NoDoc
                           THEN "unreachable"
                           ELSE SeenBy(owner[d], Overlay(d, reads[d][i], cache[d][reads[d][i]])))
           /\ blurred' = IF \/ Overlay(d, reads[d][i], cache[d][reads[d][i]]) = NoDoc
                            \/ DevicesOf(owner[d]) # {d}
                         THEN blurred \cup {<<owner[d], reads[d][i]>>} ELSE blurred
    BY <1>4 DEF ServeOffline
  <2>2. cache' = cache
    BY <1>4 DEF ServeOffline
  <2> DEFINE seen == IF Overlay(d, reads[d][i], cache[d][reads[d][i]]) = NoDoc
                     THEN "unreachable"
                     ELSE SeenBy(owner[d], Overlay(d, reads[d][i], cache[d][reads[d][i]]))
  <2>3. seen \in Seen
    BY <1>1
  <2>4. QED
    BY <1>2, <1>4, <2>1, <2>2, <2>3
<1>5. QED
  BY <1>3, <1>4

\* The document that likePost asked for arrives.
LEMMA ServePost ==
    ASSUME PostInv, NEW d \in Devices, Serve(d) \/ ServeOffline(d)
    PROVE  PostInv'
<1>1. PICK i \in 1..Len(reads[d]), seen \in Seen :
         /\ reads[d][i] \in Ids
         /\ Answer(d, i, seen)
         /\ cache' \in {cache, [cache EXCEPT ![d][reads[d][i]] = docs[reads[d][i]]]}
  BY ServeEffect DEF PostInv
<1> DEFINE p == reads[d][i]
<1>2. /\ lane' = lane /\ worker' = worker /\ done' = done /\ docs' = docs /\ owner' = owner /\ by' = by
      /\ deleted' = deleted /\ contested' = contested /\ torn' = torn /\ rows' = rows
  BY DEF Serve, ServeOffline, sdk, history
<1>3. TypeOK'
  BY TypeStep DEF PostInv, Next
<1>4. Reading(d, p)
  BY DEF Reading
<1>5. ASSUME NEW e \in Devices, NEW q, Reading(e, q)' PROVE Reading(e, q)
  <2>1. /\ \A x \in Devices : x # d => reads'[x] = reads[x] /\ answers'[x] = answers[x]
        /\ answers'[d] = Append(answers[d], [id |-> p, seen |-> seen])
        /\ Len(reads'[d]) = Len(reads[d]) - 1
        /\ \A j \in 1..Len(reads'[d]) :
              reads'[d][j] = IF j < i THEN reads[d][j] ELSE reads[d][j + 1]
    BY <1>1, AnswerType DEF PostInv
  <2>2. CASE HasTask(worker'[e], q, {"read"})
    BY <1>2, <2>2 DEF Reading
  <2>3. ASSUME NEW j \in 1..Len(reads'[e]), reads'[e][j] = q PROVE Reading(e, q)
    <3>1. CASE e = d
      <4>1. Len(reads[d]) \in Nat
        BY DEF PostInv, TypeOK
      <4>2. j \in 1..Len(reads[d]) /\ j + 1 \in 1..Len(reads[d])
        BY <2>1, <2>3, <3>1, <4>1
      <4>3. QED
        BY <2>1, <2>3, <3>1, <4>2 DEF Reading
    <3>2. CASE e # d
      BY <2>1, <2>3, <3>2 DEF Reading
    <3>3. QED
      BY <3>1, <3>2
  <2>4. ASSUME NEW j \in 1..Len(answers'[e]), answers'[e][j].id = q PROVE Reading(e, q)
    <3>1. CASE e = d
      <4> DEFINE A == [id : Ids, seen : Seen]
                 a == [id |-> p, seen |-> seen]
      <4>1. a \in A /\ a.id = p /\ answers[d] \in Seq(A) /\ answers'[d] = Append(answers[d], a)
        BY <1>1, <2>1 DEF PostInv, TypeOK
      <4> HIDE DEF A, a, p
      <4>2. (j \in 1..Len(answers[d]) /\ answers'[d][j] = answers[d][j]) \/ answers'[d][j] = a
        BY <2>4, <3>1, <4>1, Appended
      <4>3. QED
        BY <1>4, <2>4, <3>1, <4>1, <4>2 DEF Reading
    <3>2. CASE e # d
      BY <2>1, <2>4, <3>2 DEF Reading
    <3>3. QED
      BY <3>1, <3>2
  <2>5. QED
    BY <1>5, <2>2, <2>3, <2>4 DEF Reading
<1>6. UnusedIsUnknown'
  <2>1. by[p] # NoUser
    BY <1>1, <1>4 DEF PostInv, UnusedIsUnknown
  <2>5. p \in Ids /\ (cache' = cache \/ cache' = [cache EXCEPT ![d][p] = docs[p]])
    BY <1>1
  <2> HIDE DEF p
  <2>6. cache \in [Devices -> [Ids -> Doc \cup {NoDoc}]]
    BY DEF PostInv, TypeOK
  <2>2. \A e \in Devices, q \in Ids : q # p => cache'[e][q] = cache[e][q]
    BY <2>5, <2>6
  <2>3. \A e \in Devices : \A q, K : Has(e, q, K)' <=> Has(e, q, K)
    BY <1>2 DEF Has
  <2>4. QED
    BY <1>2, <1>5, <2>1, <2>2, <2>3 DEF PostInv, UnusedIsUnknown
<1>7. QED
  BY <1>2, <1>3, <1>6, KeepPost DEF PostInv

\* Every step preserves the invariant.
LEMMA PostStep ==
    ASSUME PostInv, [Next]_vars
    PROVE  PostInv'
<1>1. CASE UNCHANGED vars
  <2>1. /\ lane' = lane /\ worker' = worker /\ docs' = docs /\ owner' = owner /\ by' = by
        /\ deleted' = deleted /\ contested' = contested /\ torn' = torn /\ done' = done
        /\ cache' = cache /\ rows' = rows /\ reads' = reads /\ answers' = answers
    BY <1>1 DEF vars
  <2>2. InOrder' /\ OneWriter' /\ NameFollows' /\ CommittedNames' /\ NamesOnTheirWay' /\ Deletes'
    BY <2>1, KeepPost
  <2>3. TypeOK'
    BY TypeStep DEF PostInv
  <2>4. UnusedIsUnknown'
    <3>1. \A e \in Devices : \A p, K : Has(e, p, K)' <=> Has(e, p, K)
      BY <2>1 DEF Has
    <3>2. \A e \in Devices : \A p : Reading(e, p)' <=> Reading(e, p)
      BY <2>1 DEF Reading
    <3>3. QED
      BY <2>1, <3>1, <3>2 DEF PostInv, UnusedIsUnknown
  <2>5. QED
    BY <2>2, <2>3, <2>4 DEF PostInv
<1>2. CASE Next
  <2>1. PICK d \in Devices :
           \/ WritePost(d) \/ Show(d) \/ TapLike(d) \/ TapDelete(d)
           \/ Kill(d) \/ TapUnnamed(d) \/ CallbackTraps(d)
           \/ Launch(d) \/ Work(d) \/ Commit(d) \/ Ack(d) \/ Refuse(d) \/ Break(d)
           \/ Serve(d) \/ ServeOffline(d) \/ Callback(d)
    BY <1>2 DEF Next
  <2>2. Kill(d) \/ TapUnnamed(d) \/ CallbackTraps(d) => Die(d)
    BY DEF Kill, TapUnnamed, CallbackTraps
  <2>3. QED
    BY <2>1, <2>2, WritePostPost, ShowPost, TapLikePost, TapDeletePost, DiePost, BreakPost, WorkPost,
       CommitPost, PopPost, ServePost, CallbackPost
<1>3. QED
  BY <1>1, <1>2

\* It holds at the start.
LEMMA PostInit == Init => PostInv
<1> SUFFICES ASSUME Init PROVE PostInv
  OBVIOUS
<1>1. TypeOK
  BY DEF Init, TypeOK, Doc
<1>2. /\ lane = [d \in Devices |-> <<>>] /\ worker = [d \in Devices |-> <<>>]
      /\ done = [d \in Devices |-> 0]
      /\ reads = [d \in Devices |-> <<>>] /\ answers = [d \in Devices |-> <<>>]
  BY DEF Init
<1>3. \A d \in Devices : \A p, K : ~HasTask(lane[d], p, K) /\ ~HasTask(worker[d], p, K) /\ ~Has(d, p, K)
  BY <1>2, HasFew DEF Has
<1>4. \A d \in Devices : \A p : ~Reading(d, p) /\ ~Writing(d, p)
  BY <1>2, <1>3 DEF Reading, Writing
<1>5. InOrder
  BY <1>2 DEF InOrder, Ordered, Behind
<1>6. OneWriter /\ NameFollows
  BY <1>3, <1>4 DEF OneWriter, NameFollows
<1>7. UnusedIsUnknown
  BY <1>3, <1>4 DEF Init, UnusedIsUnknown
<1>8. \A d \in Devices : 1..done[d] = {}
  BY <1>2
<1>9. CommittedNames
  BY <1>8 DEF CommittedNames
<1>10. NamesOnTheirWay
  BY DEF Init, NamesOnTheirWay, Readable
<1>11. Deletes
  BY <1>3, <1>8 DEF Init, Deletes
<1>12. QED
  BY <1>1, <1>5, <1>6, <1>7, <1>9, <1>10, <1>11 DEF PostInv

\* A post that the server holds without its id gets it: the write that fills it
\* in is queued on its author's phone, unless the app died between the two writes
\* of createPost.
THEOREM PostsGetTheirIds == Spec => []EveryPostGetsItsId
<1>1. PostInv => EveryPostGetsItsId
  <2>1. SUFFICES ASSUME PostInv, NEW p \in Ids \ torn, Readable(docs[p]), ~docs[p].named
                 PROVE  \E d \in Devices : owner[d] = by[p] /\ HasTask(Queued(d), p, {"name"})
    BY DEF EveryPostGetsItsId
  <2>2. PICK d \in Devices : owner[d] = by[p] /\ Has(d, p, {"name"})
    BY <2>1 DEF PostInv, NamesOnTheirWay
  <2>3. HasTask(Queued(d), p, {"name"})
    BY <2>1, <2>2, QueuedHas DEF PostInv
  <2>4. QED
    BY <2>2, <2>3
<1>2. QED
  BY <1>1, PostInit, PostStep, PTL DEF Spec

\* A deleted post is not on the server once the writes to it have drained, though
\* a broken stream sends its "create" again, unless another phone still held that
\* "create" when the delete was tapped, or the delete was lost.
THEOREM DeletesLast == Spec => []DeletedStaysDeleted
<1>1. PostInv => DeletedStaysDeleted
  <2>1. SUFFICES ASSUME PostInv, NEW p \in deleted \ contested,
                        \A d \in Devices : ~HasTask(Queued(d), p, {"create", "name", "delete"})
                 PROVE  docs[p] = NoDoc
    BY DEF DeletedStaysDeleted
  <2>2. ASSUME NEW d \in Devices PROVE ~Has(d, p, {"delete"})
    <3>1. ~Has(d, p, {"create", "name", "delete"})
      BY <2>1, QueuedHas DEF PostInv
    <3>2. QED
      BY <3>1 DEF Has, HasTask
  <2>3. QED
    BY <2>1, <2>2 DEF PostInv, Deletes
<1>2. QED
  BY <1>1, PostInit, PostStep, PTL DEF Spec
-----------------------------------------------------------------------------
(* The last toggle of a queue.                                             *)

\* A last like is a like, and a like is the last toggle if nothing is unliked.
LEMMA LikesHas ==
    ASSUME NEW s, NEW p
    PROVE  /\ LikesLast(s, p) => HasTask(s, p, {"like"}) /\ HasTask(s, p, Toggles)
           /\ HasTask(s, p, Toggles) /\ ~HasTask(s, p, {"unlike"}) => LikesLast(s, p)
<1>1. LikesLast(s, p) => HasTask(s, p, {"like"}) /\ HasTask(s, p, Toggles)
  BY DEF LikesLast, HasTask, Toggles
<1>2. ASSUME HasTask(s, p, Toggles), ~HasTask(s, p, {"unlike"}) PROVE LikesLast(s, p)
  <2>1. PICK i \in 1..Len(s) : s[i].id = p /\ s[i].kind = "like"
    BY <1>2 DEF HasTask, Toggles
  <2>2. \A j \in 1..Len(s) : s[j].id = p => s[j].kind # "unlike"
    BY <1>2 DEF HasTask
  <2>3. \A j \in i + 1 .. Len(s) : j \in 1..Len(s)
    BY <2>1
  <2>4. QED
    BY <2>1, <2>2, <2>3 DEF LikesLast
<1>3. QED
  BY <1>1, <1>2

\* In a joint queue it is the second part's, or the first's if the second does
\* not undo it.
LEMMA LikesJoined ==
    ASSUME NEW s \in Seq(Task), NEW t \in Seq(Task), NEW p
    PROVE  LikesLast(s \o t, p) <=>
               LikesLast(t, p) \/ (LikesLast(s, p) /\ ~HasTask(t, p, {"unlike"}))
<1> DEFINE r == s \o t
           m == Len(s)
           n == Len(t)
<1>1. /\ Len(r) = m + n
      /\ \A i \in 1..m + n : r[i] = IF i <= m THEN s[i] ELSE t[i - m]
  BY ConcatProperties
<1>2. m \in Nat /\ n \in Nat
  OBVIOUS
<1> HIDE DEF r, m, n
<1>3. \A i \in 1..m : i \in 1..m + n /\ r[i] = s[i]
  BY <1>1, <1>2
<1>4. \A i \in 1..n : i + m \in 1..m + n /\ r[i + m] = t[i]
  BY <1>1, <1>2
<1>5. \A i \in 1..m + n : i \in 1..m \/ (i - m \in 1..n /\ r[i] = t[i - m])
  BY <1>1, <1>2
<1>6. ASSUME LikesLast(r, p) PROVE LikesLast(t, p) \/ (LikesLast(s, p) /\ ~HasTask(t, p, {"unlike"}))
  <2>1. PICK i \in 1..m + n : /\ r[i].id = p /\ r[i].kind = "like"
                              /\ \A j \in i + 1 .. m + n : r[j].id = p => r[j].kind # "unlike"
    BY <1>1, <1>6 DEF LikesLast
  <2>2. CASE i \in 1..m
    <3>1. \A j \in i + 1 .. m : s[j].id = p => s[j].kind # "unlike"
      BY <1>2, <1>3, <2>1, <2>2
    <3>2. \A j \in 1..n : t[j].id = p => t[j].kind # "unlike"
      <4>1. \A j \in 1..n : j + m \in i + 1 .. m + n
        BY <1>2, <2>2
      <4>2. QED
        BY <1>4, <2>1, <4>1
    <3>3. LikesLast(s, p)
      BY <1>3, <2>1, <2>2, <3>1 DEF LikesLast, m
    <3>4. ~HasTask(t, p, {"unlike"})
      BY <3>2 DEF HasTask, n
    <3>5. QED
      BY <3>3, <3>4
  <2>3. CASE i - m \in 1..n /\ r[i] = t[i - m]
    <3>1. \A j \in (i - m) + 1 .. n : j \in 1..n /\ j + m \in i + 1 .. m + n
      BY <1>2, <2>3
    <3>2. \A j \in (i - m) + 1 .. n : t[j].id = p => t[j].kind # "unlike"
      BY <1>4, <2>1, <3>1
    <3>3. LikesLast(t, p)
      BY <2>1, <2>3, <3>2 DEF LikesLast, n
    <3>4. QED
      BY <3>3
  <2>4. QED
    BY <1>5, <2>2, <2>3
<1>7. ASSUME LikesLast(t, p) PROVE LikesLast(r, p)
  <2>1. PICK i \in 1..n : /\ t[i].id = p /\ t[i].kind = "like"
                          /\ \A j \in i + 1 .. n : t[j].id = p => t[j].kind # "unlike"
    BY <1>7 DEF LikesLast, n
  <2>2. \A j \in (i + m) + 1 .. m + n : j - m \in i + 1 .. n /\ r[j] = t[j - m]
    BY <1>1, <1>2
  <2>3. \A j \in (i + m) + 1 .. m + n : r[j].id = p => r[j].kind # "unlike"
    BY <2>1, <2>2
  <2>4. i + m \in 1..m + n /\ r[i + m] = t[i]
    BY <1>4
  <2>5. QED
    BY <1>1, <2>1, <2>3, <2>4 DEF LikesLast
<1>8. ASSUME LikesLast(s, p), ~HasTask(t, p, {"unlike"}) PROVE LikesLast(r, p)
  <2>1. PICK i \in 1..m : /\ s[i].id = p /\ s[i].kind = "like"
                          /\ \A j \in i + 1 .. m : s[j].id = p => s[j].kind # "unlike"
    BY <1>8 DEF LikesLast, m
  <2>2. \A j \in 1..n : t[j].id = p => t[j].kind # "unlike"
    BY <1>8 DEF HasTask, n
  <2>3. ASSUME NEW j \in i + 1 .. m + n, r[j].id = p PROVE r[j].kind # "unlike"
    <3>1. j \in 1..m + n
      BY <1>2
    <3>2. CASE j \in 1..m
      <4>1. j \in i + 1 .. m
        BY <1>2, <3>2
      <4>2. QED
        BY <1>3, <2>1, <2>3, <3>2, <4>1
    <3>3. CASE j - m \in 1..n /\ r[j] = t[j - m]
      BY <2>2, <2>3, <3>3
    <3>4. QED
      BY <1>5, <3>1, <3>2, <3>3
  <2>4. i \in 1..m + n /\ r[i] = s[i]
    BY <1>3
  <2>5. QED
    BY <1>1, <2>1, <2>3, <2>4 DEF LikesLast
<1>9. LikesLast(r, p) <=> LikesLast(t, p) \/ (LikesLast(s, p) /\ ~HasTask(t, p, {"unlike"}))
  BY <1>6, <1>7, <1>8
<1>10. QED
  BY <1>9 DEF r

\* The last toggle of short queues.
LEMMA LikesFew ==
    ASSUME NEW p
    PROVE  /\ ~LikesLast(<<>>, p)
           /\ \A x : LikesLast(<<x>>, p) <=> x.id = p /\ x.kind = "like"
<1>1. ~LikesLast(<<>>, p)
  BY DEF LikesLast
<1>2. ASSUME NEW x PROVE LikesLast(<<x>>, p) <=> x.id = p /\ x.kind = "like"
  <2>1. Len(<<x>>) = 1 /\ <<x>>[1] = x
    OBVIOUS
  <2> DEFINE s == <<x>>
  <2> HIDE DEF s
  <2>2. LikesLast(s, p) <=> s[1].id = p /\ s[1].kind = "like"
    BY <2>1 DEF LikesLast, s
  <2>3. QED
    BY <2>1, <2>2 DEF s
<1>3. QED
  BY <1>1, <1>2

\* The first task of a queue matters only if nothing behind it toggles.
LEMMA LikesHead ==
    ASSUME NEW s \in Seq(Task), s # <<>>, NEW p
    PROVE  /\ HasTask(Tail(s), p, Toggles) => (LikesLast(s, p) <=> LikesLast(Tail(s), p))
           /\ ~HasTask(Tail(s), p, Toggles) =>
                 (LikesLast(s, p) <=> Head(s).id = p /\ Head(s).kind = "like")
<1> DEFINE t == Tail(s)
           h == Head(s)
<1>1. s = <<h>> \o t /\ <<h>> \in Seq(Task) /\ t \in Seq(Task)
  BY HeadTailProperties
<1> HIDE DEF t, h
<1>2. LikesLast(s, p) <=> LikesLast(t, p) \/ (LikesLast(<<h>>, p) /\ ~HasTask(t, p, {"unlike"}))
  BY <1>1, LikesJoined
<1>3. LikesLast(<<h>>, p) <=> h.id = p /\ h.kind = "like"
  BY LikesFew
<1>4. /\ LikesLast(t, p) => HasTask(t, p, Toggles)
      /\ HasTask(t, p, Toggles) /\ ~HasTask(t, p, {"unlike"}) => LikesLast(t, p)
  BY LikesHas
<1>5. HasTask(t, p, {"unlike"}) => HasTask(t, p, Toggles)
  BY DEF HasTask, Toggles
<1>6. QED
  BY <1>2, <1>3, <1>4, <1>5 DEF t, h

\* The last toggle that waits on d, in memory or on disk, likes p.
Wish(d, p) == LikesLast(worker[d], p) \/ (LikesLast(lane[d], p) /\ ~HasTask(worker[d], p, {"unlike"}))

\* WillLike, of queues in memory and on disk.
Liked(u, p) == docs[p] # NoDoc /\ u \in docs[p].likes
WillMeans ==
    \A u, p :
        /\ WillLike(u, p) <=>
              \/ \E d \in Devices : owner[d] = u /\ Wish(d, p)
              \/ (\A d \in Devices : owner[d] = u => ~Has(d, p, Toggles)) /\ Liked(u, p)
        /\ \A d \in Devices : Wish(d, p) => Has(d, p, Toggles)

\* What the account will like is what its last toggles say, or the document if
\* there are none.
LEMMA WillIs == TypeOK => WillMeans
<1> SUFFICES ASSUME TypeOK, NEW u, NEW p
             PROVE  /\ WillLike(u, p) <=>
                          \/ \E d \in Devices : owner[d] = u /\ Wish(d, p)
                          \/ /\ \A d \in Devices : owner[d] = u => ~Has(d, p, Toggles)
                             /\ Liked(u, p)
                    /\ \A d \in Devices : Wish(d, p) => Has(d, p, Toggles)
  BY DEF WillMeans
<1>1. ASSUME NEW d \in Devices PROVE LikesLast(Queued(d), p) <=> Wish(d, p)
  <2>1. lane[d] \in Seq(Task) /\ worker[d] \in Seq(Task)
    BY LanesAreTasks
  <2>2. QED
    BY <2>1, LikesJoined DEF Wish, Queued
<1>2. \A d \in Devices : HasTask(Queued(d), p, {"like", "unlike"}) <=> Has(d, p, Toggles)
  BY QueuedHas DEF Toggles
<1>3. \A d \in Devices : Wish(d, p) => Has(d, p, Toggles)
  BY LikesHas DEF Wish, Has
<1>4. QED
  BY <1>1, <1>2, <1>3 DEF WillLike, DevicesOf, Liked

\* A step that keeps an account's toggles and its like in the document keeps what
\* it will like.
LEMMA WillSame ==
    ASSUME TypeOK, TypeOK', owner' = owner, NEW u, NEW p,
           \A d \in Devices : owner[d] = u =>
               /\ Wish(d, p)' <=> Wish(d, p)
               /\ Has(d, p, Toggles)' <=> Has(d, p, Toggles),
           (\A d \in Devices : owner[d] = u => ~Has(d, p, Toggles)) =>
               (Liked(u, p)' <=> Liked(u, p))
    PROVE  WillLike(u, p)' <=> WillLike(u, p)
<1>1. WillMeans /\ WillMeans'
  BY WillIs, PTL
<1>2. WillLike(u, p) <=>
          \/ \E d \in Devices : owner[d] = u /\ Wish(d, p)
          \/ (\A d \in Devices : owner[d] = u => ~Has(d, p, Toggles)) /\ Liked(u, p)
  BY <1>1 DEF WillMeans
<1>3. WillLike(u, p)' <=>
          \/ \E d \in Devices : owner'[d] = u /\ Wish(d, p)'
          \/ (\A d \in Devices : owner'[d] = u => ~Has(d, p, Toggles)') /\ Liked(u, p)'
  BY <1>1 DEF WillMeans
<1>4. QED
  BY <1>2, <1>3

\* Given tasks that do not toggle leave the wishes alone, a toggle replaces them.
LEMMA GiveWish ==
    ASSUME TypeOK, NEW d \in Devices, up[d], NEW t \in Seq(Task), Give(d, t), lane' = lane
    PROVE  \A e \in Devices : \A p :
              /\ ~(e = d /\ HasTask(t, p, Toggles)) => (Wish(e, p)' <=> Wish(e, p))
              /\ e = d /\ LikesLast(t, p) => Wish(e, p)'
              /\ e = d /\ HasTask(t, p, {"unlike"}) /\ ~LikesLast(t, p) => ~Wish(e, p)'
<1>1. /\ \A e \in Devices : e # d => worker'[e] = worker[e]
      /\ worker'[d] = worker[d] \o t /\ worker[d] \in Seq(Task)
  BY GiveType, LanesAreTasks
<1>2. \A p : LikesLast(worker'[d], p) <=>
                LikesLast(t, p) \/ (LikesLast(worker[d], p) /\ ~HasTask(t, p, {"unlike"}))
  BY <1>1, LikesJoined
<1>3. \A p : HasTask(worker'[d], p, {"unlike"}) <=>
                HasTask(worker[d], p, {"unlike"}) \/ HasTask(t, p, {"unlike"})
  BY <1>1, HasJoined
<1>4. \A p : /\ LikesLast(t, p) => HasTask(t, p, Toggles)
             /\ HasTask(t, p, {"unlike"}) => HasTask(t, p, Toggles)
  BY LikesHas DEF HasTask, Toggles
<1>5. ASSUME NEW p, ~HasTask(t, p, Toggles) PROVE Wish(d, p)' <=> Wish(d, p)
  BY <1>2, <1>3, <1>4, <1>5 DEF Wish
<1>6. ASSUME NEW p, LikesLast(t, p) PROVE Wish(d, p)'
  BY <1>2, <1>6 DEF Wish
<1>7. ASSUME NEW p, HasTask(t, p, {"unlike"}), ~LikesLast(t, p) PROVE ~Wish(d, p)'
  BY <1>2, <1>3, <1>7 DEF Wish
<1>8. ASSUME NEW e \in Devices, NEW p, e # d PROVE Wish(e, p)' <=> Wish(e, p)
  BY <1>1, <1>8 DEF Wish
<1>9. QED
  BY <1>5, <1>6, <1>7, <1>8

\* A process that ends takes no wish with it but those it had in memory.
LEMMA DieWish ==
    ASSUME TypeOK, NEW d \in Devices, Die(d)
    PROVE  \A e \in Devices : \A p :
              ~(e = d /\ HasTask(worker[d], p, Toggles)) => (Wish(e, p)' <=> Wish(e, p))
<1>1. worker'[d] = <<>> /\ lane' = lane /\ \A e \in Devices : e # d => worker'[e] = worker[e]
  BY DEF Die, TypeOK
<1>2. \A p : ~LikesLast(worker'[d], p) /\ ~HasTask(worker'[d], p, {"unlike"})
  BY <1>1, LikesFew, HasFew
<1>3. \A p : ~HasTask(worker[d], p, Toggles) =>
                ~LikesLast(worker[d], p) /\ ~HasTask(worker[d], p, {"unlike"})
  BY LikesHas DEF HasTask, Toggles
<1>4. QED
  BY <1>1, <1>2, <1>3 DEF Wish

\* A task that moves from memory to disk is no news.
LEMMA WorkWish ==
    ASSUME TypeOK, NEW d \in Devices, Work(d)
    PROVE  \A e \in Devices : \A p : Wish(e, p)' <=> Wish(e, p)
<1> DEFINE t == Head(worker[d])
           w == worker[d]
           v == worker'[d]
           s == lane[d]
<1>1. /\ w # <<>> /\ t \in Task
      /\ v = Tail(w)
      /\ lane'[d] = IF t.kind = "read" THEN s ELSE s \o <<t>>
      /\ \A e \in Devices : e # d => worker'[e] = worker[e] /\ lane'[e] = lane[e]
  BY WorkQueues
<1>2. s \in Seq(Task) /\ w \in Seq(Task) /\ v \in Seq(Task) /\ <<t>> \in Seq(Task) /\ w = <<t>> \o v
  BY <1>1, LanesAreTasks, HeadTailProperties
<1> DEFINE r == <<t>>
<1> HIDE DEF t, w, v, s, r
<1>3. ASSUME NEW p
      PROVE  /\ LikesLast(w, p) <=> LikesLast(v, p) \/ (LikesLast(r, p) /\ ~HasTask(v, p, {"unlike"}))
             /\ HasTask(w, p, {"unlike"}) <=> HasTask(r, p, {"unlike"}) \/ HasTask(v, p, {"unlike"})
             /\ LikesLast(s \o r, p) <=> LikesLast(r, p) \/ (LikesLast(s, p) /\ ~HasTask(r, p, {"unlike"}))
  <2>1. w = r \o v /\ r \in Seq(Task)
    BY <1>2 DEF r
  <2>2. LikesLast(r \o v, p) <=> LikesLast(v, p) \/ (LikesLast(r, p) /\ ~HasTask(v, p, {"unlike"}))
    BY <1>2, <2>1, LikesJoined
  <2>3. HasTask(r \o v, p, {"unlike"}) <=> HasTask(r, p, {"unlike"}) \/ HasTask(v, p, {"unlike"})
    BY <1>2, <2>1, HasJoined
  <2>4. LikesLast(s \o r, p) <=> LikesLast(r, p) \/ (LikesLast(s, p) /\ ~HasTask(r, p, {"unlike"}))
    BY <1>2, <2>1, LikesJoined
  <2>5. QED
    BY <2>1, <2>2, <2>3, <2>4
<1>4. ASSUME NEW p PROVE /\ LikesLast(r, p) <=> t.id = p /\ t.kind = "like"
                         /\ HasTask(r, p, {"unlike"}) <=> t.id = p /\ t.kind = "unlike"
  BY LikesFew, HasFew DEF r
<1>5. ASSUME NEW p PROVE Wish(d, p)' <=> Wish(d, p)
  <2>1. CASE t.kind = "read"
    <3>1. ~LikesLast(r, p) /\ ~HasTask(r, p, {"unlike"}) /\ lane'[d] = s
      BY <1>1, <1>4, <2>1
    <3>2. QED
      BY <1>3, <3>1 DEF Wish, w, v, s
  <2>2. CASE t.kind # "read"
    <3>1. lane'[d] = s \o r
      BY <1>1, <2>2 DEF r
    <3>2. QED
      BY <1>3, <1>4, <3>1 DEF Wish, w, v, s
  <2>3. QED
    BY <2>1, <2>2
<1>6. ASSUME NEW e \in Devices, NEW p, e # d PROVE Wish(e, p)' <=> Wish(e, p)
  BY <1>1, <1>6 DEF Wish
<1>7. QED
  BY <1>5, <1>6

\* A toggle that leaves the lane matters only if it was the last.
LEMMA PopWish ==
    ASSUME TypeOK, NEW d \in Devices, Ack(d) \/ Refuse(d), NEW h, h = lane[d][1]
    PROVE  \A e \in Devices : \A p :
              /\ ~(e = d /\ h.id = p /\ h.kind \in Toggles) => (Wish(e, p)' <=> Wish(e, p))
              /\ Has(e, p, Toggles)' => (Wish(e, p)' <=> Wish(e, p))
              /\ e = d /\ h.id = p /\ h.kind \in Toggles /\ ~Has(e, p, Toggles)' =>
                    (Wish(e, p) <=> h.kind = "like") /\ ~HasTask(lane'[d], p, Toggles)
<1> DEFINE s == lane[d]
           v == lane'[d]
           w == worker[d]
<1>1. /\ s # <<>> /\ h = Head(s) /\ v = Tail(s)
      /\ \A e \in Devices : e # d => lane'[e] = lane[e]
      /\ worker' = worker
  BY PopQueues
<1>2. s \in Seq(Task)
  BY LanesAreTasks
<1> HIDE DEF s, v, w
<1>3. \A p : /\ HasTask(v, p, Toggles) => (LikesLast(s, p) <=> LikesLast(v, p))
             /\ ~HasTask(v, p, Toggles) => (LikesLast(s, p) <=> h.id = p /\ h.kind = "like")
  BY <1>1, <1>2, LikesHead
<1>4. \A p : /\ LikesLast(v, p) => HasTask(v, p, Toggles)
             /\ LikesLast(w, p) => HasTask(w, p, Toggles)
             /\ HasTask(w, p, {"unlike"}) => HasTask(w, p, Toggles)
             /\ HasTask(w, p, Toggles) /\ ~HasTask(w, p, {"unlike"}) => LikesLast(w, p)
  BY LikesHas DEF HasTask, Toggles
<1>5. \A p : /\ Wish(d, p) <=> LikesLast(w, p) \/ (LikesLast(s, p) /\ ~HasTask(w, p, {"unlike"}))
             /\ Wish(d, p)' <=> LikesLast(w, p) \/ (LikesLast(v, p) /\ ~HasTask(w, p, {"unlike"}))
             /\ Has(d, p, Toggles)' <=> HasTask(v, p, Toggles) \/ HasTask(w, p, Toggles)
  BY <1>1 DEF Wish, Has, s, v, w
<1>6. ASSUME NEW p, ~(h.id = p /\ h.kind \in Toggles) PROVE Wish(d, p)' <=> Wish(d, p)
  BY <1>3, <1>4, <1>5, <1>6 DEF Toggles
<1>7. ASSUME NEW p, Has(d, p, Toggles)' PROVE Wish(d, p)' <=> Wish(d, p)
  <2>1. CASE HasTask(v, p, Toggles)
    BY <1>3, <1>5, <2>1
  <2>2. CASE HasTask(w, p, Toggles)
    BY <1>4, <1>5, <2>2
  <2>3. QED
    BY <1>5, <1>7, <2>1, <2>2
<1>8. ASSUME NEW p, h.id = p, h.kind \in Toggles, ~Has(d, p, Toggles)'
      PROVE  (Wish(d, p) <=> h.kind = "like") /\ ~HasTask(v, p, Toggles)
  BY <1>3, <1>4, <1>5, <1>8
<1>9. ASSUME NEW e \in Devices, NEW p, e # d PROVE Wish(e, p)' <=> Wish(e, p)
  BY <1>1, <1>9 DEF Wish
<1>10. QED
  BY <1>6, <1>7, <1>8, <1>9 DEF v
-----------------------------------------------------------------------------
(* Every tap on a like counts.                                             *)

LaneInv ==
    /\ Authored
    /\ Arrived
    /\ CommittedToggles
    /\ NoLikeYet
    /\ CacheAgrees

TapInv ==
    /\ StillComing
    /\ OneBusy
    /\ OneRead
    /\ Answered
    /\ Parity

LikeInv == PostInv /\ LaneInv /\ TapInv

\* What was tapped and deleted stays on record.
Onward == blurred \subseteq blurred' /\ deleted \subseteq deleted' /\ owner' = owner

\* The pair is clear after the step.
ClearNext(u, p) == u \in Users /\ p \in Ids \ deleted' /\ <<u, p>> \notin blurred'

\* Pairs that are clear after a step were clear before it.
LEMMA ClearBefore ==
    ASSUME Onward
    PROVE  /\ \A u, p : ClearNext(u, p) => Clear(u, p)
           /\ \A d \in Devices : \A p : Clear(owner[d], p)' <=> ClearNext(owner[d], p)
           /\ \A u, p : Clear(u, p)' <=> ClearNext(u, p)
BY DEF Onward, Clear, ClearNext

\* Steps that leave the lanes and all documents alone, or send a lane again.
LEMMA KeepLanes ==
    ASSUME LikeInv, Onward, lane' = lane, docs' = docs, cache' = cache,
           \A d \in Devices : done'[d] \in {0, done[d]}
    PROVE  LaneInv'
<1>1. Authored'
  BY DEF LikeInv, LaneInv, Authored, Onward
<1>2. Arrived'
  BY DEF LikeInv, LaneInv, Arrived, Onward
<1>3. CommittedToggles'
  <2>1. SUFFICES ASSUME NEW d \in Devices, NEW p \in Ids, Clear(owner[d], p)',
                        \E i \in 1..done'[d] : lane[d][i].id = p /\ lane[d][i].kind \in Toggles
                 PROVE  owner[d] \in docs[p].likes <=> LikesUpTo(lane[d], done'[d], p)
    BY DEF CommittedToggles, Onward
  <2>2. done'[d] = done[d]
    BY <2>1
  <2>3. Clear(owner[d], p)
    BY <2>1, ClearBefore
  <2>4. QED
    BY <2>1, <2>2, <2>3 DEF LikeInv, LaneInv, CommittedToggles
<1>4. NoLikeYet'
  <2>1. \A d \in Devices, p \in Ids : Clear(owner[d], p)' => Clear(owner[d], p)
    BY ClearBefore
  <2>2. QED
    BY <2>1 DEF LikeInv, LaneInv, NoLikeYet, Onward
<1>5. CacheAgrees'
  <2>1. \A d \in Devices, p \in Ids : Clear(owner[d], p)' => Clear(owner[d], p)
    BY ClearBefore
  <2>2. \A u : DevicesOf(u)' = DevicesOf(u)
    BY DEF DevicesOf, Onward
  <2>3. QED
    BY <2>1, <2>2 DEF LikeInv, LaneInv, CacheAgrees, Onward
<1>6. QED
  BY <1>1, <1>2, <1>3, <1>4, <1>5 DEF LaneInv

\* Steps that start no tap and take no write that creates a post.
LEMMA KeepBusy ==
    ASSUME LikeInv, Onward,
           \A d \in Devices, p \in Ids :
               /\ Active(d, p)' => Active(d, p)
               /\ Has(d, p, {"create"})' => Has(d, p, {"create"})
    PROVE  OneBusy'
<1>1. \A d \in Devices, p \in Ids : Clear(owner[d], p)' => Clear(owner[d], p)
  BY ClearBefore
<1>2. QED
  BY <1>1 DEF LikeInv, TapInv, OneBusy, Onward

\* Nor do those lose posts that are still to come.
LEMMA KeepComing ==
    ASSUME LikeInv, Onward, docs' = docs, cache' = cache,
           \A d \in Devices, p \in Ids \ deleted' :
               /\ Active(d, p)' => Active(d, p)
               /\ Has(d, p, {"create"}) => Has(d, p, {"create"})'
               /\ Has(d, p, {"name"})' => Has(d, p, {"name"})
               /\ <<p, TRUE>> \in rows'[d] => <<p, TRUE>> \in rows[d]
    PROVE  StillComing'
BY DEF LikeInv, TapInv, StillComing, Onward

\* The order of taps, where queues lose tasks and get none about likes.
LEMMA KeepRead ==
    ASSUME LikeInv, Onward, reads' = reads, answers' = answers,
           \A d \in Devices, p \in Ids : ClearNext(owner[d], p) =>
               /\ InTurn(worker[d], p) => InTurn(worker'[d], p)
               /\ HasTask(worker'[d], p, Toggles \cup {"read"}) => HasTask(worker[d], p, Toggles \cup {"read"})
    PROVE  OneRead'
<1>1. SUFFICES ASSUME NEW d \in Devices, NEW p \in Ids, ClearNext(owner[d], p)
               PROVE  InTurnOn(d, p)'
  <2>1. \A d \in Devices, p \in Ids : Clear(owner[d], p)' => ClearNext(owner[d], p)
    BY ClearBefore
  <2>2. QED
    BY <2>1 DEF OneRead
<1>2. InTurnOn(d, p)
  BY <1>1, ClearBefore DEF LikeInv, TapInv, OneRead
<1>3. (Asked(d, p)' <=> Asked(d, p)) /\ (Told(d, p)' <=> Told(d, p))
  BY DEF Asked, Told
<1>4. /\ InTurn(worker'[d], p)
      /\ HasTask(worker'[d], p, Toggles \cup {"read"}) => HasTask(worker[d], p, Toggles \cup {"read"})
  BY <1>1, <1>2 DEF InTurnOn
<1>5. QED
  BY <1>2, <1>3, <1>4 DEF InTurnOn

\* What clear accounts will like is the same after the step.
Steady == \A u \in Users, p \in Ids : ClearNext(u, p) => (WillLike(u, p)' <=> WillLike(u, p))

\* It is, when no clear account's last toggle changes, and no clear account
\* without a toggle enters or leaves the likes.
LEMMA SteadyStep ==
    ASSUME LikeInv, TypeOK', Onward,
           \A u \in Users, p \in Ids : ClearNext(u, p) =>
               /\ \A d \in Devices : owner[d] = u =>
                     /\ Wish(d, p)' <=> Wish(d, p)
                     /\ Has(d, p, Toggles)' <=> Has(d, p, Toggles)
               /\ (\A d \in Devices : owner[d] = u => ~Has(d, p, Toggles)) =>
                     (Liked(u, p)' <=> Liked(u, p))
    PROVE  Steady
<1>1. SUFFICES ASSUME NEW u \in Users, NEW p \in Ids, ClearNext(u, p)
               PROVE  WillLike(u, p)' <=> WillLike(u, p)
  BY DEF Steady
<1>2. /\ \A d \in Devices : owner[d] = u =>
            /\ Wish(d, p)' <=> Wish(d, p)
            /\ Has(d, p, Toggles)' <=> Has(d, p, Toggles)
      /\ (\A d \in Devices : owner[d] = u => ~Has(d, p, Toggles)) =>
            (Liked(u, p)' <=> Liked(u, p))
  BY <1>1
<1>3. TypeOK /\ TypeOK' /\ owner' = owner
  BY DEF LikeInv, PostInv, Onward
<1>4. QED
  BY <1>2, <1>3, WillSame

\* Answers that were there tell the truth as long as nothing is toggled.
LEMMA KeepAnswered ==
    ASSUME LikeInv, Onward, Steady, TypeOK',
           \A d \in Devices, p \in Ids : ClearNext(owner[d], p) =>
               \A i \in 1..Len(answers'[d]) : answers'[d][i].id = p =>
                   \E j \in 1..Len(answers[d]) : answers[d][j] = answers'[d][i]
    PROVE  Answered'
<1>1. SUFFICES ASSUME NEW d \in Devices, NEW p \in Ids, Clear(owner[d], p)',
                      NEW i \in 1..Len(answers'[d]), answers'[d][i].id = p
               PROVE  /\ answers'[d][i].seen \in {"gone", "liked", "plain"}
                      /\ answers'[d][i].seen = "liked" => WillLike(owner[d], p)'
                      /\ answers'[d][i].seen = "plain" => ~WillLike(owner[d], p)'
  BY DEF Answered, Onward
<1>2. ClearNext(owner[d], p) /\ Clear(owner[d], p)
  BY <1>1, ClearBefore
<1>3. PICK j \in 1..Len(answers[d]) : answers[d][j] = answers'[d][i]
  BY <1>1, <1>2
<1>4. /\ answers[d][j].seen \in {"gone", "liked", "plain"}
      /\ answers[d][j].seen = "liked" => WillLike(owner[d], p)
      /\ answers[d][j].seen = "plain" => ~WillLike(owner[d], p)
  BY <1>1, <1>2, <1>3 DEF LikeInv, TapInv, Answered
<1>5. WillLike(owner[d], p)' <=> WillLike(owner[d], p)
  BY <1>1, <1>2 DEF Steady, Onward, ClearNext
<1>6. QED
  BY <1>3, <1>4, <1>5

\* Nor does the count of the taps change if nobody taps and nothing is toggled.
LEMMA KeepParity ==
    ASSUME LikeInv, Onward, Steady,
           odd' = odd,
           \A u \in Users, p \in Ids, d \in Devices :
               ClearNext(u, p) /\ owner[d] = u => (Reading(d, p)' <=> Reading(d, p))
    PROVE  Parity'
<1>1. SUFFICES ASSUME NEW u \in Users, NEW p \in Ids, ClearNext(u, p)
               PROVE  WillLike(u, p)' <=> (<<u, p>> \in odd' <=> \A d \in DevicesOf(u)' : ~Reading(d, p)')
  BY ClearBefore DEF Parity
<1>2. WillLike(u, p) <=> (<<u, p>> \in odd <=> \A d \in DevicesOf(u) : ~Reading(d, p))
  BY <1>1, ClearBefore DEF LikeInv, TapInv, Parity
<1>3. (\A d \in DevicesOf(u)' : ~Reading(d, p)') <=> (\A d \in DevicesOf(u) : ~Reading(d, p))
  BY <1>1 DEF DevicesOf, Onward
<1>4. WillLike(u, p)' <=> WillLike(u, p)
  BY <1>1 DEF Steady
<1>5. QED
  BY <1>1, <1>2, <1>3, <1>4

\* Turns in a queue that is joined with another, or loses its first task.
LEMMA InTurnJoined ==
    ASSUME NEW s \in Seq(Task), NEW t \in Seq(Task), NEW p, InTurn(s, p), InTurn(t, p),
           ~HasTask(s, p, {"read"}) \/ ~HasTask(t, p, Toggles \cup {"read"})
    PROVE  InTurn(s \o t, p)
<1> DEFINE r == s \o t
           m == Len(s)
           n == Len(t)
<1>1. /\ Len(r) = m + n
      /\ \A i \in 1..m + n : r[i] = IF i <= m THEN s[i] ELSE t[i - m]
  BY ConcatProperties
<1>2. m \in Nat /\ n \in Nat
  OBVIOUS
<1> HIDE DEF r, m, n
<1>3. SUFFICES ASSUME NEW i \in 1..Len(r), NEW j \in 1..Len(r), i < j,
                      r[i].id = p, r[i].kind = "read", r[j].id = p
               PROVE  r[j].kind \notin Toggles \cup {"read"}
  BY DEF InTurn, r
<1>4. CASE j <= m
  <2>1. i \in 1..m /\ j \in 1..m /\ r[i] = s[i] /\ r[j] = s[j]
    BY <1>1, <1>2, <1>3, <1>4
  <2>2. QED
    BY <1>3, <2>1 DEF InTurn, m
<1>5. CASE i <= m /\ ~(j <= m)
  <2>1. i \in 1..m /\ j - m \in 1..n /\ r[i] = s[i] /\ r[j] = t[j - m]
    BY <1>1, <1>2, <1>3, <1>5
  <2>2. HasTask(s, p, {"read"})
    BY <1>3, <2>1 DEF HasTask, m
  <2>3. QED
    BY <1>3, <2>1, <2>2 DEF HasTask, n
<1>6. CASE ~(i <= m)
  <2>1. i - m \in 1..n /\ j - m \in 1..n /\ i - m < j - m /\ r[i] = t[i - m] /\ r[j] = t[j - m]
    BY <1>1, <1>2, <1>3, <1>6
  <2>2. QED
    BY <1>3, <2>1 DEF InTurn, n
<1>7. QED
  BY <1>2, <1>4, <1>5, <1>6

\* A queue that loses its first task keeps the turns; after a read none waits.
LEMMA InTurnHead ==
    ASSUME NEW s \in Seq(Task), s # <<>>, NEW p, InTurn(s, p)
    PROVE  /\ InTurn(Tail(s), p)
           /\ Head(s).id = p /\ Head(s).kind = "read" =>
                 ~HasTask(Tail(s), p, Toggles \cup {"read"})
<1>1. /\ Len(Tail(s)) = Len(s) - 1
      /\ \A i \in 1..Len(Tail(s)) : Tail(s)[i] = s[i + 1]
      /\ Head(s) = s[1]
  BY HeadTailProperties
<1>2. Len(s) \in Nat /\ 1 \in 1..Len(s)
  OBVIOUS
<1> DEFINE t == Tail(s)
<1> HIDE DEF t
<1>3. \A i \in 1..Len(t) : i + 1 \in 1..Len(s) /\ s[i + 1] = t[i] /\ 1 < i + 1
  BY <1>1, <1>2 DEF t
<1>4. \A i, j \in 1..Len(t) : i < j => i + 1 < j + 1
  BY <1>1, <1>2 DEF t
<1>5. InTurn(t, p)
  BY <1>3, <1>4 DEF InTurn
<1>6. s[1].id = p /\ s[1].kind = "read" => ~HasTask(t, p, Toggles \cup {"read"})
  BY <1>2, <1>3 DEF InTurn, HasTask
<1>7. QED
  BY <1>1, <1>5, <1>6 DEF t

\* Tasks about no like, given to the SDK.
LEMMA GiveLike ==
    ASSUME LikeInv, TypeOK', Onward, NEW d \in Devices, up[d], NEW t \in Seq(Task), Give(d, t),
           lane' = lane, docs' = docs, cache' = cache, done' = done,
           reads' = reads, answers' = answers, odd' = odd,
           \A p : ~HasTask(t, p, Toggles \cup {"read"})
    PROVE  /\ LaneInv' /\ OneRead' /\ Answered' /\ Parity'
           /\ \A e \in Devices : \A p : Active(e, p)' <=> Active(e, p)
<1>1. TypeOK
  BY DEF LikeInv, PostInv
<1>2. LaneInv'
  <2>1. \A e \in Devices : done'[e] \in {0, done[e]}
    OBVIOUS
  <2>2. QED
    BY <2>1, KeepLanes
<1>3. \A p : ~HasTask(t, p, Toggles) /\ ~HasTask(t, p, {"read"})
  BY HasMore
<1>4. \A e \in Devices : \A p, K :
          HasTask(worker'[e], p, K) <=> HasTask(worker[e], p, K) \/ (e = d /\ HasTask(t, p, K))
  BY <1>1, GiveQueues
<1>5. \A e \in Devices : \A p : Has(e, p, Toggles)' <=> Has(e, p, Toggles)
  BY <1>3, <1>4 DEF Has
<1>6. \A e \in Devices : \A p : Reading(e, p)' <=> Reading(e, p)
  BY <1>3, <1>4 DEF Reading
<1>7. \A e \in Devices : \A p : Active(e, p)' <=> Active(e, p)
  BY <1>5, <1>6 DEF Active
<1>8. OneRead'
  <2>1. ASSUME NEW e \in Devices, NEW p \in Ids, InTurn(worker[e], p) PROVE InTurn(worker'[e], p)
    <3>1. CASE e = d
      <4>1. worker'[d] = worker[d] \o t /\ worker[d] \in Seq(Task)
        BY <1>1, GiveType DEF TypeOK
      <4>2. InTurn(t, p)
        BY <1>3 DEF InTurn, HasTask
      <4>3. QED
        BY <2>1, <3>1, <4>1, <4>2, InTurnJoined
    <3>2. CASE e # d
      BY <1>1, <2>1, <3>2, GiveType
    <3>3. QED
      BY <3>1, <3>2
  <2>2. \A e \in Devices, p \in Ids :
            HasTask(worker'[e], p, Toggles \cup {"read"}) => HasTask(worker[e], p, Toggles \cup {"read"})
    BY <1>4
  <2>3. QED
    BY <2>1, <2>2, KeepRead
<1>9. Steady
  <2>1. \A e \in Devices : \A p : Wish(e, p)' <=> Wish(e, p)
    BY <1>1, <1>3, GiveWish
  <2>2. \A u, p : Liked(u, p)' <=> Liked(u, p)
    BY DEF Liked
  <2>3. QED
    BY <1>5, <2>1, <2>2, SteadyStep
<1>10. Answered'
  BY <1>9, KeepAnswered
<1>11. Parity'
  BY <1>6, <1>9, KeepParity
<1>12. QED
  BY <1>2, <1>7, <1>8, <1>10, <1>11

\* A post is written.
LEMMA WritePostLike ==
    ASSUME LikeInv, NEW d \in Devices, WritePost(d)
    PROVE  LikeInv'
<1>1. PICK p \in Ids : by[p] = NoUser /\ Give(d, CreateWrites(p))
  BY DEF WritePost
<1> DEFINE t == CreateWrites(p)
<1>2. t \in Seq(Task) /\ \A q, K : HasTask(t, q, K) <=> q = p /\ ("create" \in K \/ "name" \in K)
  <2> DEFINE c == [kind |-> "create", id |-> p]
             n == [kind |-> "name", id |-> p]
  <2>1. t = <<c, n>> /\ t \in Seq(Task)
    BY DEF CreateWrites, Task, Kinds
  <2> HIDE DEF t
  <2>2. \A q, K : HasTask(t, q, K) <=> q = p /\ ("create" \in K \/ "name" \in K)
    BY <2>1 DEF HasTask
  <2>3. QED
    BY <2>1, <2>2
<1>3. /\ lane' = lane /\ done' = done /\ docs' = docs /\ owner' = owner
      /\ cache' = cache /\ rows' = rows /\ reads' = reads /\ answers' = answers
      /\ deleted' = deleted /\ blurred' = blurred /\ odd' = odd
      /\ up[d]
  BY DEF WritePost, liking, history
<1> HIDE DEF t
<1>4. PostInv' /\ TypeOK' /\ TypeOK /\ Onward
  BY <1>3, WritePostPost DEF LikeInv, PostInv, Onward
<1>5. /\ docs[p] = NoDoc
      /\ \A e \in Devices : /\ cache[e][p] = NoDoc
                            /\ <<p, TRUE>> \notin rows[e]
                            /\ ~Has(e, p, Kinds)
                            /\ ~Reading(e, p)
  BY <1>1 DEF LikeInv, PostInv, UnusedIsUnknown
<1>6. \A e \in Devices : ~Active(e, p)
  BY <1>5 DEF Active, Has, HasTask, Toggles, Kinds
<1>7. /\ LaneInv' /\ OneRead' /\ Answered' /\ Parity'
      /\ \A e \in Devices : \A q : Active(e, q)' <=> Active(e, q)
  <2>1. \A q : ~HasTask(t, q, Toggles \cup {"read"})
    BY <1>2 DEF Toggles
  <2>2. QED
    BY <1>1, <1>2, <1>3, <1>4, <2>1, GiveLike DEF t
<1>8. \A e \in Devices : \A q :
          /\ Has(e, q, {"create"})' <=> Has(e, q, {"create"}) \/ (e = d /\ q = p)
          /\ Has(e, q, {"name"})' <=> Has(e, q, {"name"}) \/ (e = d /\ q = p)
  BY <1>1, <1>2, <1>3, <1>4, GiveHas DEF t
<1>9. StillComing'
  <2>1. SUFFICES ASSUME NEW q \in Ids \ deleted, NEW e \in Devices
                 PROVE  /\ docs[q] = NoDoc =>
                              /\ cache[e][q] = NoDoc
                              /\ Active(e, q)' \/ <<q, TRUE>> \in rows[e] => Has(e, q, {"create"})'
                        /\ cache[e][q] = NoDoc /\ Has(e, q, {"name"})' => Has(e, q, {"create"})'
    BY <1>3 DEF StillComing
  <2>2. CASE q = p
    <3>1. ~Has(e, p, {"name"})
      BY <1>5 DEF Has, HasTask, Kinds
    <3>2. QED
      BY <1>5, <1>6, <1>7, <1>8, <2>2, <3>1
  <2>3. CASE q # p
    BY <1>7, <1>8, <2>3 DEF LikeInv, TapInv, StillComing
  <2>4. QED
    BY <2>2, <2>3
<1>10. OneBusy'
  <2>1. \A e \in Devices, q \in Ids : Clear(owner[e], q)' => Clear(owner[e], q)
    BY <1>4, ClearBefore
  <2>2. QED
    BY <1>3, <1>6, <1>7, <1>8, <2>1 DEF LikeInv, TapInv, OneBusy
<1>11. QED
  BY <1>4, <1>7, <1>9, <1>10 DEF LikeInv, TapInv

\* A post is deleted.
LEMMA TapDeleteLike ==
    ASSUME LikeInv, NEW d \in Devices, TapDelete(d)
    PROVE  LikeInv'
<1>1. PICK p \in Ids : Give(d, <<[kind |-> "delete", id |-> p]>>) /\ deleted' = deleted \cup {p}
  BY DEF TapDelete
<1> DEFINE t == <<[kind |-> "delete", id |-> p]>>
<1>2. t \in Seq(Task) /\ \A q, K : HasTask(t, q, K) <=> q = p /\ "delete" \in K
  <2>1. t \in Seq(Task) /\ Len(t) = 1 /\ t[1].id = p /\ t[1].kind = "delete"
    BY DEF Task, Kinds
  <2> HIDE DEF t
  <2>2. \A q, K : HasTask(t, q, K) <=> q = p /\ "delete" \in K
    BY <2>1 DEF HasTask
  <2>3. QED
    BY <2>1, <2>2
<1>3. /\ lane' = lane /\ done' = done /\ docs' = docs /\ owner' = owner
      /\ cache' = cache /\ rows' = rows /\ reads' = reads /\ answers' = answers
      /\ blurred' = blurred /\ odd' = odd
      /\ up[d]
  BY DEF TapDelete, liking
<1> HIDE DEF t
<1>4. PostInv' /\ TypeOK' /\ TypeOK /\ Onward
  BY <1>1, <1>3, TapDeletePost DEF LikeInv, PostInv, Onward
<1>5. /\ LaneInv' /\ OneRead' /\ Answered' /\ Parity'
      /\ \A e \in Devices : \A q : Active(e, q)' <=> Active(e, q)
  <2>1. \A q : ~HasTask(t, q, Toggles \cup {"read"})
    BY <1>2 DEF Toggles
  <2>2. QED
    BY <1>1, <1>2, <1>3, <1>4, <2>1, GiveLike DEF t
<1>6. \A e \in Devices : \A q :
          /\ Has(e, q, {"create"})' <=> Has(e, q, {"create"})
          /\ Has(e, q, {"name"})' <=> Has(e, q, {"name"})
  <2>1. \A e \in Devices : \A q, K : Has(e, q, K)' <=> Has(e, q, K) \/ (e = d /\ HasTask(t, q, K))
    BY <1>1, <1>2, <1>3, <1>4, GiveHas DEF t
  <2>2. \A q : ~HasTask(t, q, {"create"}) /\ ~HasTask(t, q, {"name"})
    BY <1>2
  <2>3. QED
    BY <2>1, <2>2
<1>7. StillComing'
  BY <1>3, <1>4, <1>5, <1>6, KeepComing
<1>8. OneBusy'
  BY <1>4, <1>5, <1>6, KeepBusy
<1>9. QED
  BY <1>4, <1>5, <1>7, <1>8 DEF LikeInv, TapInv

\* A like is tapped.
LEMMA TapLikeLike ==
    ASSUME LikeInv, NEW d \in Devices, TapLike(d)
    PROVE  LikeInv'
<1> DEFINE u == owner[d]
<1>1. PICK p \in Ids :
         /\ <<p, TRUE>> \in rows[d]
         /\ Give(d, <<[kind |-> "read", id |-> p]>>)
         /\ odd' = IF <<u, p>> \in odd THEN odd \ {<<u, p>>} ELSE odd \cup {<<u, p>>}
         /\ blurred' = IF \/ Reading(d, p)
                          \/ \E e \in DevicesOf(u) \ {d} : Reading(e, p) \/ HasTask(Queued(e), p, Kinds)
                       THEN blurred \cup {<<u, p>>} ELSE blurred
  BY DEF TapLike
<1> DEFINE t == <<[kind |-> "read", id |-> p]>>
<1>2. t \in Seq(Task) /\ \A q, K : HasTask(t, q, K) <=> q = p /\ "read" \in K
  <2>1. t \in Seq(Task) /\ Len(t) = 1 /\ t[1].id = p /\ t[1].kind = "read"
    BY DEF Task, Kinds
  <2> HIDE DEF t
  <2>2. \A q, K : HasTask(t, q, K) <=> q = p /\ "read" \in K
    BY <2>1 DEF HasTask
  <2>3. QED
    BY <2>1, <2>2
<1>3. /\ lane' = lane /\ done' = done /\ docs' = docs /\ owner' = owner
      /\ cache' = cache /\ rows' = rows /\ reads' = reads /\ answers' = answers
      /\ deleted' = deleted
      /\ up[d] /\ Give(d, t)
  BY <1>1 DEF TapLike, liking
<1>4. InTurn(t, p) /\ \A q : q # p => InTurn(t, q)
  BY DEF InTurn
<1> HIDE DEF t
<1>5. PostInv' /\ TypeOK' /\ TypeOK
  BY TapLikePost DEF LikeInv, PostInv
<1>6. Onward
  BY <1>1, <1>3 DEF Onward
<1>7. ASSUME ClearNext(u, p)
      PROVE  /\ ~Reading(d, p)
             /\ \A e \in Devices : e # d /\ owner[e] = u =>
                   ~Reading(e, p) /\ ~Has(e, p, Toggles) /\ ~Has(e, p, {"create"})
  <2>1. /\ ~Reading(d, p)
        /\ \A e \in DevicesOf(u) \ {d} : ~Reading(e, p) /\ ~HasTask(Queued(e), p, Kinds)
    BY <1>1, <1>7 DEF ClearNext
  <2>2. \A e \in Devices : HasTask(Queued(e), p, Kinds) <=> Has(e, p, Kinds)
    BY <1>5, QueuedHas
  <2>3. \A e \in Devices : ~Has(e, p, Kinds) => ~Has(e, p, Toggles) /\ ~Has(e, p, {"create"})
    BY DEF Has, HasTask, Kinds, Toggles
  <2>4. QED
    BY <2>1, <2>2, <2>3 DEF DevicesOf
<1>8. /\ \A e \in Devices : \A q, K : Has(e, q, K)' <=> Has(e, q, K) \/ (e = d /\ HasTask(t, q, K))
      /\ \A e \in Devices : \A q, K :
            HasTask(worker'[e], q, K) <=> HasTask(worker[e], q, K) \/ (e = d /\ HasTask(t, q, K))
  BY <1>2, <1>3, <1>5, GiveHas, GiveQueues
<1>9. \A e \in Devices : \A q : /\ Has(e, q, Toggles)' <=> Has(e, q, Toggles)
                                /\ Has(e, q, {"create"})' <=> Has(e, q, {"create"})
                                /\ Has(e, q, {"name"})' <=> Has(e, q, {"name"})
  <2>1. \A q : ~HasTask(t, q, {"create"}) /\ ~HasTask(t, q, {"name"}) /\ ~HasTask(t, q, Toggles)
    BY <1>2 DEF Toggles
  <2>2. QED
    BY <1>8, <2>1
<1>10. \A e \in Devices : \A q : Reading(e, q)' <=> Reading(e, q) \/ (e = d /\ q = p)
  BY <1>2, <1>3, <1>8 DEF Reading
<1>11. \A e \in Devices : \A q : Active(e, q)' <=> Active(e, q) \/ (e = d /\ q = p)
  BY <1>9, <1>10 DEF Active
<1>12. LaneInv'
  <2>1. \A e \in Devices : done'[e] \in {0, done[e]}
    BY <1>3
  <2>2. QED
    BY <1>3, <1>6, <2>1, KeepLanes
<1>13. StillComing'
  <2>1. SUFFICES ASSUME NEW q \in Ids \ deleted, NEW e \in Devices
                 PROVE  /\ docs[q] = NoDoc =>
                              /\ cache[e][q] = NoDoc
                              /\ Active(e, q)' \/ <<q, TRUE>> \in rows[e] => Has(e, q, {"create"})'
                        /\ cache[e][q] = NoDoc /\ Has(e, q, {"name"})' => Has(e, q, {"create"})'
    BY <1>3 DEF StillComing
  <2>2. QED
    BY <1>1, <1>9, <1>11 DEF LikeInv, TapInv, StillComing
<1>14. OneBusy'
  <2>1. SUFFICES ASSUME NEW x \in Devices, NEW e \in Devices, NEW q \in Ids,
                        owner[x] = owner[e], ClearNext(owner[x], q),
                        Active(x, q)', Active(e, q)' \/ Has(e, q, {"create"})'
                 PROVE  e = x
    BY <1>3, <1>6, ClearBefore DEF OneBusy
  <2>2. Clear(owner[x], q)
    BY <1>6, <2>1, ClearBefore
  <2>3. CASE q = p /\ owner[x] = u
    <3>1. \A y \in Devices : y # d /\ owner[y] = u => ~Active(y, p)' /\ ~Has(y, p, {"create"})'
      BY <1>7, <1>9, <1>11, <2>1, <2>3 DEF Active
    <3>2. QED
      BY <2>1, <2>3, <3>1
  <2>4. CASE ~(q = p /\ owner[x] = u)
    BY <1>9, <1>11, <2>1, <2>2, <2>4 DEF LikeInv, TapInv, OneBusy
  <2>5. QED
    BY <2>3, <2>4
<1>15. OneRead'
  <2>1. SUFFICES ASSUME NEW e \in Devices, NEW q \in Ids, ClearNext(owner[e], q)
                 PROVE  InTurnOn(e, q)'
    BY <1>6, ClearBefore DEF OneRead
  <2>2. InTurnOn(e, q)
    BY <1>6, <2>1, ClearBefore DEF LikeInv, TapInv, OneRead
  <2>3. (Asked(e, q)' <=> Asked(e, q)) /\ (Told(e, q)' <=> Told(e, q))
    BY <1>3 DEF Asked, Told
  <2>4. CASE e = d /\ q = p
    <3>1. ~HasTask(worker[d], p, {"read"}) /\ ~Asked(d, p) /\ ~Told(d, p)
      BY <1>7, <2>1, <2>4 DEF Reading, Asked, Told
    <3>2. worker'[d] = worker[d] \o t /\ worker[d] \in Seq(Task)
      BY <1>2, <1>3, <1>5, GiveType DEF TypeOK
    <3>3. InTurn(worker'[d], p)
      BY <1>2, <1>4, <2>2, <2>4, <3>1, <3>2, InTurnJoined DEF InTurnOn
    <3>4. QED
      BY <1>3, <2>2, <2>3, <2>4, <3>1, <3>3 DEF InTurnOn
  <2>5. CASE e = d /\ q # p
    <3>1. worker'[d] = worker[d] \o t /\ worker[d] \in Seq(Task)
      BY <1>2, <1>3, <1>5, GiveType DEF TypeOK
    <3>2. ~HasTask(t, q, Toggles \cup {"read"})
      BY <1>2, <2>5
    <3>3. InTurn(worker'[d], q)
      BY <1>2, <1>4, <2>2, <2>5, <3>1, <3>2, InTurnJoined DEF InTurnOn
    <3>4. HasTask(worker'[d], q, Toggles \cup {"read"}) <=> HasTask(worker[d], q, Toggles \cup {"read"})
      BY <1>8, <3>2
    <3>5. QED
      BY <1>3, <2>2, <2>3, <2>5, <3>3, <3>4 DEF InTurnOn
  <2>6. CASE e # d
    <3>1. worker'[e] = worker[e]
      BY <1>2, <1>3, <1>5, <2>6, GiveType
    <3>2. QED
      BY <1>3, <2>2, <2>3, <3>1 DEF InTurnOn
  <2>7. QED
    BY <2>4, <2>5, <2>6
<1>16. Steady
  <2>1. \A q : ~HasTask(t, q, Toggles)
    BY <1>2 DEF Toggles
  <2>2. \A e \in Devices : \A q : Wish(e, q)' <=> Wish(e, q)
    BY <1>2, <1>3, <1>5, <2>1, GiveWish
  <2>3. \A v, q : Liked(v, q)' <=> Liked(v, q)
    BY <1>3 DEF Liked
  <2>4. QED
    BY <1>5, <1>6, <1>9, <2>2, <2>3, SteadyStep
<1>17. Answered'
  BY <1>3, <1>5, <1>6, <1>16, KeepAnswered
<1>18. Parity'
  <2>1. SUFFICES ASSUME NEW v \in Users, NEW q \in Ids, ClearNext(v, q)
                 PROVE  WillLike(v, q)' <=> (<<v, q>> \in odd' <=> \A e \in DevicesOf(v)' : ~Reading(e, q)')
    BY <1>6, ClearBefore DEF Parity
  <2>2. WillLike(v, q)' <=> WillLike(v, q)
    BY <1>16, <2>1 DEF Steady
  <2>3. WillLike(v, q) <=> (<<v, q>> \in odd <=> \A e \in DevicesOf(v) : ~Reading(e, q))
    BY <1>6, <2>1, ClearBefore DEF LikeInv, TapInv, Parity
  <2>4. \A e : e \in DevicesOf(v)' <=> e \in Devices /\ owner[e] = v
    BY <1>3 DEF DevicesOf
  <2>5. CASE v = u /\ q = p
    <3>1. \A e \in DevicesOf(v) : ~Reading(e, q)
      BY <1>7, <2>1, <2>5 DEF DevicesOf
    <3>2. ~\A e \in DevicesOf(v)' : ~Reading(e, q)'
      BY <1>10, <2>4, <2>5
    <3>3. <<v, q>> \in odd' <=> <<v, q>> \notin odd
      BY <1>1, <2>5
    <3>4. QED
      BY <2>2, <2>3, <3>1, <3>2, <3>3
  <2>6. CASE ~(v = u /\ q = p)
    <3>1. <<v, q>> # <<u, p>>
      BY <2>6
    <3> DEFINE a == <<v, q>>
               b == <<u, p>>
    <3>2. odd' = (IF b \in odd THEN odd \ {b} ELSE odd \cup {b}) /\ a # b
      BY <1>1, <3>1
    <3> HIDE DEF a, b
    <3>3. a \in odd' <=> a \in odd
      BY <3>2
    <3>4. (\A e \in DevicesOf(v)' : ~Reading(e, q)') <=> (\A e \in DevicesOf(v) : ~Reading(e, q))
      BY <1>10, <2>4, <2>6 DEF DevicesOf
    <3>5. QED
      BY <2>2, <2>3, <3>3, <3>4 DEF a
  <2>7. QED
    BY <2>5, <2>6
<1>19. QED
  BY <1>5, <1>12, <1>13, <1>14, <1>15, <1>17, <1>18 DEF LikeInv, TapInv

\* The process ends.
LEMMA DieLike ==
    ASSUME LikeInv, NEW d \in Devices, Die(d)
    PROVE  LikeInv'
<1>1. /\ lane' = lane /\ docs' = docs /\ owner' = owner /\ cache' = cache
      /\ deleted' = deleted /\ odd' = odd /\ blurred \subseteq blurred'
  BY DEF Die
<1>2. PostInv' /\ TypeOK' /\ TypeOK
  BY DiePost DEF LikeInv, PostInv
<1>3. Onward
  BY <1>1 DEF Onward
<1>4. /\ worker'[d] = <<>> /\ reads'[d] = <<>> /\ answers'[d] = <<>> /\ rows'[d] = {}
      /\ \A e \in Devices : e # d =>
            /\ worker'[e] = worker[e] /\ reads'[e] = reads[e]
            /\ answers'[e] = answers[e] /\ rows'[e] = rows[e]
      /\ \A e \in Devices : done'[e] \in {0, done[e]}
  BY <1>2 DEF Die, TypeOK
<1>5. \A e \in Devices : \A p, K :
          /\ HasTask(worker'[e], p, K) <=> e # d /\ HasTask(worker[e], p, K)
          /\ HasTask(lane'[e], p, K) <=> HasTask(lane[e], p, K)
  BY <1>2, DieQueues
<1>6. \A e \in Devices : \A p : Reading(e, p)' <=> e # d /\ Reading(e, p)
  BY <1>4, <1>5 DEF Reading
<1>7. \A e \in Devices : \A p, K : Has(e, p, K)' => Has(e, p, K)
  BY <1>5 DEF Has
<1>8. \A e \in Devices : \A p : Active(e, p)' => Active(e, p)
  BY <1>6, <1>7 DEF Active
<1>9. ASSUME NEW p \in Ids, ClearNext(owner[d], p)
      PROVE  ~Reading(d, p) /\ ~HasTask(worker[d], p, Toggles)
  BY <1>9 DEF Die, ClearNext, Lost, Toggles
<1>10. LaneInv'
  BY <1>1, <1>3, <1>4, KeepLanes
<1>11. StillComing'
  <2>1. SUFFICES ASSUME NEW q \in Ids \ deleted, NEW e \in Devices
                 PROVE  /\ docs[q] = NoDoc =>
                              /\ cache[e][q] = NoDoc
                              /\ Active(e, q)' \/ <<q, TRUE>> \in rows'[e] => Has(e, q, {"create"})'
                        /\ cache[e][q] = NoDoc /\ Has(e, q, {"name"})' => Has(e, q, {"create"})'
    BY <1>1 DEF StillComing
  <2>2. /\ docs[q] = NoDoc =>
              /\ cache[e][q] = NoDoc
              /\ Active(e, q) \/ <<q, TRUE>> \in rows[e] => Has(e, q, {"create"})
        /\ cache[e][q] = NoDoc /\ Has(e, q, {"name"}) => Has(e, q, {"create"})
    BY DEF LikeInv, TapInv, StillComing
  <2>3. CASE e # d
    BY <1>4, <1>5, <1>7, <1>8, <2>2, <2>3 DEF Has
  <2>4. CASE e = d
    <3>1. HasTask(lane[d], q, Toggles) \/ HasTask(lane[d], q, {"name"}) => ~HasTask(worker[d], q, {"create"})
      BY DEF LikeInv, PostInv, InOrder, Behind, HasTask
    <3>2. Active(d, q)' => HasTask(lane[d], q, Toggles)
      BY <1>5, <1>6 DEF Active, Has
    <3>3. <<q, TRUE>> \notin rows'[d]
      BY <1>4
    <3>4. Has(d, q, {"name"})' => HasTask(lane[d], q, {"name"})
      BY <1>5 DEF Has
    <3>5. HasTask(lane[d], q, {"create"}) => Has(d, q, {"create"})'
      BY <1>5 DEF Has
    <3>6. Active(d, q)' => Has(d, q, {"create"})' \/ docs[q] # NoDoc
      BY <1>8, <2>2, <2>4, <3>1, <3>2, <3>5 DEF Has
    <3>7. cache[d][q] = NoDoc /\ Has(d, q, {"name"})' => Has(d, q, {"create"})'
      BY <1>7, <2>2, <2>4, <3>1, <3>4, <3>5 DEF Has
    <3>8. QED
      BY <2>2, <2>4, <3>3, <3>6, <3>7
  <2>5. QED
    BY <2>3, <2>4
<1>12. OneBusy'
  BY <1>3, <1>7, <1>8, KeepBusy
<1>13. OneRead'
  <2>1. SUFFICES ASSUME NEW e \in Devices, NEW q \in Ids, ClearNext(owner[e], q)
                 PROVE  InTurnOn(e, q)'
    BY <1>3, ClearBefore DEF OneRead
  <2>2. InTurnOn(e, q)
    BY <1>3, <2>1, ClearBefore DEF LikeInv, TapInv, OneRead
  <2>3. CASE e = d
    BY <1>4, <2>3 DEF InTurnOn, InTurn, Asked, Told
  <2>4. CASE e # d
    BY <1>4, <2>2, <2>4 DEF InTurnOn, Asked, Told
  <2>5. QED
    BY <2>3, <2>4
<1>14. Steady
  <2>1. ASSUME NEW u \in Users, NEW p \in Ids, ClearNext(u, p), NEW e \in Devices, owner[e] = u
        PROVE  /\ Wish(e, p)' <=> Wish(e, p)
               /\ Has(e, p, Toggles)' <=> Has(e, p, Toggles)
    <3>1. ~(e = d /\ HasTask(worker[d], p, Toggles))
      BY <1>9, <2>1
    <3>2. Wish(e, p)' <=> Wish(e, p)
      BY <1>2, <3>1, DieWish
    <3>3. QED
      BY <1>5, <3>1, <3>2 DEF Has
  <2>2. \A u, p : Liked(u, p)' <=> Liked(u, p)
    BY <1>1 DEF Liked
  <2>3. QED
    BY <1>2, <1>3, <2>1, <2>2, SteadyStep
<1>15. Answered'
  <2>1. \A e \in Devices : \A i \in 1..Len(answers'[e]) :
            \E j \in 1..Len(answers[e]) : answers[e][j] = answers'[e][i]
    BY <1>4
  <2>2. QED
    BY <1>2, <1>3, <1>14, <2>1, KeepAnswered
<1>16. Parity'
  BY <1>1, <1>3, <1>6, <1>9, <1>14, KeepParity
<1>17. QED
  BY <1>2, <1>10, <1>11, <1>12, <1>13, <1>15, <1>16 DEF LikeInv, TapInv

\* Steps that leave the queues and the taps alone, and the likes of those who
\* have no toggle queued.
LEMMA KeepTaps ==
    ASSUME LikeInv, TypeOK', Onward, lane' = lane, worker' = worker,
           reads' = reads, answers' = answers, odd' = odd,
           \A u \in Users, p \in Ids :
               ClearNext(u, p) /\ (\A e \in Devices : owner[e] = u => ~Has(e, p, Toggles))
               => (Liked(u, p)' <=> Liked(u, p))
    PROVE  /\ OneBusy' /\ OneRead' /\ Answered' /\ Parity'
           /\ \A e \in Devices : \A p : /\ Active(e, p)' <=> Active(e, p)
                                        /\ \A K : Has(e, p, K)' <=> Has(e, p, K)
<1>1. \A e \in Devices : \A p, K : Has(e, p, K)' <=> Has(e, p, K)
  BY DEF Has
<1>2. \A e \in Devices : \A p : Reading(e, p)' <=> Reading(e, p)
  BY DEF Reading
<1>3. \A e \in Devices : \A p : Active(e, p)' <=> Active(e, p)
  BY <1>1, <1>2 DEF Active
<1>4. OneBusy'
  BY <1>1, <1>3, KeepBusy
<1>5. OneRead'
  BY KeepRead
<1>6. Steady
  <2>1. \A e \in Devices : \A p : Wish(e, p)' <=> Wish(e, p)
    BY DEF Wish
  <2>2. QED
    BY <1>1, <2>1, SteadyStep
<1>7. Answered'
  BY <1>6, KeepAnswered
<1>8. Parity'
  BY <1>2, <1>6, KeepParity
<1>9. QED
  BY <1>1, <1>3, <1>4, <1>5, <1>7, <1>8

\* A stream breaks, an app starts, or nothing happens.
LEMMA QuietLike ==
    ASSUME LikeInv, PostInv', lane' = lane, worker' = worker, docs' = docs, cache' = cache,
           reads' = reads, answers' = answers, rows' = rows, owner' = owner,
           odd' = odd, blurred' = blurred, deleted' = deleted,
           \A e \in Devices : done'[e] \in {0, done[e]}
    PROVE  LikeInv'
<1>1. Onward /\ TypeOK'
  BY DEF Onward, PostInv
<1>2. /\ OneBusy' /\ OneRead' /\ Answered' /\ Parity'
      /\ \A e \in Devices : \A p : /\ Active(e, p)' <=> Active(e, p)
                                   /\ \A K : Has(e, p, K)' <=> Has(e, p, K)
  <2>1. \A u, p : Liked(u, p)' <=> Liked(u, p)
    BY DEF Liked
  <2>2. QED
    BY <1>1, <2>1, KeepTaps
<1>3. LaneInv'
  BY <1>1, KeepLanes
<1>4. StillComing'
  BY <1>1, <1>2, KeepComing
<1>5. QED
  BY <1>2, <1>3, <1>4 DEF LikeInv, TapInv

\* A table is loaded.
LEMMA ShowLike ==
    ASSUME LikeInv, NEW d \in Devices, Show(d)
    PROVE  LikeInv'
<1>1. PICK source \in Sources(d) :
         /\ rows' = [rows EXCEPT ![d] =
               {<<p, Overlay(d, p, source[p]).named>> :
                   p \in {q \in Ids : Readable(Overlay(d, q, source[q]))}}]
         /\ cache' = [cache EXCEPT ![d] =
               [p \in Ids |-> IF Readable(source[p]) THEN source[p] ELSE @[p]]]
  BY ShowEffect
<1>2. /\ lane' = lane /\ worker' = worker /\ done' = done /\ docs' = docs /\ owner' = owner
      /\ reads' = reads /\ answers' = answers /\ odd' = odd /\ deleted' = deleted /\ blurred' = blurred
  BY DEF Show, sdk, liking, history
<1>3. PostInv' /\ TypeOK' /\ TypeOK /\ Onward
  BY <1>2, ShowPost DEF LikeInv, PostInv, Onward
<1>4. /\ OneBusy' /\ OneRead' /\ Answered' /\ Parity'
      /\ \A e \in Devices : \A p : /\ Active(e, p)' <=> Active(e, p)
                                   /\ \A K : Has(e, p, K)' <=> Has(e, p, K)
  <2>1. \A u, p : Liked(u, p)' <=> Liked(u, p)
    BY <1>2 DEF Liked
  <2>2. QED
    BY <1>2, <1>3, <2>1, KeepTaps
<1>5. \A e \in Devices : e # d => cache'[e] = cache[e] /\ rows'[e] = rows[e]
  BY <1>1, <1>3 DEF TypeOK
<1>6. ASSUME NEW q \in Ids \ deleted
      PROVE  /\ source[q] \in {docs[q], cache[d][q]}
             /\ cache'[d][q] = IF source[q] # NoDoc THEN source[q] ELSE cache[d][q]
             /\ <<q, TRUE>> \in rows'[d] => Overlay(d, q, source[q]) # NoDoc
  <2>1. source[q] \in {docs[q], cache[d][q]}
    BY <1>1 DEF Sources
  <2>2. Readable(source[q]) <=> source[q] # NoDoc
    BY <2>1 DEF LikeInv, LaneInv, Authored, Readable
  <2>3. cache'[d][q] = IF Readable(source[q]) THEN source[q] ELSE cache[d][q]
    BY <1>1, <1>3 DEF TypeOK
  <2>4. <<q, TRUE>> \in rows'[d] => Overlay(d, q, source[q]) # NoDoc
    <3>1. rows'[d] = {<<p, Overlay(d, p, source[p]).named>> :
                         p \in {x \in Ids : Readable(Overlay(d, x, source[x]))}}
      BY <1>1, <1>3 DEF TypeOK
    <3>2. QED
      BY <3>1 DEF Readable
  <2>5. QED
    BY <2>1, <2>2, <2>3, <2>4
<1>7. StillComing'
  <2>1. SUFFICES ASSUME NEW q \in Ids \ deleted, NEW e \in Devices
                 PROVE  /\ docs[q] = NoDoc =>
                              /\ cache'[e][q] = NoDoc
                              /\ Active(e, q) \/ <<q, TRUE>> \in rows'[e] => Has(e, q, {"create"})
                        /\ cache'[e][q] = NoDoc /\ Has(e, q, {"name"}) => Has(e, q, {"create"})
    BY <1>2, <1>4 DEF StillComing
  <2>2. /\ docs[q] = NoDoc => /\ cache[e][q] = NoDoc
                              /\ Active(e, q) \/ <<q, TRUE>> \in rows[e] => Has(e, q, {"create"})
        /\ cache[e][q] = NoDoc /\ Has(e, q, {"name"}) => Has(e, q, {"create"})
    BY DEF LikeInv, TapInv, StillComing
  <2>3. CASE e = d
    <3>1. docs[q] = NoDoc => cache'[d][q] = NoDoc /\ source[q] = NoDoc
      BY <1>6, <2>2, <2>3
    <3>2. cache'[d][q] = NoDoc => cache[d][q] = NoDoc
      BY <1>6
    <3>3. ASSUME docs[q] = NoDoc, <<q, TRUE>> \in rows'[d] PROVE Has(d, q, {"create"})
      <4>1. After(lane[d], owner[d], q, NoDoc) # NoDoc
        BY <1>6, <3>1, <3>3 DEF Overlay
      <4>2. HasTask(lane[d], q, {"create", "name"})
        BY <1>3, <4>1, LanesAreTasks, AfterNothing DEF TypeOK
      <4>3. HasTask(lane[d], q, {"create"}) \/ HasTask(lane[d], q, {"name"})
        BY <4>2 DEF HasTask
      <4>4. QED
        BY <2>2, <2>3, <3>3, <4>3 DEF Has
    <3>4. QED
      BY <2>2, <2>3, <3>1, <3>2, <3>3
  <2>4. CASE e # d
    BY <1>5, <2>2, <2>4
  <2>5. QED
    BY <2>3, <2>4
<1>8. LaneInv'
  <2>1. Authored'
    <3>1. ASSUME NEW q \in Ids \ deleted, NEW e \in Devices, cache'[e][q] # NoDoc
          PROVE  cache'[e][q].author # NoUser
      <4>1. /\ docs[q] # NoDoc => docs[q].author # NoUser
            /\ \A x \in Devices : cache[x][q] # NoDoc => cache[x][q].author # NoUser
        BY DEF LikeInv, LaneInv, Authored
      <4>2. CASE e = d
        BY <1>6, <3>1, <4>1, <4>2
      <4>3. CASE e # d
        BY <1>5, <3>1, <4>1, <4>3
      <4>4. QED
        BY <4>2, <4>3
    <3>2. QED
      BY <1>2, <3>1 DEF LikeInv, LaneInv, Authored
  <2>2. Arrived'
    BY <1>2 DEF LikeInv, LaneInv, Arrived
  <2>3. \A e \in Devices, p \in Ids : Clear(owner[e], p)' => Clear(owner[e], p)
    BY <1>3, ClearBefore
  <2>4. CommittedToggles' /\ NoLikeYet'
    BY <1>2, <2>3 DEF LikeInv, LaneInv, CommittedToggles, NoLikeYet
  <2>5. CacheAgrees'
    <3>1. SUFFICES ASSUME NEW e \in Devices, NEW q \in Ids, Clear(owner[e], q),
                          DevicesOf(owner[e]) = {e}, cache'[e][q] # NoDoc,
                          ~HasTask(lane[e], q, Toggles)
                   PROVE  owner[e] \in cache'[e][q].likes <=> owner[e] \in docs[q].likes
      BY <1>2, <2>3 DEF CacheAgrees, DevicesOf
    <3>2. q \in Ids \ deleted
      BY <3>1 DEF Clear
    <3>3. cache'[e][q] = cache[e][q] \/ cache'[e][q] = docs[q]
      BY <1>5, <1>6, <3>2
    <3>4. QED
      BY <3>1, <3>3 DEF LikeInv, LaneInv, CacheAgrees
  <2>6. QED
    BY <2>1, <2>2, <2>4, <2>5 DEF LaneInv
<1>9. QED
  BY <1>3, <1>4, <1>7, <1>8 DEF LikeInv, TapInv

\* The worker queue hands its next task on.
LEMMA WorkLike ==
    ASSUME LikeInv, NEW d \in Devices, Work(d)
    PROVE  LikeInv'
<1> DEFINE t == Head(worker[d])
<1>1. /\ docs' = docs /\ cache' = cache /\ owner' = owner /\ done' = done /\ answers' = answers
      /\ rows' = rows /\ odd' = odd /\ blurred' = blurred /\ deleted' = deleted
  BY DEF Work, history
<1>2. PostInv' /\ TypeOK' /\ TypeOK /\ Onward
  BY <1>1, WorkPost DEF LikeInv, PostInv, Onward
<1>3. /\ worker[d] # <<>> /\ t \in Task
      /\ worker'[d] = Tail(worker[d])
      /\ lane'[d] = IF t.kind = "read" THEN lane[d] ELSE lane[d] \o <<t>>
      /\ reads'[d] = IF t.kind = "read" THEN Append(reads[d], t.id) ELSE reads[d]
      /\ \A e \in Devices : e # d =>
            worker'[e] = worker[e] /\ lane'[e] = lane[e] /\ reads'[e] = reads[e]
      /\ \A p, K :
            /\ HasTask(worker[d], p, K) <=>
                  (t.id = p /\ t.kind \in K) \/ HasTask(worker'[d], p, K)
            /\ HasTask(lane'[d], p, K) <=>
                  HasTask(lane[d], p, K) \/ (t.id = p /\ t.kind \in K /\ t.kind # "read")
  BY <1>2, WorkQueues
<1>4. /\ worker[d] \in Seq(Task) /\ lane[d] \in Seq(Task) /\ reads[d] \in Seq(Ids) /\ t.id \in Ids
      /\ \A e \in Devices : done[e] \in Nat /\ done[e] <= Len(lane[e]) /\ Len(lane[e]) \in Nat
  <2>1. t.id \in Ids
    BY <1>3 DEF Task
  <2>2. worker[d] \in Seq(Task) /\ lane[d] \in Seq(Task)
    BY <1>2, LanesAreTasks
  <2>3. /\ reads[d] \in Seq(Ids)
        /\ \A e \in Devices : done[e] \in Nat /\ done[e] <= Len(lane[e]) /\ Len(lane[e]) \in Nat
    BY <1>2 DEF TypeOK
  <2>4. QED
    BY <2>1, <2>2, <2>3
<1>5. /\ InTurn(worker[d], t.id) /\ t.kind = "read" => ~HasTask(worker'[d], t.id, Toggles \cup {"read"})
      /\ \A p : InTurn(worker[d], p) => InTurn(worker'[d], p)
  BY <1>3, <1>4, InTurnHead
<1>6. \A e \in Devices : \A i \in 1..done[e] : lane'[e][i] = lane[e][i]
  <2>1. ASSUME NEW i \in 1..done[d] PROVE lane'[d][i] = lane[d][i]
    <3>1. i \in 1..Len(lane[d])
      BY <1>4
    <3>2. <<t>> \in Seq(Task)
      BY <1>3
    <3>3. (lane[d] \o <<t>>)[i] = lane[d][i]
      BY <1>4, <3>1, <3>2, ConcatProperties
    <3>4. QED
      BY <1>3, <3>3
  <2>2. QED
    BY <1>3, <2>1
<1> HIDE DEF t
<1>7. \A e \in Devices : \A p, K : "read" \notin K => (Has(e, p, K)' <=> Has(e, p, K))
  BY <1>3 DEF Has
<1>8. \A e \in Devices : \A p : Asked(e, p)' <=> Asked(e, p) \/ (e = d /\ t.kind = "read" /\ t.id = p)
  <2>1. \A p : Asked(d, p)' <=> Asked(d, p) \/ (t.kind = "read" /\ t.id = p)
    <3>1. CASE t.kind = "read"
      <4>1. /\ reads'[d] = Append(reads[d], t.id) /\ Len(reads'[d]) = Len(reads[d]) + 1
            /\ reads'[d][Len(reads[d]) + 1] = t.id
            /\ \A i \in 1..Len(reads[d]) : reads'[d][i] = reads[d][i]
        BY <1>3, <1>4, <3>1, Appended
      <4>2. Len(reads[d]) \in Nat
        BY <1>4
      <4>3. \A i : i \in 1..Len(reads'[d]) <=> i \in 1..Len(reads[d]) \/ i = Len(reads[d]) + 1
        BY <4>1, <4>2
      <4>4. QED
        BY <3>1, <4>1, <4>3 DEF Asked
    <3>2. CASE t.kind # "read"
      BY <1>3, <3>2 DEF Asked
    <3>3. QED
      BY <3>1, <3>2
  <2>2. \A e \in Devices : \A p : e # d => (Asked(e, p)' <=> Asked(e, p))
    BY <1>3 DEF Asked
  <2>3. QED
    BY <2>1, <2>2
<1>9. \A e \in Devices : \A p : /\ Told(e, p)' <=> Told(e, p)
                                /\ Reading(e, p) <=> HasTask(worker[e], p, {"read"}) \/ Asked(e, p) \/ Told(e, p)
                                /\ Reading(e, p)' <=> HasTask(worker'[e], p, {"read"}) \/ Asked(e, p)' \/ Told(e, p)'
  BY <1>1 DEF Told, Reading, Asked
<1>10. \A e \in Devices : \A p : Reading(e, p)' <=> Reading(e, p)
  BY <1>3, <1>8, <1>9
<1>11. \A e \in Devices : \A p : Active(e, p)' <=> Active(e, p)
  BY <1>7, <1>10 DEF Active, Toggles
<1>12. OneBusy'
  BY <1>2, <1>7, <1>11, KeepBusy
<1>13. StillComing'
  BY <1>1, <1>2, <1>7, <1>11, KeepComing
<1>14. Steady
  <2>1. \A e \in Devices : \A p : Wish(e, p)' <=> Wish(e, p)
    BY <1>2, WorkWish
  <2>2. \A u, p : Liked(u, p)' <=> Liked(u, p)
    BY <1>1 DEF Liked
  <2>3. \A e \in Devices : \A p : Has(e, p, Toggles)' <=> Has(e, p, Toggles)
    BY <1>7 DEF Toggles
  <2>4. QED
    BY <1>2, <2>1, <2>2, <2>3, SteadyStep
<1>15. Answered'
  BY <1>1, <1>2, <1>14, KeepAnswered
<1>16. Parity'
  BY <1>1, <1>2, <1>10, <1>14, KeepParity
<1>17. OneRead'
  <2>1. SUFFICES ASSUME NEW e \in Devices, NEW q \in Ids, ClearNext(owner[e], q)
                 PROVE  InTurnOn(e, q)'
    BY <1>2, ClearBefore DEF OneRead
  <2>2. InTurnOn(e, q)
    BY <1>2, <2>1, ClearBefore DEF LikeInv, TapInv, OneRead
  <2>3. CASE e = d /\ t.kind = "read" /\ t.id = q
    <3>1. ~Asked(d, q) /\ ~Told(d, q)
      BY <1>3, <2>2, <2>3 DEF InTurnOn
    <3>2. InTurn(worker'[d], q) /\ ~HasTask(worker'[d], q, Toggles \cup {"read"})
      BY <1>5, <2>2, <2>3 DEF InTurnOn
    <3>3. ~Told(d, q)'
      BY <1>9, <3>1
    <3>4. ASSUME NEW i \in 1..Len(reads'[d]), NEW j \in 1..Len(reads'[d]),
                 reads'[d][i] = q, reads'[d][j] = q
          PROVE  i = j
      <4>1. \A k \in 1..Len(reads'[d]) : \/ k \in 1..Len(reads[d]) /\ reads'[d][k] = reads[d][k]
                                         \/ k = Len(reads[d]) + 1
        BY <1>3, <1>4, <2>3, Appended
      <4>2. QED
        BY <3>1, <3>4, <4>1 DEF Asked
    <3>5. QED
      BY <1>1, <2>2, <2>3, <3>2, <3>3, <3>4 DEF InTurnOn
  <2>4. CASE e = d /\ ~(t.kind = "read" /\ t.id = q)
    <3>1. /\ InTurn(worker'[d], q)
          /\ HasTask(worker'[d], q, Toggles \cup {"read"}) => HasTask(worker[d], q, Toggles \cup {"read"})
      BY <1>3, <1>5, <2>2, <2>4 DEF InTurnOn
    <3>2. (Asked(d, q)' <=> Asked(d, q)) /\ (Told(d, q)' <=> Told(d, q))
      BY <1>8, <1>9, <2>4
    <3>3. ASSUME NEW i \in 1..Len(reads'[d]), NEW j \in 1..Len(reads'[d]),
                 reads'[d][i] = q, reads'[d][j] = q
          PROVE  i = j
      <4>1. CASE t.kind = "read"
        <5>1. \A k \in 1..Len(reads'[d]) : \/ k \in 1..Len(reads[d]) /\ reads'[d][k] = reads[d][k]
                                           \/ k = Len(reads[d]) + 1 /\ reads'[d][k] = t.id
          BY <1>3, <1>4, <4>1, Appended
        <5>2. QED
          BY <2>2, <2>4, <3>3, <4>1, <5>1 DEF InTurnOn
      <4>2. CASE t.kind # "read"
        BY <1>3, <2>2, <2>4, <3>3, <4>2 DEF InTurnOn
      <4>3. QED
        BY <4>1, <4>2
    <3>4. QED
      BY <1>1, <2>2, <2>4, <3>1, <3>2, <3>3 DEF InTurnOn
  <2>5. CASE e # d
    <3>1. worker'[e] = worker[e] /\ reads'[e] = reads[e]
      BY <1>3, <2>5
    <3>2. QED
      BY <1>1, <2>2, <3>1 DEF InTurnOn, Asked, Told
  <2>6. QED
    BY <2>3, <2>4, <2>5
<1>18. LaneInv'
  <2>1. Authored'
    BY <1>1 DEF LikeInv, LaneInv, Authored
  <2>2. Arrived'
    BY <1>1, <1>6 DEF LikeInv, LaneInv, Arrived
  <2>3. \A e \in Devices, p \in Ids : Clear(owner[e], p)' => Clear(owner[e], p)
    BY <1>2, ClearBefore
  <2>4. CommittedToggles'
    <3>1. SUFFICES ASSUME NEW e \in Devices, NEW q \in Ids, Clear(owner[e], q),
                          \E i \in 1..done[e] : lane'[e][i].id = q /\ lane'[e][i].kind \in Toggles
                   PROVE  owner[e] \in docs[q].likes <=> LikesUpTo(lane'[e], done[e], q)
      BY <1>1, <2>3 DEF CommittedToggles
    <3>2. owner[e] \in docs[q].likes <=> LikesUpTo(lane[e], done[e], q)
      BY <1>6, <3>1 DEF LikeInv, LaneInv, CommittedToggles
    <3>3. \A i \in 1..done[e] : \A j \in i + 1 .. done[e] : j \in 1..done[e]
      BY <1>4
    <3>4. LikesUpTo(lane'[e], done[e], q) <=> LikesUpTo(lane[e], done[e], q)
      BY <1>6, <3>3 DEF LikesUpTo
    <3>5. QED
      BY <3>2, <3>4
  <2>5. \A e \in Devices : \A q : HasTask(lane[e], q, Toggles) => HasTask(lane'[e], q, Toggles)
    BY <1>3
  <2>6. NoLikeYet'
    <3>1. SUFFICES ASSUME NEW e \in Devices, NEW q \in Ids, Clear(owner[e], q),
                          HasTask(lane'[e], q, {"create"}), ~HasTask(lane'[e], q, Toggles),
                          docs[q] # NoDoc
                   PROVE  owner[e] \notin docs[q].likes
      BY <1>1, <2>3 DEF NoLikeYet
    <3>2. HasTask(lane[e], q, {"create"}) \/ HasTask(worker[e], q, {"create"})
      BY <1>3, <3>1
    <3>3. ~HasTask(worker[e], q, {"create"})
      BY <3>1 DEF LikeInv, PostInv, NameFollows
    <3>4. QED
      BY <2>5, <3>1, <3>2, <3>3 DEF LikeInv, LaneInv, NoLikeYet
  <2>7. CacheAgrees'
    BY <1>1, <2>3, <2>5 DEF LikeInv, LaneInv, CacheAgrees, DevicesOf
  <2>8. QED
    BY <2>1, <2>2, <2>4, <2>6, <2>7 DEF LaneInv
<1>19. QED
  BY <1>2, <1>12, <1>13, <1>15, <1>16, <1>17, <1>18 DEF LikeInv, TapInv

\* No write but a delete takes a document away, and the first two make one.
LEMMA ApplyThere ==
    ASSUME NEW doc \in Doc \cup {NoDoc}, NEW u \in Users
    PROVE  /\ \A k \in Kinds \ {"delete"} : doc # NoDoc => Apply(doc, k, u) # NoDoc
           /\ \A k \in {"create", "name"} : Apply(doc, k, u) # NoDoc
BY ApplyKinds

\* A write is committed: what becomes of the documents of posts nobody deleted.
LEMMA CommitLikes ==
    ASSUME LikeInv, NEW d \in Devices, Commit(d), NEW w, w = lane[d][done[d] + 1]
    PROVE  /\ Onward
           /\ \A q \in Ids \ deleted :
                 /\ w.id = q => docs'[q] # NoDoc
                 /\ docs[q] # NoDoc => docs'[q] # NoDoc
                 /\ docs'[q] # NoDoc => docs'[q].author # NoUser
           /\ \A u \in Users, q \in Ids : ClearNext(u, q) =>
                 (Liked(u, q)' <=> IF w.id = q /\ w.kind \in Toggles /\ u = owner[d]
                                   THEN w.kind = "like" ELSE Liked(u, q))
<1>1. PostInv /\ TypeOK
  BY DEF LikeInv, PostInv
<1>2. /\ w \in Write /\ done[d] + 1 \in 1..Len(lane[d]) /\ done[d] \in Nat
      /\ HasTask(lane[d], w.id, {w.kind})
      /\ Allowed(w)
      /\ \A q \in Ids : q # w.id => docs'[q] = docs[q]
      /\ docs'[w.id] = Apply(docs[w.id], w.kind, owner[d])
      /\ docs[w.id] \in Doc \cup {NoDoc}
      /\ owner' = owner /\ deleted' = deleted
  BY <1>1, CommitEffect
<1>3. /\ blurred' = IF w.kind = "create" /\ docs[w.id] # NoDoc
                    THEN blurred \cup {<<u, w.id>> : u \in docs[w.id].likes}
                    ELSE blurred
  BY DEF Commit
<1>4. Onward
  BY <1>2, <1>3 DEF Onward
<1>5. w.id \in Ids /\ w.kind \in Kinds /\ owner[d] \in Users
  BY <1>1, <1>2 DEF TypeOK, Write
<1>6. w.id \notin deleted => w.kind # "delete"
  BY <1>1, <1>2, <1>5 DEF PostInv, Deletes, Has
<1>7. ASSUME w.id \notin deleted, w.kind = "name", docs[w.id] = NoDoc PROVE FALSE
  <2>1. Has(d, w.id, {"create"})
    BY <1>2, <1>5, <1>7 DEF LikeInv, TapInv, StillComing, Has
  <2>2. ~HasTask(worker[d], w.id, {"create"})
    <3>1. Behind(lane[d], worker[d])
      BY <1>1 DEF PostInv, InOrder
    <3>2. QED
      BY <1>2, <3>1 DEF Behind, HasTask
  <2>3. PICK j \in 1..Len(lane[d]) : lane[d][j].id = w.id /\ lane[d][j].kind = "create"
    BY <2>1, <2>2 DEF Has, HasTask
  <2>4. Ordered(lane[d])
    BY <1>1 DEF PostInv, InOrder
  <2>5. ~(done[d] + 1 < j) /\ j # done[d] + 1
    BY <1>2, <1>7, <2>3, <2>4 DEF Ordered
  <2>6. j \in 1..done[d]
    BY <1>2, <2>3, <2>5
  <2>7. QED
    BY <1>5, <1>7, <2>3, <2>6 DEF LikeInv, LaneInv, Arrived
<1>8. w.kind \in Toggles => docs[w.id] # NoDoc
  BY <1>2 DEF Allowed, Toggles
<1>9. ASSUME NEW q \in Ids \ deleted
      PROVE  /\ w.id = q => docs'[q] # NoDoc
             /\ docs[q] # NoDoc => docs'[q] # NoDoc
             /\ docs'[q] # NoDoc => docs'[q].author # NoUser
  <2>1. docs[q] # NoDoc => docs[q].author # NoUser
    BY DEF LikeInv, LaneInv, Authored
  <2>2. CASE w.id = q
    <3>1. owner[d] # NoUser
      BY <1>5, PostsAssumption
    <3>2. w.kind = "create" \/ (w.kind = "name" /\ docs[q] # NoDoc) \/ (w.kind \in Toggles /\ docs[q] # NoDoc)
      BY <1>5, <1>6, <1>7, <1>8, <2>2 DEF Kinds, Toggles
    <3>3. docs'[q] # NoDoc
      <4>1. docs[q] \in Doc \cup {NoDoc} /\ docs'[q] = Apply(docs[q], w.kind, owner[d])
        BY <1>2, <2>2
      <4>2. /\ \A k \in Kinds \ {"delete"} : docs[q] # NoDoc => Apply(docs[q], k, owner[d]) # NoDoc
            /\ \A k \in {"create", "name"} : Apply(docs[q], k, owner[d]) # NoDoc
        BY <1>5, <4>1, ApplyThere
      <4>3. w.kind \in Kinds \ {"delete"} /\ (docs[q] # NoDoc \/ w.kind \in {"create", "name"})
        BY <1>5, <3>2 DEF Toggles
      <4>4. QED
        BY <4>1, <4>2, <4>3
    <3>4. docs'[q].author = owner[d] \/ (docs[q] # NoDoc /\ docs'[q].author = docs[q].author)
      BY <1>2, <1>5, <2>2, <3>2, ApplyKinds
    <3>5. QED
      BY <2>1, <3>1, <3>3, <3>4
  <2>3. CASE w.id # q
    BY <1>2, <2>1, <2>3
  <2>4. QED
    BY <2>2, <2>3
<1>10. ASSUME NEW u \in Users, NEW q \in Ids, ClearNext(u, q)
       PROVE  Liked(u, q)' <=> IF w.id = q /\ w.kind \in Toggles /\ u = owner[d]
                               THEN w.kind = "like" ELSE Liked(u, q)
  <2>1. q \in Ids \ deleted /\ <<u, q>> \notin blurred'
    BY <1>2, <1>10 DEF ClearNext
  <2>2. CASE w.id # q
    BY <1>2, <2>2 DEF Liked
  <2>3. CASE w.id = q /\ w.kind = "create"
    <3>1. docs[q] # NoDoc => u \notin docs[q].likes
      BY <1>3, <2>1, <2>3
    <3>2. docs'[q].likes = {}
      BY <1>2, <1>5, <2>3, ApplyKinds
    <3>3. QED
      BY <2>3, <3>1, <3>2 DEF Liked, Toggles
  <2>4. CASE w.id = q /\ w.kind = "name"
    <3>1. docs[q] # NoDoc /\ docs'[q] # NoDoc
      BY <1>7, <1>9, <2>1, <2>4
    <3>2. docs'[q].likes = docs[q].likes
      BY <1>2, <1>5, <2>4, <3>1, ApplyKinds
    <3>3. QED
      BY <2>4, <3>1, <3>2 DEF Liked, Toggles
  <2>5. CASE w.id = q /\ w.kind \in Toggles
    <3>1. docs[q] # NoDoc /\ docs'[q] # NoDoc
      BY <1>8, <1>9, <2>1, <2>5
    <3>2. \/ w.kind = "like" /\ docs'[q].likes = docs[q].likes \cup {owner[d]}
          \/ w.kind = "unlike" /\ docs'[q].likes = docs[q].likes \ {owner[d]}
      BY <1>2, <1>5, <2>5, <3>1, ApplyKinds DEF Toggles
    <3>3. QED
      BY <2>5, <3>1, <3>2 DEF Liked
  <2>6. QED
    BY <1>5, <1>6, <2>1, <2>2, <2>3, <2>4, <2>5 DEF Kinds, Toggles
<1>11. QED
  BY <1>4, <1>9, <1>10

\* A write is committed: the rest of the invariant.
LEMMA CommitLike ==
    ASSUME LikeInv, NEW d \in Devices, Commit(d)
    PROVE  LikeInv'
<1> DEFINE w == lane[d][done[d] + 1]
           LikedNext(u, q) == docs'[q] # NoDoc /\ u \in docs'[q].likes
           Its(u, q) == w.id = q /\ w.kind \in Toggles /\ u = owner[d]
<1>1. PostInv /\ TypeOK /\ PostInv' /\ TypeOK'
  BY CommitPost DEF LikeInv, PostInv
<1>2. /\ w \in Write /\ done[d] + 1 \in 1..Len(lane[d]) /\ done[d] \in Nat
      /\ HasTask(lane[d], w.id, {w.kind})
      /\ done'[d] = done[d] + 1
      /\ \A e \in Devices : e # d => done'[e] = done[e]
      /\ lane' = lane /\ worker' = worker /\ owner' = owner /\ cache' = cache
      /\ reads' = reads /\ answers' = answers /\ rows' = rows /\ deleted' = deleted
  BY <1>1, CommitEffect
<1>3. odd' = odd
  BY DEF Commit
<1>4. /\ Onward
      /\ \A q \in Ids \ deleted : /\ w.id = q => docs'[q] # NoDoc
                                  /\ docs[q] # NoDoc => docs'[q] # NoDoc
                                  /\ docs'[q] # NoDoc => docs'[q].author # NoUser
      /\ \A u \in Users, q \in Ids : ClearNext(u, q) =>
            (Liked(u, q)' <=> IF Its(u, q) THEN w.kind = "like" ELSE Liked(u, q))
  BY CommitLikes
<1>5. w.kind \in Toggles => HasTask(lane[d], w.id, Toggles)
  BY <1>2 DEF HasTask
<1>6. lane[d][done[d] + 1] = w
  OBVIOUS
<1> HIDE DEF w, Its
<1>7. \A u \in Users, q \in Ids : ClearNext(u, q) =>
           (LikedNext(u, q) <=> IF Its(u, q) THEN w.kind = "like" ELSE Liked(u, q))
  BY <1>4 DEF Liked
<1> USE DEF Its
<1>8. \A u, q : Its(u, q) => Has(d, q, Toggles) /\ Active(d, q) /\ HasTask(lane[d], q, Toggles)
  BY <1>5 DEF Has, Active
<1>9. \A e \in Devices, q \in Ids : ClearNext(owner[e], q) /\ Its(owner[e], q) =>
          /\ owner[e] = owner[d] /\ Clear(owner[d], q) /\ Active(d, q)
          /\ Active(e, q) \/ Has(e, q, {"create"}) => e = d
  BY <1>4, <1>8, ClearBefore DEF LikeInv, TapInv, OneBusy
<1> HIDE DEF Its, LikedNext
<1>10. OneBusy' /\ OneRead' /\ Answered' /\ Parity'
  <2>1. \A u \in Users, q \in Ids :
            ClearNext(u, q) /\ (\A e \in Devices : owner[e] = u => ~Has(e, q, Toggles))
            => (Liked(u, q)' <=> Liked(u, q))
    BY <1>4, <1>8 DEF Its
  <2>2. QED
    BY <1>1, <1>2, <1>3, <1>4, <2>1, KeepTaps
<1>11. StillComing'
  <2>1. SUFFICES ASSUME NEW q \in Ids \ deleted, NEW e \in Devices
                 PROVE  /\ docs'[q] = NoDoc =>
                              /\ cache[e][q] = NoDoc
                              /\ Active(e, q)' \/ <<q, TRUE>> \in rows[e] => Has(e, q, {"create"})'
                        /\ cache[e][q] = NoDoc /\ Has(e, q, {"name"})' => Has(e, q, {"create"})'
    BY <1>2 DEF StillComing
  <2>2. \A K : Has(e, q, K)' <=> Has(e, q, K)
    BY <1>2 DEF Has
  <2>3. Active(e, q)' <=> Active(e, q)
    BY <1>2, <2>2 DEF Active, Reading
  <2>4. QED
    BY <1>4, <2>2, <2>3 DEF LikeInv, TapInv, StillComing
<1>12. LaneInv'
  <2>1. Authored'
    BY <1>2, <1>4 DEF LikeInv, LaneInv, Authored
  <2>2. Arrived'
    <3>1. SUFFICES ASSUME NEW q \in Ids \ deleted, NEW e \in Devices, NEW i \in 1..done'[e],
                          lane[e][i].id = q
                   PROVE  docs'[q] # NoDoc
      BY <1>2 DEF Arrived
    <3>2. CASE i \in 1..done[e]
      BY <1>4, <3>1, <3>2 DEF LikeInv, LaneInv, Arrived
    <3>3. CASE i \notin 1..done[e]
      <4>1. e = d /\ i = done[d] + 1
        BY <1>2, <3>1, <3>3
      <4>2. QED
        BY <1>4, <1>6, <3>1, <4>1
    <3>4. QED
      BY <3>2, <3>3
  <2>3. \A e \in Devices, p \in Ids : Clear(owner[e], p)' => ClearNext(owner[e], p) /\ Clear(owner[e], p)
    BY <1>4, ClearBefore
  <2>4. CommittedToggles'
    <3>1. SUFFICES ASSUME NEW e \in Devices, NEW q \in Ids, ClearNext(owner[e], q), Clear(owner[e], q),
                          \E i \in 1..done'[e] : lane[e][i].id = q /\ lane[e][i].kind \in Toggles
                   PROVE  owner[e] \in docs'[q].likes <=> LikesUpTo(lane[e], done'[e], q)
      BY <1>2, <2>3 DEF CommittedToggles
    <3>2. PICK i \in 1..done'[e] : lane[e][i].id = q /\ lane[e][i].kind \in Toggles
      BY <3>1
    <3>3. q \in Ids \ deleted /\ owner[e] \in Users
      BY <3>1 DEF Clear
    <3>4. docs'[q] # NoDoc
      BY <1>2, <2>2, <3>2, <3>3 DEF Arrived
    <3>5. Active(e, q)
      <4>1. i \in 1..Len(lane[e])
        BY <1>1, <1>2 DEF TypeOK
      <4>2. QED
        BY <3>2, <4>1 DEF Active, Has, HasTask
    <3>6. CASE Its(owner[e], q)
      <4>1. e = d
        BY <1>9, <3>1, <3>5, <3>6
      <4>2. LikedNext(owner[e], q) <=> w.kind = "like"
        BY <1>7, <3>1, <3>3, <3>6
      <4>3. LikesUpTo(lane[d], done[d] + 1, q) <=> w.kind = "like"
        <5>1. w.id = q /\ w.kind \in Toggles
          BY <3>6 DEF Its
        <5>2. \A j \in 1..done[d] + 1 : j < done[d] + 1 => done[d] + 1 \in j + 1 .. done[d] + 1
          BY <1>2
        <5>3. done[d] + 1 \in 1..done[d] + 1 /\ (done[d] + 1) + 1 .. done[d] + 1 = {}
          BY <1>2
        <5>4. \A j \in 1..done[d] + 1 : j < done[d] + 1 \/ j = done[d] + 1
          BY <1>2
        <5>5. ASSUME w.kind = "like" PROVE LikesUpTo(lane[d], done[d] + 1, q)
          BY <1>6, <5>1, <5>3, <5>5 DEF LikesUpTo
        <5>6. ASSUME LikesUpTo(lane[d], done[d] + 1, q), w.kind # "like" PROVE FALSE
          BY <1>6, <5>1, <5>2, <5>4, <5>6 DEF LikesUpTo, Toggles
        <5>7. QED
          BY <5>5, <5>6
      <4>4. QED
        BY <1>2, <3>4, <4>1, <4>2, <4>3 DEF LikedNext
    <3>7. CASE ~Its(owner[e], q)
      <4>1. LikedNext(owner[e], q) <=> Liked(owner[e], q)
        BY <1>7, <3>1, <3>3, <3>7
      <4>2. e = d => ~(w.id = q /\ w.kind \in Toggles)
        BY <3>7 DEF Its
      <4>3. i \in 1..done[e]
        BY <1>2, <1>6, <3>2, <4>2
      <4>4. owner[e] \in docs[q].likes <=> LikesUpTo(lane[e], done[e], q)
        BY <3>1, <3>2, <4>3 DEF LikeInv, LaneInv, CommittedToggles
      <4>5. docs[q] # NoDoc
        BY <3>2, <3>3, <4>3 DEF LikeInv, LaneInv, Arrived
      <4>6. LikesUpTo(lane[e], done'[e], q) <=> LikesUpTo(lane[e], done[e], q)
        <5>1. CASE e # d
          BY <1>2, <5>1
        <5>2. CASE e = d
          <6>1. \A j \in 1..done[d] + 1 : j \in 1..done[d] \/ j = done[d] + 1
            BY <1>2
          <6>2. \A j \in 1..done[d] : j \in 1..done[d] + 1
            BY <1>2
          <6>3. \A j \in 1..done[d] : \A k \in j + 1 .. done[d] + 1 :
                    k \in j + 1 .. done[d] \/ k = done[d] + 1
            BY <1>2
          <6>4. \A j \in 1..done[d] : \A k \in j + 1 .. done[d] : k \in j + 1 .. done[d] + 1
            BY <1>2
          <6>5. w.id = q => w.kind \notin {"like", "unlike"}
            BY <4>2, <5>2 DEF Toggles
          <6>6. LikesUpTo(lane[d], done[d] + 1, q) <=> LikesUpTo(lane[d], done[d], q)
            BY <1>6, <6>1, <6>2, <6>3, <6>4, <6>5 DEF LikesUpTo
          <6>7. QED
            BY <1>2, <5>2, <6>6
        <5>3. QED
          BY <5>1, <5>2
      <4>7. QED
        BY <3>4, <4>1, <4>4, <4>5, <4>6 DEF Liked, LikedNext
    <3>8. QED
      BY <3>6, <3>7
  <2>5. NoLikeYet'
    <3>1. SUFFICES ASSUME NEW e \in Devices, NEW q \in Ids, ClearNext(owner[e], q), Clear(owner[e], q),
                          HasTask(lane[e], q, {"create"}), ~HasTask(lane[e], q, Toggles),
                          docs'[q] # NoDoc
                   PROVE  owner[e] \notin docs'[q].likes
      BY <1>2, <2>3 DEF NoLikeYet
    <3>2. ~Its(owner[e], q)
      BY <1>8, <1>9, <3>1 DEF Has
    <3>3. ~Liked(owner[e], q)
      BY <3>1 DEF LikeInv, LaneInv, NoLikeYet, Liked
    <3>4. ~LikedNext(owner[e], q)
      BY <1>7, <3>1, <3>2, <3>3 DEF Clear
    <3>5. QED
      BY <3>1, <3>4 DEF LikedNext
  <2>6. CacheAgrees'
    <3>1. SUFFICES ASSUME NEW e \in Devices, NEW q \in Ids, ClearNext(owner[e], q), Clear(owner[e], q),
                          DevicesOf(owner[e]) = {e}, cache[e][q] # NoDoc,
                          ~HasTask(lane[e], q, Toggles)
                   PROVE  owner[e] \in cache[e][q].likes <=> owner[e] \in docs'[q].likes
      BY <1>2, <2>3 DEF CacheAgrees, DevicesOf
    <3>2. ~Its(owner[e], q)
      BY <1>8, <3>1 DEF Its, DevicesOf
    <3>3. docs[q] # NoDoc /\ docs'[q] # NoDoc
      BY <1>4, <3>1 DEF LikeInv, TapInv, StillComing, Clear
    <3>4. owner[e] \in cache[e][q].likes <=> owner[e] \in docs[q].likes
      BY <3>1 DEF LikeInv, LaneInv, CacheAgrees
    <3>5. LikedNext(owner[e], q) <=> Liked(owner[e], q)
      BY <1>7, <3>1, <3>2 DEF Clear
    <3>6. QED
      BY <3>3, <3>4, <3>5 DEF Liked, LikedNext
  <2>7. QED
    BY <2>1, <2>2, <2>4, <2>5, <2>6 DEF LaneInv
<1>13. QED
  BY <1>1, <1>10, <1>11, <1>12 DEF LikeInv, TapInv

\* A write about a post that nobody deleted leaves the lane acknowledged, and
\* nothing behind it creates the post or, but for its "create", names it.
LEMMA PopKnown ==
    ASSUME LikeInv, NEW d \in Devices, Ack(d) \/ Refuse(d), NEW h, h = lane[d][1]
    PROVE  /\ Onward /\ odd' = odd
           /\ done[d] = done'[d] + 1 \/ (done[d] = 0 /\ done'[d] = 0)
           /\ \A e \in Devices : e # d => done'[e] = done[e]
           /\ ~Has(d, h.id, {"create"})'
           /\ Has(d, h.id, {"name"})' => h.kind = "create"
           /\ h.id \notin deleted =>
                 /\ h.kind \in {"create", "name"} \cup Toggles
                 /\ done[d] = done'[d] + 1
                 /\ cache'[d][h.id] = Apply(cache[d][h.id], h.kind, owner[d])
                 /\ docs[h.id] # NoDoc
                 /\ h.kind = "name" => cache[d][h.id] # NoDoc
<1>1. PostInv /\ TypeOK /\ owner[d] \in Users
  BY DEF LikeInv, PostInv, TypeOK
<1>2. /\ docs' = docs /\ owner' = owner /\ worker' = worker /\ deleted' = deleted
      /\ h \in Write
      /\ \A e \in Devices : \A p, K :
            Has(e, p, K) <=> (e = d /\ h.id = p /\ h.kind \in K) \/ Has(e, p, K)'
      /\ Behind(<<h>>, lane'[d]) /\ Behind(<<h>>, worker[d])
      /\ h.kind \notin Toggles => 1 \in 1..done[d]
  BY <1>1, PopEffect
<1>3. h.id \in Ids /\ h.kind \in Kinds
  BY <1>2 DEF Write
<1>4. Onward /\ odd' = odd
  BY <1>2 DEF Onward, Ack, Refuse, history
<1>5. /\ done[d] = done'[d] + 1 \/ (done[d] = 0 /\ done'[d] = 0)
      /\ \A e \in Devices : e # d => done'[e] = done[e]
  <2>1. done \in [Devices -> Nat]
    BY <1>1 DEF TypeOK
  <2>2. CASE Ack(d)
    BY <2>1, <2>2 DEF Ack
  <2>3. CASE Refuse(d)
    BY <2>1, <2>3 DEF Refuse
  <2>4. QED
    BY <2>2, <2>3
<1>6. /\ ~Has(d, h.id, {"create"})'
      /\ Has(d, h.id, {"name"})' => h.kind = "create"
  <2> DEFINE s == <<h>>
  <2>1. Len(s) = 1 /\ s[1] = h
    OBVIOUS
  <2>2. Behind(s, lane'[d]) /\ Behind(s, worker'[d])
    BY <1>2
  <2> HIDE DEF s
  <2>3. /\ ~HasTask(lane'[d], h.id, {"create"})
        /\ HasTask(lane'[d], h.id, {"name"}) => h.kind = "create"
    BY <2>1, <2>2 DEF Behind, HasTask
  <2>4. /\ ~HasTask(worker'[d], h.id, {"create"})
        /\ HasTask(worker'[d], h.id, {"name"}) => h.kind = "create"
    BY <2>1, <2>2 DEF Behind, HasTask
  <2>5. QED
    BY <2>3, <2>4 DEF Has
<1>7. Has(d, h.id, {"create"}) => h.kind = "create"
  BY <1>2, <1>6
<1>8. ASSUME h.id \notin deleted
      PROVE  /\ h.kind \in {"create", "name"} \cup Toggles
             /\ done[d] = done'[d] + 1
             /\ cache'[d][h.id] = Apply(cache[d][h.id], h.kind, owner[d])
             /\ docs[h.id] # NoDoc
             /\ h.kind = "name" => cache[d][h.id] # NoDoc
  <2>1. h.kind # "delete"
    BY <1>1, <1>2, <1>3, <1>8 DEF PostInv, Deletes
  <2>2. ASSUME Refuse(d) PROVE FALSE
    <3>1. docs[h.id] = NoDoc /\ h.kind \in Toggles
      BY <2>2 DEF Refuse, Allowed, Toggles
    <3>2. Active(d, h.id)
      BY <1>2, <3>1 DEF Active
    <3>3. Has(d, h.id, {"create"})
      BY <1>3, <1>8, <3>1, <3>2 DEF LikeInv, TapInv, StillComing
    <3>4. QED
      BY <1>7, <3>1, <3>3 DEF Toggles
  <2>3. /\ done[d] > 0
        /\ cache' = [cache EXCEPT ![d][h.id] = Apply(@, h.kind, owner[d])]
    BY <2>2 DEF Ack
  <2>4. cache'[d][h.id] = Apply(cache[d][h.id], h.kind, owner[d])
    <3>1. cache \in [Devices -> [Ids -> Doc \cup {NoDoc}]]
      BY <1>1 DEF TypeOK
    <3>2. QED
      BY <1>3, <2>3, <3>1
  <2>5. docs[h.id] # NoDoc
    <3>1. 1 \in 1..done[d]
      BY <1>1, <2>3 DEF TypeOK
    <3>2. QED
      BY <1>3, <1>8, <3>1 DEF LikeInv, LaneInv, Arrived
  <2>6. h.kind = "name" => cache[d][h.id] # NoDoc
    <3>1. h.kind = "name" => Has(d, h.id, {"name"})
      BY <1>2
    <3>2. QED
      BY <1>3, <1>7, <1>8, <3>1 DEF LikeInv, TapInv, StillComing
  <2>7. h.kind \in {"create", "name"} \cup Toggles
    BY <1>3, <2>1 DEF Kinds, Toggles
  <2>8. QED
    BY <1>5, <2>3, <2>4, <2>5, <2>6, <2>7
<1>9. QED
  BY <1>4, <1>5, <1>6, <1>8

\* The last toggle that leaves the lane is what the document shows.
LEMMA PopToggle ==
    ASSUME LikeInv, NEW d \in Devices, Ack(d) \/ Refuse(d), NEW h, h = lane[d][1],
           Clear(owner[d], h.id), h.kind \in Toggles, ~HasTask(lane'[d], h.id, Toggles)
    PROVE  docs[h.id] # NoDoc /\ (owner[d] \in docs[h.id].likes <=> h.kind = "like")
<1>1. TypeOK
  BY DEF LikeInv, PostInv
<1>2. /\ h.id \in Ids /\ h.id \notin deleted
  BY DEF Clear
<1>3. done[d] = done'[d] + 1 /\ docs[h.id] # NoDoc
  BY <1>2, PopKnown
<1>4. /\ Len(lane'[d]) = Len(lane[d]) - 1
      /\ \A i \in 1..Len(lane'[d]) : lane'[d][i] = lane[d][i + 1]
  BY <1>1, PopQueues
<1>5. /\ done[d] \in Nat /\ done[d] <= Len(lane[d]) /\ Len(lane[d]) \in Nat
      /\ Len(lane'[d]) \in Nat
  BY <1>1, PopQueues DEF TypeOK
<1>6. 1 \in 1..done[d]
  <2>1. TypeOK'
    BY PopPost DEF LikeInv, PostInv
  <2>2. done'[d] \in Nat
    BY <2>1 DEF TypeOK
  <2>3. QED
    BY <1>3, <2>2
<1>7. ASSUME NEW i \in 2..done[d], lane[d][i].id = h.id PROVE lane[d][i].kind \notin Toggles
  <2>1. i - 1 \in 1..Len(lane'[d]) /\ (i - 1) + 1 = i
    BY <1>4, <1>5
  <2>2. lane'[d][i - 1] = lane[d][i]
    BY <1>4, <2>1
  <2>3. QED
    BY <1>7, <2>1, <2>2 DEF HasTask
<1>8. owner[d] \in docs[h.id].likes <=> LikesUpTo(lane[d], done[d], h.id)
  BY <1>2, <1>6 DEF LikeInv, LaneInv, CommittedToggles
<1>9. LikesUpTo(lane[d], done[d], h.id) <=> h.kind = "like"
  <2>1. \A i \in 1..done[d] : i = 1 \/ i \in 2..done[d]
    BY <1>5
  <2>2. 1 + 1 .. done[d] = 2 .. done[d]
    OBVIOUS
  <2>3. QED
    BY <1>6, <1>7, <2>1, <2>2 DEF LikesUpTo, Toggles
<1>10. QED
  BY <1>3, <1>8, <1>9

\* What an account will like does not change when the document, or the rest of
\* the lane, takes over from a toggle.
LEMMA PopSteady ==
    ASSUME LikeInv, TypeOK', NEW d \in Devices, Ack(d) \/ Refuse(d)
    PROVE  Steady
<1> DEFINE h == lane[d][1]
<1>1. TypeOK /\ PostInv
  BY DEF LikeInv, PostInv
<1>2. Onward
  BY PopKnown
<1>3. /\ docs' = docs /\ owner' = owner /\ worker' = worker
      /\ \A e \in Devices : \A p, K :
            Has(e, p, K) <=> (e = d /\ h.id = p /\ h.kind \in K) \/ Has(e, p, K)'
  BY <1>1, PopEffect
<1>4. \A e \in Devices : \A p :
          /\ ~(e = d /\ h.id = p /\ h.kind \in Toggles) => (Wish(e, p)' <=> Wish(e, p))
          /\ Has(e, p, Toggles)' => (Wish(e, p)' <=> Wish(e, p))
          /\ e = d /\ h.id = p /\ h.kind \in Toggles /\ ~Has(e, p, Toggles)' =>
                (Wish(e, p) <=> h.kind = "like") /\ ~HasTask(lane'[d], p, Toggles)
  BY <1>1, PopWish
<1>5. \A u, p : Liked(u, p)' <=> Liked(u, p)
  BY <1>3 DEF Liked
<1>6. ASSUME Clear(owner[d], h.id), h.kind \in Toggles, ~HasTask(lane'[d], h.id, Toggles)
      PROVE  Liked(owner[d], h.id) <=> h.kind = "like"
  BY <1>6, PopToggle DEF Liked
<1> HIDE DEF h
<1>7. SUFFICES ASSUME NEW u \in Users, NEW p \in Ids, ClearNext(u, p)
               PROVE  WillLike(u, p)' <=> WillLike(u, p)
  BY DEF Steady
<1>8. Clear(u, p)
  BY <1>2, <1>7, ClearBefore
<1>9. CASE owner[d] = u /\ h.id = p /\ h.kind \in Toggles /\ ~Has(d, p, Toggles)'
  <2>1. Has(d, p, Toggles) /\ Active(d, p)
    BY <1>3, <1>9 DEF Active
  <2>2. \A e \in Devices : owner[e] = u /\ e # d => ~Has(e, p, Toggles) /\ ~Has(e, p, Toggles)'
    BY <1>3, <1>8, <1>9, <2>1 DEF LikeInv, TapInv, OneBusy, Active
  <2>3. WillMeans /\ WillMeans'
    BY <1>1, WillIs, PTL
  <2>4. WillLike(u, p) <=> \E e \in Devices : owner[e] = u /\ Wish(e, p)
    BY <1>9, <2>1, <2>3 DEF WillMeans
  <2>5. WillLike(u, p) <=> Wish(d, p)
    BY <1>9, <2>2, <2>3, <2>4 DEF WillMeans
  <2>6. WillLike(u, p)' <=> Liked(u, p)'
    BY <1>3, <1>9, <2>2, <2>3 DEF WillMeans
  <2>7. (Wish(d, p) <=> h.kind = "like") /\ ~HasTask(lane'[d], p, Toggles)
    BY <1>4, <1>9
  <2>8. Liked(u, p) <=> h.kind = "like"
    BY <1>6, <1>8, <1>9, <2>7
  <2>9. QED
    BY <1>5, <2>5, <2>6, <2>7, <2>8
<1>10. CASE ~(owner[d] = u /\ h.id = p /\ h.kind \in Toggles /\ ~Has(d, p, Toggles)')
  <2>1. \A e \in Devices : owner[e] = u =>
            /\ Wish(e, p)' <=> Wish(e, p)
            /\ Has(e, p, Toggles)' <=> Has(e, p, Toggles)
    BY <1>3, <1>4, <1>10
  <2>2. QED
    BY <1>1, <1>3, <1>5, <2>1, WillSame
<1>11. QED
  BY <1>9, <1>10

\* A write leaves the lane.
LEMMA PopLike ==
    ASSUME LikeInv, NEW d \in Devices, Ack(d) \/ Refuse(d)
    PROVE  LikeInv'
<1>1. PICK h : h = lane[d][1]
  OBVIOUS
<1>2. PostInv /\ TypeOK /\ PostInv' /\ TypeOK'
  BY PopPost DEF LikeInv, PostInv
<1>3. /\ docs' = docs /\ owner' = owner /\ worker' = worker
      /\ reads' = reads /\ answers' = answers /\ rows' = rows /\ deleted' = deleted
      /\ h \in Write
      /\ \A e \in Devices : \A p, K :
            Has(e, p, K) <=> (e = d /\ h.id = p /\ h.kind \in K) \/ Has(e, p, K)'
      /\ \A e \in Devices : \A i \in 1..done'[e] :
            \E j \in 1..done[e] : lane[e][j] = lane'[e][i]
      /\ \A e \in Devices, p \in Ids : cache'[e][p] # cache[e][p] => e = d /\ p = h.id
  <2>1. PostInv /\ h = lane[d][1]
    BY <1>1, <1>2
  <2>2. \A e \in Devices : \A i \in 1..done'[e] : \E j \in 1..done[e] : lane[e][j] = lane'[e][i]
    BY <2>1, PopEffect
  <2>3. \A e \in Devices : \A p, K :
            Has(e, p, K) <=> (e = d /\ h.id = p /\ h.kind \in K) \/ Has(e, p, K)'
    <3>1. /\ \A e \in Devices : e # d => lane'[e] = lane[e]
          /\ worker' = worker
          /\ \A p, K : HasTask(lane[d], p, K) <=>
                (h.id = p /\ h.kind \in K) \/ HasTask(lane'[d], p, K)
      BY <1>2, <2>1, PopQueues
    <3>2. QED
      BY <3>1 DEF Has
  <2>4. \A e \in Devices, p \in Ids : cache'[e][p] # cache[e][p] => e = d /\ p = h.id
    <3>1. cache' = cache \/ cache' = [cache EXCEPT ![d][h.id] = Apply(@, h.kind, owner[d])]
      BY <2>1 DEF Ack, Refuse
    <3>2. cache \in [Devices -> [Ids -> Doc \cup {NoDoc}]]
      BY <1>2 DEF TypeOK
    <3>3. QED
      BY <3>1, <3>2
  <2>5. /\ docs' = docs /\ owner' = owner /\ worker' = worker
        /\ reads' = reads /\ answers' = answers /\ rows' = rows /\ deleted' = deleted
        /\ h \in Write
    BY <2>1, PopEffect
  <2>6. QED
    BY <2>2, <2>3, <2>4, <2>5
<1>4. /\ Onward /\ odd' = odd
      /\ done[d] = done'[d] + 1 \/ (done[d] = 0 /\ done'[d] = 0)
      /\ \A e \in Devices : e # d => done'[e] = done[e]
      /\ ~Has(d, h.id, {"create"})'
      /\ Has(d, h.id, {"name"})' => h.kind = "create"
      /\ h.id \notin deleted =>
            /\ h.kind \in {"create", "name"} \cup Toggles
            /\ done[d] = done'[d] + 1
            /\ cache'[d][h.id] = Apply(cache[d][h.id], h.kind, owner[d])
            /\ docs[h.id] # NoDoc
            /\ h.kind = "name" => cache[d][h.id] # NoDoc
  BY <1>1, PopKnown
<1>5. /\ lane[d] # <<>>
      /\ Len(lane'[d]) = Len(lane[d]) - 1
      /\ \A i \in 1..Len(lane'[d]) : lane'[d][i] = lane[d][i + 1]
      /\ \A e \in Devices : e # d => lane'[e] = lane[e]
      /\ \A p, K : HasTask(lane[d], p, K) <=>
            (h.id = p /\ h.kind \in K) \/ HasTask(lane'[d], p, K)
  BY <1>2, <1>1, PopQueues
<1>6. ASSUME Clear(owner[d], h.id), h.kind \in Toggles, ~HasTask(lane'[d], h.id, Toggles)
      PROVE  owner[d] \in docs[h.id].likes <=> h.kind = "like"
  BY <1>6, <1>1, PopToggle
<1>7. /\ h.id \in Ids /\ owner[d] \in Users /\ owner[d] # NoUser
      /\ cache[d][h.id] \in Doc \cup {NoDoc}
  BY <1>2, <1>3, PostsAssumption DEF TypeOK, Write
<1>8. Steady
  BY <1>2, PopSteady
<1>9. ASSUME h.id \notin deleted
      PROVE  LET new == cache'[d][h.id]
                 old == cache[d][h.id]
             IN  \/ h.kind = "create" /\ new # NoDoc /\ new.author = owner[d] /\ new.likes = {}
                 \/ /\ h.kind = "name" /\ new # NoDoc /\ old # NoDoc
                    /\ new.author = old.author /\ new.likes = old.likes
                 \/ /\ h.kind \in Toggles
                    /\ old = NoDoc => new = NoDoc
                    /\ old # NoDoc => /\ new # NoDoc /\ new.author = old.author
                                      /\ h.kind = "like" => owner[d] \in new.likes
                                      /\ h.kind = "unlike" => owner[d] \notin new.likes
  <2> DEFINE old == cache[d][h.id]
             new == cache'[d][h.id]
  <2>1. new = Apply(old, h.kind, owner[d]) /\ old \in Doc \cup {NoDoc}
    BY <1>4, <1>7, <1>9
  <2>2. h.kind = "name" => old # NoDoc
    BY <1>4, <1>9
  <2> HIDE DEF old, new
  <2>3. CASE h.kind = "create"
    <3>1. new # NoDoc
      BY <1>7, <2>1, <2>3, ApplyThere
    <3>2. QED
      BY <1>7, <2>1, <2>3, <3>1, ApplyKinds DEF old, new
  <2>4. CASE h.kind = "name"
    <3>1. new # NoDoc
      BY <1>7, <2>1, <2>4, ApplyThere
    <3>2. QED
      BY <1>7, <2>1, <2>2, <2>4, <3>1, ApplyKinds DEF old, new
  <2>5. CASE h.kind \in Toggles
    <3>1. old = NoDoc => new = NoDoc
      BY <1>7, <2>1, <2>5, ApplyKinds
    <3>2. old # NoDoc => new # NoDoc
      BY <1>7, <2>1, <2>5, ApplyThere DEF Toggles, Kinds
    <3>3. old # NoDoc => new.author = old.author
      BY <1>7, <2>1, <2>5, ApplyKinds
    <3>4. old # NoDoc /\ h.kind = "like" => owner[d] \in new.likes
      BY <1>7, <2>1, ApplyKinds
    <3>5. old # NoDoc /\ h.kind = "unlike" => owner[d] \notin new.likes
      BY <1>7, <2>1, ApplyKinds
    <3>6. QED
      BY <2>5, <3>1, <3>2, <3>3, <3>4, <3>5 DEF old, new
  <2>6. QED
    BY <1>4, <1>9, <2>3, <2>4, <2>5
<1>10. \A e \in Devices : \A p : Reading(e, p)' <=> Reading(e, p)
  BY <1>3 DEF Reading
<1>11. \A e \in Devices : \A p : /\ Active(e, p)' => Active(e, p)
                                 /\ \A K : Has(e, p, K)' => Has(e, p, K)
  BY <1>3, <1>10 DEF Active
<1>12. OneBusy'
  BY <1>4, <1>11, KeepBusy
<1>13. OneRead'
  BY <1>3, <1>4, KeepRead
<1>14. Answered'
  BY <1>2, <1>3, <1>4, <1>8, KeepAnswered
<1>15. Parity'
  BY <1>4, <1>8, <1>10, KeepParity
<1>16. StillComing'
  <2>1. SUFFICES ASSUME NEW q \in Ids \ deleted, NEW e \in Devices
                 PROVE  /\ docs[q] = NoDoc =>
                              /\ cache'[e][q] = NoDoc
                              /\ Active(e, q)' \/ <<q, TRUE>> \in rows[e] => Has(e, q, {"create"})'
                        /\ cache'[e][q] = NoDoc /\ Has(e, q, {"name"})' => Has(e, q, {"create"})'
    BY <1>3 DEF StillComing
  <2>2. /\ docs[q] = NoDoc => /\ cache[e][q] = NoDoc
                              /\ Active(e, q) \/ <<q, TRUE>> \in rows[e] => Has(e, q, {"create"})
        /\ cache[e][q] = NoDoc /\ Has(e, q, {"name"}) => Has(e, q, {"create"})
    BY DEF LikeInv, TapInv, StillComing
  <2>3. CASE q = h.id
    <3>1. docs[q] # NoDoc
      BY <1>4, <2>1, <2>3
    <3>2. e = d => ~(cache'[e][q] = NoDoc /\ Has(e, q, {"name"})')
      BY <1>4, <1>9, <2>1, <2>3 DEF Toggles
    <3>3. e # d => (cache'[e][q] = NoDoc /\ Has(e, q, {"name"})' => Has(e, q, {"create"})')
      BY <1>3, <2>2
    <3>4. QED
      BY <3>1, <3>2, <3>3
  <2>4. CASE q # h.id
    <3>1. cache'[e][q] = cache[e][q] /\ \A K : Has(e, q, K)' <=> Has(e, q, K)
      BY <1>3, <2>4
    <3>2. QED
      BY <1>11, <2>2, <3>1
  <2>5. QED
    BY <2>3, <2>4
<1>17. LaneInv'
  <2>1. Authored'
    <3>1. SUFFICES ASSUME NEW q \in Ids \ deleted, NEW e \in Devices, cache'[e][q] # NoDoc
                   PROVE  cache'[e][q].author # NoUser
      BY <1>3 DEF LikeInv, LaneInv, Authored
    <3>2. cache[e][q] # NoDoc => cache[e][q].author # NoUser
      BY DEF LikeInv, LaneInv, Authored
    <3>3. CASE e = d /\ q = h.id
      BY <1>7, <1>9, <3>1, <3>2, <3>3
    <3>4. CASE ~(e = d /\ q = h.id)
      BY <1>3, <3>1, <3>2, <3>4
    <3>5. QED
      BY <3>3, <3>4
  <2>2. Arrived'
    BY <1>3 DEF LikeInv, LaneInv, Arrived
  <2>3. \A e \in Devices, p \in Ids : Clear(owner[e], p)' => Clear(owner[e], p)
    BY <1>4, ClearBefore
  <2>4. \A e \in Devices : \A q, K : ~(e = d /\ q = h.id /\ h.kind \in K) =>
            (HasTask(lane'[e], q, K) <=> HasTask(lane[e], q, K))
    BY <1>5
  <2>5. CommittedToggles'
    <3>1. SUFFICES ASSUME NEW e \in Devices, NEW q \in Ids, Clear(owner[e], q),
                          \E i \in 1..done'[e] : lane'[e][i].id = q /\ lane'[e][i].kind \in Toggles
                   PROVE  owner[e] \in docs[q].likes <=> LikesUpTo(lane'[e], done'[e], q)
      BY <1>3, <2>3 DEF CommittedToggles
    <3>2. PICK i \in 1..done'[e] : lane'[e][i].id = q /\ lane'[e][i].kind \in Toggles
      BY <3>1
    <3>3. \E j \in 1..done[e] : lane[e][j].id = q /\ lane[e][j].kind \in Toggles
      BY <1>3, <3>2
    <3>4. owner[e] \in docs[q].likes <=> LikesUpTo(lane[e], done[e], q)
      BY <3>1, <3>3 DEF LikeInv, LaneInv, CommittedToggles
    <3>5. CASE e # d
      BY <1>4, <1>5, <3>4, <3>5
    <3>6. CASE e = d
      <4> DEFINE n == done'[d]
                 s == lane[d]
                 v == lane'[d]
      <4>1. n \in Nat /\ n <= Len(v) /\ Len(v) \in Nat
        BY <1>2 DEF TypeOK
      <4>2. i \in 1..n
        BY <3>2, <3>6
      <4>3. done[d] = n + 1
        BY <1>4, <4>1, <4>2
      <4>4. \A j \in 1..n : j + 1 \in 1..n + 1 /\ v[j] = s[j + 1]
        BY <1>5, <4>1
      <4> HIDE DEF n, s, v
      <4>5. LikesUpTo(v, n, q) => LikesUpTo(s, n + 1, q)
        <5>1. SUFFICES ASSUME NEW j \in 1..n, v[j].id = q, v[j].kind = "like",
                              \A k \in j + 1 .. n : v[k].id = q => v[k].kind # "unlike"
                       PROVE  LikesUpTo(s, n + 1, q)
          BY DEF LikesUpTo
        <5>2. \A k \in (j + 1) + 1 .. n + 1 : k - 1 \in j + 1 .. n /\ k - 1 \in 1..n /\ (k - 1) + 1 = k
          BY <4>1
        <5>3. \A k \in (j + 1) + 1 .. n + 1 : s[k].id = q => s[k].kind # "unlike"
          BY <4>4, <5>1, <5>2
        <5>4. QED
          BY <4>4, <5>1, <5>3 DEF LikesUpTo
      <4>6. LikesUpTo(s, n + 1, q) => LikesUpTo(v, n, q)
        <5>1. SUFFICES ASSUME NEW j \in 1..n + 1, s[j].id = q, s[j].kind = "like",
                              \A k \in j + 1 .. n + 1 : s[k].id = q => s[k].kind # "unlike"
                       PROVE  LikesUpTo(v, n, q)
          BY DEF LikesUpTo
        <5>2. \A k \in 1..n : k >= j /\ v[k].id = q => v[k].kind # "unlike"
          <6>1. \A k \in 1..n : k >= j => k + 1 \in j + 1 .. n + 1
            BY <4>1
          <6>2. QED
            BY <4>4, <5>1, <6>1
        <5>3. CASE j = 1
          <6>1. v[i].kind = "like" /\ v[i].id = q
            BY <3>2, <3>6, <4>2, <5>2, <5>3 DEF v, Toggles
          <6>2. \A k \in i + 1 .. n : k \in 1..n /\ k >= j
            BY <4>1, <4>2, <5>3
          <6>3. QED
            BY <4>2, <5>2, <6>1, <6>2 DEF LikesUpTo
        <5>4. CASE j # 1
          <6>1. j - 1 \in 1..n /\ (j - 1) + 1 = j
            BY <4>1, <5>4
          <6>2. v[j - 1] = s[j]
            BY <4>4, <6>1
          <6>3. \A k \in (j - 1) + 1 .. n : k \in 1..n /\ k >= j
            BY <4>1, <6>1
          <6>4. QED
            BY <5>1, <5>2, <6>1, <6>2, <6>3 DEF LikesUpTo
        <5>5. QED
          BY <5>3, <5>4
      <4>7. QED
        BY <3>4, <3>6, <4>3, <4>5, <4>6 DEF n, s, v
    <3>7. QED
      BY <3>5, <3>6
  <2>6. NoLikeYet'
    <3>1. SUFFICES ASSUME NEW e \in Devices, NEW q \in Ids, Clear(owner[e], q),
                          HasTask(lane'[e], q, {"create"}), ~HasTask(lane'[e], q, Toggles),
                          docs[q] # NoDoc
                   PROVE  owner[e] \notin docs[q].likes
      BY <1>3, <2>3 DEF NoLikeYet
    <3>2. ~(e = d /\ q = h.id)
      BY <1>4, <3>1 DEF Has
    <3>3. QED
      BY <2>4, <3>1, <3>2 DEF LikeInv, LaneInv, NoLikeYet
  <2>7. CacheAgrees'
    <3>1. SUFFICES ASSUME NEW e \in Devices, NEW q \in Ids, Clear(owner[e], q),
                          DevicesOf(owner[e]) = {e}, cache'[e][q] # NoDoc,
                          ~HasTask(lane'[e], q, Toggles)
                   PROVE  owner[e] \in cache'[e][q].likes <=> owner[e] \in docs[q].likes
      BY <1>3, <2>3 DEF CacheAgrees, DevicesOf
    <3>2. cache[e][q] # NoDoc /\ ~HasTask(lane[e], q, Toggles) =>
              (owner[e] \in cache[e][q].likes <=> owner[e] \in docs[q].likes)
      BY <3>1 DEF LikeInv, LaneInv, CacheAgrees
    <3>3. CASE ~(e = d /\ q = h.id)
      BY <1>3, <2>4, <3>1, <3>2, <3>3
    <3>4. CASE e = d /\ q = h.id
      <4>1. h.id \notin deleted /\ docs[q] # NoDoc
        BY <1>4, <3>1, <3>4 DEF Clear
      <4>2. CASE h.kind = "create"
        <5>1. HasTask(lane[d], q, {"create"}) /\ ~HasTask(lane[d], q, Toggles)
          BY <1>5, <2>4, <3>1, <3>4, <4>2 DEF Toggles
        <5>2. owner[d] \notin docs[q].likes
          BY <3>1, <3>4, <4>1, <5>1 DEF LikeInv, LaneInv, NoLikeYet
        <5>3. cache'[d][q].likes = {}
          BY <1>9, <3>4, <4>1, <4>2 DEF Toggles
        <5>4. QED
          BY <3>4, <5>2, <5>3
      <4>3. CASE h.kind = "name"
        <5>1. ~HasTask(lane[d], q, Toggles)
          BY <2>4, <3>1, <3>4, <4>3 DEF Toggles
        <5>2. cache[d][q] # NoDoc /\ cache'[d][q].likes = cache[d][q].likes
          BY <1>9, <3>4, <4>1, <4>3 DEF Toggles
        <5>3. QED
          BY <3>2, <3>4, <5>1, <5>2
      <4>4. CASE h.kind \in Toggles
        <5>1. owner[d] \in docs[q].likes <=> h.kind = "like"
          BY <1>6, <3>1, <3>4, <4>4
        <5>2. owner[d] \in cache'[d][q].likes <=> h.kind = "like"
          BY <1>9, <3>1, <3>4, <4>1, <4>4 DEF Toggles
        <5>3. QED
          BY <3>4, <5>1, <5>2
      <4>5. QED
        BY <1>4, <4>1, <4>2, <4>3, <4>4
    <3>5. QED
      BY <3>3, <3>4
  <2>8. QED
    BY <2>1, <2>2, <2>5, <2>6, <2>7 DEF LaneInv
<1>18. QED
  BY <1>2, <1>12, <1>13, <1>14, <1>15, <1>16, <1>17 DEF LikeInv, TapInv

\* What likePost is told of a document: whether the account's own writes make
\* it like the post.
LEMMA SeenIsTrue ==
    ASSUME LikeInv, NEW d \in Devices, NEW p \in Ids, Clear(owner[d], p), Asked(d, p),
           NEW doc, doc = docs[p] \/ (doc = cache[d][p] /\ DevicesOf(owner[d]) = {d}),
           Overlay(d, p, doc) # NoDoc
    PROVE  /\ Overlay(d, p, doc).author # NoUser
           /\ owner[d] \in Overlay(d, p, doc).likes <=> WillLike(owner[d], p)
<1> DEFINE u == owner[d]
           s == lane[d]
           o == After(s, u, p, doc)
<1>1. TypeOK /\ PostInv /\ p \notin deleted /\ u \in Users
  BY DEF LikeInv, PostInv, Clear
<1>2. s \in Seq(Write) /\ s \in Seq(Task) /\ doc \in Doc \cup {NoDoc} /\ o # NoDoc
  <2>1. s \in Seq(Write) /\ s \in Seq(Task)
    BY <1>1, LanesAreTasks
  <2>2. doc \in Doc \cup {NoDoc}
    BY <1>1 DEF TypeOK
  <2>3. QED
    BY <2>1, <2>2 DEF Overlay
<1>3. Ordered(s) /\ ~HasTask(s, p, {"delete"})
  BY <1>1 DEF PostInv, InOrder, Deletes, Has
<1>4. HasTask(s, p, {"name"}) \/ HasTask(s, p, Toggles) => ~HasTask(worker[d], p, {"create"})
  BY <1>1 DEF PostInv, InOrder, Behind, HasTask
<1>5. /\ docs[p] = NoDoc => cache[d][p] = NoDoc
      /\ cache[d][p] = NoDoc /\ Has(d, p, {"name"}) => Has(d, p, {"create"})
  BY <1>1 DEF LikeInv, TapInv, StillComing
<1>6. doc = NoDoc /\ HasTask(s, p, {"name"}) => HasTask(s, p, {"create"})
  BY <1>4, <1>5 DEF Has
<1>7. doc # NoDoc => doc.author # NoUser
  BY <1>1 DEF LikeInv, LaneInv, Authored
<1> HIDE DEF o, s
<1>8. o.author # NoUser
  BY <1>1, <1>2, <1>3, <1>6, <1>7, AfterReadable DEF o
<1>9. u \in o.likes <=> \/ LikesLast(s, p)
                        \/ ~HasTask(s, p, Toggles \cup {"create"}) /\ doc # NoDoc /\ u \in doc.likes
  BY <1>1, <1>2, <1>3, AfterLikes DEF o
<1>10. doc = NoDoc => HasTask(s, p, {"create"})
  <2>1. HasTask(s, p, {"create", "name"}) <=> HasTask(s, p, {"create"}) \/ HasTask(s, p, {"name"})
    BY DEF HasTask
  <2>2. doc = NoDoc => HasTask(s, p, {"create", "name"})
    BY <1>1, <1>2, AfterNothing DEF o
  <2>3. QED
    BY <1>6, <2>1, <2>2
<1>11. ~HasTask(worker[d], p, Toggles)
  <2>1. InTurnOn(d, p)
    BY DEF LikeInv, TapInv, OneRead
  <2>2. QED
    BY <2>1 DEF InTurnOn, HasTask
<1>12. \A e \in Devices : owner[e] = u /\ e # d => ~Has(e, p, Toggles)
  <2>1. Active(d, p)
    BY DEF Active, Reading, Asked
  <2>2. QED
    BY <2>1 DEF LikeInv, TapInv, OneBusy, Active
<1>13. WillMeans
  BY <1>1, WillIs
<1>14. Wish(d, p) <=> LikesLast(s, p)
  BY <1>11, LikesHas DEF Wish, HasTask, Toggles, s
<1>15. Has(d, p, Toggles) <=> HasTask(s, p, Toggles)
  BY <1>11 DEF Has, s
<1>16. LikesLast(s, p) => HasTask(s, p, Toggles)
  BY LikesHas
<1>17. WillLike(u, p) <=> LikesLast(s, p) \/ (~HasTask(s, p, Toggles) /\ Liked(u, p))
  BY <1>12, <1>13, <1>14, <1>15 DEF WillMeans
<1>18. ASSUME ~HasTask(s, p, Toggles)
       PROVE  Liked(u, p) <=> ~HasTask(s, p, {"create"}) /\ doc # NoDoc /\ u \in doc.likes
  <2>1. CASE HasTask(s, p, {"create"})
    BY <1>18, <2>1 DEF LikeInv, LaneInv, NoLikeYet, Liked, s
  <2>2. CASE ~HasTask(s, p, {"create"})
    <3>1. doc # NoDoc /\ docs[p] # NoDoc
      BY <1>5, <1>10, <2>2
    <3>2. CASE doc = docs[p]
      BY <2>2, <3>1, <3>2 DEF Liked
    <3>3. CASE doc = cache[d][p] /\ DevicesOf(owner[d]) = {d}
      BY <1>18, <2>2, <3>1, <3>3 DEF LikeInv, LaneInv, CacheAgrees, Liked, s
    <3>4. QED
      BY <3>2, <3>3
  <2>3. QED
    BY <2>1, <2>2
<1>19. HasTask(s, p, Toggles \cup {"create"}) <=> HasTask(s, p, Toggles) \/ HasTask(s, p, {"create"})
  BY HasMore
<1>20. QED
  BY <1>8, <1>9, <1>16, <1>17, <1>18, <1>19 DEF o, s, Overlay

\* An answer moves its read to the callbacks and leaves the other reads alone.
LEMMA ServeReads ==
    ASSUME TypeOK, NEW d \in Devices, NEW i \in 1..Len(reads[d]), NEW seen \in Seen,
           Answer(d, i, seen), worker' = worker
    PROVE  /\ \A e \in Devices : \A q : Reading(e, q)' <=> Reading(e, q)
           /\ \A e \in Devices : \A q : InTurnOn(e, q) => InTurnOn(e, q)'
           /\ \A e \in Devices : \A j \in 1..Len(answers'[e]) :
                 \/ e = d /\ answers'[e][j] = [id |-> reads[d][i], seen |-> seen]
                 \/ \E k \in 1..Len(answers[e]) : answers[e][k] = answers'[e][j]
<1>1. PICK p, a, r, v, m : /\ p = reads[d][i] /\ a = [id |-> p, seen |-> seen]
                           /\ r = reads[d] /\ v = reads'[d] /\ m = Len(answers[d])
  OBVIOUS
<1> DEFINE A == [id : Ids, seen : Seen]
<1>2. /\ \A e \in Devices : e # d => reads'[e] = reads[e] /\ answers'[e] = answers[e]
      /\ answers'[d] = Append(answers[d], a)
      /\ Len(v) = Len(r) - 1
      /\ \A j \in 1..Len(v) : v[j] = IF j < i THEN r[j] ELSE r[j + 1]
  BY <1>1, AnswerType
<1>3. Len(r) \in Nat /\ Len(v) \in Nat /\ p \in Ids /\ answers[d] \in Seq(A) /\ m \in Nat
  <2>1. reads[d] \in Seq(Ids) /\ answers[d] \in Seq(A)
    BY DEF TypeOK
  <2>2. reads'[d] \in Seq(Ids)
    BY AnswerType
  <2>3. QED
    BY <1>1, <2>1, <2>2
<1>4. a \in A /\ a.id = p /\ i \in 1..Len(r) /\ r[i] = p
  BY <1>1, <1>3
<1> HIDE DEF A
<1>5. /\ m + 1 \in 1..Len(answers'[d]) /\ answers'[d][m + 1] = a
      /\ \A j \in 1..m : j \in 1..Len(answers'[d]) /\ answers'[d][j] = answers[d][j]
      /\ \A j \in 1..Len(answers'[d]) : \/ j \in 1..m /\ answers'[d][j] = answers[d][j]
                                        \/ j = m + 1 /\ answers'[d][j] = a
  <2>1. /\ Len(answers'[d]) = m + 1
        /\ answers'[d][m + 1] = a
        /\ \A j \in 1..m : answers'[d][j] = answers[d][j]
        /\ \A j \in 1..Len(answers'[d]) : \/ j \in 1..m /\ answers'[d][j] = answers[d][j]
                                          \/ j = m + 1 /\ answers'[d][j] = a
    BY <1>1, <1>2, <1>3, <1>4, Appended
  <2>2. m + 1 \in 1..m + 1 /\ \A j \in 1..m : j \in 1..m + 1
    BY <1>3
  <2>3. QED
    BY <2>1, <2>2
<1>6. \A q : Asked(d, q)' => Asked(d, q)
  <2>1. \A j \in 1..Len(v) : \E k \in 1..Len(r) : v[j] = r[k]
    <3>1. \A j \in 1..Len(v) : j \in 1..Len(r) /\ j + 1 \in 1..Len(r)
      BY <1>2, <1>3
    <3>2. QED
      BY <1>2, <3>1
  <2>2. QED
    BY <1>1, <2>1 DEF Asked
<1>7. \A q : Asked(d, q) /\ q # p => Asked(d, q)'
  <2>1. SUFFICES ASSUME NEW q, q # p, NEW k \in 1..Len(r), r[k] = q
                 PROVE  \E j \in 1..Len(v) : v[j] = q
    BY <1>1 DEF Asked
  <2>2. CASE k < i
    <3>1. k \in 1..Len(v)
      BY <1>2, <1>3, <1>4, <2>2
    <3>2. QED
      BY <1>2, <2>1, <2>2, <3>1
  <2>3. CASE i < k
    <3>1. k - 1 \in 1..Len(v) /\ ~(k - 1 < i) /\ (k - 1) + 1 = k
      BY <1>2, <1>3, <1>4, <2>3
    <3>2. QED
      BY <1>2, <2>1, <3>1
  <2>4. k # i
    BY <1>4, <2>1
  <2>5. QED
    BY <1>3, <2>2, <2>3, <2>4
<1>8. \A q : Told(d, q)' <=> Told(d, q) \/ q = p
  BY <1>1, <1>4, <1>5 DEF Told
<1>9. Asked(d, p)
  BY <1>1, <1>4 DEF Asked
<1>10. \A e \in Devices : \A q : e # d => (Asked(e, q)' <=> Asked(e, q)) /\ (Told(e, q)' <=> Told(e, q))
  BY <1>2 DEF Asked, Told
<1>11. \A e \in Devices : \A q :
           /\ Reading(e, q) <=> HasTask(worker[e], q, {"read"}) \/ Asked(e, q) \/ Told(e, q)
           /\ Reading(e, q)' <=> HasTask(worker[e], q, {"read"}) \/ Asked(e, q)' \/ Told(e, q)'
  BY DEF Told, Reading, Asked
<1>12. \A e \in Devices : \A q : Reading(e, q)' <=> Reading(e, q)
  <2>1. \A q : Reading(d, q)' <=> Reading(d, q)
    BY <1>6, <1>7, <1>8, <1>9, <1>11
  <2>2. QED
    BY <1>10, <1>11, <2>1
<1>13. ASSUME NEW q, InTurnOn(d, q) PROVE InTurnOn(d, q)'
  <2>1. \A j \in 1..Len(v) : /\ j \in 1..Len(r) /\ j + 1 \in 1..Len(r)
                             /\ v[j] = IF j < i THEN r[j] ELSE r[j + 1]
    BY <1>2, <1>3
  <2>2. \A j, k \in 1..Len(r) : r[j] = q /\ r[k] = q => j = k
    BY <1>1, <1>13 DEF InTurnOn
  <2>3. ASSUME NEW j \in 1..Len(v), NEW k \in 1..Len(v), v[j] = q, v[k] = q PROVE j = k
    <3>1. j \in 1..Len(r) /\ j + 1 \in 1..Len(r) /\ k \in 1..Len(r) /\ k + 1 \in 1..Len(r)
      BY <2>1
    <3>2. j < i /\ k < i => j = k
      BY <2>1, <2>2, <2>3, <3>1
    <3>3. ~(j < i) /\ ~(k < i) => j + 1 = k + 1
      BY <2>1, <2>2, <2>3, <3>1
    <3>4. j < i /\ ~(k < i) => j = k + 1
      BY <2>1, <2>2, <2>3, <3>1
    <3>5. ~(j < i) /\ k < i => j + 1 = k
      BY <2>1, <2>2, <2>3, <3>1
    <3>6. QED
      BY <1>3, <1>4, <3>2, <3>3, <3>4, <3>5
  <2>4. ASSUME q = p, Asked(d, q)' PROVE FALSE
    <3>1. PICK j \in 1..Len(v) : v[j] = p
      BY <1>1, <2>4 DEF Asked
    <3>2. QED
      BY <1>4, <2>1, <2>2, <2>4, <3>1
  <2>5. Asked(d, q)' => ~Told(d, q)'
    BY <1>6, <1>8, <1>13, <2>4 DEF InTurnOn
  <2>6. Asked(d, q)' \/ Told(d, q)' => ~HasTask(worker[d], q, Toggles \cup {"read"})
    BY <1>6, <1>8, <1>9, <1>13 DEF InTurnOn
  <2>7. ASSUME NEW j \in 1..Len(answers'[d]), NEW k \in 1..Len(answers'[d]),
               answers'[d][j].id = q, answers'[d][k].id = q
        PROVE  j = k
    <3>1. CASE q = p
      <4>1. ~Told(d, p)
        BY <1>9, <1>13, <3>1 DEF InTurnOn
      <4>2. QED
        BY <1>1, <1>5, <2>7, <3>1, <4>1 DEF Told
    <3>2. CASE q # p
      BY <1>1, <1>4, <1>5, <1>13, <2>7, <3>2 DEF InTurnOn
    <3>3. QED
      BY <3>1, <3>2
  <2>8. QED
    BY <1>1, <1>13, <2>3, <2>5, <2>6, <2>7 DEF InTurnOn
<1>14. ASSUME NEW e \in Devices, NEW q, e # d, InTurnOn(e, q) PROVE InTurnOn(e, q)'
  BY <1>2, <1>10, <1>14 DEF InTurnOn
<1>15. ASSUME NEW e \in Devices, NEW j \in 1..Len(answers'[e])
       PROVE  \/ e = d /\ answers'[e][j] = a
              \/ \E k \in 1..Len(answers[e]) : answers[e][k] = answers'[e][j]
  BY <1>1, <1>2, <1>5, <1>15
<1>16. QED
  BY <1>1, <1>12, <1>13, <1>14, <1>15

\* A read is answered, by the server or from disk.
LEMMA ServeLike ==
    ASSUME LikeInv, NEW d \in Devices, Serve(d) \/ ServeOffline(d)
    PROVE  LikeInv'
<1>1. /\ docs' = docs /\ lane' = lane /\ worker' = worker /\ done' = done /\ owner' = owner
      /\ rows' = rows /\ odd' = odd /\ deleted' = deleted
  BY DEF Serve, ServeOffline, sdk, history
<1>2. PostInv /\ TypeOK /\ PostInv' /\ TypeOK'
  BY ServePost DEF LikeInv, PostInv
<1>3. PICK i \in 1..Len(reads[d]), seen \in Seen :
         /\ reads[d][i] \in Ids
         /\ Answer(d, i, seen)
         /\ \/ /\ Serve(d)
               /\ seen = SeenBy(owner[d], Overlay(d, reads[d][i], docs[reads[d][i]]))
               /\ cache' = [cache EXCEPT ![d][reads[d][i]] = docs[reads[d][i]]]
               /\ blurred' = blurred
            \/ /\ ServeOffline(d)
               /\ seen = IF Overlay(d, reads[d][i], cache[d][reads[d][i]]) = NoDoc
                         THEN "unreachable"
                         ELSE SeenBy(owner[d], Overlay(d, reads[d][i], cache[d][reads[d][i]]))
               /\ cache' = cache
               /\ blurred' = IF \/ Overlay(d, reads[d][i], cache[d][reads[d][i]]) = NoDoc
                                \/ DevicesOf(owner[d]) # {d}
                             THEN blurred \cup {<<owner[d], reads[d][i]>>} ELSE blurred
  BY <1>2, ServeEffect
<1>4. PICK p \in Ids : p = reads[d][i]
  BY <1>3
<1>5. Onward
  BY <1>1, <1>3 DEF Onward
<1>6. /\ \A e \in Devices : \A q : Reading(e, q)' <=> Reading(e, q)
      /\ \A e \in Devices : \A q : InTurnOn(e, q) => InTurnOn(e, q)'
      /\ \A e \in Devices : \A j \in 1..Len(answers'[e]) :
            \/ e = d /\ answers'[e][j] = [id |-> p, seen |-> seen]
            \/ \E k \in 1..Len(answers[e]) : answers[e][k] = answers'[e][j]
  BY <1>1, <1>2, <1>3, <1>4, ServeReads
<1>7. \A e \in Devices : \A q : /\ \A K : Has(e, q, K)' <=> Has(e, q, K)
                                /\ Active(e, q)' <=> Active(e, q)
                                /\ Wish(e, q)' <=> Wish(e, q)
  BY <1>1, <1>6 DEF Has, Active, Wish
<1>8. /\ \A e \in Devices, q \in Ids : ~(e = d /\ q = p) => cache'[e][q] = cache[e][q]
      /\ cache'[d][p] = cache[d][p] \/ cache'[d][p] = docs[p]
  <2>1. cache \in [Devices -> [Ids -> Doc \cup {NoDoc}]]
    BY <1>2 DEF TypeOK
  <2>2. cache' = cache \/ cache' = [cache EXCEPT ![d][p] = docs[p]]
    BY <1>3, <1>4
  <2>3. QED
    BY <2>1, <2>2
<1>9. OneBusy'
  BY <1>5, <1>7, KeepBusy
<1>10. OneRead'
  BY <1>5, <1>6, ClearBefore DEF LikeInv, TapInv, OneRead
<1>11. Steady
  <2>1. \A u, q : Liked(u, q)' <=> Liked(u, q)
    BY <1>1 DEF Liked
  <2>2. QED
    BY <1>2, <1>5, <1>7, <2>1, SteadyStep
<1>12. Parity'
  BY <1>1, <1>5, <1>6, <1>11, KeepParity
<1>13. StillComing'
  <2>1. SUFFICES ASSUME NEW q \in Ids \ deleted, NEW e \in Devices
                 PROVE  /\ docs[q] = NoDoc =>
                              /\ cache'[e][q] = NoDoc
                              /\ Active(e, q) \/ <<q, TRUE>> \in rows[e] => Has(e, q, {"create"})
                        /\ cache'[e][q] = NoDoc /\ Has(e, q, {"name"}) => Has(e, q, {"create"})
    BY <1>1, <1>7 DEF StillComing
  <2>2. /\ docs[q] = NoDoc => /\ cache[e][q] = NoDoc
                              /\ Active(e, q) \/ <<q, TRUE>> \in rows[e] => Has(e, q, {"create"})
        /\ cache[e][q] = NoDoc /\ Has(e, q, {"name"}) => Has(e, q, {"create"})
    BY DEF LikeInv, TapInv, StillComing
  <2>3. cache'[e][q] = cache[e][q] \/ cache'[e][q] = docs[q]
    BY <1>8
  <2>4. QED
    BY <2>2, <2>3
<1>14. \A e \in Devices, q \in Ids : Clear(owner[e], q)' => ClearNext(owner[e], q) /\ Clear(owner[e], q)
  BY <1>5, ClearBefore
<1>15. LaneInv'
  <2>1. Authored'
    <3>1. \A q \in Ids \ deleted, e \in Devices : cache'[e][q] # NoDoc => cache'[e][q].author # NoUser
      BY <1>8 DEF LikeInv, LaneInv, Authored
    <3>2. QED
      BY <1>1, <3>1 DEF LikeInv, LaneInv, Authored
  <2>2. Arrived'
    BY <1>1 DEF LikeInv, LaneInv, Arrived
  <2>3. CommittedToggles' /\ NoLikeYet'
    BY <1>1, <1>14 DEF LikeInv, LaneInv, CommittedToggles, NoLikeYet
  <2>4. CacheAgrees'
    <3>1. SUFFICES ASSUME NEW e \in Devices, NEW q \in Ids, Clear(owner[e], q),
                          DevicesOf(owner[e]) = {e}, cache'[e][q] # NoDoc,
                          ~HasTask(lane[e], q, Toggles)
                   PROVE  owner[e] \in cache'[e][q].likes <=> owner[e] \in docs[q].likes
      BY <1>1, <1>14 DEF CacheAgrees, DevicesOf
    <3>2. cache'[e][q] = cache[e][q] \/ cache'[e][q] = docs[q]
      BY <1>8
    <3>3. QED
      BY <3>1, <3>2 DEF LikeInv, LaneInv, CacheAgrees
  <2>5. QED
    BY <2>1, <2>2, <2>3, <2>4 DEF LaneInv
<1>16. Answered'
  <2>1. SUFFICES ASSUME NEW e \in Devices, NEW q \in Ids, ClearNext(owner[e], q), Clear(owner[e], q),
                        NEW j \in 1..Len(answers'[e]), answers'[e][j].id = q
                 PROVE  /\ answers'[e][j].seen \in {"gone", "liked", "plain"}
                        /\ answers'[e][j].seen = "liked" => WillLike(owner[e], q)'
                        /\ answers'[e][j].seen = "plain" => ~WillLike(owner[e], q)'
    BY <1>1, <1>14 DEF Answered
  <2>2. WillLike(owner[e], q)' <=> WillLike(owner[e], q)
    BY <1>1, <1>11, <2>1 DEF Steady, ClearNext
  <2>3. CASE \E k \in 1..Len(answers[e]) : answers[e][k] = answers'[e][j]
    BY <2>1, <2>2, <2>3 DEF LikeInv, TapInv, Answered
  <2>4. CASE e = d /\ answers'[e][j] = [id |-> p, seen |-> seen]
    <3>1. q = p /\ answers'[e][j].seen = seen
      BY <2>1, <2>4
    <3>2. Asked(d, p) /\ Clear(owner[d], p) /\ <<owner[d], p>> \notin blurred'
      BY <1>3, <1>4, <2>1, <2>4, <3>1 DEF Asked, ClearNext
    <3>3. ASSUME NEW doc, doc = docs[p] \/ (doc = cache[d][p] /\ DevicesOf(owner[d]) = {d}),
                 seen = SeenBy(owner[d], Overlay(d, p, doc))
          PROVE  /\ seen \in {"gone", "liked", "plain"}
                 /\ seen = "liked" => WillLike(owner[d], p)
                 /\ seen = "plain" => ~WillLike(owner[d], p)
      <4>1. CASE Overlay(d, p, doc) = NoDoc
        BY <3>3, <4>1 DEF SeenBy
      <4>2. CASE Overlay(d, p, doc) # NoDoc
        <5>1. /\ Overlay(d, p, doc).author # NoUser
              /\ owner[d] \in Overlay(d, p, doc).likes <=> WillLike(owner[d], p)
          BY <3>2, <3>3, <4>2, SeenIsTrue
        <5>2. QED
          BY <3>3, <4>2, <5>1 DEF SeenBy
      <4>3. QED
        BY <4>1, <4>2
    <3>4. \/ seen = SeenBy(owner[d], Overlay(d, p, docs[p]))
          \/ seen = SeenBy(owner[d], Overlay(d, p, cache[d][p])) /\ DevicesOf(owner[d]) = {d}
      BY <1>3, <1>4, <3>2
    <3>5. /\ seen \in {"gone", "liked", "plain"}
          /\ seen = "liked" => WillLike(owner[d], p)
          /\ seen = "plain" => ~WillLike(owner[d], p)
      BY <3>3, <3>4
    <3>6. QED
      BY <2>2, <2>4, <3>1, <3>5
  <2>5. QED
    BY <1>6, <2>3, <2>4
<1>17. QED
  BY <1>2, <1>9, <1>10, <1>12, <1>13, <1>15, <1>16 DEF LikeInv, TapInv

\* What likePost decides on, as tasks.
LEMMA ToggleTasks ==
    ASSUME NEW a, a.id \in Ids
    PROVE  /\ Toggle(a) \in Seq(Task) /\ Len(Toggle(a)) <= 1
           /\ \A q, K : HasTask(Toggle(a), q, K) <=>
                 q = a.id /\ ((a.seen = "plain" /\ "like" \in K) \/ (a.seen = "liked" /\ "unlike" \in K))
           /\ \A q : LikesLast(Toggle(a), q) <=> q = a.id /\ a.seen = "plain"
<1> DEFINE x == [kind |-> "like", id |-> a.id]
           y == [kind |-> "unlike", id |-> a.id]
<1>1. x \in Task /\ x.kind = "like" /\ x.id = a.id /\ y \in Task /\ y.kind = "unlike" /\ y.id = a.id
  BY DEF Task, Kinds
<1>2. CASE a.seen = "plain"
  <2>1. Toggle(a) = <<x>>
    BY <1>2 DEF Toggle
  <2> HIDE DEF x, y
  <2>2. <<x>> \in Seq(Task) /\ Len(<<x>>) <= 1
    BY <1>1
  <2>3. \A q, K : HasTask(<<x>>, q, K) <=> q = a.id /\ "like" \in K
    <3>1. \A q, K : HasTask(<<x>>, q, K) <=> x.id = q /\ x.kind \in K
      BY HasFew
    <3>2. QED
      BY <1>1, <3>1
  <2>4. \A q : LikesLast(<<x>>, q) <=> q = a.id
    <3>1. \A q : LikesLast(<<x>>, q) <=> x.id = q /\ x.kind = "like"
      BY LikesFew
    <3>2. QED
      BY <1>1, <3>1
  <2>5. QED
    BY <1>2, <2>1, <2>2, <2>3, <2>4
<1>3. CASE a.seen = "liked"
  <2>1. Toggle(a) = <<y>>
    BY <1>3 DEF Toggle
  <2> HIDE DEF x, y
  <2>2. <<y>> \in Seq(Task) /\ Len(<<y>>) <= 1
    BY <1>1
  <2>3. \A q, K : HasTask(<<y>>, q, K) <=> q = a.id /\ "unlike" \in K
    <3>1. \A q, K : HasTask(<<y>>, q, K) <=> y.id = q /\ y.kind \in K
      BY HasFew
    <3>2. QED
      BY <1>1, <3>1
  <2>4. \A q : ~LikesLast(<<y>>, q)
    <3>1. \A q : LikesLast(<<y>>, q) <=> y.id = q /\ y.kind = "like"
      BY LikesFew
    <3>2. QED
      BY <1>1, <3>1
  <2>5. QED
    BY <1>3, <2>1, <2>2, <2>3, <2>4
<1>4. CASE a.seen \notin {"plain", "liked"}
  <2>1. Toggle(a) = <<>>
    BY <1>4 DEF Toggle
  <2>2. \A q, K : ~HasTask(<<>>, q, K) /\ ~LikesLast(<<>>, q)
    BY HasFew, LikesFew
  <2>3. QED
    BY <1>4, <2>1, <2>2
<1>5. QED
  BY <1>2, <1>3, <1>4

\* A callback toggles the like.
LEMMA CallbackLike ==
    ASSUME LikeInv, NEW d \in Devices, Callback(d)
    PROVE  LikeInv'
<1>1. PICK a, p, u, t : a = Head(answers[d]) /\ p = a.id /\ u = owner[d] /\ t = Toggle(a)
  OBVIOUS
<1>2. /\ lane' = lane /\ done' = done /\ docs' = docs /\ owner' = owner /\ cache' = cache
      /\ rows' = rows /\ reads' = reads /\ odd' = odd /\ deleted' = deleted /\ blurred' = blurred
      /\ answers[d] # <<>> /\ a.seen # "gone" /\ Give(d, t)
      /\ answers' = [answers EXCEPT ![d] = Tail(@)]
  BY <1>1 DEF Callback, history
<1>3. PostInv /\ TypeOK /\ PostInv' /\ TypeOK' /\ Onward
  BY <1>2, CallbackPost DEF LikeInv, PostInv, Onward
<1>4. /\ answers[d] \in Seq([id : Ids, seen : Seen])
      /\ \A e \in Devices : e # d => answers'[e] = answers[e]
      /\ answers'[d] = Tail(answers[d])
  BY <1>2, <1>3 DEF TypeOK
<1>5. /\ 1 \in 1..Len(answers[d]) /\ answers[d][1] = a /\ p \in Ids /\ u \in Users
      /\ \A j \in 1..Len(answers'[d]) : j + 1 \in 1..Len(answers[d]) /\ answers'[d][j] = answers[d][j + 1]
      /\ \A j \in 1..Len(answers[d]) : j = 1 \/ (j - 1 \in 1..Len(answers'[d]) /\ answers'[d][j - 1] = answers[d][j])
  <2> DEFINE s == answers[d]
             v == answers'[d]
  <2>1. /\ Len(v) = Len(s) - 1 /\ Len(s) \in Nat /\ Len(s) >= 1
        /\ \A j \in 1..Len(v) : v[j] = s[j + 1]
        /\ a = s[1] /\ a \in [id : Ids, seen : Seen]
    <3> DEFINE A == [id : Ids, seen : Seen]
    <3>1. s \in Seq(A) /\ s # <<>> /\ v = Tail(s) /\ a = Head(s)
      BY <1>1, <1>2, <1>4
    <3> HIDE DEF A, s, v
    <3>2. /\ Len(v) = Len(s) - 1 /\ \A j \in 1..Len(v) : v[j] = s[j + 1]
          /\ a = s[1] /\ a \in A
      BY <3>1, HeadTailProperties
    <3>3. Len(s) \in Nat /\ Len(s) >= 1
      BY <3>1
    <3>4. QED
      BY <3>2, <3>3 DEF A
  <2>2. p \in Ids /\ u \in Users
    BY <1>1, <1>3, <2>1 DEF TypeOK
  <2> HIDE DEF s, v
  <2>3. /\ 1 \in 1..Len(s)
        /\ \A j \in 1..Len(v) : j + 1 \in 1..Len(s)
        /\ \A j \in 1..Len(s) : j = 1 \/ (j - 1 \in 1..Len(v) /\ (j - 1) + 1 = j)
    BY <2>1
  <2>4. QED
    BY <2>1, <2>2, <2>3 DEF s, v
<1>6. up[d]
  <2>1. answers[d] # <<>>
    BY <1>2
  <2>2. QED
    BY <1>3, <2>1 DEF TypeOK
<1>7. /\ t \in Seq(Task) /\ Len(t) <= 1
      /\ \A q, K : HasTask(t, q, K) <=>
            q = p /\ ((a.seen = "plain" /\ "like" \in K) \/ (a.seen = "liked" /\ "unlike" \in K))
      /\ \A q : LikesLast(t, q) <=> q = p /\ a.seen = "plain"
  BY <1>1, <1>5, ToggleTasks
<1>8. \A e \in Devices : \A q, K :
          /\ HasTask(worker'[e], q, K) <=> HasTask(worker[e], q, K) \/ (e = d /\ HasTask(t, q, K))
          /\ Has(e, q, K)' <=> Has(e, q, K) \/ (e = d /\ HasTask(t, q, K))
  BY <1>2, <1>3, <1>6, <1>7, GiveHas, GiveQueues
<1>9. \A e \in Devices : \A q : /\ HasTask(worker'[e], q, {"read"}) <=> HasTask(worker[e], q, {"read"})
                                /\ Has(e, q, {"create"})' <=> Has(e, q, {"create"})
                                /\ Has(e, q, {"name"})' <=> Has(e, q, {"name"})
                                /\ Has(e, q, Toggles)' => Has(e, q, Toggles) \/ (e = d /\ q = p)
                                /\ ~(e = d /\ q = p) => (Has(e, q, Toggles)' <=> Has(e, q, Toggles))
  BY <1>7, <1>8
<1>10. \A e \in Devices : \A q : /\ Asked(e, q)' <=> Asked(e, q)
                                 /\ Told(e, q)' => Told(e, q)
                                 /\ ~(e = d /\ q = p) => (Told(e, q)' <=> Told(e, q))
  <2>1. \A q : /\ Told(d, q)' => Told(d, q)
               /\ q # p => (Told(d, q)' <=> Told(d, q))
    <3>1. \A q : Told(d, q)' => Told(d, q)
      BY <1>5 DEF Told
    <3>2. \A q : q # p /\ Told(d, q) => Told(d, q)'
      BY <1>1, <1>5 DEF Told
    <3>3. QED
      BY <3>1, <3>2
  <2>2. \A e \in Devices : \A q : e # d => (Told(e, q)' <=> Told(e, q))
    BY <1>4 DEF Told
  <2>3. \A e \in Devices : \A q : Asked(e, q)' <=> Asked(e, q)
    BY <1>2 DEF Asked
  <2>4. QED
    BY <2>1, <2>2, <2>3
<1>11. \A e \in Devices : \A q :
           /\ Reading(e, q) <=> HasTask(worker[e], q, {"read"}) \/ Asked(e, q) \/ Told(e, q)
           /\ Reading(e, q)' <=> HasTask(worker'[e], q, {"read"}) \/ Asked(e, q)' \/ Told(e, q)'
  BY DEF Told, Reading, Asked
<1>12. \A e \in Devices : \A q : /\ Reading(e, q)' => Reading(e, q)
                                 /\ ~(e = d /\ q = p) => (Reading(e, q)' <=> Reading(e, q))
  BY <1>9, <1>10, <1>11
<1>13. Told(d, p) /\ Reading(d, p) /\ Active(d, p)
  BY <1>1, <1>5 DEF Told, Reading, Active
<1>14. \A e \in Devices : \A q : Active(e, q)' => Active(e, q)
  BY <1>9, <1>12, <1>13 DEF Active
<1>15. LaneInv'
  <2>1. \A e \in Devices : done'[e] \in {0, done[e]}
    BY <1>2
  <2>2. QED
    BY <1>2, <1>3, <2>1, KeepLanes
<1>16. StillComing'
  BY <1>2, <1>3, <1>9, <1>14, KeepComing
<1>17. OneBusy'
  BY <1>3, <1>9, <1>14, KeepBusy
<1>18. ASSUME Clear(u, p)
       PROVE  /\ InTurnOn(d, p)
              /\ ~HasTask(worker[d], p, Toggles \cup {"read"}) /\ ~Asked(d, p)
              /\ ~Told(d, p)' /\ ~Reading(d, p)'
              /\ \A e \in Devices : e # d /\ owner[e] = u => ~Active(e, p) /\ ~Told(e, p) /\ ~Reading(e, p)'
              /\ (a.seen = "liked" /\ WillLike(u, p)) \/ (a.seen = "plain" /\ ~WillLike(u, p))
  <2>1. InTurnOn(d, p)
    BY <1>1, <1>5, <1>18 DEF LikeInv, TapInv, OneRead
  <2>2. ~HasTask(worker[d], p, Toggles \cup {"read"}) /\ ~Asked(d, p)
    BY <1>13, <2>1 DEF InTurnOn
  <2>3. ~Told(d, p)'
    <3>1. SUFFICES ASSUME NEW j \in 1..Len(answers'[d]), answers'[d][j].id = p PROVE FALSE
      BY DEF Told
    <3>2. j + 1 \in 1..Len(answers[d]) /\ answers[d][j + 1].id = p /\ answers[d][1].id = p
      BY <1>1, <1>5, <3>1
    <3>3. j + 1 = 1
      BY <1>5, <2>1, <3>2 DEF InTurnOn
    <3>4. QED
      BY <3>1, <3>3
  <2>4. ~HasTask(worker[d], p, {"read"})
    BY <2>2 DEF HasTask
  <2>5. ~Reading(d, p)'
    BY <1>9, <1>10, <1>11, <2>2, <2>3, <2>4
  <2>6. \A e \in Devices : e # d /\ owner[e] = u => ~Active(e, p)
    BY <1>1, <1>5, <1>13, <1>18 DEF LikeInv, TapInv, OneBusy
  <2>7. \A e \in Devices : ~Active(e, p) => ~Told(e, p) /\ ~Reading(e, p)'
    BY <1>11, <1>12 DEF Active
  <2>8. (a.seen = "liked" /\ WillLike(u, p)) \/ (a.seen = "plain" /\ ~WillLike(u, p))
    <3>1. \A k \in 1..Len(answers[d]) : answers[d][k].id = p =>
              /\ answers[d][k].seen \in {"gone", "liked", "plain"}
              /\ answers[d][k].seen = "liked" => WillLike(u, p)
              /\ answers[d][k].seen = "plain" => ~WillLike(u, p)
      BY <1>1, <1>5, <1>18 DEF LikeInv, TapInv, Answered
    <3>2. /\ a.seen \in {"gone", "liked", "plain"}
          /\ a.seen = "liked" => WillLike(u, p)
          /\ a.seen = "plain" => ~WillLike(u, p)
      BY <1>1, <1>5, <3>1
    <3>3. QED
      BY <1>2, <3>2
  <2>9. QED
    BY <2>1, <2>2, <2>3, <2>5, <2>6, <2>7, <2>8
<1>19. ASSUME Clear(u, p) PROVE WillLike(u, p)' <=> ~WillLike(u, p)
  <2>1. WillMeans'
    BY <1>3, WillIs, PTL
  <2>2. Has(d, p, Toggles)'
    BY <1>7, <1>8, <1>18, <1>19 DEF Toggles
  <2>3. \A e \in Devices : e # d /\ owner[e] = u => ~Has(e, p, Toggles)'
    BY <1>9, <1>18, <1>19 DEF Active
  <2>4. WillLike(u, p)' <=> \E e \in Devices : owner'[e] = u /\ Wish(e, p)'
    BY <1>1, <1>2, <2>1, <2>2 DEF WillMeans
  <2>5. WillLike(u, p)' <=> Wish(d, p)'
    BY <1>1, <1>2, <2>1, <2>3, <2>4 DEF WillMeans
  <2>6. /\ LikesLast(t, p) => Wish(d, p)'
        /\ HasTask(t, p, {"unlike"}) /\ ~LikesLast(t, p) => ~Wish(d, p)'
    BY <1>2, <1>3, <1>6, <1>7, GiveWish
  <2>7. QED
    BY <1>7, <1>18, <1>19, <2>5, <2>6
<1>20. ASSUME NEW v \in Users, NEW q \in Ids, ~(v = u /\ q = p)
       PROVE  WillLike(v, q)' <=> WillLike(v, q)
  <2>1. ASSUME NEW e \in Devices, owner[e] = v
        PROVE  /\ Wish(e, q)' <=> Wish(e, q)
               /\ Has(e, q, Toggles)' <=> Has(e, q, Toggles)
    <3>1. ~(e = d /\ q = p)
      BY <1>1, <1>20, <2>1
    <3>2. ~(e = d /\ HasTask(t, q, Toggles))
      BY <1>7, <3>1
    <3>3. Wish(e, q)' <=> Wish(e, q)
      BY <1>2, <1>3, <1>6, <1>7, <3>2, GiveWish
    <3>4. QED
      BY <1>9, <3>1, <3>3
  <2>2. Liked(v, q)' <=> Liked(v, q)
    BY <1>2 DEF Liked
  <2>3. QED
    BY <1>2, <1>3, <2>1, <2>2, WillSame
<1>21. \A v, q : ClearNext(v, q) => Clear(v, q)
  BY <1>3, ClearBefore
<1>22. Parity'
  <2>1. SUFFICES ASSUME NEW v \in Users, NEW q \in Ids, ClearNext(v, q)
                 PROVE  WillLike(v, q)' <=> (<<v, q>> \in odd <=> \A e \in DevicesOf(v) : ~Reading(e, q)')
    BY <1>2, <1>3, ClearBefore DEF Parity, DevicesOf
  <2>2. WillLike(v, q) <=> (<<v, q>> \in odd <=> \A e \in DevicesOf(v) : ~Reading(e, q))
    BY <1>21, <2>1 DEF LikeInv, TapInv, Parity
  <2>3. CASE v = u /\ q = p
    <3>1. ~\A e \in DevicesOf(v) : ~Reading(e, q)
      BY <1>1, <1>13, <2>3 DEF DevicesOf
    <3>2. \A e \in DevicesOf(v) : ~Reading(e, q)'
      BY <1>18, <1>21, <2>1, <2>3 DEF DevicesOf
    <3>3. WillLike(v, q)' <=> ~WillLike(v, q)
      BY <1>19, <1>21, <2>1, <2>3
    <3>4. QED
      BY <2>2, <3>1, <3>2, <3>3
  <2>4. CASE ~(v = u /\ q = p)
    <3>1. \A e \in DevicesOf(v) : Reading(e, q)' <=> Reading(e, q)
      BY <1>1, <1>12, <2>4 DEF DevicesOf
    <3>2. QED
      BY <1>20, <2>2, <2>4, <3>1
  <2>5. QED
    BY <2>3, <2>4
<1>23. Answered'
  <2>1. SUFFICES ASSUME NEW e \in Devices, NEW q \in Ids, ClearNext(owner[e], q), Clear(owner[e], q),
                        NEW j \in 1..Len(answers'[e]), answers'[e][j].id = q
                 PROVE  /\ answers'[e][j].seen \in {"gone", "liked", "plain"}
                        /\ answers'[e][j].seen = "liked" => WillLike(owner[e], q)'
                        /\ answers'[e][j].seen = "plain" => ~WillLike(owner[e], q)'
    BY <1>2, <1>3, <1>21, ClearBefore DEF Answered
  <2>2. Told(e, q)' /\ Told(e, q)
    BY <1>10, <2>1 DEF Told
  <2>3. ~(owner[e] = u /\ q = p)
    BY <1>18, <2>1, <2>2
  <2>4. WillLike(owner[e], q)' <=> WillLike(owner[e], q)
    BY <1>2, <1>20, <2>1, <2>3 DEF Clear
  <2>5. \E k \in 1..Len(answers[e]) : answers[e][k] = answers'[e][j]
    <3>1. CASE e = d
      BY <1>5, <2>1, <3>1
    <3>2. CASE e # d
      BY <1>4, <2>1, <3>2
    <3>3. QED
      BY <3>1, <3>2
  <2>6. QED
    BY <2>1, <2>4, <2>5 DEF LikeInv, TapInv, Answered
<1>24. OneRead'
  <2>1. SUFFICES ASSUME NEW e \in Devices, NEW q \in Ids, ClearNext(owner[e], q), Clear(owner[e], q)
                 PROVE  InTurnOn(e, q)'
    BY <1>3, <1>21, ClearBefore DEF OneRead
  <2>2. InTurnOn(e, q)
    BY <2>1 DEF LikeInv, TapInv, OneRead
  <2>3. CASE e = d
    <3>1. worker'[d] = worker[d] \o t /\ worker[d] \in Seq(Task)
      BY <1>2, <1>3, <1>6, <1>7, GiveType, LanesAreTasks
    <3>2. InTurn(t, q)
      BY <1>7 DEF InTurn
    <3>3. ~HasTask(worker[d], q, {"read"}) \/ ~HasTask(t, q, Toggles \cup {"read"})
      <4>1. CASE q = p
        BY <1>1, <1>18, <2>1, <2>3, <4>1 DEF HasTask
      <4>2. CASE q # p
        BY <1>7, <4>2
      <4>3. QED
        BY <4>1, <4>2
    <3>4. InTurn(worker'[d], q)
      BY <1>7, <2>2, <2>3, <3>1, <3>2, <3>3, InTurnJoined DEF InTurnOn
    <3>5. Asked(d, q)' \/ Told(d, q)' => ~HasTask(worker'[d], q, Toggles \cup {"read"})
      <4>1. CASE q = p
        BY <1>1, <1>10, <1>18, <2>1, <2>3, <4>1
      <4>2. CASE q # p
        <5>1. ~HasTask(t, q, Toggles \cup {"read"})
          BY <1>7, <4>2
        <5>2. HasTask(worker'[d], q, Toggles \cup {"read"}) <=> HasTask(worker[d], q, Toggles \cup {"read"})
          BY <1>8, <5>1
        <5>3. QED
          BY <1>10, <2>2, <2>3, <5>2 DEF InTurnOn
      <4>3. QED
        BY <4>1, <4>2
    <3>6. \A i, j \in 1..Len(answers'[d]) : answers'[d][i].id = q /\ answers'[d][j].id = q => i = j
      <4>1. SUFFICES ASSUME NEW i \in 1..Len(answers'[d]), NEW j \in 1..Len(answers'[d]),
                            answers'[d][i].id = q, answers'[d][j].id = q
                     PROVE  i = j
        OBVIOUS
      <4>2. i + 1 = j + 1
        <5>1. /\ i + 1 \in 1..Len(answers[d]) /\ answers[d][i + 1].id = q
              /\ j + 1 \in 1..Len(answers[d]) /\ answers[d][j + 1].id = q
          BY <1>5, <4>1
        <5>2. QED
          BY <2>2, <2>3, <5>1 DEF InTurnOn
      <4>3. QED
        BY <4>1, <4>2
    <3>7. Asked(d, q)' => ~Told(d, q)'
      BY <1>10, <2>2, <2>3 DEF InTurnOn
    <3>8. QED
      BY <1>2, <2>2, <2>3, <3>4, <3>5, <3>6, <3>7 DEF InTurnOn
  <2>4. CASE e # d
    <3>1. worker'[e] = worker[e] /\ answers'[e] = answers[e]
      BY <1>2, <1>3, <1>4, <1>6, <1>7, <2>4, GiveType
    <3>2. QED
      BY <1>2, <2>2, <3>1 DEF InTurnOn, Asked, Told
  <2>5. QED
    BY <2>3, <2>4
<1>25. QED
  BY <1>3, <1>15, <1>16, <1>17, <1>22, <1>23, <1>24 DEF LikeInv, TapInv

\* Every step preserves the invariant.
LEMMA LikeStep ==
    ASSUME LikeInv, [Next]_vars
    PROVE  LikeInv'
<1>1. CASE UNCHANGED vars
  <2>1. /\ lane' = lane /\ worker' = worker /\ docs' = docs /\ cache' = cache
        /\ reads' = reads /\ answers' = answers /\ rows' = rows /\ owner' = owner
        /\ odd' = odd /\ blurred' = blurred /\ deleted' = deleted /\ done' = done
    BY <1>1 DEF vars
  <2>2. PostInv'
    BY PostStep DEF LikeInv
  <2>3. QED
    BY <2>1, <2>2, QuietLike
<1>2. CASE Next
  <2>1. PICK d \in Devices :
           \/ WritePost(d) \/ Show(d) \/ TapLike(d) \/ TapDelete(d)
           \/ Kill(d) \/ TapUnnamed(d) \/ CallbackTraps(d)
           \/ Launch(d) \/ Work(d) \/ Commit(d) \/ Ack(d) \/ Refuse(d) \/ Break(d)
           \/ Serve(d) \/ ServeOffline(d) \/ Callback(d)
    BY <1>2 DEF Next
  <2>2. Kill(d) \/ TapUnnamed(d) \/ CallbackTraps(d) => Die(d)
    BY DEF Kill, TapUnnamed, CallbackTraps
  <2>3. CASE Break(d) \/ Launch(d)
    <3>1. /\ lane' = lane /\ worker' = worker /\ docs' = docs /\ cache' = cache
          /\ reads' = reads /\ answers' = answers /\ rows' = rows /\ owner' = owner
          /\ odd' = odd /\ blurred' = blurred /\ deleted' = deleted
      BY <2>3 DEF Break, Launch, sdk, liking, history
    <3>2. \A e \in Devices : done'[e] \in {0, done[e]}
      <4>1. done' = done \/ done' = [done EXCEPT ![d] = 0]
        BY <2>3 DEF Break, Launch, sdk
      <4>2. QED
        BY <4>1 DEF LikeInv, PostInv, TypeOK
    <3>3. PostInv'
      BY PostStep DEF LikeInv
    <3>4. QED
      BY <3>1, <3>2, <3>3, QuietLike
  <2>4. QED
    BY <2>1, <2>2, <2>3, WritePostLike, ShowLike, TapLikeLike, TapDeleteLike, DieLike, WorkLike,
       CommitLike, PopLike, ServeLike, CallbackLike
<1>3. QED
  BY <1>1, <1>2

\* It holds at the start.
LEMMA LikeInit == Init => LikeInv
<1> SUFFICES ASSUME Init PROVE LikeInv
  OBVIOUS
<1>1. PostInv /\ TypeOK
  BY PostInit DEF PostInv
<1>2. /\ \A d \in Devices : /\ worker[d] = <<>> /\ lane[d] = <<>> /\ done[d] = 0
                            /\ reads[d] = <<>> /\ answers[d] = <<>> /\ rows[d] = {}
                            /\ owner[d] \in Users
      /\ \A p \in Ids : docs[p] = NoDoc /\ \A d \in Devices : cache[d][p] = NoDoc
      /\ odd = {}
  BY DEF Init
<1>3. \A d \in Devices : \A p : /\ \A K : ~Has(d, p, K)
                                /\ ~Asked(d, p) /\ ~Told(d, p) /\ ~Reading(d, p) /\ ~Active(d, p)
  <2>1. \A p, K : ~HasTask(<<>>, p, K)
    BY HasFew
  <2>2. \A d \in Devices : \A p, K : ~HasTask(worker[d], p, K) /\ ~HasTask(lane[d], p, K)
    BY <1>2, <2>1
  <2>3. \A d \in Devices : \A p : ~Asked(d, p) /\ ~Told(d, p)
    BY <1>2 DEF Asked, Told
  <2>4. \A d \in Devices : \A p : ~Reading(d, p)
    BY <2>2, <2>3 DEF Reading, Asked, Told
  <2>5. QED
    BY <2>2, <2>3, <2>4 DEF Has, Active
<1>4. LaneInv
  BY <1>2 DEF LaneInv, Authored, Arrived, CommittedToggles, NoLikeYet, CacheAgrees
<1>5. StillComing /\ OneBusy
  BY <1>2, <1>3 DEF StillComing, OneBusy
<1>6. OneRead
  BY <1>2, <1>3 DEF OneRead, InTurnOn, InTurn
<1>7. Answered
  BY <1>2 DEF Answered
<1>8. Parity
  <2>1. WillMeans
    BY <1>1, WillIs
  <2>2. \A u \in Users, p \in Ids : ~Liked(u, p)
    BY <1>2 DEF Liked
  <2>3. \A u \in Users, p \in Ids : ~WillLike(u, p)
    BY <1>3, <2>1, <2>2 DEF WillMeans
  <2>4. QED
    BY <1>2, <1>3, <2>3 DEF Parity, DevicesOf
<1>9. QED
  BY <1>1, <1>4, <1>5, <1>6, <1>7, <1>8 DEF LikeInv, TapInv

\* likePost decides by a document it read earlier.  Still, for taps that did
\* not overlap and were not lost, the account ends up among the likes exactly
\* when it tapped an odd number of times, whatever the streams, the caches and
\* the other phones do.
THEOREM TapsCount == Spec => []TogglesCount
<1>1. LikeInv => TogglesCount
  <2>1. SUFFICES ASSUME LikeInv, NEW u \in Users, NEW p \in Ids \ deleted,
                        <<u, p>> \notin blurred, \A d \in DevicesOf(u) : ~Reading(d, p)
                 PROVE  WillLike(u, p) <=> <<u, p>> \in odd
    BY DEF TogglesCount
  <2>2. Clear(u, p)
    BY <2>1 DEF Clear
  <2>3. QED
    BY <2>1, <2>2 DEF LikeInv, TapInv, Parity
<1>2. QED
  BY <1>1, LikeInit, LikeStep, PTL DEF Spec

=============================================================================
