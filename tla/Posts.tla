------------------------------- MODULE Posts -------------------------------
(***************************************************************************)
(* Posts and likes: PostsManager.createPost, likePost and deletePost, the  *)
(* tables that show posts (feed, profile, another user's profile) and the  *)
(* path of each write from the phone to the server.                        *)
(*                                                                         *)
(* Three things in this code are not atomic.  A post is written twice: the *)
(* document first, with an empty "id", then its own id into it.  A like is *)
(* a toggle that reads the document, waits for the answer and then adds or *)
(* removes the account.  And the table a tap lands on is older than the    *)
(* documents it shows.                                                     *)
(*                                                                         *)
(* On each phone the SDK runs one serial queue of tasks ("worker", lost    *)
(* with the process) that feeds a queue of writes on disk ("lane", sent in *)
(* order, resent after a broken stream).  A read is answered by the server *)
(* or, offline, by the documents on disk ("cache"), always under the       *)
(* phone's own waiting writes.                                             *)
(***************************************************************************)
EXTENDS Naturals, Sequences

CONSTANTS Users,    \* accounts
          Devices,  \* phones, each signed in to one account for good
          Ids,      \* document ids the SDK draws for new posts
          NoUser,   \* a document without "userId"
          NoDoc,    \* no document
          Faults,   \* which of AllFaults the environment may produce
          MaxTaps   \* bound of the model: taps that write

AllFaults == {"crash", "break", "offline"}
Kinds == {"create", "name", "like", "unlike", "delete"}
Write == [kind : Kinds, id : Ids]
Task == [kind : Kinds \cup {"read"}, id : Ids]
Doc == [named : BOOLEAN, author : Users \cup {NoUser}, likes : SUBSET Users]
Seen == {"gone", "bad", "liked", "plain", "unreachable"}

ASSUME PostsAssumption ==
    /\ NoUser \notin Users
    /\ NoDoc \notin Doc
    /\ Faults \subseteq AllFaults
    /\ MaxTaps \in Nat

VARIABLES
    owner,      \* owner[d]: the account signed in on d
    docs,       \* server: docs[p], the document of post p
    cache,      \* cache[d][p]: the document as d last saw it, on disk
    up,         \* up[d]: the app runs on d
    worker,     \* worker[d]: tasks given to the SDK and not yet run
    lane,       \* lane[d]: writes on disk and not yet acknowledged
    done,       \* done[d]: how many of them the server has committed
    reads,      \* reads[d]: posts whose document likePost is waiting for
    answers,    \* answers[d]: callbacks of likePost on the main queue
    rows,       \* rows[d]: <<post, its id is filled in>> as the tables show it
    by,         \* by[p]: who wrote p, NoUser while p is not in use
    taps,       \* taps so far (bounded by MaxTaps)
    odd,        \* history: <<u, p>> such that u tapped p's like an odd number of times
    blurred,    \* history: <<u, p>> whose taps overlapped or were lost
    deleted,    \* history: posts somebody deleted
    contested,  \* history: deleted while another phone could still write them, or in vain
    torn        \* history: posts whose second write a crash took

sdk == <<worker, lane, done>>
liking == <<reads, answers>>
history == <<odd, blurred, deleted, contested, torn>>
vars == <<owner, docs, cache, up, worker, lane, done, reads, answers, rows, by, taps,
          odd, blurred, deleted, contested, torn>>

-----------------------------------------------------------------------------
(* Documents.                                                              *)

Readable(doc) == doc # NoDoc /\ doc.author # NoUser

\* What a write of account u makes of a document: set, merge, array
\* transforms (which need the document) and delete.
Apply(doc, kind, u) ==
    CASE kind = "create" -> [named |-> FALSE, author |-> u, likes |-> {}]
      [] kind = "name"   -> IF doc = NoDoc
                            THEN [named |-> TRUE, author |-> NoUser, likes |-> {}]
                            ELSE [doc EXCEPT !.named = TRUE]
      [] kind = "like"   -> IF doc = NoDoc THEN NoDoc
                            ELSE [doc EXCEPT !.likes = @ \cup {u}]
      [] kind = "unlike" -> IF doc = NoDoc THEN NoDoc
                            ELSE [doc EXCEPT !.likes = @ \ {u}]
      [] kind = "delete" -> NoDoc

\* The server refuses an update of a document that does not exist.
Allowed(w) == w.kind \in {"like", "unlike"} => docs[w.id] # NoDoc

\* A document with the writes of account u in s laid over it, in order.
After(s, u, p, doc) ==
    LET v[i \in 0..Len(s)] ==
            IF i = 0 THEN doc
            ELSE IF s[i].id = p THEN Apply(v[i - 1], s[i].kind, u)
            ELSE v[i - 1]
    IN  v[Len(s)]

\* What a read on d makes of a document: d's own writes laid over it.
Overlay(d, p, doc) == After(lane[d], owner[d], p, doc)

\* The documents d can read now: the server's or, offline, those on disk.
Sources(d) == {docs} \cup (IF "offline" \in Faults THEN {cache[d]} ELSE {})

Queued(d) == lane[d] \o worker[d]
HasTask(s, p, kinds) == \E i \in 1..Len(s) : s[i].id = p /\ s[i].kind \in kinds

\* Somebody who taps u's like of p is still waiting for the document.
Reading(d, p) ==
    \/ HasTask(worker[d], p, {"read"})
    \/ \E i \in 1..Len(reads[d]) : reads[d][i] = p
    \/ \E i \in 1..Len(answers[d]) : answers[d][i].id = p

DevicesOf(u) == {d \in Devices : owner[d] = u}

-----------------------------------------------------------------------------
(* The screens.                                                            *)

\* Tasks join the SDK's serial worker queue.
Give(d, tasks) == worker' = [worker EXCEPT ![d] = @ \o tasks]

Tap == taps < MaxTaps /\ taps' = taps + 1

NameFirst(p) == << [kind |-> "name", id |-> p], [kind |-> "create", id |-> p] >>

\* The two writes of PostsManager.createPost.
CreateWrites(p) == << [kind |-> "create", id |-> p], [kind |-> "name", id |-> p] >>

\* WritePostViewController.postButtonTapped.
WritePost(d) ==
    /\ up[d]
    /\ Tap
    /\ \E p \in Ids :
          /\ by[p] = NoUser
          /\ by' = [by EXCEPT ![p] = owner[d]]
          /\ Give(d, CreateWrites(p))
    /\ UNCHANGED <<owner, docs, cache, up, lane, done, liking, rows, history>>

\* getFollowingPosts, getLoggedUserPosts, getPostsById: the queries run on
\* the worker queue, after every write given to the SDK before them.
Show(d) ==
    /\ up[d]
    /\ worker[d] = <<>>
    /\ \E source \in Sources(d) :
          LET seen == [p \in Ids |-> Overlay(d, p, source[p])]
          IN  /\ rows' = [rows EXCEPT ![d] =
                            {<<p, seen[p].named>> : p \in {q \in Ids : Readable(seen[q])}}]
              /\ cache' = [cache EXCEPT ![d] =
                            [p \in Ids |-> IF Readable(source[p]) THEN source[p] ELSE @[p]]]
    /\ UNCHANGED <<owner, docs, up, sdk, liking, by, taps, history>>

\* PostCell.likeButtonTapped, PostVC.likePostTapped.
TapLike(d) ==
    /\ up[d]
    /\ Tap
    /\ \E p \in Ids :
          LET pair == <<owner[d], p>>
              others == DevicesOf(owner[d]) \ {d}
          IN  /\ <<p, TRUE>> \in rows[d]
              /\ Give(d, <<[kind |-> "read", id |-> p]>>)
              /\ odd' = IF pair \in odd THEN odd \ {pair} ELSE odd \cup {pair}
              /\ blurred' =
                   IF \/ Reading(d, p)
                      \/ \E e \in others : \/ Reading(e, p)
                                           \/ HasTask(Queued(e), p, Kinds)
                   THEN blurred \cup {pair} ELSE blurred
    /\ UNCHANGED <<owner, docs, cache, up, lane, done, liking, rows, by, deleted, contested, torn>>

\* PostOptionsLauncher.delete.  The button that leads to it is hidden on other
\* people's posts only once their author has been loaded, so any row will do.
TapDelete(d) ==
    /\ up[d]
    /\ Tap
    /\ \E p \in Ids :
          /\ <<p, TRUE>> \in rows[d]
          /\ Give(d, <<[kind |-> "delete", id |-> p]>>)
          /\ deleted' = deleted \cup {p}
          /\ contested' = IF \E e \in Devices \ {d} : HasTask(Queued(e), p, {"create", "name"})
                          THEN contested \cup {p} ELSE contested
    /\ UNCHANGED <<owner, docs, cache, up, lane, done, liking, rows, by, odd, blurred, torn>>

-----------------------------------------------------------------------------
(* The process ends: killed, or stopped by a failed assertion.             *)

Lost(d, kinds) == {p \in Ids : HasTask(worker[d], p, kinds)}

\* Everything in memory is gone, the lane remains.
Die(d) ==
    /\ up' = [up EXCEPT ![d] = FALSE]
    /\ worker' = [worker EXCEPT ![d] = <<>>]
    /\ reads' = [reads EXCEPT ![d] = <<>>]
    /\ answers' = [answers EXCEPT ![d] = <<>>]
    /\ rows' = [rows EXCEPT ![d] = {}]
    /\ done' = [done EXCEPT ![d] = 0]
    /\ torn' = torn \cup {p \in Lost(d, {"name"}) : ~HasTask(worker[d], p, {"create"})}
    /\ contested' = contested \cup Lost(d, {"delete"})
    /\ blurred' = blurred \cup
          {<<owner[d], p>> : p \in {q \in Ids : Reading(d, q)} \cup Lost(d, {"like", "unlike"})}
    /\ UNCHANGED <<owner, docs, cache, lane, by, taps, odd, deleted>>

Kill(d) == "crash" \in Faults /\ up[d] /\ Die(d)

\* A like or a delete on a row without an id reaches document(""), which the
\* SDK refuses with a failed assertion.
TapUnnamed(d) ==
    /\ up[d]
    /\ \E p \in Ids : <<p, FALSE>> \in rows[d]
    /\ Die(d)

Launch(d) ==
    /\ ~up[d]
    /\ up' = [up EXCEPT ![d] = TRUE]
    /\ UNCHANGED <<owner, docs, cache, sdk, liking, rows, by, taps, history>>

-----------------------------------------------------------------------------
(* The SDK and the server.                                                 *)

WorkPrepends(d) ==
    /\ up[d]
    /\ worker[d] # <<>>
    /\ LET t == Head(worker[d])
       IN  IF t.kind = "read"
           THEN reads' = [reads EXCEPT ![d] = Append(@, t.id)] /\ lane' = lane
           ELSE lane' = [lane EXCEPT ![d] = <<t>> \o @] /\ reads' = reads
    /\ worker' = [worker EXCEPT ![d] = Tail(@)]
    /\ UNCHANGED <<owner, docs, cache, up, done, answers, rows, by, taps, history>>

\* The worker queue runs its next task: a write goes to disk, a read to the
\* server.
Work(d) ==
    /\ up[d]
    /\ worker[d] # <<>>
    /\ LET t == Head(worker[d])
       IN  IF t.kind = "read"
           THEN reads' = [reads EXCEPT ![d] = Append(@, t.id)] /\ lane' = lane
           ELSE lane' = [lane EXCEPT ![d] = Append(@, t)] /\ reads' = reads
    /\ worker' = [worker EXCEPT ![d] = Tail(@)]
    /\ UNCHANGED <<owner, docs, cache, up, done, answers, rows, by, taps, history>>

\* The server commits the next write of the pipeline.  Writing a document
\* anew (a resent "create") takes the likes it had.
Commit(d) ==
    /\ up[d]
    /\ done[d] < Len(lane[d])
    /\ LET w == lane[d][done[d] + 1]
       IN  /\ Allowed(w)
           /\ docs' = [docs EXCEPT ![w.id] = Apply(@, w.kind, owner[d])]
           /\ blurred' = IF w.kind = "create" /\ docs[w.id] # NoDoc
                         THEN blurred \cup {<<u, w.id>> : u \in docs[w.id].likes}
                         ELSE blurred
    /\ done' = [done EXCEPT ![d] = @ + 1]
    /\ UNCHANGED <<owner, cache, up, worker, lane, liking, rows, by, taps, odd, deleted, contested, torn>>

AckKeepsCount(d) ==
    /\ up[d]
    /\ done[d] > 0
    /\ lane' = [lane EXCEPT ![d] = Tail(@)]
    /\ LET w == lane[d][1]
       IN  cache' = [cache EXCEPT ![d][w.id] = Apply(@, w.kind, owner[d])]
    /\ UNCHANGED <<owner, docs, up, worker, done, liking, rows, by, taps, history>>

\* It acknowledges the first, whose effect moves to the documents on disk.
Ack(d) ==
    /\ up[d]
    /\ done[d] > 0
    /\ lane' = [lane EXCEPT ![d] = Tail(@)]
    /\ LET w == lane[d][1]
       IN  cache' = [cache EXCEPT ![d][w.id] = Apply(@, w.kind, owner[d])]
    /\ done' = [done EXCEPT ![d] = @ - 1]
    /\ UNCHANGED <<owner, docs, up, worker, liking, rows, by, taps, history>>

\* It refuses the first, which the SDK then drops.
Refuse(d) ==
    /\ up[d]
    /\ done[d] = 0
    /\ lane[d] # <<>>
    /\ ~Allowed(lane[d][1])
    /\ lane' = [lane EXCEPT ![d] = Tail(@)]
    /\ UNCHANGED <<owner, docs, cache, up, worker, done, liking, rows, by, taps, history>>

\* The write stream breaks: what is not acknowledged is sent again.
Break(d) ==
    /\ "break" \in Faults
    /\ done[d] > 0
    /\ done' = [done EXCEPT ![d] = 0]
    /\ UNCHANGED <<owner, docs, cache, up, worker, lane, liking, rows, by, taps, history>>

SeenBy(u, doc) ==
    IF doc = NoDoc THEN "gone"
    ELSE IF doc.author = NoUser THEN "bad"
    ELSE IF u \in doc.likes THEN "liked"
    ELSE "plain"

\* The first of the reads under way, or any other, leaves with answer "seen".
Answer(d, i, seen) ==
    /\ answers' = [answers EXCEPT ![d] = Append(@, [id |-> reads[d][i], seen |-> seen])]
    /\ reads' = [reads EXCEPT ![d] = SubSeq(@, 1, i - 1) \o SubSeq(@, i + 1, Len(@))]

\* The document likePost asked for comes from the server, in any order among
\* the reads under way; its callback is queued on the main thread.
Serve(d) ==
    /\ \E i \in 1..Len(reads[d]) :
          LET p == reads[d][i]
          IN  /\ Answer(d, i, SeenBy(owner[d], Overlay(d, p, docs[p])))
              /\ cache' = [cache EXCEPT ![d][p] = docs[p]]
    /\ UNCHANGED <<owner, docs, up, sdk, rows, by, taps, history>>

\* Offline it comes from disk; a document that is not there is an error.  The
\* answer may miss what another phone of the same account did.
ServeOffline(d) ==
    /\ "offline" \in Faults
    /\ \E i \in 1..Len(reads[d]) :
          LET p == reads[d][i]
              doc == Overlay(d, p, cache[d][p])
          IN  /\ Answer(d, i, IF doc = NoDoc THEN "unreachable" ELSE SeenBy(owner[d], doc))
              /\ blurred' = IF doc = NoDoc \/ DevicesOf(owner[d]) # {d}
                            THEN blurred \cup {<<owner[d], p>>} ELSE blurred
    /\ UNCHANGED <<owner, docs, cache, up, sdk, rows, by, taps, odd, deleted, contested, torn>>

ToggleAlwaysLikes(a) ==
    IF a.seen \in {"plain", "liked"} THEN <<[kind |-> "like", id |-> a.id]>> ELSE <<>>

\* The write that likePost decides on: toggle by what was read, nothing for a
\* document that did not decode or could not be read.
Toggle(a) ==
    CASE a.seen = "plain" -> <<[kind |-> "like", id |-> a.id]>>
      [] a.seen = "liked" -> <<[kind |-> "unlike", id |-> a.id]>>
      [] OTHER            -> <<>>

\* The callback of likePost, for any answer but a document that is not there.
Callback(d) ==
    /\ answers[d] # <<>>
    /\ Head(answers[d]).seen # "gone"
    /\ Give(d, Toggle(Head(answers[d])))
    /\ answers' = [answers EXCEPT ![d] = Tail(@)]
    /\ UNCHANGED <<owner, docs, cache, up, lane, done, reads, rows, by, taps, history>>

\* A document that does not exist decodes to nil, unwrapped by force.
CallbackTraps(d) ==
    /\ answers[d] # <<>>
    /\ Head(answers[d]).seen = "gone"
    /\ Die(d)

-----------------------------------------------------------------------------
Init ==
    /\ owner \in [Devices -> Users]
    /\ docs = [p \in Ids |-> NoDoc]
    /\ cache = [d \in Devices |-> [p \in Ids |-> NoDoc]]
    /\ up = [d \in Devices |-> TRUE]
    /\ worker = [d \in Devices |-> <<>>]
    /\ lane = [d \in Devices |-> <<>>]
    /\ done = [d \in Devices |-> 0]
    /\ reads = [d \in Devices |-> <<>>]
    /\ answers = [d \in Devices |-> <<>>]
    /\ rows = [d \in Devices |-> {}]
    /\ by = [p \in Ids |-> NoUser]
    /\ taps = 0
    /\ odd = {}
    /\ blurred = {}
    /\ deleted = {}
    /\ contested = {}
    /\ torn = {}

Next ==
    \E d \in Devices :
        \/ WritePost(d)
        \/ Show(d)
        \/ TapLike(d)
        \/ TapDelete(d)
        \/ Kill(d)
        \/ TapUnnamed(d)
        \/ Launch(d)
        \/ Work(d)
        \/ Commit(d)
        \/ Ack(d)
        \/ Refuse(d)
        \/ Break(d)
        \/ Serve(d)
        \/ ServeOffline(d)
        \/ Callback(d)
        \/ CallbackTraps(d)

Spec == Init /\ [][Next]_vars

-----------------------------------------------------------------------------
(* Properties.                                                             *)

\* Every variable has its shape, and an app that does not run has nothing in
\* memory and nothing on the wire.
TypeOK ==
    /\ owner \in [Devices -> Users]
    /\ docs \in [Ids -> Doc \cup {NoDoc}]
    /\ cache \in [Devices -> [Ids -> Doc \cup {NoDoc}]]
    /\ up \in [Devices -> BOOLEAN]
    /\ worker \in [Devices -> Seq(Task)]
    /\ lane \in [Devices -> Seq(Write)]
    /\ done \in [Devices -> Nat]
    /\ \A d \in Devices : done[d] <= Len(lane[d])
    /\ reads \in [Devices -> Seq(Ids)]
    /\ answers \in [Devices -> Seq([id : Ids, seen : Seen])]
    /\ rows \in [Devices -> SUBSET (Ids \X BOOLEAN)]
    /\ \A d \in Devices : ~up[d] => worker[d] = <<>> /\ reads[d] = <<>> /\ answers[d] = <<>>
    /\ by \in [Ids -> Users \cup {NoUser}]
    /\ taps \in Nat
    /\ odd \subseteq Users \X Ids
    /\ blurred \subseteq Users \X Ids
    /\ deleted \subseteq Ids
    /\ contested \subseteq Ids
    /\ torn \subseteq Ids

\* createPost writes the document before its id.  Whenever the server holds a
\* post without an id, the write that fills it in is still on its way, unless
\* the app died between the two: no resend and no other phone loses it.
EveryPostGetsItsId ==
    \A p \in Ids \ torn :
        Readable(docs[p]) /\ ~docs[p].named =>
            \E d \in Devices : owner[d] = by[p] /\ HasTask(Queued(d), p, {"name"})

\* likePost decides by a document it read earlier.  Still, for taps that did
\* not overlap and were not lost, the account ends up among the likes exactly
\* when it tapped an odd number of times, counting the writes under way.
LikesLast(s, p) ==
    \E i \in 1..Len(s) :
        /\ s[i].id = p /\ s[i].kind = "like"
        /\ \A j \in i + 1 .. Len(s) : s[j].id = p => s[j].kind # "unlike"
WillLike(u, p) ==
    \/ \E d \in DevicesOf(u) : LikesLast(Queued(d), p)
    \/ /\ \A d \in DevicesOf(u) : ~HasTask(Queued(d), p, {"like", "unlike"})
       /\ docs[p] # NoDoc
       /\ u \in docs[p].likes
TogglesCount ==
    \A u \in Users, p \in Ids \ deleted :
        <<u, p>> \notin blurred /\ (\A d \in DevicesOf(u) : ~Reading(d, p))
        => (WillLike(u, p) <=> <<u, p>> \in odd)

\* A deleted post does not come back: once the writes to it have drained, no
\* phone can read it, even if the stream broke and its "create" was resent,
\* unless another phone still held that "create" when the delete was tapped.
DeletedStaysDeleted ==
    \A p \in deleted \ contested :
        (\A d \in Devices : ~HasTask(Queued(d), p, {"create", "name", "delete"}))
        => docs[p] = NoDoc

\* likePost unwraps the decoded document by force; the SDK documents that a
\* document which does not exist decodes to nil.
LikeFindsItsPost ==
    \A d \in Devices : \A i \in 1..Len(answers[d]) : answers[d][i].seen # "gone"
=============================================================================
