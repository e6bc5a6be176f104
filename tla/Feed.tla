-------------------------------- MODULE Feed --------------------------------
(***************************************************************************)
(* The feed of one phone: FeedViewController.populatePostsTable with       *)
(* PostsManager.getFollowingPosts and getLoggedUserPosts.                  *)
(*                                                                         *)
(* A refresh asks for the followed users' posts and for one's own, which   *)
(* are answered separately.  The followed ones replace the array behind    *)
(* the table, one's own are added to it, and only then the table is        *)
(* reloaded.  Refreshes come with every appearance, like and deletion,     *)
(* whether or not the one before has been answered.                        *)
(***************************************************************************)
EXTENDS Integers, FiniteSets, SequencesExt

CONSTANTS Me,         \* the account signed in
          Others,     \* the accounts it may follow
          Posts,      \* posts, as numbers: a larger one is newer
          Author,     \* who writes each post
          InLimit,    \* elements an "in" filter may have, 10 in the SDK
          Faults,     \* which of AllFaults may happen
          MaxPending, \* bound of the model: blocks and queries under way
          MaxPosts    \* bound of the model: no refresh of a longer array

AllFaults == {"queryFails"}
Kinds == {"following", "own"}

ASSUME FeedAssumption ==
    /\ Me \notin Others
    /\ IsFiniteSet(Others)
    /\ Posts \subseteq Nat
    /\ IsFiniteSet(Posts)
    /\ Author \in [Posts -> Others \cup {Me}]
    /\ InLimit \in Nat \ {0}
    /\ Faults \subseteq AllFaults
    /\ MaxPending \in Nat
    /\ MaxPosts \in Nat

VARIABLES
    wall,       \* the posts on the server
    known,      \* UsersManager.loggedUser is there
    following,  \* its "following" array
    up,         \* the app runs
    posts,      \* FeedViewController.posts
    rows,       \* rows the table counted when it was last reloaded
    main,       \* blocks on the main queue
    queries,    \* queries under way
    stale,      \* history: posts was replaced after the last reload
    calm        \* history: nothing has disturbed the last refresh

screen == <<posts, rows>>
vars == <<wall, known, following, up, posts, rows, main, queries, stale, calm>>

\* What the main queue runs: the two blocks of a refresh, the callbacks of
\* their queries, and the block that adds one's own posts.
Block == [step : {"ask", "take", "append"}, kind : Kinds,
          authors : SUBSET (Others \cup {Me}), found : Seq(Posts)]
Query == [kind : Kinds, authors : SUBSET (Others \cup {Me})]

By(authors) == {p \in wall : Author[p] \in authors}

\* A sort by date: the same posts, none before a newer one.
NewestFirst(s) ==
    LET order == CHOOSE p \in Bijection(1..Len(s), 1..Len(s)) :
                    \A i, j \in 1..Len(s) : i < j => s[p[i]] >= s[p[j]]
    IN  [i \in 1..Len(s) |-> s[order[i]]]

\* The order a query's documents come in, that of their ids: any would do, as
\* the list is sorted before the table is reloaded.
OldestFirst(S) == Reverse(NewestFirst(SetToSeq(S)))

Ask(kind, authors) == [step |-> "ask", kind |-> kind, authors |-> authors, found |-> <<>>]
NextBlock(step, kind) == up /\ main # <<>> /\ Head(main).step = step /\ Head(main).kind = kind

\* A refresh has not yet reloaded the table.
OwnPending ==
    \/ \E i \in 1..Len(main) : main[i].kind = "own"
    \/ \E i \in 1..Len(queries) : queries[i].kind = "own"
Quiet == main = <<>> /\ queries = <<>>

-----------------------------------------------------------------------------
(* Other phones, and loadLoggedUser.                                       *)

Publish(p) ==
    /\ p \notin wall
    /\ wall' = wall \cup {p}
    /\ calm' = FALSE
    /\ UNCHANGED <<known, following, up, screen, main, queries, stale>>

Delete(p) ==
    /\ p \in wall
    /\ wall' = wall \ {p}
    /\ calm' = FALSE
    /\ UNCHANGED <<known, following, up, screen, main, queries, stale>>

LoadUser(f) ==
    /\ up
    /\ known' = TRUE
    /\ following' = f
    /\ calm' = FALSE
    /\ UNCHANGED <<wall, up, screen, main, queries, stale>>

-----------------------------------------------------------------------------
(* A refresh.                                                              *)

RefreshOneOfTwo ==
    /\ up
    /\ Len(main) + Len(queries) + 2 <= MaxPending
    /\ Len(posts) <= MaxPosts
    /\ main' = Append(main, IF known THEN Ask("following", following) ELSE Ask("own", {Me}))
    /\ calm' = (Quiet /\ known)
    /\ UNCHANGED <<wall, known, following, up, screen, queries, stale>>

\* populatePostsTable: viewWillAppear, and reloadData after a like or a
\* deletion.  Without loggedUser, getFollowingPosts returns at once.
Refresh ==
    /\ up
    /\ Len(main) + Len(queries) + 2 <= MaxPending
    /\ Len(posts) <= MaxPosts
    /\ main' = main \o (IF known THEN <<Ask("following", following)>> ELSE <<>>)
                    \o <<Ask("own", {Me})>>
    /\ calm' = (Quiet /\ known)
    /\ UNCHANGED <<wall, known, following, up, screen, queries, stale>>

AskFollowingKeepsPosts ==
    /\ NextBlock("ask", "following")
    /\ LET f == Head(main).authors
       IN  /\ Cardinality(f) <= InLimit
           /\ queries' = IF f = {} THEN queries
                         ELSE Append(queries, [kind |-> "following", authors |-> f])
    /\ main' = Tail(main)
    /\ UNCHANGED <<wall, known, following, up, screen, stale, calm>>

AskFollowingUnchecked ==
    /\ NextBlock("ask", "following")
    /\ queries' = Append(queries, [kind |-> "following", authors |-> Head(main).authors])
    /\ main' = Tail(main)
    /\ posts' = <<>>
    /\ UNCHANGED <<wall, known, following, up, rows, stale, calm>>

\* The block of getFollowingPosts: a query if anybody is followed, and, in
\* any case, a first completion with no posts.
AskFollowing ==
    /\ NextBlock("ask", "following")
    /\ LET f == Head(main).authors
       IN  /\ Cardinality(f) <= InLimit
           /\ queries' = IF f = {} THEN queries
                         ELSE Append(queries, [kind |-> "following", authors |-> f])
    /\ main' = Tail(main)
    /\ posts' = <<>>
    /\ UNCHANGED <<wall, known, following, up, rows, stale, calm>>

\* The block of getLoggedUserPosts.
AskOwn ==
    /\ NextBlock("ask", "own")
    /\ queries' = Append(queries, [kind |-> "own", authors |-> {Me}])
    /\ main' = Tail(main)
    /\ UNCHANGED <<wall, known, following, up, screen, stale, calm>>

\* A query is answered, in any order, with what is on the server then; one's
\* own posts are sorted at once, the others come as they are stored.
Answer(i) ==
    LET q == queries[i]
        found == OldestFirst(By(q.authors))
    IN  /\ main' = Append(main, [step |-> "take", kind |-> q.kind, authors |-> q.authors,
                                 found |-> IF q.kind = "own" THEN NewestFirst(found) ELSE found])
        /\ queries' = RemoveAt(queries, i)
        /\ UNCHANGED <<wall, known, following, up, screen, stale, calm>>

\* A query ends with an error: both managers return without a completion.
QueryFails(i) ==
    /\ "queryFails" \in Faults
    /\ queries' = RemoveAt(queries, i)
    /\ stale' = (stale \/ queries[i].kind = "own")
    /\ calm' = FALSE
    /\ UNCHANGED <<wall, known, following, up, screen, main>>

\* The followed posts replace the array; the table is not reloaded.
TakeFollowing ==
    /\ NextBlock("take", "following")
    /\ posts' = Head(main).found
    /\ main' = Tail(main)
    /\ stale' = (stale \/ ~OwnPending)
    /\ calm' = (calm /\ OwnPending)
    /\ UNCHANGED <<wall, known, following, up, rows, queries>>

\* The callback of one's own posts hands them to another block.
TakeOwn ==
    /\ NextBlock("take", "own")
    /\ main' = Append(Tail(main), [Head(main) EXCEPT !.step = "append"])
    /\ UNCHANGED <<wall, known, following, up, screen, queries, stale, calm>>

\* That block: add one's own posts, sort, reload the table.
AppendOwn ==
    /\ NextBlock("append", "own")
    /\ posts' = NewestFirst(posts \o Head(main).found)
    /\ rows' = Len(posts')
    /\ main' = Tail(main)
    /\ stale' = FALSE
    /\ UNCHANGED <<wall, known, following, up, queries, calm>>

-----------------------------------------------------------------------------
(* The ways the app stops, and its next start.                             *)

Stop ==
    /\ up' = FALSE
    /\ posts' = <<>>
    /\ rows' = 0
    /\ main' = <<>>
    /\ queries' = <<>>
    /\ stale' = FALSE
    /\ calm' = FALSE
    /\ UNCHANGED <<wall, known, following>>

\* A filter with too many elements is an exception of the SDK.
TooManyFollowed ==
    /\ NextBlock("ask", "following")
    /\ Cardinality(Head(main).authors) > InLimit
    /\ Stop

\* A row is scrolled in or tapped that the array no longer has: the index is
\* out of range.
ShowMissingRow ==
    /\ up
    /\ rows > Len(posts)
    /\ Stop

\* The app is started, and the user logs in (loggedUser is there) or signs up.
Launch ==
    /\ ~up
    /\ up' = TRUE
    /\ known' \in BOOLEAN
    /\ following' \in IF known' THEN SUBSET Others ELSE {{}}
    /\ UNCHANGED <<wall, screen, main, queries, stale, calm>>

-----------------------------------------------------------------------------
Init ==
    /\ wall \in SUBSET Posts
    /\ known = FALSE
    /\ following = {}
    /\ up = FALSE
    /\ posts = <<>>
    /\ rows = 0
    /\ main = <<>>
    /\ queries = <<>>
    /\ stale = FALSE
    /\ calm = FALSE

Next ==
    \/ \E p \in Posts : Publish(p) \/ Delete(p)
    \/ \E f \in SUBSET Others : LoadUser(f)
    \/ Refresh
    \/ AskFollowing
    \/ AskOwn
    \/ \E i \in 1..Len(queries) : Answer(i) \/ QueryFails(i)
    \/ TakeFollowing
    \/ TakeOwn
    \/ AppendOwn
    \/ TooManyFollowed
    \/ ShowMissingRow
    \/ Launch

Spec == Init /\ [][Next]_vars

-----------------------------------------------------------------------------
(* Properties.                                                             *)

\* Every variable has its shape, and every query the SDK accepted is one it
\* can run.
TypeOK ==
    /\ wall \subseteq Posts
    /\ known \in BOOLEAN
    /\ following \subseteq Others
    /\ up \in BOOLEAN
    /\ posts \in Seq(Posts)
    /\ rows \in Nat
    /\ main \in Seq(Block)
    /\ queries \in Seq(Query)
    /\ \A i \in 1..Len(queries) : Cardinality(queries[i].authors) \in 1..InLimit
    /\ stale \in BOOLEAN
    /\ calm \in BOOLEAN

\* The table has no rows beyond the array, except while one's own posts are
\* on their way, after they failed, or after the followed posts came last.
RowsAreInArray ==
    rows > Len(posts) => OwnPending \/ stale

\* A refresh by itself, with the user loaded and answered in the order it
\* asked, shows every own and followed post once, newest first.
FeedIsComplete ==
    Quiet /\ calm =>
        /\ posts = NewestFirst(OldestFirst(By(following \cup {Me})))
        /\ rows = Len(posts)

\* What the SDK's check of "in" filters demands of getFollowingPosts: no
\* filter has more elements than it supports.
InFilterWithinLimit ==
    NextBlock("ask", "following") => Cardinality(Head(main).authors) <= InLimit
=============================================================================
