---------------------------- MODULE Connections ----------------------------
(***************************************************************************)
(* The Connections page of one phone: whom a tap on a row opens.           *)
(*                                                                         *)
(* The rows come from dataSources, copies of the user's document made by   *)
(* updateData, and possibly filtered.  A tap looks its row up in another   *)
(* copy, UsersManager.loggedUser, which only loadLoggedUser renews.  An    *)
(* unfollow changes the document and renews first one copy, then the       *)
(* other.  The document also changes on other phones.                      *)
(***************************************************************************)
EXTENDS Integers, FiniteSets, SequencesExt

CONSTANTS People,     \* the other accounts
          Faults,     \* which of AllFaults may happen
          MaxDocs,    \* bound of the model: versions of the document
          MaxPending  \* bound of the model: reads and blocks under way

AllFaults == {"readFails", "elsewhere"}
Segments == {"following", "followers"}
Lists == {s \in Seq(People) : IsInjective(s)}
Doc == [Segments -> Lists]

\* What a read is for: the rows, loggedUser, or loggedUser and then the rows.
Reads == {"rows", "logged", "unfollow"}
Block == [op : Reads \cup {"segment", "update"}, doc : Nat]

ASSUME ConnectionsAssumption ==
    /\ IsFiniteSet(People)
    /\ Faults \subseteq AllFaults
    /\ MaxDocs \in Nat \ {0}
    /\ MaxPending \in Nat

VARIABLES
    docs,      \* every version of the user's document, the latest last
    logged,    \* the version loggedUser was read from, 0 for nil
    open,      \* the page is open, and was configured
    rows,      \* the version dataSources were read from
    kept,      \* kept[s]: the people a filter has left in them
    segment,   \* the segment selected
    source,    \* the list the table shows, "none" before the first
    reads,     \* reads of the document under way
    main,      \* blocks on the main queue
    disturbed  \* history: the document changed elsewhere, or a read failed, since
               \* the page was opened with a loggedUser up to date, or since an unfollow

vars == <<docs, logged, open, rows, kept, segment, source, reads, main, disturbed>>

Latest == Len(docs)
HasRoom == Len(reads) + Len(main) + 2 <= MaxPending
Quiet == reads = <<>> /\ main = <<>>
NextBlock(op) == main # <<>> /\ Head(main).op = op
Do(op) == [op |-> op, doc |-> 0]

\* The elements of a list that are in S, in their order.
Filter(list, S) ==
    LET left[n \in 0..Len(list)] ==
            IF n = 0 THEN <<>>
            ELSE IF list[n] \in S THEN Append(left[n - 1], list[n])
            ELSE left[n - 1]
    IN  left[Len(list)]
Without(list, p) == Filter(list, People \ {p})
RowsOf(s) == Filter(docs[rows][s], kept[s])

-----------------------------------------------------------------------------
(* The page.                                                               *)

\* The reads and blocks of a page that is gone no longer reach the rows.
Orphaned(s) == [i \in 1..Len(s) |-> IF s[i] = "unfollow" THEN "logged" ELSE s[i]]
OrphanedBlocks ==
    [i \in 1..Len(main) |-> IF main[i].op = "unfollow" THEN [main[i] EXCEPT !.op = "logged"] ELSE main[i]]

\* A plausible bug: the page is configured although there is no loggedUser.
OpenWithoutUser ==
    /\ ~open
    /\ HasRoom
    /\ open' = TRUE
    /\ rows' = logged
    /\ kept' = [s \in Segments |-> People]
    /\ segment' = "following"
    /\ source' = "none"
    /\ main' = main \o <<Do("segment"), Do("update")>>
    /\ disturbed' = (logged # Latest)
    /\ UNCHANGED <<docs, logged, reads>>

\* viewDidLoad, with its segment block, and viewWillAppear.
Open ==
    /\ ~open
    /\ logged # 0
    /\ HasRoom
    /\ open' = TRUE
    /\ rows' = logged
    /\ kept' = [s \in Segments |-> People]
    /\ segment' = "following"
    /\ source' = "none"
    /\ main' = main \o <<Do("segment"), Do("update")>>
    /\ disturbed' = (logged # Latest)
    /\ UNCHANGED <<docs, logged, reads>>

\* The page is left; only what it asked for loggedUser goes on.
Close ==
    /\ open
    /\ open' = FALSE
    /\ source' = "none"
    /\ reads' = Orphaned(Filter(reads, {"logged", "unfollow"}))
    /\ main' = Filter(OrphanedBlocks, {b \in Block : b.op = "logged"})
    /\ UNCHANGED <<docs, logged, rows, kept, segment, disturbed>>

\* viewWillAppear, back from a user's profile.
Appear ==
    /\ open
    /\ HasRoom
    /\ main' = Append(main, Do("update"))
    /\ UNCHANGED <<docs, logged, open, rows, kept, segment, source, reads, disturbed>>

\* The segmented control; the table follows in a block.
Select(s) ==
    /\ open
    /\ HasRoom
    /\ segment' = s
    /\ main' = Append(main, Do("segment"))
    /\ UNCHANGED <<docs, logged, open, rows, kept, source, reads, disturbed>>

\* A plausible bug: the rows are renewed, but not loggedUser.
UnfollowReadsRowsOnly(p) ==
    /\ open /\ source # "none"
    /\ "following" \in {source, segment}
    /\ Contains(RowsOf(source), p)
    /\ Latest < MaxDocs /\ HasRoom
    /\ docs' = Append(docs, [docs[Latest] EXCEPT !["following"] = Without(@, p)])
    /\ reads' = Append(reads, "rows")
    /\ disturbed' = FALSE
    /\ UNCHANGED <<logged, open, rows, kept, segment, source, main>>

\* A plausible bug: loggedUser is renewed, but not the rows.
UnfollowReadsUserOnly(p) ==
    /\ open /\ source # "none"
    /\ "following" \in {source, segment}
    /\ Contains(RowsOf(source), p)
    /\ Latest < MaxDocs /\ HasRoom
    /\ docs' = Append(docs, [docs[Latest] EXCEPT !["following"] = Without(@, p)])
    /\ reads' = Append(reads, "logged")
    /\ disturbed' = FALSE
    /\ UNCHANGED <<logged, open, rows, kept, segment, source, main>>

\* unfollow, of somebody in a row: the write is in the local document at once,
\* and loadLoggedUser is called.  The button is hidden by the segment selected
\* when the row's user arrives, not by the list the row is in.
Unfollow(p) ==
    /\ open /\ source # "none"
    /\ "following" \in {source, segment}
    /\ Contains(RowsOf(source), p)
    /\ Latest < MaxDocs /\ HasRoom
    /\ docs' = Append(docs, [docs[Latest] EXCEPT !["following"] = Without(@, p)])
    /\ reads' = Append(reads, "unfollow")
    /\ disturbed' = FALSE
    /\ UNCHANGED <<logged, open, rows, kept, segment, source, main>>

-----------------------------------------------------------------------------
(* The main queue.                                                         *)

SegmentBlock ==
    /\ NextBlock("segment")
    /\ source' = segment
    /\ main' = Tail(main)
    /\ UNCHANGED <<docs, logged, open, rows, kept, segment, reads, disturbed>>

\* updateData asks for the document.
UpdateBlock ==
    /\ NextBlock("update")
    /\ reads' = Append(reads, "rows")
    /\ main' = Tail(main)
    /\ UNCHANGED <<docs, logged, open, rows, kept, segment, source, disturbed>>

\* Its callback: new rows, filtered if there is text in the search bars.
RowsBlock ==
    /\ NextBlock("rows")
    /\ rows' = Head(main).doc
    /\ \E f \in [Segments -> SUBSET People] : kept' = f
    /\ main' = Tail(main)
    /\ UNCHANGED <<docs, logged, open, segment, source, reads, disturbed>>

\* The callback of loadLoggedUser, called by other pages or by unfollow, which
\* then updates the rows.
LoggedBlock ==
    /\ NextBlock("logged") \/ NextBlock("unfollow")
    /\ logged' = Head(main).doc
    /\ reads' = reads \o (IF Head(main).op = "unfollow" THEN <<"rows">> ELSE <<>>)
    /\ main' = Tail(main)
    /\ UNCHANGED <<docs, open, rows, kept, segment, source, disturbed>>

-----------------------------------------------------------------------------
(* The document.                                                           *)

\* Profile and Discover call loadLoggedUser.
Load ==
    /\ HasRoom
    /\ reads' = Append(reads, "logged")
    /\ UNCHANGED <<docs, logged, open, rows, kept, segment, source, main, disturbed>>

\* A read is answered, in any order, with the document as it is then.
Answer(i) ==
    /\ main' = Append(main, [op |-> reads[i], doc |-> Latest])
    /\ reads' = RemoveAt(reads, i)
    /\ UNCHANGED <<docs, logged, open, rows, kept, segment, source, disturbed>>

ReadFails(i) ==
    /\ "readFails" \in Faults
    /\ reads' = RemoveAt(reads, i)
    /\ disturbed' = TRUE
    /\ UNCHANGED <<docs, logged, open, rows, kept, segment, source, main>>

\* Somebody follows or unfollows the user, or the user somebody on another
\* phone.
ChangeElsewhere(s, p) ==
    /\ "elsewhere" \in Faults
    /\ Latest < MaxDocs
    /\ LET list == docs[Latest][s]
       IN  docs' = Append(docs, [docs[Latest] EXCEPT ![s] =
                                   IF Contains(list, p) THEN Without(list, p) ELSE Append(list, p)])
    /\ disturbed' = TRUE
    /\ UNCHANGED <<logged, open, rows, kept, segment, source, reads, main>>

\* A row is tapped that loggedUser's list is too short for: the index is out
\* of range, and the app is started again.
TapMissingRow ==
    /\ open /\ source # "none"
    /\ Len(RowsOf(source)) > Len(docs[logged][segment])
    /\ docs' = <<docs[Latest]>>
    /\ logged' = 0
    /\ open' = FALSE
    /\ rows' = 1
    /\ kept' = [s \in Segments |-> People]
    /\ segment' = "following"
    /\ source' = "none"
    /\ reads' = <<>>
    /\ main' = <<>>
    /\ disturbed' = FALSE

-----------------------------------------------------------------------------
Init ==
    /\ \E f, g \in UNION {[1..n -> People] : n \in 0..Cardinality(People)} :
          /\ IsInjective(f) /\ IsInjective(g)
          /\ docs = <<[s \in Segments |-> IF s = "following" THEN f ELSE g]>>
    /\ logged = 0
    /\ open = FALSE
    /\ rows = 1
    /\ kept = [s \in Segments |-> People]
    /\ segment = "following"
    /\ source = "none"
    /\ reads = <<>>
    /\ main = <<>>
    /\ disturbed = FALSE

Next ==
    \/ Open
    \/ Close
    \/ Appear
    \/ \E s \in Segments : Select(s)
    \/ \E p \in People : Unfollow(p)
    \/ SegmentBlock
    \/ UpdateBlock
    \/ RowsBlock
    \/ LoggedBlock
    \/ Load
    \/ \E i \in 1..Len(reads) : Answer(i) \/ ReadFails(i)
    \/ \E s \in Segments, p \in People : ChangeElsewhere(s, p)
    \/ TapMissingRow

Spec == Init /\ [][Next]_vars

-----------------------------------------------------------------------------
(* Properties.                                                             *)

\* Every variable has its shape, nobody is twice in a list, and an open page
\* has a loggedUser to look rows up in.
TypeOK ==
    /\ docs \in Seq([Segments -> Seq(People)]) /\ docs # <<>>
    /\ \A i \in 1..Len(docs), s \in Segments : IsInjective(docs[i][s])
    /\ logged \in 0..Latest
    /\ open \in BOOLEAN
    /\ open => logged # 0
    /\ rows \in 1..Latest
    /\ kept \in [Segments -> SUBSET People]
    /\ segment \in Segments
    /\ source \in Segments \cup {"none"}
    /\ reads \in Seq(Reads)
    /\ main \in Seq(Block)
    /\ \A i \in 1..Len(main) : main[i].op \in Reads => main[i].doc \in 1..Latest
    /\ disturbed \in BOOLEAN

\* Once everything has been answered, each row opens the profile of the person
\* it shows, unless the rows are filtered, the document changed elsewhere or
\* a read failed: an unfollow renews loggedUser as well as the rows.
RowOpensItsUser ==
    open /\ Quiet /\ ~disturbed /\ kept[source] = People
    => RowsOf(source) = docs[logged][segment]

\* Then the rows, filtered or not, are also those of the document, so that
\* nobody unfollowed is left among them.
RowsAreCurrent ==
    open /\ Quiet /\ ~disturbed =>
        \A s \in Segments : RowsOf(s) = Filter(docs[Latest][s], kept[s])
=============================================================================
