------------------------------ MODULE Discover ------------------------------
(***************************************************************************)
(* The Discover page: one table that shows people or news, filled by       *)
(* DiscoverViewController.loadDataSources.                                 *)
(*                                                                         *)
(* A load waits for all users, answered on the main thread, and for the    *)
(* news, answered on URLSession's.  Each answer looks whether the other    *)
(* has come, without a lock, and then puts a block on the main queue that  *)
(* makes new data sources; a second block gives the one for people to the  *)
(* table.  The table refers to them weakly, so the old ones disappear from *)
(* it.  Appearing, searching, following and picking a region all load,     *)
(* whether or not the load before has ended.                               *)
(***************************************************************************)
EXTENDS Naturals, Sequences

CONSTANTS Regions,  \* regions the picker offers
          Loads,    \* loads that may be under way at once
          None,     \* no region: no news fetched yet
          Faults,   \* which of AllFaults may happen
          MaxReads, \* bound of the model: reads of loadLoggedUser under way
          MaxBlocks \* bound of the model: no new load behind more blocks

AllFaults == {"usersFail", "newsFails", "readFails"}
Segments == {"people", "news"}
Afterwards == {"nothing", "update", "unhide"}
Free == [users |-> "free", news |-> "free", region |-> None, got |-> None, then |-> "nothing"]
Load == [users : {"free", "awaited", "there", "failed"}, news : {"free", "awaited", "there"},
         region : Regions \cup {None}, got : Regions \cup {None}, then : Afterwards]
Block == [op : {"build", "show"}, got : Regions \cup {None}, then : Afterwards, current : BOOLEAN]

ASSUME DiscoverAssumption ==
    /\ None \notin Regions
    /\ None \notin Loads
    /\ "empty" \notin Regions \cup {None}
    /\ Faults \subseteq AllFaults
    /\ MaxReads \in Nat
    /\ MaxBlocks \in Nat

VARIABLES
    segment,        \* discoverSegmentControl.selectedSegmentIndex
    selectedRegion, \* DiscoverViewController.selectedRegion
    known,          \* UsersManager.loggedUser is there
    reads,          \* reads of loadLoggedUser under way, each to be followed by a load
    load,           \* load[i]: what loadDataSources has captured
    thread,         \* the load whose news URLSession's thread has just stored
    news,           \* NewsManager.news: the region it was fetched for
    blocks,         \* blocks on the main queue
    data,           \* DiscoverViewController.data: "empty", or the region of its news
    source,         \* the table's data source, weak: its segment or "nil"
    delegate,       \* the table's delegate, weak
    shown,          \* the rows shown: of a segment or "nothing"
    hidden,         \* the table is hidden behind the indicator
    crossing,       \* history: a region was picked with a load under way, or an answer failed
    torn,           \* history: the segment was switched between the two blocks of a load
    lost            \* history: since a region was last picked, a load never ended

table == <<source, delegate, shown>>
history == <<crossing, torn, lost>>
vars == <<segment, selectedRegion, known, reads, load, thread, news, blocks, data,
          table, hidden, history>>

Quiet == blocks = <<>> /\ \A i \in Loads : load[i] = Free
Rows(s) == IF s = "nil" THEN "nothing" ELSE s
Build(i) == [op |-> "build", got |-> load[i].got, then |-> load[i].then, current |-> TRUE]
ShowPending == \E j \in 1..Len(blocks) : blocks[j].op = "show"
NextBlock(op) == blocks # <<>> /\ Head(blocks).op = op

\* A plausible bug: the region is picked after the load has begun.
BeginWithOldRegion(i, then) ==
    /\ load[i] = Free
    /\ Len(blocks) <= MaxBlocks
    /\ load' = [load EXCEPT ![i] = [users |-> "awaited", news |-> "awaited",
                                    region |-> selectedRegion, got |-> None, then |-> then]]

\* loadDataSources captures two empty variables and asks twice.
Begin(i, then) ==
    /\ load[i] = Free
    /\ Len(blocks) <= MaxBlocks
    /\ load' = [load EXCEPT ![i] = [users |-> "awaited", news |-> "awaited",
                                    region |-> selectedRegion', got |-> None, then |-> then]]

-----------------------------------------------------------------------------
(* What the user does.                                                     *)

\* updateView with a table whose data source is s.
UpdateView(s) ==
    /\ reads' = IF segment' = "people" THEN reads + 1 ELSE reads
    /\ shown' = Rows(s)

\* viewWillAppear, and the completion of follow.
Appear ==
    /\ reads < MaxReads
    /\ segment' = segment
    /\ UpdateView(source)
    /\ UNCHANGED <<selectedRegion, known, load, thread, news, blocks, data, source,
                   delegate, hidden, history>>

\* A plausible bug: the data sources are not looked for.
SwitchWithoutData(s) ==
    /\ reads < MaxReads
    /\ segment' = s
    /\ source' = s
    /\ delegate' = s
    /\ torn' = ShowPending
    /\ UpdateView(s)
    /\ UNCHANGED <<selectedRegion, known, load, thread, news, blocks, data, hidden, crossing, lost>>

\* A plausible bug: the delegate stays that of the other segment.
SwitchKeepsDelegate(s) ==
    /\ data # "empty"
    /\ reads < MaxReads
    /\ segment' = s
    /\ source' = s
    /\ delegate' = IF delegate = "nil" THEN s ELSE delegate
    /\ torn' = ShowPending
    /\ UpdateView(s)
    /\ UNCHANGED <<selectedRegion, known, load, thread, news, blocks, data, hidden, crossing, lost>>

\* segmentSwitched.
Switch(s) ==
    /\ data # "empty"
    /\ reads < MaxReads
    /\ segment' = s
    /\ source' = s
    /\ delegate' = s
    /\ torn' = ShowPending
    /\ UpdateView(s)
    /\ UNCHANGED <<selectedRegion, known, load, thread, news, blocks, data, hidden, crossing, lost>>

\* searchBar(textDidChange:), whose block runs later.
Search(i) ==
    /\ selectedRegion' = selectedRegion
    /\ Begin(i, "update")
    /\ UNCHANGED <<segment, known, reads, thread, news, blocks, data, table, hidden, history>>

\* pickerView(didSelectRow:).
PickRegion(i, r) ==
    /\ segment = "news"
    /\ selectedRegion' = r
    /\ Begin(i, "unhide")
    /\ hidden' = TRUE
    /\ crossing' = ~Quiet
    /\ lost' = FALSE
    /\ UNCHANGED <<segment, known, reads, thread, news, blocks, data, table, torn>>

-----------------------------------------------------------------------------
(* Answers.                                                                *)

\* loadLoggedUser's callback loads; without a document there is none.
ReadAnswered(i) ==
    /\ reads > 0
    /\ reads' = reads - 1
    /\ known' = TRUE
    /\ selectedRegion' = selectedRegion
    /\ Begin(i, "nothing")
    /\ UNCHANGED <<segment, thread, news, blocks, data, table, hidden, history>>

ReadFails ==
    /\ "readFails" \in Faults
    /\ reads > 0
    /\ reads' = reads - 1
    /\ UNCHANGED <<segment, selectedRegion, known, load, thread, news, blocks, data, table,
                   hidden, history>>

\* A load that has had both answers is over.
Over(l, i, t) == IF l.users \in {"there", "failed"} /\ l.news = "there" /\ t # i THEN Free ELSE l

\* A plausible bug: the users' answer leaves the block to the news'.
UsersDoNotLook(i) ==
    /\ load[i].users = "awaited"
    /\ load' = [load EXCEPT ![i] = Over([@ EXCEPT !.users = "there"], i, thread)]
    /\ UNCHANGED <<segment, selectedRegion, known, reads, thread, news, data, table, hidden,
                   blocks, history>>

\* getAllUsers' callback: store, and look for the news.
UsersArrive(i) ==
    /\ load[i].users = "awaited"
    /\ load' = [load EXCEPT ![i] = Over([@ EXCEPT !.users = "there"], i, thread)]
    /\ blocks' = IF load[i].news = "there" /\ known THEN Append(blocks, Build(i)) ELSE blocks
    /\ lost' = (lost \/ (load[i].news = "there" /\ ~known))
    /\ crossing' = (crossing \/ (load[i].news = "there" /\ ~known))
    /\ UNCHANGED <<segment, selectedRegion, known, reads, thread, news, data, table, hidden, torn>>

\* An error: no completion.
UsersFail(i) ==
    /\ "usersFail" \in Faults
    /\ load[i].users = "awaited"
    /\ load' = [load EXCEPT ![i] = Over([@ EXCEPT !.users = "failed"], i, thread)]
    /\ lost' = TRUE
    /\ crossing' = TRUE
    /\ UNCHANGED <<segment, selectedRegion, known, reads, thread, news, blocks, data, table, hidden, torn>>

\* getNews' handler stores what it got, or leaves what was there, and the
\* completion takes NewsManager.news.
NewsArrive(i) ==
    /\ thread = None
    /\ load[i].news = "awaited"
    /\ \/ news' = load[i].region /\ crossing' = crossing
       \/ "newsFails" \in Faults /\ news' = news /\ crossing' = TRUE
    /\ load' = [load EXCEPT ![i].news = "there", ![i].got = news']
    /\ thread' = i
    /\ UNCHANGED <<segment, selectedRegion, known, reads, blocks, data, table, hidden, torn, lost>>

\* Then it looks for the users.
NewsLook ==
    /\ thread # None
    /\ LET l == load[thread]
       IN  /\ blocks' = IF l.users = "there" /\ known THEN Append(blocks, Build(thread)) ELSE blocks
           /\ lost' = (lost \/ (l.users = "there" /\ ~known))
           /\ crossing' = (crossing \/ (l.users = "there" /\ ~known))
           /\ load' = [load EXCEPT ![thread] = Over(l, thread, None)]
    /\ thread' = None
    /\ UNCHANGED <<segment, selectedRegion, known, reads, news, data, table, hidden, torn>>

\* Both threads write at the same time and neither sees the other's answer.
BothMiss ==
    /\ thread # None
    /\ load[thread].users = "awaited"
    /\ load' = [load EXCEPT ![thread] = Free]
    /\ thread' = None
    /\ lost' = TRUE
    /\ crossing' = TRUE
    /\ UNCHANGED <<segment, selectedRegion, known, reads, news, blocks, data, table, hidden, torn>>

-----------------------------------------------------------------------------
(* The two blocks of a load.                                               *)

\* weakSelf.data = [users, news]: what the table referred to is freed.
MakeSources ==
    /\ NextBlock("build")
    /\ data' = Head(blocks).got
    /\ source' = "nil"
    /\ delegate' = "nil"
    /\ blocks' = Append([j \in 1..Len(Tail(blocks)) |->
                           IF Tail(blocks)[j].op = "show" THEN [Tail(blocks)[j] EXCEPT !.current = FALSE]
                                                          ELSE Tail(blocks)[j]],
                        [Head(blocks) EXCEPT !.op = "show"])
    /\ torn' = FALSE
    /\ UNCHANGED <<segment, selectedRegion, known, reads, load, thread, news, shown,
                   hidden, crossing, lost>>

\* The people's data source goes to the table, in whichever segment it is,
\* and is freed afterwards if it is not in data any more.  The completion may
\* update the view and take the indicator away.
ShowPeople ==
    /\ NextBlock("show")
    /\ Head(blocks).then = "nothing" \/ reads < MaxReads
    /\ source' = IF Head(blocks).current THEN "people" ELSE "nil"
    /\ segment' = segment
    /\ IF Head(blocks).then = "nothing" THEN shown' = "people" /\ reads' = reads
                                        ELSE UpdateView("people")
    /\ hidden' = (hidden /\ Head(blocks).then # "unhide")
    /\ blocks' = Tail(blocks)
    /\ UNCHANGED <<selectedRegion, known, load, thread, news, data, delegate, history>>

-----------------------------------------------------------------------------
\* A segment is tapped before the first load has ended: data[0] of an empty
\* array stops the app, which is started again.
SwitchTooEarly ==
    /\ data = "empty"
    /\ segment' = "people"
    /\ \E r \in Regions : selectedRegion' = r
    /\ known' \in BOOLEAN
    /\ reads' = 0
    /\ load' = [i \in Loads |-> Free]
    /\ thread' = None
    /\ news' = None
    /\ blocks' = <<>>
    /\ data' = "empty"
    /\ source' = "nil"
    /\ delegate' = "nil"
    /\ shown' = "nothing"
    /\ hidden' = FALSE
    /\ crossing' = FALSE
    /\ torn' = FALSE
    /\ lost' = FALSE

Init ==
    /\ segment = "people"
    /\ selectedRegion \in Regions
    /\ known \in BOOLEAN
    /\ reads = 0
    /\ load = [i \in Loads |-> Free]
    /\ thread = None
    /\ news = None
    /\ blocks = <<>>
    /\ data = "empty"
    /\ source = "nil"
    /\ delegate = "nil"
    /\ shown = "nothing"
    /\ hidden = FALSE
    /\ crossing = FALSE
    /\ torn = FALSE
    /\ lost = FALSE

Next ==
    \/ Appear
    \/ \E s \in Segments : Switch(s)
    \/ \E i \in Loads : Search(i) \/ ReadAnswered(i) \/ \E r \in Regions : PickRegion(i, r)
    \/ ReadFails
    \/ \E i \in Loads : UsersArrive(i) \/ UsersFail(i) \/ NewsArrive(i)
    \/ NewsLook
    \/ BothMiss
    \/ MakeSources
    \/ ShowPeople
    \/ SwitchTooEarly

Spec == Init /\ [][Next]_vars

-----------------------------------------------------------------------------
(* Properties.                                                             *)

\* Every variable has its shape, and the table refers to data sources only
\* while there are some.
TypeOK ==
    /\ segment \in Segments
    /\ selectedRegion \in Regions
    /\ known \in BOOLEAN
    /\ reads \in Nat
    /\ load \in [Loads -> Load]
    /\ thread \in Loads \cup {None}
    /\ thread # None => load[thread].news = "there"
    /\ news \in Regions \cup {None}
    /\ blocks \in Seq(Block)
    /\ data \in Regions \cup {None, "empty"}
    /\ {source, delegate} \subseteq Segments \cup {"nil"}
    /\ data = "empty" => source = "nil" /\ delegate = "nil"
    /\ shown \in Segments \cup {"nothing"}
    /\ hidden \in BOOLEAN
    /\ crossing \in BOOLEAN
    /\ torn \in BOOLEAN
    /\ lost \in BOOLEAN

\* A tap on a row, if anything answers it, opens what the row shows: delegate,
\* data source and rows never belong to two different lists.  Only a switch
\* in the moment between the two blocks of a load can tear them apart.
TapOpensShownRow ==
    delegate # "nil" /\ ~torn => source = delegate /\ shown = delegate

\* Once everything has been answered the news are those of the region
\* selected, unless it was picked with another load under way or a request
\* failed.
NewsOfRegion ==
    Quiet /\ ~crossing /\ data # "empty" => data = selectedRegion

\* The table hidden by the picker comes back, unless a load never ended since.
HiddenTableReturns ==
    Quiet /\ hidden => lost
=============================================================================
