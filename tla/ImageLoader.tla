---------------------------- MODULE ImageLoader ----------------------------
(***************************************************************************)
(* Pictures in table and collection cells: ImageLoader, UIImageLoader, and *)
(* the cells they load into.                                               *)
(*                                                                         *)
(* A cell is given a row at once; the picture of the row is known only     *)
(* when the document of its author has been read, and that callback, which *)
(* nothing cancels, starts the load into the cell, whatever row it has by  *)
(* then.  Some cells are cleared and cancel their load before they get     *)
(* another row, others just get it.                                        *)
(*                                                                         *)
(* Two threads share three dictionaries without a lock.  The main thread   *)
(* starts a request and only then writes its token into runningRequests    *)
(* and uuidMap; URLSession's thread runs the completion, which removes     *)
(* both and leaves the picture to a block on the main queue.               *)
(***************************************************************************)
EXTENDS Naturals, Sequences, FiniteSets

CONSTANTS Views,    \* image views
          Cells,    \* those of cells with a prepareForReuse
          Urls,     \* addresses of pictures
          Uuids,    \* tokens of loads, drawn afresh for each
          None,     \* no view, address, token or picture
          MaxBlocks, \* bound of the model: blocks on the main queue
          MaxAsked  \* bound of the model: lookups at a time

ASSUME ImageLoaderAssumption ==
    /\ None \notin Views \cup Urls \cup Uuids
    /\ Cells \subseteq Views
    /\ MaxBlocks \in Nat /\ MaxAsked \in Nat

VARIABLES
    load,            \* load[l]: view, address and state of the request
    loadedImages,    \* ImageLoader.loadedImages: addresses whose picture is kept
    runningRequests, \* ImageLoader.runningRequests
    uuidMap,         \* UIImageLoader.uuidMap
    main,            \* the load whose token the main thread has not yet written
    thread,          \* the completion URLSession's thread is in
    blocks,          \* blocks that set a picture, on the main queue
    image,           \* image[v]: the picture shown, None for the placeholder
    wanted,          \* wanted[v]: the picture of the row v belongs to
    asked,           \* asked[v][u]: authors with picture u that v's rows wait for
    overtaken,       \* history: loads whose completion ended before they were registered,
                     \* or met another's registration
    mixed,           \* history: v got its row with a load or lookup of another left, see
                     \* Stray, or its token met another load's completion
    failed           \* history: an answer for v was no picture

maps == <<loadedImages, runningRequests, uuidMap>>
rows == <<wanted, asked>>
cells == <<image, rows>>
history == <<overtaken, mixed, failed>>
vars == <<load, maps, main, thread, blocks, cells, history>>

Answers == {"image", "junk", "error"}
States == {"unused", "running", "cancelled", "done"} \cup Answers
Block == [view : Views, url : Urls]

MainIdle == main.at = "idle"
Unused == {l \in Uuids : load[l].state = "unused"}
\* A plausible bug: tokens are not drawn afresh.
AnyUuid == CHOOSE l \in Uuids : TRUE
NewUuid == CHOOSE l \in Unused : TRUE
Idle == [load |-> None, at |-> "idle"]

-----------------------------------------------------------------------------
(* What is left of the rows a view had before.                             *)

\* An author a row of v waits for.
Asked(v) == \E u \in Urls : asked[v][u] # 0

\* An answer that will still touch v: its picture, or its token.
Answered(v) ==
    \/ \E l \in Uuids : load[l].view = v /\ load[l].state \in {"image", "error"}
    \/ \E i \in 1..Len(blocks) : blocks[i].view = v

Pending(v) ==
    Answered(v) \/ \E l \in Uuids : load[l].view = v /\ load[l].state = "running"

\* A lookup or answer that a cancellation does not stop, or a load that may have
\* become one.
Stray(v) == Asked(v) \/ Answered(v) \/ (mixed[v] /\ Pending(v))

\* Lookups under way, each with its number among those of its picture and view.
Lookups == {q \in Views \X Urls \X (1..MaxAsked) : q[3] <= asked[q[1]][q[2]]}

\* v gets a row with picture u, if any, and its author is asked for.
GiveRow(v, u) ==
    /\ u # None => Cardinality(Lookups) < MaxAsked
    /\ wanted' = [wanted EXCEPT ![v] = u]
    /\ asked' = [asked EXCEPT ![v] = [w \in Urls |-> IF w = u THEN @[w] + 1 ELSE @[w]]]
    /\ failed' = [failed EXCEPT ![v] = FALSE]

\* The callback for the author of v's row, or of one it had before.
Told(v, u) ==
    /\ asked[v][u] # 0
    /\ asked' = [asked EXCEPT ![v][u] = @ - 1]

-----------------------------------------------------------------------------
(* The main thread.                                                        *)

\* A plausible bug: the request is forgotten, not cancelled.
DequeueWithoutCancel(v, u) ==
    /\ MainIdle
    /\ GiveRow(v, u)
    /\ image' = [image EXCEPT ![v] = None]
    /\ runningRequests' = runningRequests \ {uuidMap[v]}
    /\ uuidMap' = [uuidMap EXCEPT ![v] = None]
    /\ mixed' = [mixed EXCEPT ![v] = Stray(v)]
    /\ UNCHANGED <<load, loadedImages, main, thread, blocks, overtaken>>

\* cellForRowAt of a list of posts, people or news: prepareForReuse sets the
\* placeholder and cancels by the view's token, and the cell gets another row.
Dequeue(v, u) ==
    /\ MainIdle
    /\ GiveRow(v, u)
    /\ image' = [image EXCEPT ![v] = None]
    /\ load' = [l \in Uuids |->
                  IF l = uuidMap[v] /\ l \in runningRequests /\ load[l].state = "running"
                  THEN [load[l] EXCEPT !.state = "cancelled"] ELSE load[l]]
    /\ runningRequests' = runningRequests \ {uuidMap[v]}
    /\ uuidMap' = [uuidMap EXCEPT ![v] = None]
    /\ mixed' = [mixed EXCEPT ![v] = Stray(v)]
    /\ UNCHANGED <<loadedImages, main, thread, blocks, overtaken>>

\* cellForItemAt of the connections of a profile, whose cells have no
\* prepareForReuse: the picture of the row before stays.
Redraw(v, u) ==
    /\ MainIdle
    /\ GiveRow(v, u)
    /\ mixed' = [mixed EXCEPT ![v] = Asked(v) \/ Pending(v) \/ image[v] \notin {None, u}]
    /\ UNCHANGED <<load, maps, main, thread, blocks, image, overtaken>>

\* The author's document could not be read: getUserById calls nobody.
LookupFails(v, u) ==
    /\ MainIdle
    /\ Told(v, u)
    /\ failed' = [failed EXCEPT ![v] = TRUE]
    /\ UNCHANGED <<load, maps, main, thread, blocks, image, wanted, overtaken, mixed>>

\* A plausible bug: a picture that is kept is not shown.
HitKeepsNothing(v, u) ==
    /\ MainIdle
    /\ Told(v, u)
    /\ u \in loadedImages
    /\ Len(blocks) < MaxBlocks
    /\ uuidMap' = [uuidMap EXCEPT ![v] = None]
    /\ UNCHANGED <<load, loadedImages, runningRequests, main, thread, image, wanted, blocks, history>>

\* The author's callback loads a picture that is kept: the completion runs at
\* once, without a token.
Hit(v, u) ==
    /\ MainIdle
    /\ Told(v, u)
    /\ u \in loadedImages
    /\ Len(blocks) < MaxBlocks
    /\ uuidMap' = [uuidMap EXCEPT ![v] = None]
    /\ blocks' = Append(blocks, [view |-> v, url |-> u])
    /\ UNCHANGED <<load, loadedImages, runningRequests, main, thread, image, wanted, history>>

\* Or another: a request is made and resumed.
Start(v, u) ==
    /\ MainIdle
    /\ Told(v, u)
    /\ u \notin loadedImages
    /\ Unused # {}
    /\ load' = [load EXCEPT ![NewUuid] = [view |-> v, url |-> u, state |-> "running"]]
    /\ main' = [load |-> NewUuid, at |-> "register"]
    /\ UNCHANGED <<maps, thread, blocks, image, wanted, history>>

\* The completion was faster than the line that registers the request.
Overtaken == {l \in {main.load} : load[l].state = "done"}

\* runningRequests[uuid] = task
Register ==
    /\ main.at = "register"
    /\ runningRequests' = runningRequests \cup {main.load}
    /\ overtaken' = overtaken \cup Overtaken
    /\ main' = [main EXCEPT !.at = "map"]
    /\ UNCHANGED <<load, loadedImages, uuidMap, thread, blocks, cells, mixed, failed>>

\* uuidMap[imageView] = token
MapToken ==
    /\ main.at = "map"
    /\ uuidMap' = [uuidMap EXCEPT ![load[main.load].view] = main.load]
    /\ main' = Idle
    /\ UNCHANGED <<load, loadedImages, runningRequests, thread, blocks, cells, history>>

\* The block of a completion sets the picture, whatever row v belongs to.
ShowImage ==
    /\ MainIdle
    /\ blocks # <<>>
    /\ image' = [image EXCEPT ![Head(blocks).view] = Head(blocks).url]
    /\ blocks' = Tail(blocks)
    /\ UNCHANGED <<load, maps, main, thread, rows, history>>

-----------------------------------------------------------------------------
(* URLSession.  Its completions run one at a time.                         *)

\* The answer has come: a picture, data that is none, or an error.
Respond(l, answer) ==
    /\ load[l].state = "running"
    /\ load' = [load EXCEPT ![l].state = answer]
    /\ failed' = [failed EXCEPT ![load[l].view] = @ \/ answer # "image"]
    /\ UNCHANGED <<maps, main, thread, blocks, cells, overtaken, mixed>>

\* The completion of a picture: loadedImages[url] = image, and the block that
\* shows it.
CompleteImage(l) ==
    /\ thread = Idle
    /\ load[l].state = "image"
    /\ loadedImages' = loadedImages \cup {load[l].url}
    /\ blocks' = Append(blocks, [view |-> load[l].view, url |-> load[l].url])
    /\ thread' = [load |-> l, at |-> "unmap"]
    /\ UNCHANGED <<load, runningRequests, uuidMap, main, cells, history>>

\* A plausible bug: a cancelled request takes the view's token with it, too.
CancelledCompletes(l) ==
    /\ thread = Idle
    /\ load[l].state \in {"junk", "error", "cancelled"}
    /\ thread' = [load |-> l, at |-> IF load[l].state = "junk" THEN "drop" ELSE "unmap"]
    /\ UNCHANGED <<load, maps, main, blocks, cells, history>>

\* Another completion: an error reaches UIImageLoader, a cancellation or data
\* that is no picture does not.
CompleteOther(l) ==
    /\ thread = Idle
    /\ load[l].state \in {"junk", "error", "cancelled"}
    /\ thread' = [load |-> l, at |-> IF load[l].state = "error" THEN "unmap" ELSE "drop"]
    /\ UNCHANGED <<load, maps, main, blocks, cells, history>>

\* defer of UIImageLoader's completion: the view's token goes, whichever it is.
Unmap ==
    /\ thread.at = "unmap"
    /\ uuidMap' = [uuidMap EXCEPT ![load[thread.load].view] = None]
    /\ thread' = [thread EXCEPT !.at = "drop"]
    /\ UNCHANGED <<load, loadedImages, runningRequests, main, blocks, cells, history>>

\* A plausible bug: runningRequests keeps the request.
DropsNothing ==
    /\ thread.at = "drop"
    /\ load' = [load EXCEPT ![thread.load].state = "done", ![thread.load].url = None]
    /\ thread' = Idle
    /\ UNCHANGED <<maps, main, blocks, cells, history>>

\* defer of the task's handler.
Drop ==
    /\ thread.at = "drop"
    /\ runningRequests' = runningRequests \ {thread.load}
    /\ load' = [load EXCEPT ![thread.load].state = "done", ![thread.load].url = None]
    /\ thread' = Idle
    /\ UNCHANGED <<loadedImages, uuidMap, main, blocks, cells, history>>

-----------------------------------------------------------------------------
(* Both threads in one dictionary: a data race.  Either write may get      *)
(* lost, or the process dies and begins again.                             *)

RaceInRunningRequests ==
    /\ main.at = "register" /\ thread.at = "drop"
    /\ \/ /\ runningRequests' = runningRequests \cup {main.load}
          /\ overtaken' = overtaken \cup {thread.load} \cup Overtaken
          /\ UNCHANGED mixed
       \/ /\ runningRequests' = runningRequests \ {thread.load}
          /\ mixed' = [mixed EXCEPT ![load[main.load].view] = TRUE]
          /\ UNCHANGED overtaken
    /\ load' = [load EXCEPT ![thread.load].state = "done", ![thread.load].url = None]
    /\ main' = [main EXCEPT !.at = "map"]
    /\ thread' = Idle
    /\ UNCHANGED <<loadedImages, uuidMap, blocks, cells, failed>>

RaceInUuidMap ==
    /\ main.at = "map" /\ thread.at = "unmap"
    /\ \/ /\ uuidMap' = [uuidMap EXCEPT ![load[main.load].view] = main.load]
          /\ UNCHANGED mixed
       \/ /\ uuidMap' = [uuidMap EXCEPT ![load[thread.load].view] = None]
          /\ mixed' = [mixed EXCEPT ![load[main.load].view] = TRUE]
    /\ main' = Idle
    /\ thread' = [thread EXCEPT !.at = "drop"]
    /\ UNCHANGED <<load, loadedImages, runningRequests, blocks, cells, overtaken, failed>>

Fresh ==
    [load |-> [l \in Uuids |-> [view |-> None, url |-> None, state |-> "unused"]],
     views |-> [v \in Views |-> None],
     nobody |-> [v \in Views |-> [u \in Urls |-> 0]],
     never |-> [v \in Views |-> FALSE]]

\* load reads loadedImages, cancel reads uuidMap and writes runningRequests.
Die ==
    /\ \/ thread = Idle /\ MainIdle /\ \E l \in Uuids : load[l].state = "image"
       \/ thread.at = "unmap" /\ main.at \in {"idle", "map"}
       \/ thread.at = "drop" /\ main.at \in {"idle", "register"}
    /\ load' = Fresh.load
    /\ loadedImages' = {}
    /\ runningRequests' = {}
    /\ uuidMap' = Fresh.views
    /\ main' = Idle
    /\ thread' = Idle
    /\ blocks' = <<>>
    /\ image' = Fresh.views
    /\ wanted' = Fresh.views
    /\ asked' = Fresh.nobody
    /\ overtaken' = {}
    /\ mixed' = Fresh.never
    /\ failed' = Fresh.never

-----------------------------------------------------------------------------
Init ==
    /\ load = Fresh.load
    /\ loadedImages = {}
    /\ runningRequests = {}
    /\ uuidMap = Fresh.views
    /\ main = Idle
    /\ thread = Idle
    /\ blocks = <<>>
    /\ image = Fresh.views
    /\ wanted = Fresh.views
    /\ asked = Fresh.nobody
    /\ overtaken = {}
    /\ mixed = Fresh.never
    /\ failed = Fresh.never

Next ==
    \/ \E v \in Cells, u \in Urls \cup {None} : Dequeue(v, u)
    \/ \E v \in Views \ Cells, u \in Urls \cup {None} : Redraw(v, u)
    \/ \E v \in Views, u \in Urls : Hit(v, u) \/ Start(v, u) \/ LookupFails(v, u)
    \/ Register
    \/ MapToken
    \/ ShowImage
    \/ \E l \in Uuids : CompleteImage(l) \/ CompleteOther(l)
    \/ \E l \in Uuids, answer \in Answers : Respond(l, answer)
    \/ Unmap
    \/ Drop
    \/ RaceInRunningRequests
    \/ RaceInUuidMap
    \/ Die

Spec == Init /\ [][Next]_vars

-----------------------------------------------------------------------------
(* Properties.                                                             *)

\* Every variable has its shape; a token in uuidMap is of a load for its view.
TypeOK ==
    /\ load \in [Uuids -> [view : Views \cup {None}, url : Urls \cup {None}, state : States]]
    /\ \A l \in Uuids : /\ load[l].state # "unused" => load[l].view \in Views
                        /\ load[l].state \notin {"unused", "done"} => load[l].url \in Urls
    /\ loadedImages \subseteq Urls
    /\ runningRequests \subseteq Uuids
    /\ uuidMap \in [Views -> Uuids \cup {None}]
    /\ \A v \in Views : uuidMap[v] # None => load[uuidMap[v]].view = v
    /\ \/ main = Idle
       \/ main \in [load : Uuids, at : {"register", "map"}] /\ load[main.load].state # "unused"
    /\ \/ thread = Idle
       \/ /\ thread \in [load : Uuids, at : {"unmap", "drop"}]
          /\ load[thread.load].state \in Answers \cup {"cancelled"}
    /\ blocks \in Seq(Block)
    /\ image \in [Views -> Urls \cup {None}]
    /\ wanted \in [Views -> Urls \cup {None}]
    /\ asked \in [Views -> [Urls -> Nat]]
    /\ overtaken \subseteq Uuids
    /\ mixed \in [Views -> BOOLEAN]
    /\ failed \in [Views -> BOOLEAN]

\* A cell shows the picture of the row it has now or the placeholder, though
\* authors are looked up and pictures answered in any order, unless it got the row
\* with the author of another still looked up or a picture already answered, or
\* is not cleared and there was something to clear, or a race lost its token.
ShowsItsRow ==
    \A v \in Views : ~mixed[v] => image[v] \in {None, wanted[v]}

\* The request of such a cell can be cancelled: its token is in both
\* dictionaries from the moment load returns until it is answered.
RunningIsCancellable ==
    \A l \in Uuids :
        LET v == load[l].view
        IN  load[l].state = "running" /\ main.load # l /\ ~mixed[v]
            => uuidMap[v] = l /\ l \in runningRequests

\* runningRequests holds requests that are still to be completed, and those
\* whose completion was faster than the line that registers them, or met it or
\* that of another in the dictionary.
RequestsAreDropped ==
    \A l \in runningRequests :
        load[l].state \in {"running"} \cup Answers \/ l \in overtaken

\* A cell never waits in vain: its row's picture is shown, still on its way,
\* its author still looked up, or it could not be had.
PicturesArrive ==
    \A v \in Views :
        \/ wanted[v] \in {None, image[v]}
        \/ mixed[v] \/ failed[v]
        \/ asked[v][wanted[v]] # 0
        \/ \E l \in Uuids : load[l] \in [view : {v}, url : {wanted[v]}, state : {"running", "image"}]
        \/ \E i \in 1..Len(blocks) : blocks[i] = [view |-> v, url |-> wanted[v]]
=============================================================================
