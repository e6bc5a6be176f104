------------------------- MODULE ImageLoader_proofs -------------------------
(***************************************************************************)
(* Theorems about ImageLoader, for every set of image views, addresses and *)
(* loads: in a cell that got its row with nothing left of the ones before, *)
(* no picture reaches another row and the dictionaries describe the        *)
(* requests, whatever the authors of other cells, their answers and the    *)
(* races of the two threads do.                                            *)
(***************************************************************************)
EXTENDS ImageLoader, TLAPS

-----------------------------------------------------------------------------
(* The inductive invariant, in parts.                                      *)

\* v got its row with nothing left of the ones before.
Sound(v) == ~mixed[v]

\* A load that may still touch its view.
Live(l) == load[l].state \in {"running", "image", "error"}

Waiting == {blocks[i] : i \in 1..Len(blocks)}

\* A token nobody has drawn has no view.
UnusedHasNoView ==
    \A l \in Uuids : load[l].state = "unused" => load[l].view = None

\* Only a picture or an error reaches UIImageLoader's completion, and nothing
\* cancels a load whose token is still being written.
ThreadsAgree ==
    /\ thread.at = "unmap" => load[thread.load].state \in {"image", "error"}
    /\ main.at # "idle" => load[main.load].state # "cancelled"

\* While an author is looked up it is the row's, and nothing else is on its way
\* to the view or shown there.
LookupIsForRow ==
    \A v \in Views : Sound(v) =>
        \A u \in Urls : asked[v][u] # 0 =>
            /\ u = wanted[v] /\ asked[v][u] = 1
            /\ image[v] \in {None, u}
            /\ \A l \in Uuids : load[l].view = v => ~Live(l)
            /\ \A b \in Waiting : b.view # v

\* A view has one live load at a time, the one the main thread has started if
\* it is still writing its token.
OneAtATime ==
    \A v \in Views : Sound(v) =>
        \A l \in Uuids : load[l].view = v /\ Live(l) =>
            /\ \A k \in Uuids : load[k].view = v /\ Live(k) => k = l
            /\ main.at # "idle" /\ load[main.load].view = v => main.load = l

\* The request is registered before its token is.
RegisteredFirst ==
    main.at = "map" /\ load[main.load].state = "running" /\ Sound(load[main.load].view)
        => main.load \in runningRequests

\* Loads and blocks of a view are for its row.
OnTheirWay ==
    \A v \in Views : Sound(v) =>
        /\ \A l \in Uuids : load[l].view = v /\ load[l].state \in {"running", "image"}
               => load[l].url = wanted[v]
        /\ \A b \in Waiting : b.view = v => b.url = wanted[v]

\* Before a completed load is dropped its picture waits or is shown.
CompletedIsShown ==
    thread.at # "idle" /\ load[thread.load].state = "image" =>
        LET v == load[thread.load].view
        IN  Sound(v) => image[v] = wanted[v] \/ [view |-> v, url |-> wanted[v]] \in Waiting

\* The row's picture is shown, waits, is under way, its author is looked up, or
\* it could not be had.
Arrive ==
    \A v \in Views : Sound(v) /\ ~failed[v] =>
        \/ wanted[v] \in {None, image[v]}
        \/ asked[v][wanted[v]] # 0
        \/ [view |-> v, url |-> wanted[v]] \in Waiting
        \/ \E l \in Uuids : /\ load[l].view = v /\ load[l].url = wanted[v]
                            /\ load[l].state \in {"running", "image"}

Agreement ==
    /\ UnusedHasNoView
    /\ ThreadsAgree
    /\ LookupIsForRow
    /\ OneAtATime
    /\ RegisteredFirst
    /\ RunningIsCancellable
    /\ OnTheirWay
    /\ ShowsItsRow
    /\ RequestsAreDropped
    /\ CompletedIsShown
    /\ Arrive

IInv == TypeOK /\ Agreement

-----------------------------------------------------------------------------
(* What single steps do, one load or block at a time.                      *)

\* A new token is unused.
LEMMA NewUuidIsUnused ==
    ASSUME Unused # {}
    PROVE  NewUuid \in Uuids /\ load[NewUuid].state = "unused"
BY DEF NewUuid, Unused

\* A load that is under way has a view and an address.
LEMMA LoadsAre ==
    ASSUME TypeOK
    PROVE  /\ \A l \in Uuids : load[l].state # "unused" => load[l].view \in Views
           /\ \A l \in Uuids : load[l].state \notin {"unused", "done"} => load[l].url \in Urls
           /\ \A l \in Uuids : load[l].view \in Views \cup {None} /\ load[l].state \in States
<1>1. \A l \in Uuids : /\ load[l].state # "unused" => load[l].view \in Views
                       /\ load[l].state \notin {"unused", "done"} => load[l].url \in Urls
  <2> SUFFICES ASSUME NEW l \in Uuids
               PROVE  /\ load[l].state # "unused" => load[l].view \in Views
                      /\ load[l].state \notin {"unused", "done"} => load[l].url \in Urls
    OBVIOUS
  <2>1. QED
    BY Zenon DEF TypeOK
<1>2. load \in [Uuids -> [view : Views \cup {None}, url : Urls \cup {None}, state : States]]
  BY Zenon DEF TypeOK
<1>3. QED
  BY <1>1, <1>2

\* What the threads are at.
LEMMA ThreadsAre ==
    ASSUME TypeOK
    PROVE  /\ main.at # "idle" => /\ main \in [load : Uuids, at : {"register", "map"}]
                                  /\ load[main.load].state # "unused"
                                  /\ load[main.load].view \in Views
           /\ thread.at # "idle" => /\ thread \in [load : Uuids, at : {"unmap", "drop"}]
                                    /\ load[thread.load].state \in Answers \cup {"cancelled"}
                                    /\ load[thread.load].view \in Views
           /\ main.at = "idle" => main = Idle
           /\ thread.at = "idle" => thread = Idle
<1>1. /\ \/ main = Idle
         \/ main \in [load : Uuids, at : {"register", "map"}] /\ load[main.load].state # "unused"
      /\ \/ thread = Idle
         \/ /\ thread \in [load : Uuids, at : {"unmap", "drop"}]
            /\ load[thread.load].state \in Answers \cup {"cancelled"}
  BY Zenon DEF TypeOK
<1>2. QED
  BY <1>1, LoadsAre DEF Idle, Answers

\* A block is added at the end of the main queue.
LEMMA BlockIsAdded ==
    ASSUME blocks \in Seq(Block), NEW b \in Block, blocks' = Append(blocks, b)
    PROVE  Waiting' = Waiting \cup {b} /\ blocks' \in Seq(Block)
<1>1. /\ Len(blocks') = Len(blocks) + 1
      /\ \A i \in 1..Len(blocks) : blocks'[i] = blocks[i]
      /\ blocks'[Len(blocks) + 1] = b
      /\ Len(blocks) \in Nat
  OBVIOUS
<1>2. 1..Len(blocks') = 1..Len(blocks) \cup {Len(blocks) + 1}
  BY <1>1
<1>3. QED
  BY <1>1, <1>2 DEF Waiting

\* Its first block is run.
LEMMA BlockIsRun ==
    ASSUME blocks \in Seq(Block), blocks # <<>>, blocks' = Tail(blocks)
    PROVE  /\ Waiting = {Head(blocks)} \cup Waiting'
           /\ Head(blocks) \in Block
           /\ blocks' \in Seq(Block)
<1>1. /\ Len(blocks) = Len(blocks') + 1
      /\ \A i \in 1..Len(blocks') : blocks'[i] = blocks[i + 1]
      /\ Head(blocks) = blocks[1]
      /\ Len(blocks') \in Nat
      /\ blocks' \in Seq(Block)
  OBVIOUS
<1>2. Waiting \subseteq {Head(blocks)} \cup Waiting'
  <2> SUFFICES ASSUME NEW i \in 1..Len(blocks), i # 1
               PROVE  blocks[i] \in Waiting'
    BY <1>1 DEF Waiting
  <2>1. i - 1 \in 1..Len(blocks') /\ blocks'[i - 1] = blocks[i]
    BY <1>1
  <2>2. QED
    BY <2>1 DEF Waiting
<1>3. {Head(blocks)} \cup Waiting' \subseteq Waiting
  <2>1. Head(blocks) \in Waiting
    BY <1>1 DEF Waiting
  <2>2. ASSUME NEW i \in 1..Len(blocks') PROVE blocks'[i] \in Waiting
    <3>1. i + 1 \in 1..Len(blocks) /\ blocks'[i] = blocks[i + 1]
      BY <1>1
    <3>2. QED
      BY <3>1 DEF Waiting
  <2>3. QED
    BY <2>1, <2>2 DEF Waiting
<1>4. QED
  BY <1>1, <1>2, <1>3

\* What is pending for a view, in terms of its loads and blocks.
LEMMA PendingMeans ==
    ASSUME TypeOK, NEW v \in Views
    PROVE  /\ Answered(v) <=> \/ \E l \in Uuids : load[l].view = v /\ load[l].state \in {"image", "error"}
                              \/ \E b \in Waiting : b.view = v
           /\ Pending(v) <=> \/ \E l \in Uuids : load[l].view = v /\ Live(l)
                             \/ \E b \in Waiting : b.view = v
BY DEF Answered, Pending, Waiting, Live

\* A view gets a row: only its own author is looked up, if no other was.
LEMMA RowIsGiven ==
    ASSUME TypeOK, NEW v \in Views, NEW u \in Urls \cup {None}, GiveRow(v, u)
    PROVE  /\ wanted' \in [Views -> Urls \cup {None}]
           /\ asked' \in [Views -> [Urls -> Nat]]
           /\ failed' \in [Views -> BOOLEAN]
           /\ wanted'[v] = u /\ failed'[v] = FALSE
           /\ u \in Urls => asked'[v][u] # 0
           /\ ~Asked(v) => \A x \in Urls : asked'[v][x] = IF x = u THEN 1 ELSE 0
           /\ \A w \in Views : w # v => /\ wanted'[w] = wanted[w] /\ asked'[w] = asked[w]
                                        /\ failed'[w] = failed[w]
<1>1. /\ wanted \in [Views -> Urls \cup {None}]
      /\ asked \in [Views -> [Urls -> Nat]]
      /\ failed \in [Views -> BOOLEAN]
  BY DEF TypeOK
<1>2. /\ wanted' = [wanted EXCEPT ![v] = u]
      /\ asked' = [asked EXCEPT ![v] = [x \in Urls |-> IF x = u THEN asked[v][x] + 1 ELSE asked[v][x]]]
      /\ failed' = [failed EXCEPT ![v] = FALSE]
  BY DEF GiveRow
<1>3. ~Asked(v) => \A x \in Urls : asked[v][x] = 0
  BY DEF Asked
<1>4. QED
  BY <1>1, <1>2, <1>3

\* An author is there, or not: one lookup less.
LEMMA LookupIsTaken ==
    ASSUME TypeOK, NEW v \in Views, NEW u \in Urls, Told(v, u)
    PROVE  /\ asked' \in [Views -> [Urls -> Nat]]
           /\ asked[v][u] # 0 /\ asked'[v][u] = asked[v][u] - 1
           /\ \A x \in Urls : x # u => asked'[v][x] = asked[v][x]
           /\ \A w \in Views : w # v => asked'[w] = asked[w]
<1>1. asked \in [Views -> [Urls -> Nat]]
  BY DEF TypeOK
<1>2. asked[v][u] # 0 /\ asked' = [asked EXCEPT ![v] = [asked[v] EXCEPT ![u] = asked[v][u] - 1]]
  BY DEF Told
<1>3. asked[v] \in [Urls -> Nat]
  BY <1>1
<1>4. asked[v][u] \in Nat
  BY <1>3
<1>5. asked[v][u] - 1 \in Nat
  BY <1>2, <1>4
<1>6. [asked[v] EXCEPT ![u] = asked[v][u] - 1] \in [Urls -> Nat]
  BY <1>3, <1>5
<1>7. /\ asked' \in [Views -> [Urls -> Nat]]
      /\ asked'[v] = [asked[v] EXCEPT ![u] = asked[v][u] - 1]
      /\ \A w \in Views : w # v => asked'[w] = asked[w]
  BY <1>1, <1>2, <1>6
<1>8. QED
  BY <1>2, <1>3, <1>7

\* In a sound view it was the only one, and the row's.
LEMMA LookupIsTheRows ==
    ASSUME TypeOK, LookupIsForRow, NEW v \in Views, NEW u \in Urls, Told(v, u), Sound(v)
    PROVE  /\ u = wanted[v] /\ image[v] \in {None, u}
           /\ \A x \in Urls : asked'[v][x] = 0
           /\ \A l \in Uuids : load[l].view = v => ~Live(l)
           /\ \A b \in Waiting : b.view # v
<1>1. /\ u = wanted[v] /\ asked[v][u] = 1 /\ image[v] \in {None, u}
      /\ \A l \in Uuids : load[l].view = v => ~Live(l)
      /\ \A b \in Waiting : b.view # v
  BY LookupIsTaken DEF LookupIsForRow
<1>2. ASSUME NEW x \in Urls, x # u PROVE asked'[v][x] = 0
  BY <1>1, <1>2, LookupIsTaken DEF LookupIsForRow
<1>3. QED
  BY <1>1, <1>2, LookupIsTaken

-----------------------------------------------------------------------------
(* The shape of the state.                                                 *)

\* The initial state satisfies the inductive invariant.
LEMMA InitIInv ==
    Init => IInv
<1> SUFFICES ASSUME Init PROVE IInv
  OBVIOUS
<1>1. TypeOK
  <2>1. /\ load \in [Uuids -> [view : Views \cup {None}, url : Urls \cup {None}, state : States]]
        /\ \A l \in Uuids : load[l].state = "unused"
    BY DEF Init, Fresh, States
  <2>2. /\ uuidMap \in [Views -> Uuids \cup {None}]
        /\ \A v \in Views : uuidMap[v] = None
        /\ image \in [Views -> Urls \cup {None}]
        /\ wanted \in [Views -> Urls \cup {None}]
        /\ asked \in [Views -> [Urls -> Nat]]
        /\ mixed \in [Views -> BOOLEAN]
        /\ failed \in [Views -> BOOLEAN]
    BY DEF Init, Fresh
  <2>3. /\ loadedImages = {} /\ runningRequests = {} /\ overtaken = {}
        /\ main = Idle /\ thread = Idle /\ blocks = <<>>
    BY DEF Init
  <2>4. blocks \in Seq(Block)
    BY <2>3
  <2>5. QED
    BY <2>1, <2>2, <2>3, <2>4 DEF TypeOK
<1>2. UnusedHasNoView /\ ThreadsAgree
  BY DEF Init, Fresh, Idle, UnusedHasNoView, ThreadsAgree
<1>3. OneAtATime /\ RegisteredFirst /\ RunningIsCancellable /\ RequestsAreDropped
  BY DEF Init, Fresh, Idle, OneAtATime, Live, RegisteredFirst, RunningIsCancellable, RequestsAreDropped
<1>4. LookupIsForRow /\ OnTheirWay /\ ShowsItsRow /\ CompletedIsShown /\ Arrive
  BY DEF Init, LookupIsForRow, Fresh, Idle, OnTheirWay, Waiting, ShowsItsRow, CompletedIsShown, Arrive
<1>5. QED
  BY <1>1, <1>2, <1>3, <1>4 DEF IInv, Agreement

\* A crash leaves what a start of the process begins with.
LEMMA DieIsInit ==
    Die => Init'
BY DEF Die, Init, Fresh, Idle

\* Every step keeps the shape of the state.
LEMMA TypeStep ==
    ASSUME TypeOK, UnusedHasNoView, ThreadsAgree, Next, ~Die
    PROVE  TypeOK'
<1>1. ASSUME NEW v \in Views, NEW u \in Urls, Hit(v, u) PROVE TypeOK'
  <2>1. asked' \in [Views -> [Urls -> Nat]]
    BY <1>1, LookupIsTaken DEF Hit
  <2>2. blocks' \in Seq(Block)
    BY <1>1, BlockIsAdded DEF TypeOK, Block, Hit
  <2>3. /\ uuidMap' \in [Views -> Uuids \cup {None}]
        /\ \A w \in Views : uuidMap'[w] # None => load'[uuidMap'[w]].view = w
    BY <1>1 DEF TypeOK, ThreadsAgree, Hit
  <2>4. UNCHANGED <<load, loadedImages, runningRequests, main, thread, image, wanted, overtaken,
                    mixed, failed>>
    BY <1>1 DEF Hit, history
  <2>5. QED
    BY <2>1, <2>2, <2>3, <2>4 DEF TypeOK
<1>2. ASSUME NEW v \in Views, NEW u \in Urls, Start(v, u) PROVE TypeOK'
  <2>1. asked' \in [Views -> [Urls -> Nat]]
    BY <1>2, LookupIsTaken DEF Start
  <2>2. NewUuid \in Uuids /\ load[NewUuid].state = "unused"
    BY <1>2, NewUuidIsUnused DEF Start
  <2>3. /\ load' \in [Uuids -> [view : Views \cup {None}, url : Urls \cup {None}, state : States]]
        /\ load'[NewUuid] = [view |-> v, url |-> u, state |-> "running"]
        /\ \A l \in Uuids : l # NewUuid => load'[l] = load[l]
    BY <1>2, <2>2 DEF TypeOK, States, Start
  <2>4. \A w \in Views : uuidMap[w] # NewUuid
    <3>1. \A w \in Views : uuidMap[w] # None => load[uuidMap[w]].view = w
      BY Zenon DEF TypeOK
    <3>2. load[NewUuid].view = None /\ NewUuid # None
      BY <2>2, ImageLoaderAssumption DEF UnusedHasNoView
    <3>3. QED
      BY <3>1, <3>2, ImageLoaderAssumption
  <2>6. main' = [load |-> NewUuid, at |-> "register"]
    BY <1>2 DEF Start
  <2>7. UNCHANGED <<maps, thread, blocks, image, wanted, overtaken, mixed, failed>>
    BY <1>2 DEF Start, history
  <2>8. thread # Idle => thread.load # NewUuid
    BY <2>2 DEF TypeOK, Answers
  <2>9. /\ \A l \in Uuids : /\ load'[l].state # "unused" => load'[l].view \in Views
                            /\ load'[l].state \notin {"unused", "done"} => load'[l].url \in Urls
        /\ \A l \in Uuids : l # NewUuid => load'[l] = load[l]
        /\ main' \in [load : Uuids, at : {"register", "map"}] /\ load'[main'.load].state # "unused"
    <3> SUFFICES ASSUME NEW l \in Uuids
                 PROVE  /\ load'[l].state # "unused" => load'[l].view \in Views
                        /\ load'[l].state \notin {"unused", "done"} => load'[l].url \in Urls
      BY <2>2, <2>3, <2>6
    <3>1. CASE l = NewUuid
      BY <3>1, <2>3
    <3>2. CASE l # NewUuid
      BY <3>2, <2>3, LoadsAre
    <3>3. QED
      BY <3>1, <3>2
  <2>10. \A w \in Views : uuidMap[w] # None => load'[uuidMap[w]].view = w
    BY <2>3, <2>4 DEF TypeOK
  <2>11. \/ thread = Idle
         \/ /\ thread \in [load : Uuids, at : {"unmap", "drop"}]
            /\ load'[thread.load].state \in Answers \cup {"cancelled"}
    BY <2>3, <2>8 DEF TypeOK
  <2>12. QED
    BY <2>1, <2>3, <2>7, <2>9, <2>10, <2>11 DEF TypeOK, maps
<1>3. ASSUME Register PROVE TypeOK'
  <2>1. main \in [load : Uuids, at : {"register", "map"}] /\ load[main.load].state # "unused"
    BY <1>3, ThreadsAre DEF Register
  <2>2. runningRequests \subseteq Uuids /\ overtaken \subseteq Uuids
    BY Zenon DEF TypeOK
  <2>3. runningRequests' \subseteq Uuids /\ overtaken' \subseteq Uuids
    BY <1>3, <2>1, <2>2 DEF Register, Overtaken
  <2>4. main' \in [load : Uuids, at : {"register", "map"}] /\ load[main'.load].state # "unused"
    BY <1>3, <2>1 DEF Register
  <2>5. UNCHANGED <<load, loadedImages, uuidMap, thread, blocks, cells, mixed, failed>>
    BY <1>3 DEF Register
  <2>6. QED
    BY <2>3, <2>4, <2>5 DEF TypeOK, cells, rows
<1>4. ASSUME MapToken PROVE TypeOK'
  <2>1. main.load \in Uuids /\ load[main.load].view \in Views
    BY <1>4, ThreadsAre DEF MapToken
  <2>2. /\ uuidMap \in [Views -> Uuids \cup {None}]
        /\ \A w \in Views : uuidMap[w] # None => load[uuidMap[w]].view = w
    BY DEF TypeOK
  <2>3. /\ uuidMap' = [uuidMap EXCEPT ![load[main.load].view] = main.load]
        /\ load' = load
    BY <1>4 DEF MapToken
  <2>4. /\ uuidMap' \in [Views -> Uuids \cup {None}]
        /\ \A w \in Views : uuidMap'[w] # None => load'[uuidMap'[w]].view = w
    BY <2>1, <2>2, <2>3
  <2>5. QED
    BY <1>4, <2>4 DEF TypeOK, cells, rows, history, MapToken
<1>5. ASSUME NEW v \in Views, NEW u \in Urls \cup {None}, Dequeue(v, u) PROVE TypeOK'
  <2>1. Stray(v) \in BOOLEAN
    BY DEF Stray
  <2>2. \A l \in Uuids : \/ load'[l] = load[l]
                         \/ /\ load[l].state = "running"
                            /\ load'[l] = [view |-> load[l].view, url |-> load[l].url, state |-> "cancelled"]
    BY <1>5 DEF TypeOK, Dequeue
  <2>3. /\ load' \in [Uuids -> [view : Views \cup {None}, url : Urls \cup {None}, state : States]]
        /\ \A l \in Uuids : /\ load'[l].state # "unused" => load'[l].view \in Views
                            /\ load'[l].state \notin {"unused", "done"} => load'[l].url \in Urls
    <3>1. DOMAIN load' = Uuids /\ load' = [l \in Uuids |-> load'[l]]
      BY <1>5 DEF Dequeue
    <3>2. \A l \in Uuids : load[l] \in [view : Views \cup {None}, url : Urls \cup {None}, state : States]
      BY DEF TypeOK
    <3>3. \A l \in Uuids : load'[l] \in [view : Views \cup {None}, url : Urls \cup {None}, state : States]
      <4> SUFFICES ASSUME NEW l \in Uuids
                   PROVE  load'[l] \in [view : Views \cup {None}, url : Urls \cup {None}, state : States]
        OBVIOUS
      <4>1. CASE load'[l] = load[l]
        BY <4>1, <3>2
      <4>2. CASE load'[l] = [view |-> load[l].view, url |-> load[l].url, state |-> "cancelled"]
        BY <4>2, <3>2 DEF States
      <4>3. QED
        BY <2>2, <4>1, <4>2
    <3>4. QED
      BY <2>2, <3>1, <3>3, LoadsAre
  <2>4. \A l \in Uuids : /\ load'[l].view = load[l].view
                         /\ load[l].state # "unused" => load'[l].state # "unused"
                         /\ load[l].state \in Answers \cup {"cancelled"} => load'[l] = load[l]
    <3> SUFFICES ASSUME NEW l \in Uuids
                 PROVE  /\ load'[l].view = load[l].view
                        /\ load[l].state # "unused" => load'[l].state # "unused"
                        /\ load[l].state \in Answers \cup {"cancelled"} => load'[l] = load[l]
      OBVIOUS
    <3>1. CASE load'[l] = load[l]
      BY <3>1
    <3>2. CASE /\ load[l].state = "running"
               /\ load'[l] = [view |-> load[l].view, url |-> load[l].url, state |-> "cancelled"]
      BY <3>2 DEF Answers
    <3>3. QED
      BY <2>2, <3>1, <3>2
  <2>5. /\ uuidMap' \in [Views -> Uuids \cup {None}]
        /\ \A w \in Views : uuidMap'[w] # None => load'[uuidMap'[w]].view = w
    <3>1. /\ uuidMap \in [Views -> Uuids \cup {None}]
          /\ \A w \in Views : uuidMap[w] # None => load[uuidMap[w]].view = w
      BY DEF TypeOK
    <3>2. uuidMap' = [uuidMap EXCEPT ![v] = None]
      BY <1>5 DEF Dequeue
    <3>3. QED
      BY <2>4, <3>1, <3>2
  <2>6. /\ \/ main' = Idle
           \/ main' \in [load : Uuids, at : {"register", "map"}] /\ load'[main'.load].state # "unused"
        /\ \/ thread' = Idle
           \/ /\ thread' \in [load : Uuids, at : {"unmap", "drop"}]
              /\ load'[thread'.load].state \in Answers \cup {"cancelled"}
    BY <1>5, <2>4 DEF TypeOK, Dequeue
  <2>7. /\ mixed' \in [Views -> BOOLEAN]
        /\ failed' \in [Views -> BOOLEAN]
        /\ image' \in [Views -> Urls \cup {None}]
        /\ wanted' \in [Views -> Urls \cup {None}]
        /\ asked' \in [Views -> [Urls -> Nat]]
        /\ runningRequests' \subseteq Uuids
    <3>1. mixed' \in [Views -> BOOLEAN]
      BY <1>5, <2>1 DEF TypeOK, Dequeue
    <3>2. QED
      BY <1>5, <3>1, RowIsGiven DEF TypeOK, Dequeue
  <2>8. UNCHANGED <<loadedImages, blocks, overtaken>>
    BY <1>5 DEF Dequeue
  <2>9. QED
    BY <2>3, <2>5, <2>6, <2>7, <2>8 DEF TypeOK
<1>6. ASSUME ShowImage PROVE TypeOK'
  <2>1. Head(blocks) \in Block /\ blocks' \in Seq(Block)
    BY <1>6, BlockIsRun DEF TypeOK, ShowImage
  <2>2. image' \in [Views -> Urls \cup {None}]
    BY <1>6, <2>1 DEF TypeOK, Block, ShowImage
  <2>3. QED
    BY <1>6, <2>1, <2>2 DEF TypeOK, maps, rows, history, ShowImage
<1>7. ASSUME NEW l \in Uuids, NEW answer \in Answers, Respond(l, answer) PROVE TypeOK'
  <2>1. /\ load' \in [Uuids -> [view : Views \cup {None}, url : Urls \cup {None}, state : States]]
        /\ load'[l] = [view |-> load[l].view, url |-> load[l].url, state |-> answer]
        /\ \A k \in Uuids : k # l => load'[k] = load[k]
    BY <1>7 DEF TypeOK, States, Respond
  <2>2. load[l].state = "running"
    BY <1>7 DEF Respond
  <2>3. failed' \in [Views -> BOOLEAN]
    BY <1>7, <2>2 DEF TypeOK, Respond
  <2>4. UNCHANGED <<maps, main, thread, blocks, cells, overtaken, mixed>>
    BY <1>7 DEF Respond
  <2>5. /\ load'[l].view \in Views /\ load'[l].url \in Urls
        /\ load'[l].state \in Answers /\ load'[l].state \notin {"unused", "done"}
    BY <2>1, <2>2, LoadsAre DEF Answers
  <2>6. \A k \in Uuids : /\ load'[k].view = load[k].view
                         /\ load[k].state # "unused" => load'[k].state # "unused"
                         /\ load[k].state \in Answers \cup {"cancelled"}
                                => load'[k].state \in Answers \cup {"cancelled"}
                         /\ load'[k].state # "unused" => load'[k].view \in Views
                         /\ load'[k].state \notin {"unused", "done"} => load'[k].url \in Urls
    <3> SUFFICES ASSUME NEW k \in Uuids, k # l PROVE load'[k] = load[k]
      BY <2>1, <2>2, <2>5, LoadsAre
    <3>1. QED
      BY <2>1
  <2>7. QED
    BY <2>1, <2>3, <2>4, <2>6 DEF TypeOK, maps, cells, rows
<1>8. ASSUME NEW l \in Uuids, CompleteImage(l) PROVE TypeOK'
  <2>0. load[l].state = "image"
    BY <1>8 DEF CompleteImage
  <2>1. load[l].view \in Views /\ load[l].url \in Urls
    BY <2>0, LoadsAre
  <2>2. blocks' \in Seq(Block)
    BY <1>8, <2>1, BlockIsAdded DEF TypeOK, Block, CompleteImage
  <2>3. thread' \in [load : Uuids, at : {"unmap", "drop"}] /\ load[thread'.load].state \in Answers
    BY <1>8 DEF Answers, CompleteImage
  <2>4. loadedImages' \subseteq Urls /\ UNCHANGED <<load, runningRequests, uuidMap, main, cells, history>>
    BY <1>8, <2>1 DEF TypeOK, CompleteImage
  <2>5. QED
    BY <2>2, <2>3, <2>4 DEF TypeOK, cells, rows, history
<1>9. ASSUME NEW l \in Uuids, CompleteOther(l) PROVE TypeOK'
  BY <1>9, ImageLoaderAssumption
     DEF TypeOK, Idle, MainIdle, States, Answers, maps, cells, rows, history, CompleteOther
<1>10. ASSUME Unmap PROVE TypeOK'
  <2>1. /\ uuidMap' \in [Views -> Uuids \cup {None}]
        /\ \A w \in Views : uuidMap'[w] # None => load'[uuidMap'[w]].view = w
    BY <1>10 DEF TypeOK, ThreadsAgree, Unmap, Idle
  <2>2. /\ thread' \in [load : Uuids, at : {"unmap", "drop"}] /\ thread'.load = thread.load
        /\ thread # Idle
    BY <1>10 DEF TypeOK, Unmap, Idle
  <2>3. QED
    BY <1>10, <2>1, <2>2 DEF TypeOK, cells, rows, history, Unmap
<1>11. ASSUME Drop PROVE TypeOK'
  BY <1>11, ImageLoaderAssumption DEF TypeOK, Idle, MainIdle, States, Answers, maps, cells, rows, history, Drop
<1>12. ASSUME RaceInRunningRequests PROVE TypeOK'
  <2>1. /\ main \in [load : Uuids, at : {"register", "map"}] /\ load[main.load].state # "unused"
        /\ thread.load \in Uuids /\ load[thread.load].view \in Views
    BY <1>12, ThreadsAre DEF RaceInRunningRequests
  <2>2. /\ runningRequests \subseteq Uuids /\ overtaken \subseteq Uuids
        /\ load \in [Uuids -> [view : Views \cup {None}, url : Urls \cup {None}, state : States]]
        /\ mixed \in [Views -> BOOLEAN]
    BY Zenon DEF TypeOK
  <2>3. /\ runningRequests' \subseteq Uuids /\ overtaken' \subseteq Uuids
        /\ mixed' \in [Views -> BOOLEAN]
    BY <1>12, <2>1, <2>2 DEF RaceInRunningRequests, Overtaken
  <2>4. load' = [load EXCEPT ![thread.load].state = "done", ![thread.load].url = None]
    BY <1>12, Zenon DEF RaceInRunningRequests
  <2>5. /\ load'[thread.load] = [view |-> load[thread.load].view, url |-> None, state |-> "done"]
        /\ \A l \in Uuids : l # thread.load => load'[l] = load[l]
    BY <2>1, <2>2, <2>4
  <2>a. load' \in [Uuids -> [view : Views \cup {None}, url : Urls \cup {None}, state : States]]
    <3>1. DOMAIN load' = Uuids /\ load' = [l \in Uuids |-> load'[l]]
      BY <2>2, <2>4
    <3>2. \A l \in Uuids : load'[l] \in [view : Views \cup {None}, url : Urls \cup {None}, state : States]
      <4> SUFFICES ASSUME NEW l \in Uuids, l # thread.load
                   PROVE  load'[l] \in [view : Views \cup {None}, url : Urls \cup {None}, state : States]
        BY <2>1, <2>5 DEF States
      <4>1. QED
        BY <2>2, <2>5
    <3>3. QED
      BY <3>1, <3>2
  <2>6. \A l \in Uuids : /\ load'[l].view = load[l].view
                         /\ load[l].state # "unused" => load'[l].state # "unused"
                         /\ load'[l].state # "unused" => load'[l].view \in Views
                         /\ load'[l].state \notin {"unused", "done"} => load'[l].url \in Urls
    BY <2>1, <2>5, LoadsAre
  <2>7. /\ main' \in [load : Uuids, at : {"register", "map"}] /\ load'[main'.load].state # "unused"
        /\ thread' = Idle
    BY <1>12, <2>1, <2>6 DEF RaceInRunningRequests
  <2>8. UNCHANGED <<loadedImages, uuidMap, blocks, cells, failed>>
    BY <1>12 DEF RaceInRunningRequests
  <2>9. \A w \in Views : uuidMap[w] # None => load'[uuidMap[w]].view = w
    BY <2>6 DEF TypeOK
  <2>10. QED
    BY <2>3, <2>a, <2>6, <2>7, <2>8, <2>9 DEF TypeOK, cells, rows
<1>13. ASSUME RaceInUuidMap PROVE TypeOK'
  <2>0. /\ main.load \in Uuids /\ load[main.load].view \in Views
        /\ thread.load \in Uuids /\ load[thread.load].view \in Views
    BY <1>13, ThreadsAre DEF RaceInUuidMap
  <2>a. /\ uuidMap \in [Views -> Uuids \cup {None}]
        /\ \A w \in Views : uuidMap[w] # None => load[uuidMap[w]].view = w
    BY DEF TypeOK
  <2>b. /\ uuidMap' \in {[uuidMap EXCEPT ![load[main.load].view] = main.load],
                        [uuidMap EXCEPT ![load[thread.load].view] = None]}
        /\ load' = load
    BY <1>13 DEF RaceInUuidMap
  <2>1. /\ uuidMap' \in [Views -> Uuids \cup {None}]
        /\ \A w \in Views : uuidMap'[w] # None => load'[uuidMap'[w]].view = w
    BY <2>0, <2>a, <2>b
  <2>2. /\ thread' \in [load : Uuids, at : {"unmap", "drop"}] /\ thread'.load = thread.load
        /\ load[thread.load].state \in Answers \cup {"cancelled"}
        /\ main' = Idle
    BY <1>13, ThreadsAre DEF RaceInUuidMap
  <2>3. mixed' \in [Views -> BOOLEAN]
    BY <1>13 DEF TypeOK, RaceInUuidMap
  <2>4. UNCHANGED <<load, loadedImages, runningRequests, blocks, cells, overtaken, failed>>
    BY <1>13 DEF RaceInUuidMap
  <2>5. QED
    BY <2>1, <2>2, <2>3, <2>4 DEF TypeOK, cells, rows
<1>14. ASSUME NEW v \in Views, NEW u \in Urls \cup {None}, Redraw(v, u) PROVE TypeOK'
  <2>1. mixed' \in [Views -> BOOLEAN]
    <3>1. (Asked(v) \/ Pending(v) \/ image[v] \notin {None, u}) \in BOOLEAN
      OBVIOUS
    <3>2. QED
      BY <1>14, <3>1 DEF TypeOK, Redraw
  <2>2. /\ wanted' \in [Views -> Urls \cup {None}]
        /\ asked' \in [Views -> [Urls -> Nat]]
        /\ failed' \in [Views -> BOOLEAN]
    BY <1>14, RowIsGiven DEF Redraw
  <2>3. UNCHANGED <<load, maps, main, thread, blocks, image, overtaken>>
    BY <1>14 DEF Redraw
  <2>4. QED
    BY <2>1, <2>2, <2>3 DEF TypeOK, maps
<1>15. ASSUME NEW v \in Views, NEW u \in Urls, LookupFails(v, u) PROVE TypeOK'
  <2>1. asked' \in [Views -> [Urls -> Nat]]
    BY <1>15, LookupIsTaken DEF LookupFails
  <2>2. failed' \in [Views -> BOOLEAN]
    BY <1>15 DEF TypeOK, LookupFails
  <2>3. UNCHANGED <<load, maps, main, thread, blocks, image, wanted, overtaken, mixed>>
    BY <1>15 DEF LookupFails
  <2>4. QED
    BY <2>1, <2>2, <2>3 DEF TypeOK, maps
<1>16. QED
  BY <1>1, <1>2, <1>3, <1>4, <1>5, <1>6, <1>7, <1>8, <1>9, <1>10, <1>11, <1>12, <1>13, <1>14, <1>15,
     ImageLoaderAssumption
     DEF Next

-----------------------------------------------------------------------------
(* What the dictionaries, the blocks and the cells say of each other.      *)

\* A picture that is kept is shown from a block, without a load.
LEMMA HitAgrees ==
    ASSUME IInv, NEW v \in Views, NEW u \in Urls, Hit(v, u)
    PROVE  Agreement'
<1> USE DEF Hit
<1>1. /\ main = Idle /\ main.at = "idle"
      /\ UNCHANGED <<load, runningRequests, main, thread, image, wanted, overtaken, mixed, failed>>
      /\ \A l \in Uuids : Live(l)' <=> Live(l)
      /\ \A w \in Views : Sound(w)' <=> Sound(w)
  BY ThreadsAre DEF IInv, MainIdle, Idle, Live, Sound, history
<1>2. Waiting' = Waiting \cup {[view |-> v, url |-> u]}
  BY BlockIsAdded DEF IInv, TypeOK, Block
<1>3. /\ uuidMap'[v] = None
      /\ \A w \in Views : w # v => uuidMap'[w] = uuidMap[w] /\ asked'[w] = asked[w]
  BY LookupIsTaken DEF IInv, TypeOK
<1>4. Sound(v) => /\ u = wanted[v] /\ image[v] \in {None, u}
                  /\ \A x \in Urls : asked'[v][x] = 0
                  /\ \A l \in Uuids : load[l].view = v => ~Live(l)
                  /\ \A b \in Waiting : b.view # v
  BY LookupIsTheRows DEF IInv, Agreement
<1>5. UnusedHasNoView' /\ ThreadsAgree' /\ RegisteredFirst' /\ RequestsAreDropped'
  BY <1>1 DEF IInv, Agreement, UnusedHasNoView, ThreadsAgree, RegisteredFirst, RequestsAreDropped
<1>6. OneAtATime' /\ ShowsItsRow'
  BY <1>1 DEF IInv, Agreement, OneAtATime, ShowsItsRow
<1>7. LookupIsForRow'
  BY <1>1, <1>2, <1>3, <1>4 DEF IInv, Agreement, LookupIsForRow
<1>8. RunningIsCancellable'
  BY <1>1, <1>3, <1>4, LoadsAre DEF IInv, Agreement, RunningIsCancellable, Sound, Live
<1>9. OnTheirWay'
  BY <1>1, <1>2, <1>4 DEF IInv, Agreement, OnTheirWay
<1>10. CompletedIsShown'
  BY <1>1, <1>2, ThreadsAre DEF IInv, Agreement, CompletedIsShown
<1>11. Arrive'
  BY <1>1, <1>2, <1>3, <1>4 DEF IInv, Agreement, Arrive
<1>12. QED
  BY <1>5, <1>6, <1>7, <1>8, <1>9, <1>10, <1>11 DEF Agreement

\* A request is made and resumed.
LEMMA StartAgrees ==
    ASSUME IInv, NEW v \in Views, NEW u \in Urls, Start(v, u)
    PROVE  Agreement'
<1> USE DEF Start
<1>1. /\ main = Idle /\ main.at = "idle" /\ main.load = None
      /\ UNCHANGED <<loadedImages, runningRequests, uuidMap, thread, blocks, image, wanted, overtaken,
                     mixed, failed>>
      /\ main' = [load |-> NewUuid, at |-> "register"]
  BY ThreadsAre DEF IInv, MainIdle, Idle, maps, history
<1>2. NewUuid \in Uuids /\ load[NewUuid].state = "unused" /\ load[NewUuid].view = None
  BY NewUuidIsUnused DEF IInv, Agreement, UnusedHasNoView
<1>3. /\ load'[NewUuid] = [view |-> v, url |-> u, state |-> "running"]
      /\ \A l \in Uuids : l # NewUuid => load'[l] = load[l] /\ (Live(l)' <=> Live(l))
      /\ \A l \in Uuids : l = NewUuid => Live(l)' /\ ~Live(l)
  <2>1. /\ load'[NewUuid] = [view |-> v, url |-> u, state |-> "running"]
        /\ \A l \in Uuids : l # NewUuid => load'[l] = load[l]
    BY <1>2 DEF IInv, TypeOK
  <2>2. \A l \in Uuids : l = NewUuid => Live(l)' /\ ~Live(l)
    BY <1>2, <2>1 DEF Live
  <2>3. ASSUME NEW l \in Uuids, l # NewUuid
        PROVE  Live(l)' <=> Live(l)
    <3>1. load'[l] = load[l]
      BY <2>1, <2>3
    <3>2. QED
      BY <3>1 DEF Live
  <2>4. QED
    BY <2>1, <2>2, <2>3
<1>4. /\ \A w \in Views : w # v => asked'[w] = asked[w]
      /\ \A w \in Views : Sound(w)' <=> Sound(w)
      /\ Waiting' = Waiting
  BY <1>1, LookupIsTaken DEF IInv, Waiting, Sound
<1>5. Sound(v) => /\ u = wanted[v] /\ image[v] \in {None, u}
                  /\ \A x \in Urls : asked'[v][x] = 0
                  /\ \A l \in Uuids : load[l].view = v => ~Live(l)
                  /\ \A b \in Waiting : b.view # v
  BY LookupIsTheRows DEF IInv, Agreement
<1>6. thread.at # "idle" => thread.load # NewUuid /\ thread.load \in Uuids
  BY <1>2, ThreadsAre DEF IInv, Answers
<1>7. UnusedHasNoView' /\ ThreadsAgree' /\ RegisteredFirst'
  BY <1>1, <1>2, <1>3, <1>6 DEF IInv, Agreement, UnusedHasNoView, ThreadsAgree, RegisteredFirst
<1>8. RequestsAreDropped'
  <2>1. runningRequests \subseteq Uuids
    BY DEF IInv, TypeOK
  <2>2. QED
    BY <1>1, <1>3, <2>1 DEF IInv, Agreement, RequestsAreDropped
<1>9. LookupIsForRow'
  <2>1. ASSUME NEW w \in Views, w # v, NEW l \in Uuids, load'[l].view = w
        PROVE  load[l].view = w /\ (Live(l)' <=> Live(l))
    BY <1>3, <2>1
  <2>2. QED
    BY <1>1, <1>4, <1>5, <2>1 DEF IInv, Agreement, LookupIsForRow
<1>10. OneAtATime'
  BY <1>1, <1>2, <1>3, <1>4, <1>5 DEF IInv, Agreement, OneAtATime
<1>11. RunningIsCancellable'
  <2> SUFFICES ASSUME NEW l \in Uuids, load'[l].state = "running", l # NewUuid,
                      ~mixed'[load'[l].view]
               PROVE  uuidMap'[load'[l].view] = l /\ l \in runningRequests'
    BY <1>1 DEF RunningIsCancellable
  <2>1. load'[l] = load[l] /\ load[l].view \in Views /\ load[l].state = "running"
    BY <1>3, LoadsAre DEF IInv
  <2>2. main.load # l
    BY <1>1, ImageLoaderAssumption
  <2>3. QED
    BY <1>1, <2>1, <2>2 DEF IInv, Agreement, RunningIsCancellable
<1>12. OnTheirWay' /\ ShowsItsRow'
  BY <1>1, <1>2, <1>3, <1>4, <1>5 DEF IInv, Agreement, OnTheirWay, ShowsItsRow
<1>13. CompletedIsShown'
  BY <1>1, <1>3, <1>4, <1>6, ThreadsAre DEF IInv, Agreement, CompletedIsShown
<1>14. Arrive'
  <2>1. ASSUME NEW w \in Views, w # v, Sound(w), ~failed[w]
        PROVE  \/ wanted[w] \in {None, image[w]}
               \/ asked'[w][wanted[w]] # 0
               \/ [view |-> w, url |-> wanted[w]] \in Waiting
               \/ \E l \in Uuids : /\ load'[l].view = w /\ load'[l].url = wanted[w]
                                   /\ load'[l].state \in {"running", "image"}
    BY <1>2, <1>3, <1>4, <2>1 DEF IInv, Agreement, Arrive
  <2>2. QED
    BY <1>1, <1>2, <1>3, <1>4, <1>5, <2>1 DEF Arrive
<1>15. QED
  BY <1>7, <1>8, <1>9, <1>10, <1>11, <1>12, <1>13, <1>14 DEF Agreement

\* The author's document could not be read.
LEMMA LookupFailsAgrees ==
    ASSUME IInv, NEW v \in Views, NEW u \in Urls, LookupFails(v, u)
    PROVE  Agreement'
<1> USE DEF LookupFails
<1>1. /\ UNCHANGED <<load, loadedImages, runningRequests, uuidMap, main, thread, blocks, image, wanted,
                     overtaken, mixed>>
      /\ failed'[v] = TRUE
      /\ \A w \in Views : w # v => failed'[w] = failed[w] /\ asked'[w] = asked[w]
      /\ Sound(v) => \A x \in Urls : asked'[v][x] = 0
  BY LookupIsTaken, LookupIsTheRows DEF IInv, Agreement, TypeOK, maps
<1>2. /\ \A w \in Views : Sound(w)' <=> Sound(w)
      /\ \A l \in Uuids : Live(l)' <=> Live(l)
      /\ Waiting' = Waiting
  BY <1>1 DEF Sound, Live, Waiting
<1>3. UnusedHasNoView' /\ ThreadsAgree' /\ RegisteredFirst' /\ RunningIsCancellable' /\ RequestsAreDropped'
  BY <1>1 DEF IInv, Agreement, UnusedHasNoView, ThreadsAgree, RegisteredFirst,
              RunningIsCancellable, RequestsAreDropped, Sound
<1>4. OneAtATime' /\ OnTheirWay' /\ ShowsItsRow'
  BY <1>1, <1>2 DEF IInv, Agreement, OneAtATime, OnTheirWay, ShowsItsRow
<1>5. LookupIsForRow' /\ Arrive'
  BY <1>1, <1>2 DEF IInv, Agreement, LookupIsForRow, Arrive
<1>6. CompletedIsShown'
  BY <1>1, <1>2, ThreadsAre DEF IInv, Agreement, CompletedIsShown
<1>7. QED
  BY <1>3, <1>4, <1>5, <1>6 DEF Agreement

\* A cell without prepareForReuse gets a row.
LEMMA RedrawAgrees ==
    ASSUME IInv, NEW v \in Views, NEW u \in Urls \cup {None}, Redraw(v, u)
    PROVE  Agreement'
<1> USE DEF Redraw
<1>1. /\ UNCHANGED <<load, loadedImages, runningRequests, uuidMap, main, thread, blocks, image, overtaken>>
      /\ \A l \in Uuids : Live(l)' <=> Live(l)
      /\ Waiting' = Waiting
      /\ main.at = "idle"
  BY DEF maps, Live, Waiting, MainIdle
<1>2. /\ wanted'[v] = u /\ (u \in Urls => asked'[v][u] # 0)
      /\ ~Asked(v) => \A x \in Urls : asked'[v][x] = IF x = u THEN 1 ELSE 0
      /\ \A w \in Views : w # v => /\ wanted'[w] = wanted[w] /\ asked'[w] = asked[w]
                                   /\ failed'[w] = failed[w]
  BY RowIsGiven DEF IInv
<1>3. /\ mixed'[v] = (Asked(v) \/ Pending(v) \/ image[v] \notin {None, u})
      /\ \A w \in Views : w # v => mixed'[w] = mixed[w] /\ (Sound(w)' <=> Sound(w))
  BY DEF IInv, TypeOK, Sound
<1>4. Sound(v)' => /\ ~Asked(v) /\ image[v] \in {None, u}
                   /\ \A l \in Uuids : load[l].view = v => ~Live(l)
                   /\ \A b \in Waiting : b.view # v
  <2> SUFFICES ASSUME Sound(v)'
               PROVE  /\ ~Asked(v) /\ image[v] \in {None, u}
                      /\ \A l \in Uuids : load[l].view = v => ~Live(l)
                      /\ \A b \in Waiting : b.view # v
    OBVIOUS
  <2>1. ~mixed'[v]
    BY DEF Sound
  <2>2. ~Asked(v) /\ ~Pending(v) /\ image[v] \in {None, u}
    BY <1>3, <2>1, Zenon
  <2>3. QED
    BY <2>2, PendingMeans DEF IInv
<1>5. UnusedHasNoView' /\ ThreadsAgree' /\ RegisteredFirst' /\ RequestsAreDropped'
  BY <1>1 DEF IInv, Agreement, UnusedHasNoView, ThreadsAgree, RegisteredFirst, RequestsAreDropped
<1>6. RunningIsCancellable'
  BY <1>1, <1>3, <1>4, LoadsAre DEF IInv, Agreement, RunningIsCancellable, Sound, Live
<1>7. LookupIsForRow'
  BY <1>1, <1>2, <1>3, <1>4 DEF IInv, Agreement, LookupIsForRow
<1>8. OneAtATime' /\ ShowsItsRow'
  BY <1>1, <1>2, <1>3, <1>4 DEF IInv, Agreement, OneAtATime, ShowsItsRow, Sound
<1>9. OnTheirWay'
  BY <1>1, <1>2, <1>3, <1>4 DEF IInv, Agreement, OnTheirWay, Live
<1>10. CompletedIsShown'
  BY <1>1, <1>2, <1>3, <1>4, ThreadsAre DEF IInv, Agreement, CompletedIsShown, Live
<1>11. Arrive'
  BY <1>1, <1>2, <1>3 DEF IInv, Agreement, Arrive
<1>12. QED
  BY <1>5, <1>6, <1>7, <1>8, <1>9, <1>10, <1>11 DEF Agreement

\* Its token is written into runningRequests.
LEMMA RegisterAgrees ==
    ASSUME IInv, Register
    PROVE  Agreement'
<1> USE DEF Register
<1>1. /\ UNCHANGED <<load, loadedImages, uuidMap, thread, blocks, image, wanted, asked, mixed, failed>>
      /\ main.load \in Uuids /\ main'.load = main.load /\ main'.at = "map"
      /\ main.at = "register" /\ load[main.load].state # "unused"
      /\ runningRequests' = runningRequests \cup {main.load}
  BY ThreadsAre DEF IInv, cells, rows
<1>2. /\ Waiting' = Waiting
      /\ \A w \in Views : Sound(w)' <=> Sound(w)
      /\ \A l \in Uuids : Live(l)' <=> Live(l)
  BY <1>1 DEF Waiting, Sound, Live
<1>3. RequestsAreDropped'
  <2>1. load[main.load].state \in States /\ load[main.load].state \notin {"unused", "cancelled"}
    BY <1>1, LoadsAre DEF IInv, Agreement, ThreadsAgree
  <2>2. overtaken' = overtaken \cup {l \in {main.load} : load[l].state = "done"}
    BY DEF Overtaken
  <2>3. QED
    BY <1>1, <2>1, <2>2 DEF IInv, Agreement, RequestsAreDropped, States
<1>4. UnusedHasNoView' /\ ThreadsAgree' /\ RegisteredFirst' /\ RunningIsCancellable'
  BY <1>1 DEF IInv, Agreement, UnusedHasNoView, ThreadsAgree, RegisteredFirst, RunningIsCancellable
<1>5. LookupIsForRow' /\ OneAtATime' /\ OnTheirWay' /\ ShowsItsRow' /\ CompletedIsShown' /\ Arrive'
  <2>1. LookupIsForRow' /\ OneAtATime'
    BY <1>1, <1>2 DEF IInv, Agreement, LookupIsForRow, OneAtATime
  <2>2. OnTheirWay' /\ ShowsItsRow' /\ Arrive'
    BY <1>1, <1>2 DEF IInv, Agreement, OnTheirWay, ShowsItsRow, Arrive
  <2>3. CompletedIsShown'
    BY <1>1, <1>2, ThreadsAre DEF IInv, Agreement, CompletedIsShown
  <2>4. QED
    BY <2>1, <2>2, <2>3
<1>6. QED
  BY <1>3, <1>4, <1>5 DEF Agreement

\* Its token is written into uuidMap: no other load of the view is live.
LEMMA MapTokenAgrees ==
    ASSUME IInv, MapToken
    PROVE  Agreement'
<1> USE DEF MapToken
<1>1. /\ UNCHANGED <<load, loadedImages, runningRequests, thread, blocks, image, wanted, asked,
                     overtaken, mixed, failed>>
      /\ main.load \in Uuids /\ main' = Idle /\ load[main.load].view \in Views
      /\ main.at = "map" /\ main.at # "idle"
  BY ThreadsAre DEF IInv, cells, rows, history
<1>2. /\ Waiting' = Waiting
      /\ \A w \in Views : Sound(w)' <=> Sound(w)
      /\ \A l \in Uuids : Live(l)' <=> Live(l)
      /\ main'.at = "idle"
  BY <1>1 DEF Waiting, Sound, Live, Idle
<1>3. /\ uuidMap'[load[main.load].view] = main.load
      /\ \A w \in Views : w # load[main.load].view => uuidMap'[w] = uuidMap[w]
  BY <1>1 DEF IInv, TypeOK
<1>4. RunningIsCancellable'
  <2> SUFFICES ASSUME NEW l \in Uuids, load[l].state = "running", Sound(load[l].view)
               PROVE  uuidMap'[load[l].view] = l /\ l \in runningRequests
    BY <1>1 DEF RunningIsCancellable, Sound
  <2>1. load[l].view \in Views /\ Live(l)
    BY LoadsAre DEF IInv, Live
  <2>2. CASE l = main.load
    BY <1>1, <1>3, <2>2 DEF IInv, Agreement, RegisteredFirst
  <2>3. CASE l # main.load
    <3>1. load[l].view # load[main.load].view
      BY <1>1, <2>1, <2>3 DEF IInv, Agreement, OneAtATime
    <3>2. QED
      BY <1>1, <1>3, <2>1, <2>3, <3>1 DEF IInv, Agreement, RunningIsCancellable, Sound
  <2>4. QED
    BY <2>2, <2>3
<1>5. UnusedHasNoView' /\ ThreadsAgree' /\ RegisteredFirst' /\ RequestsAreDropped'
  BY <1>1, <1>2 DEF IInv, Agreement, UnusedHasNoView, ThreadsAgree, RegisteredFirst, RequestsAreDropped
<1>6. LookupIsForRow' /\ OneAtATime' /\ OnTheirWay' /\ ShowsItsRow' /\ CompletedIsShown' /\ Arrive'
  <2>1. LookupIsForRow' /\ OneAtATime'
    BY <1>1, <1>2 DEF IInv, Agreement, LookupIsForRow, OneAtATime
  <2>2. OnTheirWay' /\ ShowsItsRow' /\ Arrive'
    BY <1>1, <1>2 DEF IInv, Agreement, OnTheirWay, ShowsItsRow, Arrive
  <2>3. CompletedIsShown'
    BY <1>1, <1>2, ThreadsAre DEF IInv, Agreement, CompletedIsShown
  <2>4. QED
    BY <2>1, <2>2, <2>3
<1>7. QED
  BY <1>4, <1>5, <1>6 DEF Agreement

\* A cell is cleared, its load cancelled, and it gets a row.
LEMMA DequeueAgrees ==
    ASSUME IInv, NEW v \in Views, NEW u \in Urls \cup {None}, Dequeue(v, u)
    PROVE  Agreement'
<1> USE DEF Dequeue
<1>1. /\ main = Idle /\ main.at = "idle" /\ main.load = None
      /\ UNCHANGED <<loadedImages, main, thread, blocks, overtaken>>
      /\ runningRequests' = runningRequests \ {uuidMap[v]}
  BY ThreadsAre DEF IInv, MainIdle, Idle
<1>2. /\ uuidMap'[v] = None /\ wanted'[v] = u /\ image'[v] = None
      /\ mixed'[v] = Stray(v)
      /\ u \in Urls => asked'[v][u] # 0
      /\ ~Asked(v) => \A x \in Urls : asked'[v][x] = IF x = u THEN 1 ELSE 0
      /\ \A w \in Views : w # v => /\ uuidMap'[w] = uuidMap[w] /\ wanted'[w] = wanted[w]
                                   /\ image'[w] = image[w] /\ asked'[w] = asked[w]
                                   /\ failed'[w] = failed[w] /\ mixed'[w] = mixed[w]
      /\ Waiting' = Waiting
  <2>1. /\ uuidMap \in [Views -> Uuids \cup {None}] /\ image \in [Views -> Urls \cup {None}]
        /\ mixed \in [Views -> BOOLEAN]
    BY Zenon DEF IInv, TypeOK
  <2>2. /\ uuidMap' = [uuidMap EXCEPT ![v] = None] /\ image' = [image EXCEPT ![v] = None]
        /\ mixed' = [mixed EXCEPT ![v] = Stray(v)]
    OBVIOUS
  <2>3. /\ wanted'[v] = u
        /\ u \in Urls => asked'[v][u] # 0
        /\ ~Asked(v) => \A x \in Urls : asked'[v][x] = IF x = u THEN 1 ELSE 0
        /\ \A w \in Views : w # v => /\ wanted'[w] = wanted[w] /\ asked'[w] = asked[w]
                                     /\ failed'[w] = failed[w]
    BY RowIsGiven DEF IInv
  <2>4. Waiting' = Waiting
    BY <1>1 DEF Waiting
  <2>5. QED
    BY <2>1, <2>2, <2>3, <2>4
<1>3. \A l \in Uuids : l # uuidMap[v] => load'[l] = load[l]
  OBVIOUS
<1>4. ASSUME NEW l \in Uuids
      PROVE  /\ load'[l].view = load[l].view /\ load'[l].url = load[l].url
             /\ load[l].state # "running" => load'[l] = load[l]
             /\ load[l].view # v => load'[l] = load[l]
             /\ l = uuidMap[v] /\ l \in runningRequests => load'[l].state # "running"
  <2>1. load[l] \in [view : Views \cup {None}, url : Urls \cup {None}, state : States]
    BY DEF IInv, TypeOK
  <2>2. uuidMap[v] = l => load[l].view = v
    BY ImageLoaderAssumption DEF IInv, TypeOK
  <2>3. CASE l = uuidMap[v] /\ l \in runningRequests /\ load[l].state = "running"
    <3>1. load'[l] = [load[l] EXCEPT !.state = "cancelled"]
      BY <2>3
    <3>2. QED
      BY <2>1, <2>2, <2>3, <3>1
  <2>4. CASE ~(l = uuidMap[v] /\ l \in runningRequests /\ load[l].state = "running")
    <3>1. load'[l] = load[l]
      BY <2>4
    <3>2. l = uuidMap[v] /\ l \in runningRequests => load[l].state # "running"
      BY <2>4
    <3>3. QED
      BY <3>1, <3>2
  <2>5. QED
    BY <2>3, <2>4
<1>5. \A w \in Views : w # v => (Sound(w)' <=> Sound(w))
  BY <1>1, <1>2 DEF Sound
<1>6. Sound(v)' => /\ ~Asked(v)
                   /\ \A l \in Uuids : load[l].view = v => ~Live(l)'
                   /\ \A b \in Waiting : b.view # v
                   /\ \A l \in Uuids : load[l].view = v => load[l].state # "image"
  <2> SUFFICES ASSUME Sound(v)'
               PROVE  /\ ~Asked(v)
                      /\ \A l \in Uuids : load[l].view = v => ~Live(l)'
                      /\ \A b \in Waiting : b.view # v
                      /\ \A l \in Uuids : load[l].view = v => load[l].state # "image"
    OBVIOUS
  <2>1. ~Asked(v) /\ ~Answered(v) /\ ~(mixed[v] /\ Pending(v))
    <3>1. ~mixed'[v]
      BY DEF Sound
    <3>2. ~Stray(v)
      BY <1>2, <3>1, Zenon
    <3>3. QED
      BY <3>2, Zenon DEF Stray
  <2>2. /\ \A b \in Waiting : b.view # v
        /\ \A l \in Uuids : load[l].view = v => load[l].state \notin {"image", "error"}
    BY <2>1, PendingMeans DEF IInv
  <2>3. ASSUME NEW l \in Uuids, load[l].view = v, load[l].state = "running"
        PROVE  load'[l].state # "running"
    <3>1. Pending(v)
      BY <2>3, PendingMeans DEF IInv, Live
    <3>2. ~mixed[v]
      BY <2>1, <3>1
    <3>3. main.load # l
      BY <1>1, ImageLoaderAssumption
    <3>4. uuidMap[v] = l /\ l \in runningRequests
      BY <2>1, <2>3, <3>2, <3>3 DEF IInv, Agreement, RunningIsCancellable
    <3>5. QED
      BY <1>4, <3>4
  <2>4. ASSUME NEW l \in Uuids, load[l].view = v
        PROVE  load'[l].state \notin {"running", "image", "error"}
    BY <1>4, <2>2, <2>3, <2>4
  <2>5. QED
    BY <2>1, <2>2, <2>4 DEF Live
<1>7. thread.at # "idle" => thread.load \in Uuids /\ load'[thread.load] = load[thread.load]
                            /\ load[thread.load].view \in Views
  BY <1>4, ThreadsAre DEF IInv, Answers
<1>8. UnusedHasNoView' /\ ThreadsAgree' /\ RegisteredFirst'
  BY <1>1, <1>4, <1>7 DEF IInv, Agreement, UnusedHasNoView, ThreadsAgree, RegisteredFirst
<1>9. RequestsAreDropped'
  <2>1. runningRequests \subseteq Uuids
    BY DEF IInv, TypeOK
  <2>2. QED
    BY <1>1, <1>3, <2>1 DEF IInv, Agreement, RequestsAreDropped
<1>10. OneAtATime'
  <2> SUFFICES ASSUME NEW w \in Views, Sound(w)', NEW l \in Uuids, load'[l].view = w, Live(l)'
               PROVE  \A k \in Uuids : load'[k].view = w /\ Live(k)' => k = l
    BY <1>1 DEF OneAtATime
  <2>1. w # v
    BY <1>4, <1>6
  <2>2. \A k \in Uuids : load'[k].view = w => load[k].view = w /\ (Live(k)' <=> Live(k))
    <3> SUFFICES ASSUME NEW k \in Uuids, load'[k].view = w
                 PROVE  load[k].view = w /\ (Live(k)' <=> Live(k))
      OBVIOUS
    <3>1. load[k].view = w
      BY <1>4
    <3>2. load'[k] = load[k]
      BY <1>4, <2>1, <3>1
    <3>3. QED
      BY <3>1, <3>2 DEF Live
  <2>3. QED
    BY <1>5, <2>1, <2>2 DEF IInv, Agreement, OneAtATime
<1>11. RunningIsCancellable'
  <2> SUFFICES ASSUME NEW l \in Uuids, load'[l].state = "running",
                      ~mixed'[load'[l].view]
               PROVE  uuidMap'[load'[l].view] = l /\ l \in runningRequests'
    BY DEF RunningIsCancellable
  <2>1. load[l].view \in Views /\ load[l].state = "running" /\ load'[l].view = load[l].view
    BY <1>4, LoadsAre DEF IInv
  <2>2. load[l].view # v
    BY <1>1, <1>6, <2>1 DEF Sound, Live
  <2>3. main.load # l
    BY <1>1, ImageLoaderAssumption
  <2>4. uuidMap[load[l].view] = l /\ l \in runningRequests
    BY <1>1, <1>2, <2>1, <2>2, <2>3 DEF IInv, Agreement, RunningIsCancellable
  <2>5. uuidMap[v] # l
    BY <2>2, <2>4, ImageLoaderAssumption DEF IInv, TypeOK
  <2>6. QED
    BY <1>1, <1>2, <2>1, <2>2, <2>4, <2>5
<1>12. OnTheirWay'
  <2> SUFFICES ASSUME NEW w \in Views, Sound(w)'
               PROVE  /\ \A l \in Uuids : load'[l].view = w /\ load'[l].state \in {"running", "image"}
                                              => load'[l].url = wanted'[w]
                      /\ \A b \in Waiting' : b.view = w => b.url = wanted'[w]
    BY DEF OnTheirWay
  <2>1. CASE w = v
    BY <1>2, <1>4, <1>6, <2>1 DEF Live
  <2>2. CASE w # v
    BY <1>2, <1>4, <1>5, <2>2 DEF IInv, Agreement, OnTheirWay
  <2>3. QED
    BY <2>1, <2>2
<1>13. ShowsItsRow'
  BY <1>1, <1>2, <1>5 DEF IInv, Agreement, ShowsItsRow, Sound
<1>14. CompletedIsShown'
  BY <1>1, <1>2, <1>5, <1>6, <1>7 DEF IInv, Agreement, CompletedIsShown
<1>15. Arrive'
  <2> SUFFICES ASSUME NEW w \in Views, w # v, Sound(w)', ~failed'[w]
               PROVE  \/ wanted'[w] \in {None, image'[w]}
                      \/ asked'[w][wanted'[w]] # 0
                      \/ [view |-> w, url |-> wanted'[w]] \in Waiting'
                      \/ \E l \in Uuids : /\ load'[l].view = w /\ load'[l].url = wanted'[w]
                                          /\ load'[l].state \in {"running", "image"}
    BY <1>2 DEF Arrive
  <2>1. \/ wanted[w] \in {None, image[w]}
        \/ asked[w][wanted[w]] # 0
        \/ [view |-> w, url |-> wanted[w]] \in Waiting
        \/ \E l \in Uuids : /\ load[l].view = w /\ load[l].url = wanted[w]
                            /\ load[l].state \in {"running", "image"}
    BY <1>2, <1>5 DEF IInv, Agreement, Arrive
  <2>2. \A l \in Uuids : load[l].view = w => load'[l] = load[l]
    BY <1>4
  <2>3. CASE \/ wanted[w] \in {None, image[w]} \/ asked[w][wanted[w]] # 0
            \/ [view |-> w, url |-> wanted[w]] \in Waiting
    BY <1>2, <2>3
  <2>4. CASE \E l \in Uuids : /\ load[l].view = w /\ load[l].url = wanted[w]
                              /\ load[l].state \in {"running", "image"}
    <3>1. PICK l \in Uuids : /\ load[l].view = w /\ load[l].url = wanted[w]
                             /\ load[l].state \in {"running", "image"}
      BY <2>4
    <3>2. load'[l] = load[l] /\ wanted'[w] = wanted[w]
      BY <1>2, <2>2, <3>1
    <3>3. QED
      BY <3>1, <3>2
  <2>5. QED
    BY <2>1, <2>3, <2>4
<1>16. LookupIsForRow'
  <2>1. CASE Sound(v)'
    BY <1>2, <1>4, <1>5, <1>6, <2>1 DEF IInv, Agreement, LookupIsForRow, Live
  <2>2. CASE ~Sound(v)'
    BY <1>2, <1>4, <1>5, <2>2 DEF IInv, Agreement, LookupIsForRow, Live
  <2>3. QED
    BY <2>1, <2>2
<1>17. QED
  BY <1>8, <1>9, <1>10, <1>11, <1>12, <1>13, <1>14, <1>15, <1>16 DEF Agreement

\* A block sets the picture of the row it was made for.
LEMMA ShowImageAgrees ==
    ASSUME IInv, ShowImage
    PROVE  Agreement'
<1> DEFINE b == Head(blocks)
<1> USE DEF ShowImage
<1>1. /\ UNCHANGED <<load, loadedImages, runningRequests, uuidMap, main, thread, wanted, asked,
                     overtaken, mixed, failed>>
      /\ Waiting = {b} \cup Waiting' /\ b.view \in Views
  BY BlockIsRun DEF IInv, TypeOK, Block, maps, rows, history
<1>2. /\ image'[b.view] = b.url
      /\ \A w \in Views : w # b.view => image'[w] = image[w]
  BY <1>1 DEF IInv, TypeOK
<1>3. /\ \A w \in Views : Sound(w)' <=> Sound(w)
      /\ \A l \in Uuids : Live(l)' <=> Live(l)
      /\ Sound(b.view) => b.url = wanted[b.view]
  BY <1>1 DEF Sound, Live, IInv, Agreement, OnTheirWay
<1> HIDE DEF b
<1>4. UnusedHasNoView' /\ ThreadsAgree' /\ RegisteredFirst' /\ RunningIsCancellable' /\ RequestsAreDropped'
  BY <1>1, <1>3 DEF IInv, Agreement, UnusedHasNoView, ThreadsAgree, RegisteredFirst,
                    RunningIsCancellable, RequestsAreDropped, Sound
<1>5. LookupIsForRow' /\ OneAtATime'
  <2>1. LookupIsForRow'
    BY <1>1, <1>2, <1>3 DEF IInv, Agreement, LookupIsForRow
  <2>2. OneAtATime'
    BY <1>1, <1>3 DEF IInv, Agreement, OneAtATime
  <2>3. QED
    BY <2>1, <2>2
<1>6. OnTheirWay'
  BY <1>1, <1>3 DEF IInv, Agreement, OnTheirWay
<1>7. ShowsItsRow'
  BY <1>1, <1>2, <1>3 DEF IInv, Agreement, ShowsItsRow, Sound
<1>8. CompletedIsShown'
  BY <1>1, <1>2, <1>3, ThreadsAre DEF IInv, Agreement, CompletedIsShown
<1>9. Arrive'
  <2> SUFFICES ASSUME NEW w \in Views, Sound(w), ~failed[w]
               PROVE  \/ wanted[w] \in {None, image'[w]}
                      \/ asked[w][wanted[w]] # 0
                      \/ [view |-> w, url |-> wanted[w]] \in Waiting'
                      \/ \E l \in Uuids : /\ load[l].view = w /\ load[l].url = wanted[w]
                                          /\ load[l].state \in {"running", "image"}
    BY <1>1, <1>3 DEF Arrive
  <2>1. CASE b.view = w
    BY <1>2, <1>3, <2>1
  <2>2. CASE b.view # w
    <3>1. \/ wanted[w] \in {None, image[w]}
          \/ asked[w][wanted[w]] # 0
          \/ [view |-> w, url |-> wanted[w]] \in Waiting
          \/ \E l \in Uuids : /\ load[l].view = w /\ load[l].url = wanted[w]
                              /\ load[l].state \in {"running", "image"}
      BY DEF IInv, Agreement, Arrive
    <3>2. [view |-> w, url |-> wanted[w]] # b
      BY <2>2
    <3>3. QED
      BY <1>1, <1>2, <2>2, <3>1, <3>2
  <2>3. QED
    BY <2>1, <2>2
<1>10. QED
  BY <1>4, <1>5, <1>6, <1>7, <1>8, <1>9 DEF Agreement

\* An answer comes.
LEMMA RespondAgrees ==
    ASSUME IInv, NEW r \in Uuids, NEW answer \in Answers, Respond(r, answer)
    PROVE  Agreement'
<1> USE DEF Respond
<1>1. /\ UNCHANGED <<loadedImages, runningRequests, uuidMap, main, thread, blocks, image, wanted, asked,
                     overtaken, mixed>>
      /\ load[r].state = "running" /\ load[r].view \in Views
  BY LoadsAre DEF IInv, maps, cells, rows
<1>2. /\ load'[r] = [view |-> load[r].view, url |-> load[r].url, state |-> answer]
      /\ \A l \in Uuids : l # r => load'[l] = load[l]
  BY DEF IInv, TypeOK
<1>3. /\ failed'[load[r].view] = (failed[load[r].view] \/ answer # "image")
      /\ \A w \in Views : w # load[r].view => failed'[w] = failed[w]
      /\ \A w \in Views : Sound(w)' <=> Sound(w)
      /\ Waiting' = Waiting
  BY <1>1 DEF IInv, TypeOK, Sound, Waiting
<1>4. ASSUME NEW l \in Uuids
      PROVE  /\ load'[l].view = load[l].view /\ load'[l].url = load[l].url
             /\ load'[l].state = "running" => load[l].state = "running"
             /\ load'[l].state = "image" => load[l].state \in {"running", "image"}
             /\ Live(l)' => Live(l)
             /\ load'[l].state = "unused" => load[l].state = "unused"
             /\ load'[l].state = "cancelled" => load[l].state = "cancelled"
             /\ load[l].state \in {"running"} \cup Answers => load'[l].state \in {"running"} \cup Answers
  <2>1. CASE l = r
    BY <1>1, <1>2, <2>1 DEF Live, Answers
  <2>2. CASE l # r
    <3>1. load'[l] = load[l]
      BY <1>2, <2>2
    <3>2. QED
      BY <3>1 DEF Live
  <2>3. QED
    BY <2>1, <2>2
<1>5. thread.at # "idle" => thread.load \in Uuids /\ load'[thread.load] = load[thread.load]
                            /\ load[thread.load].view \in Views
  BY <1>1, <1>2, ThreadsAre DEF IInv, Answers
<1>6. main.at # "idle" => main.load \in Uuids
  BY ThreadsAre DEF IInv
<1>7. UnusedHasNoView' /\ ThreadsAgree' /\ RegisteredFirst'
  <2>1. UnusedHasNoView'
    BY <1>4 DEF IInv, Agreement, UnusedHasNoView
  <2>2. ThreadsAgree'
    BY <1>1, <1>4, <1>5, <1>6 DEF IInv, Agreement, ThreadsAgree
  <2>3. RegisteredFirst'
    BY <1>1, <1>4, <1>6 DEF IInv, Agreement, RegisteredFirst, Sound
  <2>4. QED
    BY <2>1, <2>2, <2>3
<1>8. RequestsAreDropped'
  <2>1. runningRequests \subseteq Uuids
    BY DEF IInv, TypeOK
  <2>2. QED
    BY <1>1, <1>4, <2>1 DEF IInv, Agreement, RequestsAreDropped
<1>9. LookupIsForRow' /\ OneAtATime'
  <2>1. LookupIsForRow'
    BY <1>1, <1>3, <1>4 DEF IInv, Agreement, LookupIsForRow
  <2>2. OneAtATime'
    BY <1>1, <1>3, <1>4, <1>6 DEF IInv, Agreement, OneAtATime
  <2>3. QED
    BY <2>1, <2>2
<1>10. RunningIsCancellable'
  BY <1>1, <1>4 DEF IInv, Agreement, RunningIsCancellable
<1>11. OnTheirWay'
  BY <1>1, <1>3, <1>4 DEF IInv, Agreement, OnTheirWay
<1>12. ShowsItsRow'
  BY <1>1 DEF IInv, Agreement, ShowsItsRow
<1>13. CompletedIsShown'
  <2> SUFFICES ASSUME thread.at # "idle", load'[thread.load].state = "image",
                      Sound(load[thread.load].view)
               PROVE  LET v == load[thread.load].view
                      IN  image[v] = wanted[v] \/ [view |-> v, url |-> wanted[v]] \in Waiting
    BY <1>1, <1>3, <1>5 DEF CompletedIsShown
  <2>1. QED
    BY <1>5 DEF IInv, Agreement, CompletedIsShown
<1>14. Arrive'
  <2> SUFFICES ASSUME NEW w \in Views, Sound(w), ~failed'[w]
               PROVE  \/ wanted[w] \in {None, image[w]}
                      \/ asked[w][wanted[w]] # 0
                      \/ [view |-> w, url |-> wanted[w]] \in Waiting
                      \/ \E l \in Uuids : /\ load'[l].view = w /\ load'[l].url = wanted[w]
                                          /\ load'[l].state \in {"running", "image"}
    BY <1>1, <1>3 DEF Arrive
  <2>1. ~failed[w] /\ (w = load[r].view => answer = "image")
    BY <1>3, Zenon
  <2>2. \/ wanted[w] \in {None, image[w]}
        \/ asked[w][wanted[w]] # 0
        \/ [view |-> w, url |-> wanted[w]] \in Waiting
        \/ \E l \in Uuids : /\ load[l].view = w /\ load[l].url = wanted[w]
                            /\ load[l].state \in {"running", "image"}
    BY <2>1 DEF IInv, Agreement, Arrive
  <2>3. \A l \in Uuids : load[l].view = w /\ load[l].state \in {"running", "image"}
                         => /\ load'[l].view = w /\ load'[l].url = load[l].url
                            /\ load'[l].state \in {"running", "image"}
    <3> SUFFICES ASSUME NEW l \in Uuids, load[l].view = w, load[l].state \in {"running", "image"}
                 PROVE  load'[l].state \in {"running", "image"}
      BY <1>4
    <3>1. QED
      BY <1>2, <2>1
  <2>4. QED
    BY <2>2, <2>3
<1>15. QED
  BY <1>7, <1>8, <1>9, <1>10, <1>11, <1>12, <1>13, <1>14 DEF Agreement

\* The completion of a picture keeps it and leaves its block.
LEMMA CompleteImageAgrees ==
    ASSUME IInv, NEW r \in Uuids, CompleteImage(r)
    PROVE  Agreement'
<1> USE DEF CompleteImage
<1>1. /\ UNCHANGED <<load, runningRequests, uuidMap, main, image, wanted, asked, overtaken, mixed, failed>>
      /\ load[r].state = "image" /\ load[r].view \in Views /\ load[r].url \in Urls
      /\ thread' = [load |-> r, at |-> "unmap"]
  BY LoadsAre DEF IInv, cells, rows, history
<1>2. Waiting' = Waiting \cup {[view |-> load[r].view, url |-> load[r].url]}
  BY <1>1, BlockIsAdded DEF IInv, TypeOK, Block
<1>3. /\ \A w \in Views : Sound(w)' <=> Sound(w)
      /\ \A l \in Uuids : Live(l)' <=> Live(l)
      /\ Sound(load[r].view) => load[r].url = wanted[load[r].view]
  BY <1>1 DEF Sound, Live, IInv, Agreement, OnTheirWay
<1>4. UnusedHasNoView' /\ ThreadsAgree' /\ RegisteredFirst' /\ RunningIsCancellable' /\ RequestsAreDropped'
  BY <1>1, <1>3 DEF IInv, Agreement, UnusedHasNoView, ThreadsAgree, RegisteredFirst,
                    RunningIsCancellable, RequestsAreDropped, Sound
<1>5. LookupIsForRow' /\ OneAtATime' /\ ShowsItsRow'
  <2>1. Live(r)
    BY <1>1 DEF Live
  <2>2. LookupIsForRow'
    BY <1>1, <1>2, <1>3, <2>1 DEF IInv, Agreement, LookupIsForRow
  <2>3. OneAtATime' /\ ShowsItsRow'
    BY <1>1, <1>3 DEF IInv, Agreement, OneAtATime, ShowsItsRow
  <2>4. QED
    BY <2>2, <2>3
<1>6. OnTheirWay'
  BY <1>1, <1>2, <1>3 DEF IInv, Agreement, OnTheirWay
<1>7. CompletedIsShown'
  BY <1>1, <1>2, <1>3 DEF CompletedIsShown
<1>8. Arrive'
  BY <1>1, <1>2, <1>3 DEF IInv, Agreement, Arrive
<1>9. QED
  BY <1>4, <1>5, <1>6, <1>7, <1>8 DEF Agreement

\* Any other completion begins.
LEMMA CompleteOtherAgrees ==
    ASSUME IInv, NEW r \in Uuids, CompleteOther(r)
    PROVE  Agreement'
<1> USE DEF CompleteOther
<1>1. /\ UNCHANGED <<load, loadedImages, runningRequests, uuidMap, main, blocks, image, wanted, asked,
                     overtaken, mixed, failed>>
      /\ load[r].state \in {"junk", "error", "cancelled"}
      /\ thread' = [load |-> r, at |-> IF load[r].state = "error" THEN "unmap" ELSE "drop"]
  BY DEF maps, cells, rows, history
<1>2. /\ \A w \in Views : Sound(w)' <=> Sound(w)
      /\ \A l \in Uuids : Live(l)' <=> Live(l)
      /\ Waiting' = Waiting
  BY <1>1 DEF Sound, Live, Waiting
<1>3. UnusedHasNoView' /\ ThreadsAgree' /\ CompletedIsShown'
  BY <1>1 DEF IInv, Agreement, UnusedHasNoView, ThreadsAgree, CompletedIsShown
<1>4. RegisteredFirst' /\ RunningIsCancellable' /\ RequestsAreDropped'
  <2>1. RegisteredFirst'
    BY <1>1 DEF IInv, Agreement, RegisteredFirst, Sound
  <2>2. RunningIsCancellable' /\ RequestsAreDropped'
    BY <1>1 DEF IInv, Agreement, RunningIsCancellable, RequestsAreDropped
  <2>3. QED
    BY <2>1, <2>2
<1>5. LookupIsForRow' /\ OneAtATime' /\ ShowsItsRow'
  BY <1>1, <1>2 DEF IInv, Agreement, LookupIsForRow, OneAtATime, ShowsItsRow
<1>6. OnTheirWay' /\ Arrive'
  BY <1>1, <1>2 DEF IInv, Agreement, OnTheirWay, Arrive
<1>7. QED
  BY <1>3, <1>4, <1>5, <1>6 DEF Agreement

\* The view's token is removed: its load is answered, and no other is live.
LEMMA UnmapAgrees ==
    ASSUME IInv, Unmap
    PROVE  Agreement'
<1> USE DEF Unmap
<1>1. /\ UNCHANGED <<load, loadedImages, runningRequests, main, blocks, image, wanted, asked,
                     overtaken, mixed, failed>>
      /\ thread.load \in Uuids /\ load[thread.load].view \in Views
      /\ load[thread.load].state \in {"image", "error"}
      /\ thread'.load = thread.load /\ thread'.at = "drop"
  BY ThreadsAre DEF IInv, Agreement, ThreadsAgree, cells, rows, history
<1>2. /\ \A w \in Views : Sound(w)' <=> Sound(w)
      /\ \A l \in Uuids : Live(l)' <=> Live(l)
      /\ Waiting' = Waiting
  BY <1>1 DEF Sound, Live, Waiting
<1>3. RunningIsCancellable'
  <2> SUFFICES ASSUME NEW l \in Uuids, load[l].state = "running", main.load # l,
                      Sound(load[l].view)
               PROVE  uuidMap'[load[l].view] = l /\ l \in runningRequests
    BY <1>1 DEF RunningIsCancellable, Sound
  <2>1. load[l].view \in Views
    BY LoadsAre DEF IInv
  <2>2. load[l].view # load[thread.load].view
    <3>1. Live(l) /\ Live(thread.load) /\ l # thread.load
      BY <1>1 DEF Live
    <3>2. QED
      BY <1>1, <2>1, <3>1 DEF IInv, Agreement, OneAtATime
  <2>3. uuidMap'[load[l].view] = uuidMap[load[l].view]
    BY <2>1, <2>2 DEF IInv, TypeOK
  <2>4. QED
    BY <2>1, <2>3 DEF IInv, Agreement, RunningIsCancellable, Sound
<1>4. UnusedHasNoView' /\ ThreadsAgree' /\ RequestsAreDropped'
  BY <1>1 DEF IInv, Agreement, UnusedHasNoView, ThreadsAgree, RequestsAreDropped
<1>5. RegisteredFirst'
  BY <1>1 DEF IInv, Agreement, RegisteredFirst, Sound
<1>6. LookupIsForRow' /\ OneAtATime' /\ ShowsItsRow'
  BY <1>1, <1>2 DEF IInv, Agreement, LookupIsForRow, OneAtATime, ShowsItsRow
<1>7. OnTheirWay' /\ Arrive'
  BY <1>1, <1>2 DEF IInv, Agreement, OnTheirWay, Arrive
<1>8. CompletedIsShown'
  BY <1>1, <1>2 DEF IInv, Agreement, CompletedIsShown
<1>9. QED
  BY <1>3, <1>4, <1>5, <1>6, <1>7, <1>8 DEF Agreement

\* The request is dropped: its picture waits in a block or is shown.
LEMMA DropAgrees ==
    ASSUME IInv, Drop
    PROVE  Agreement'
<1>1. /\ UNCHANGED <<loadedImages, uuidMap, main, blocks, image, wanted, asked,
                     overtaken, mixed, failed>>
      /\ thread.load \in Uuids /\ load[thread.load].view \in Views
      /\ load[thread.load].state \in Answers \cup {"cancelled"}
      /\ runningRequests' = runningRequests \ {thread.load}
      /\ thread' = Idle /\ thread'.at = "idle" /\ thread.at # "idle"
  BY ThreadsAre DEF Drop, IInv, Idle, cells, rows, history
<1>2. /\ load'[thread.load] = [view |-> load[thread.load].view, url |-> None, state |-> "done"]
      /\ \A l \in Uuids : l # thread.load => load'[l] = load[l]
  <2>1. load \in [Uuids -> [view : Views \cup {None}, url : Urls \cup {None}, state : States]]
    BY Zenon DEF IInv, TypeOK
  <2>2. load' = [load EXCEPT ![thread.load].state = "done", ![thread.load].url = None]
    BY Zenon DEF Drop
  <2>3. QED
    BY <1>1, <2>1, <2>2
<1>3. /\ \A w \in Views : Sound(w)' <=> Sound(w)
      /\ Waiting' = Waiting
  BY <1>1 DEF Sound, Waiting
<1>4. ASSUME NEW l \in Uuids
      PROVE  /\ load'[l].view = load[l].view
             /\ load'[l].state # "done" => load'[l] = load[l] /\ l # thread.load
             /\ Live(l)' => Live(l)
  <2>1. CASE l = thread.load
    BY <1>2, <2>1 DEF Live
  <2>2. CASE l # thread.load
    <3>1. load'[l] = load[l]
      BY <1>2, <2>2
    <3>2. QED
      BY <2>2, <3>1 DEF Live
  <2>3. QED
    BY <2>1, <2>2
<1>5. main.at # "idle" => main.load \in Uuids
  BY ThreadsAre DEF IInv
<1>6. UnusedHasNoView'
  BY <1>4 DEF IInv, Agreement, UnusedHasNoView
<1>7. ThreadsAgree' /\ CompletedIsShown'
  BY <1>1, <1>4, <1>5 DEF IInv, Agreement, ThreadsAgree, CompletedIsShown
<1>8. RegisteredFirst'
  BY <1>1, <1>4, <1>5 DEF IInv, Agreement, RegisteredFirst, Sound
<1>9. RequestsAreDropped'
  <2>1. runningRequests \subseteq Uuids
    BY DEF IInv, TypeOK
  <2>2. QED
    BY <1>1, <1>2, <2>1 DEF IInv, Agreement, RequestsAreDropped
<1>10. LookupIsForRow' /\ OneAtATime'
  <2>1. LookupIsForRow'
    BY <1>1, <1>3, <1>4 DEF IInv, Agreement, LookupIsForRow
  <2>2. OneAtATime'
    BY <1>1, <1>3, <1>4, <1>5 DEF IInv, Agreement, OneAtATime
  <2>3. QED
    BY <2>1, <2>2
<1>11. RunningIsCancellable'
  BY <1>1, <1>4 DEF IInv, Agreement, RunningIsCancellable
<1>12. OnTheirWay' /\ ShowsItsRow'
  BY <1>1, <1>3, <1>4 DEF IInv, Agreement, OnTheirWay, ShowsItsRow
<1>13. Arrive'
  <2> SUFFICES ASSUME NEW w \in Views, Sound(w), ~failed[w]
               PROVE  \/ wanted[w] \in {None, image[w]}
                      \/ asked[w][wanted[w]] # 0
                      \/ [view |-> w, url |-> wanted[w]] \in Waiting
                      \/ \E l \in Uuids : /\ load'[l].view = w /\ load'[l].url = wanted[w]
                                          /\ load'[l].state \in {"running", "image"}
    BY <1>1, <1>3 DEF Arrive
  <2>1. CASE \/ wanted[w] \in {None, image[w]} \/ asked[w][wanted[w]] # 0
            \/ [view |-> w, url |-> wanted[w]] \in Waiting
    BY <2>1
  <2>2. CASE \E l \in Uuids : /\ load[l].view = w /\ load[l].url = wanted[w]
                              /\ load[l].state \in {"running", "image"}
    <3>1. PICK l \in Uuids : /\ load[l].view = w /\ load[l].url = wanted[w]
                             /\ load[l].state \in {"running", "image"}
      BY <2>2
    <3>2. CASE l = thread.load
      BY <1>1, <3>1, <3>2 DEF IInv, Agreement, CompletedIsShown, Answers
    <3>3. CASE l # thread.load
      BY <1>2, <3>1, <3>3
    <3>4. QED
      BY <3>2, <3>3
  <2>3. QED
    BY <2>1, <2>2 DEF IInv, Agreement, Arrive
<1>14. QED
  BY <1>6, <1>7, <1>8, <1>9, <1>10, <1>11, <1>12, <1>13 DEF Agreement

\* The threads meet in runningRequests.  If the drop is lost its request is one
\* that was overtaken; if the registration is lost its view is no longer sound.
LEMMA RaceInRunningRequestsAgrees ==
    ASSUME IInv, RaceInRunningRequests
    PROVE  Agreement'
<1> DEFINE kept == /\ runningRequests' = runningRequests \cup {main.load}
                   /\ overtaken' = overtaken \cup {thread.load} \cup Overtaken
                   /\ mixed' = mixed
           lost == /\ runningRequests' = runningRequests \ {thread.load}
                   /\ mixed' = [mixed EXCEPT ![load[main.load].view] = TRUE]
                   /\ overtaken' = overtaken
<1>1. /\ UNCHANGED <<loadedImages, uuidMap, blocks, image, wanted, asked, failed>>
      /\ thread.load \in Uuids /\ load[thread.load].view \in Views
      /\ load[thread.load].state \in Answers \cup {"cancelled"}
      /\ main.load \in Uuids /\ load[main.load].view \in Views
      /\ load[main.load].state \notin {"unused", "cancelled"}
      /\ main'.load = main.load /\ main'.at = "map" /\ main.at = "register"
      /\ thread' = Idle /\ thread'.at = "idle" /\ thread.at = "drop"
      /\ kept \/ lost
  BY ThreadsAre DEF RaceInRunningRequests, IInv, Agreement, ThreadsAgree, Idle, cells, rows
<1>2. /\ load'[thread.load] = [view |-> load[thread.load].view, url |-> None, state |-> "done"]
      /\ \A l \in Uuids : l # thread.load => load'[l] = load[l]
  <2>1. load \in [Uuids -> [view : Views \cup {None}, url : Urls \cup {None}, state : States]]
    BY Zenon DEF IInv, TypeOK
  <2>2. load' = [load EXCEPT ![thread.load].state = "done", ![thread.load].url = None]
    BY Zenon DEF RaceInRunningRequests
  <2>3. QED
    BY <1>1, <2>1, <2>2
<1>3. /\ \A w \in Views : Sound(w)' => Sound(w)
      /\ lost => mixed'[load[main.load].view]
      /\ Waiting' = Waiting
  <2>1. mixed \in [Views -> BOOLEAN]
    BY Zenon DEF IInv, TypeOK
  <2>2. lost => /\ mixed'[load[main.load].view] = TRUE
                /\ \A w \in Views : w # load[main.load].view => mixed'[w] = mixed[w]
    BY <1>1, <2>1
  <2>3. Waiting' = Waiting
    BY <1>1 DEF Waiting
  <2>4. QED
    BY <1>1, <2>2, <2>3 DEF Sound
<1>4. ASSUME NEW l \in Uuids
      PROVE  /\ load'[l].view = load[l].view
             /\ load'[l].state # "done" => load'[l] = load[l] /\ l # thread.load
             /\ Live(l)' => Live(l)
  <2>1. CASE l = thread.load
    BY <1>2, <2>1 DEF Live
  <2>2. CASE l # thread.load
    <3>1. load'[l] = load[l]
      BY <1>2, <2>2
    <3>2. QED
      BY <2>2, <3>1 DEF Live
  <2>3. QED
    BY <2>1, <2>2
<1> HIDE DEF kept, lost
<1>5. UnusedHasNoView' /\ ThreadsAgree' /\ CompletedIsShown'
  <2>1. UnusedHasNoView'
    BY <1>4 DEF IInv, Agreement, UnusedHasNoView
  <2>2. ThreadsAgree' /\ CompletedIsShown'
    BY <1>1, <1>4 DEF ThreadsAgree, CompletedIsShown
  <2>3. QED
    BY <2>1, <2>2
<1>6. RegisteredFirst'
  <2>1. CASE kept
    BY <1>1, <2>1 DEF RegisteredFirst, kept
  <2>2. CASE lost
    BY <1>1, <1>3, <1>4, <2>2 DEF RegisteredFirst, Sound
  <2>3. QED
    BY <1>1, <2>1, <2>2
<1>7. RequestsAreDropped'
  <2> SUFFICES ASSUME NEW l \in runningRequests'
               PROVE  load'[l].state \in {"running"} \cup Answers \/ l \in overtaken'
    BY DEF RequestsAreDropped
  <2>1. /\ runningRequests \subseteq Uuids
        /\ load[main.load].state \in States
        /\ \A k \in runningRequests : load[k].state \in {"running"} \cup Answers \/ k \in overtaken
    BY <1>1, LoadsAre DEF IInv, TypeOK, Agreement, RequestsAreDropped
  <2>2. CASE lost
    BY <1>2, <2>1, <2>2 DEF lost
  <2>3. CASE kept /\ l = thread.load
    BY <2>3 DEF kept
  <2>4. CASE kept /\ l # thread.load /\ l = main.load
    BY <1>1, <1>2, <2>1, <2>4 DEF kept, Overtaken, States
  <2>5. CASE kept /\ l # thread.load /\ l # main.load
    BY <1>2, <2>1, <2>5 DEF kept
  <2>6. QED
    BY <1>1, <2>2, <2>3, <2>4, <2>5
<1>8. RunningIsCancellable'
  <2> SUFFICES ASSUME NEW l \in Uuids, load'[l].state = "running", main.load # l,
                      ~mixed'[load'[l].view]
               PROVE  uuidMap[load'[l].view] = l /\ l \in runningRequests'
    BY <1>1 DEF RunningIsCancellable
  <2>1. load'[l] = load[l] /\ l # thread.load /\ load[l].view \in Views /\ load[l].state = "running"
    BY <1>4, LoadsAre DEF IInv
  <2>2. ~mixed[load[l].view]
    BY <1>3, <2>1 DEF Sound
  <2>3. uuidMap[load[l].view] = l /\ l \in runningRequests
    BY <2>1, <2>2 DEF IInv, Agreement, RunningIsCancellable
  <2>4. QED
    BY <1>1, <2>1, <2>3 DEF kept, lost
<1>9. LookupIsForRow'
  BY <1>1, <1>3, <1>4 DEF IInv, Agreement, LookupIsForRow
<1>10. OneAtATime'
  BY <1>1, <1>3, <1>4 DEF IInv, Agreement, OneAtATime
<1>11. OnTheirWay' /\ ShowsItsRow'
  BY <1>1, <1>3, <1>4 DEF IInv, Agreement, OnTheirWay, ShowsItsRow, Sound
<1>12. Arrive'
  <2> SUFFICES ASSUME NEW w \in Views, Sound(w), ~failed[w]
               PROVE  \/ wanted[w] \in {None, image[w]}
                      \/ asked[w][wanted[w]] # 0
                      \/ [view |-> w, url |-> wanted[w]] \in Waiting
                      \/ \E l \in Uuids : /\ load'[l].view = w /\ load'[l].url = wanted[w]
                                          /\ load'[l].state \in {"running", "image"}
    BY <1>1, <1>3 DEF Arrive
  <2>1. CASE \/ wanted[w] \in {None, image[w]} \/ asked[w][wanted[w]] # 0
            \/ [view |-> w, url |-> wanted[w]] \in Waiting
    BY <2>1
  <2>2. CASE \E l \in Uuids : /\ load[l].view = w /\ load[l].url = wanted[w]
                              /\ load[l].state \in {"running", "image"}
    <3>1. PICK l \in Uuids : /\ load[l].view = w /\ load[l].url = wanted[w]
                             /\ load[l].state \in {"running", "image"}
      BY <2>2
    <3>2. CASE l = thread.load
      BY <1>1, <3>1, <3>2 DEF IInv, Agreement, CompletedIsShown, Answers
    <3>3. CASE l # thread.load
      BY <1>2, <3>1, <3>3
    <3>4. QED
      BY <3>2, <3>3
  <2>3. QED
    BY <2>1, <2>2 DEF IInv, Agreement, Arrive
<1>13. QED
  BY <1>5, <1>6, <1>7, <1>8, <1>9, <1>10, <1>11, <1>12 DEF Agreement

\* They meet in uuidMap.  A token that survives its removal is of a load that is
\* answered; if the other is lost its view is no longer sound.
LEMMA RaceInUuidMapAgrees ==
    ASSUME IInv, RaceInUuidMap
    PROVE  Agreement'
<1> DEFINE here == load[main.load].view
           there == load[thread.load].view
           kept == uuidMap' = [uuidMap EXCEPT ![here] = main.load] /\ mixed' = mixed
           lost == /\ uuidMap' = [uuidMap EXCEPT ![there] = None]
                   /\ mixed' = [mixed EXCEPT ![here] = TRUE]
<1>1. /\ UNCHANGED <<load, loadedImages, runningRequests, blocks, image, wanted, asked, overtaken, failed>>
      /\ thread.load \in Uuids /\ there \in Views
      /\ load[thread.load].state \in {"image", "error"}
      /\ main.load \in Uuids /\ here \in Views
      /\ main' = Idle /\ main'.at = "idle" /\ main'.load = None /\ main.at = "map"
      /\ thread'.load = thread.load /\ thread'.at = "drop" /\ thread.at = "unmap"
      /\ kept \/ lost
  BY ThreadsAre DEF RaceInUuidMap, IInv, Agreement, ThreadsAgree, Idle, cells, rows
<1>2. /\ \A w \in Views : Sound(w)' => Sound(w)
      /\ lost => mixed'[here]
      /\ kept => uuidMap'[here] = main.load /\ \A w \in Views : w # here => uuidMap'[w] = uuidMap[w]
      /\ lost => \A w \in Views : w # there => uuidMap'[w] = uuidMap[w]
      /\ \A l \in Uuids : Live(l)' <=> Live(l)
      /\ Waiting' = Waiting
  <2>1. mixed \in [Views -> BOOLEAN] /\ uuidMap \in [Views -> Uuids \cup {None}]
    BY Zenon DEF IInv, TypeOK
  <2>2. lost => /\ mixed'[here] = TRUE
                /\ \A w \in Views : w # here => mixed'[w] = mixed[w]
                /\ \A w \in Views : w # there => uuidMap'[w] = uuidMap[w]
    BY <1>1, <2>1
  <2>3. kept => /\ mixed' = mixed /\ uuidMap'[here] = main.load
                /\ \A w \in Views : w # here => uuidMap'[w] = uuidMap[w]
    BY <1>1, <2>1
  <2>4. Waiting' = Waiting /\ \A l \in Uuids : Live(l)' <=> Live(l)
    BY <1>1 DEF Waiting, Live
  <2> HIDE DEF kept, lost
  <2>5. \A w \in Views : Sound(w)' => Sound(w)
    BY <1>1, <2>2, <2>3 DEF Sound
  <2>6. QED
    BY <1>1, <2>2, <2>3, <2>4, <2>5
<1>3. RunningIsCancellable'
  <2> SUFFICES ASSUME NEW l \in Uuids, load[l].state = "running", Sound(load[l].view)'
               PROVE  uuidMap'[load[l].view] = l /\ l \in runningRequests
    BY <1>1 DEF RunningIsCancellable, Sound
  <2> DEFINE v == load[l].view
  <2>1. v \in Views /\ Live(l) /\ Live(thread.load) /\ l # thread.load
    BY <1>1, LoadsAre DEF IInv, Live
  <2>2. Sound(v) /\ v # there
    BY <1>1, <1>2, <2>1 DEF IInv, Agreement, OneAtATime
  <2>3. CASE l = main.load
    <3>1. kept
      BY <1>1, <1>2, <2>3 DEF Sound
    <3>2. l \in runningRequests
      BY <1>1, <2>2, <2>3 DEF IInv, Agreement, RegisteredFirst
    <3>3. QED
      BY <1>2, <2>3, <3>1, <3>2
  <2>4. CASE l # main.load
    <3>1. v # here
      BY <1>1, <2>1, <2>2, <2>4 DEF IInv, Agreement, OneAtATime
    <3>2. uuidMap[v] = l /\ l \in runningRequests
      BY <2>2, <2>4 DEF IInv, Agreement, RunningIsCancellable, Sound
    <3>3. QED
      BY <1>1, <1>2, <2>1, <2>2, <3>1, <3>2
  <2>5. QED
    BY <2>3, <2>4
<1> HIDE DEF kept, lost, here, there
<1>4. UnusedHasNoView' /\ ThreadsAgree' /\ RegisteredFirst' /\ RequestsAreDropped'
  BY <1>1 DEF IInv, Agreement, UnusedHasNoView, ThreadsAgree, RegisteredFirst, RequestsAreDropped
<1>5. LookupIsForRow' /\ OneAtATime' /\ ShowsItsRow'
  <2>1. LookupIsForRow'
    BY <1>1, <1>2 DEF IInv, Agreement, LookupIsForRow
  <2>2. OneAtATime' /\ ShowsItsRow'
    BY <1>1, <1>2 DEF IInv, Agreement, OneAtATime, ShowsItsRow, Sound
  <2>3. QED
    BY <2>1, <2>2
<1>6. OnTheirWay' /\ Arrive'
  BY <1>1, <1>2 DEF IInv, Agreement, OnTheirWay, Arrive
<1>7. CompletedIsShown'
  BY <1>1, <1>2, ThreadsAre DEF IInv, Agreement, CompletedIsShown
<1>8. QED
  BY <1>3, <1>4, <1>5, <1>6, <1>7 DEF Agreement

-----------------------------------------------------------------------------
(* The theorems.                                                           *)

\* Every action, or none, preserves the inductive invariant.
LEMMA StepIInv ==
    IInv /\ [Next]_vars => IInv'
<1> SUFFICES ASSUME IInv, [Next]_vars PROVE IInv'
  OBVIOUS
<1>1. CASE Die
  <2>1. Init'
    BY <1>1, DieIsInit
  <2>2. Init' => IInv'
    BY InitIInv, PTL
  <2>3. QED
    BY <2>1, <2>2
<1>2. CASE Next /\ ~Die
  <2>1. TypeOK'
    BY <1>2, TypeStep DEF IInv, Agreement
  <2>2. Agreement'
    BY <1>2, HitAgrees, StartAgrees, LookupFailsAgrees, RedrawAgrees, DequeueAgrees, RegisterAgrees,
       MapTokenAgrees, ShowImageAgrees, RespondAgrees, CompleteImageAgrees, CompleteOtherAgrees,
       UnmapAgrees, DropAgrees, RaceInRunningRequestsAgrees, RaceInUuidMapAgrees, ImageLoaderAssumption
       DEF Next
  <2>3. QED
    BY <2>1, <2>2 DEF IInv
<1>3. CASE UNCHANGED vars
  BY <1>3 DEF vars, maps, cells, rows, history, IInv, TypeOK, Agreement, UnusedHasNoView, ThreadsAgree,
     LookupIsForRow, OneAtATime, RegisteredFirst, RunningIsCancellable, OnTheirWay, ShowsItsRow, RequestsAreDropped,
     CompletedIsShown, Arrive, Sound, Live, Waiting
<1>4. QED
  BY <1>1, <1>2, <1>3

\* IInv holds in every reachable state.
THEOREM Invariance == Spec => []IInv
BY InitIInv, StepIInv, PTL DEF Spec

\* The state keeps its shape; a token in uuidMap is of a load for its view.
THEOREM TypeCorrect == Spec => []TypeOK
<1>1. IInv => TypeOK
  BY DEF IInv
<1>2. QED
  BY Invariance, <1>1, PTL

\* A cell that got its row with nothing left of the ones before shows the picture
\* of this row or the placeholder, however late its author and its picture come
\* (FeedViewController.swift, PostCell.swift, ImageLoader.swift).
THEOREM CellsShowTheirRow == Spec => []ShowsItsRow
<1>1. IInv => ShowsItsRow
  BY DEF IInv, Agreement
<1>2. QED
  BY Invariance, <1>1, PTL

\* From the moment load returns until the answer, cancel(for:) of such a cell
\* finds the request in both dictionaries.
THEOREM LoadsCanBeCancelled == Spec => []RunningIsCancellable
<1>1. IInv => RunningIsCancellable
  BY DEF IInv, Agreement
<1>2. QED
  BY Invariance, <1>1, PTL

\* runningRequests keeps no request that is completed, but those whose
\* completion was faster than the line that registers them, or met it or that of
\* another in the dictionary.
THEOREM RunningRequestsAreDropped == Spec => []RequestsAreDropped
<1>1. IInv => RequestsAreDropped
  BY DEF IInv, Agreement
<1>2. QED
  BY Invariance, <1>1, PTL

\* A cell never waits in vain: its row's picture is shown, still on its way,
\* its author still looked up, or it could not be had.
THEOREM NoCellWaitsInVain == Spec => []PicturesArrive
<1>1. IInv => PicturesArrive
  <2> SUFFICES ASSUME IInv, NEW v \in Views, Sound(v), ~failed[v], wanted[v] \notin {None, image[v]}
               PROVE  \/ asked[v][wanted[v]] # 0
                      \/ \E l \in Uuids : load[l] \in [view : {v}, url : {wanted[v]},
                                                       state : {"running", "image"}]
                      \/ \E i \in 1..Len(blocks) : blocks[i] = [view |-> v, url |-> wanted[v]]
    BY DEF PicturesArrive, Sound
  <2>1. CASE [view |-> v, url |-> wanted[v]] \in Waiting
    BY <2>1 DEF Waiting
  <2>2. ASSUME NEW l \in Uuids, load[l].view = v, load[l].url = wanted[v],
               load[l].state \in {"running", "image"}
        PROVE  load[l] \in [view : {v}, url : {wanted[v]}, state : {"running", "image"}]
    BY <2>2 DEF IInv, TypeOK
  <2>3. QED
    BY <2>1, <2>2 DEF IInv, Agreement, Arrive
<1>2. QED
  BY Invariance, <1>1, PTL

=============================================================================
