--------------------------- MODULE Discover_proofs ---------------------------
(***************************************************************************)
(* Theorems about Discover, for every number of regions and of loads under *)
(* way at once: what a tap on a row opens, which news are shown, and that  *)
(* the hidden table returns.                                               *)
(***************************************************************************)
EXTENDS Discover, TLAPS

-----------------------------------------------------------------------------
(* The inductive invariant, in parts.                                      *)

Waiting == {blocks[j] : j \in 1..Len(blocks)}

\* Data sources are given to the table only when there are some.
ShowsHaveData ==
    (\E b \in Waiting : b.op = "show") => data # "empty"

\* Between the two blocks of a load nothing answers a tap.
UntilShownNothingAnswers ==
    delegate # "nil" /\ ~torn => \A b \in Waiting : b.op # "show"

\* A load that has ended is free again.
EndedIsFree ==
    \A i \in Loads : load[i].users = "free" => load[i] = Free

\* What is under way is for the region selected, and what is shown is, or
\* will be replaced.
NewsFollow ==
    ~crossing =>
        /\ \A i \in Loads : load[i].users # "free" =>
               /\ load[i].users # "failed"
               /\ load[i].region = selectedRegion
               /\ load[i].news = "there" => load[i].got = selectedRegion
        /\ \A b \in Waiting : b.op = "build" => b.got = selectedRegion
        /\ \/ data \in {"empty", selectedRegion}
           \/ \E i \in Loads : load[i].users # "free"
           \/ \E b \in Waiting : b.op = "build"

\* The load that takes the indicator away is under way, or its blocks are.
ReturnIsOnItsWay ==
    hidden /\ ~lost =>
        \/ \E i \in Loads : load[i].then = "unhide" /\ load[i].users \in {"awaited", "there"}
        \/ \E b \in Waiting : b.then = "unhide"

IInv ==
    /\ TypeOK
    /\ ShowsHaveData
    /\ TapOpensShownRow
    /\ UntilShownNothingAnswers
    /\ EndedIsFree
    /\ NewsFollow
    /\ ReturnIsOnItsWay

-----------------------------------------------------------------------------
(* The blocks on the main queue.                                           *)

\* A block is added at the end.
LEMMA BlockIsAdded ==
    ASSUME blocks \in Seq(Block), NEW b \in Block, blocks' = Append(blocks, b)
    PROVE  Waiting' = Waiting \cup {b} /\ blocks' \in Seq(Block)
<1>1. /\ Len(blocks') = Len(blocks) + 1
      /\ \A j \in 1..Len(blocks) : blocks'[j] = blocks[j]
      /\ blocks'[Len(blocks) + 1] = b
      /\ Len(blocks) \in Nat
  OBVIOUS
<1>2. 1..Len(blocks') = 1..Len(blocks) \cup {Len(blocks) + 1}
  BY <1>1
<1>3. QED
  BY <1>1, <1>2 DEF Waiting

\* The first block is run.
LEMMA BlockIsRun ==
    ASSUME blocks \in Seq(Block), blocks # <<>>, blocks' = Tail(blocks)
    PROVE  /\ Waiting = {Head(blocks)} \cup Waiting'
           /\ Head(blocks) \in Block
           /\ blocks' \in Seq(Block)
<1>1. /\ Len(blocks) = Len(blocks') + 1
      /\ \A j \in 1..Len(blocks') : blocks'[j] = blocks[j + 1]
      /\ Head(blocks) = blocks[1]
      /\ Len(blocks') \in Nat
      /\ blocks' \in Seq(Block)
  OBVIOUS
<1>2. Waiting \subseteq {Head(blocks)} \cup Waiting'
  <2> SUFFICES ASSUME NEW j \in 1..Len(blocks), j # 1
               PROVE  blocks[j] \in Waiting'
    BY <1>1 DEF Waiting
  <2>1. j - 1 \in 1..Len(blocks') /\ blocks'[j - 1] = blocks[j]
    BY <1>1
  <2>2. QED
    BY <2>1 DEF Waiting
<1>3. {Head(blocks)} \cup Waiting' \subseteq Waiting
  <2>1. Head(blocks) \in Waiting
    BY <1>1 DEF Waiting
  <2>2. ASSUME NEW j \in 1..Len(blocks') PROVE blocks'[j] \in Waiting
    <3>1. j + 1 \in 1..Len(blocks) /\ blocks'[j] = blocks[j + 1]
      BY <1>1
    <3>2. QED
      BY <3>1 DEF Waiting
  <2>3. QED
    BY <2>1, <2>2 DEF Waiting
<1>4. QED
  BY <1>1, <1>2, <1>3

\* Two blocks that differ at most in whether their sources are still in data.
Alike(b, c) == b.op = c.op /\ b.got = c.got /\ b.then = c.then

\* The block that makes the data sources is followed by the one that shows
\* them, and the blocks before it are kept.
LEMMA SourcesAreMade ==
    ASSUME blocks \in Seq(Block), MakeSources
    PROVE  /\ blocks' \in Seq(Block)
           /\ Head(blocks) \in Block /\ Head(blocks) \in Waiting /\ Head(blocks).op = "build"
           /\ \E b \in Waiting' : /\ b.op = "show"
                                  /\ b.got = Head(blocks).got /\ b.then = Head(blocks).then
           /\ \A c \in Waiting : c = Head(blocks) \/ \E b \in Waiting' : Alike(b, c)
           /\ \A b \in Waiting' : b.op = "build" => b \in Waiting
<1> DEFINE t == Tail(blocks)
           n == Len(Tail(blocks))
           kept == [j \in 1..n |-> IF t[j].op = "show" THEN [t[j] EXCEPT !.current = FALSE] ELSE t[j]]
           last == [Head(blocks) EXCEPT !.op = "show"]
<1>1. /\ blocks # <<>> /\ Head(blocks).op = "build" /\ blocks' = Append(kept, last)
  BY DEF MakeSources, NextBlock
<1>2. /\ t \in Seq(Block) /\ n \in Nat /\ Len(blocks) = n + 1
      /\ Head(blocks) = blocks[1] /\ Head(blocks) \in Block
      /\ \A j \in 1..n : t[j] = blocks[j + 1] /\ t[j] \in Block
  BY <1>1
<1>3. last \in Block /\ last.op = "show" /\ last.got = Head(blocks).got /\ last.then = Head(blocks).then
  BY <1>2 DEF Block
<1>4. ASSUME NEW j \in 1..n
      PROVE  /\ kept[j] \in Block /\ Alike(kept[j], t[j])
             /\ kept[j].op = "build" => kept[j] = t[j]
  <2>1. t[j] \in Block /\ kept[j] = IF t[j].op = "show" THEN [t[j] EXCEPT !.current = FALSE] ELSE t[j]
    BY <1>2
  <2>2. CASE t[j].op = "show"
    <3>1. kept[j] = [t[j] EXCEPT !.current = FALSE]
      BY <2>1, <2>2
    <3> HIDE DEF t, kept
    <3>2. QED
      BY <2>1, <2>2, <3>1 DEF Alike, Block
  <2>3. CASE t[j].op # "show"
    <3>1. kept[j] = t[j]
      BY <2>1, <2>3
    <3>2. QED
      BY <2>1, <3>1 DEF Alike
  <2>4. QED
    BY <2>2, <2>3
<1>5. kept \in Seq(Block) /\ Len(kept) = n
  BY <1>2, <1>4
<1> HIDE DEF kept, last, t, n
<1>6. /\ blocks' \in Seq(Block) /\ Len(blocks') = n + 1 /\ blocks'[n + 1] = last
      /\ \A j \in 1..n : blocks'[j] = kept[j]
  BY <1>1, <1>2, <1>3, <1>5
<1>7. last \in Waiting'
  BY <1>2, <1>6 DEF Waiting
<1>8. Head(blocks) \in Waiting
  BY <1>2 DEF Waiting
<1>9. ASSUME NEW j \in 1..Len(blocks), j # 1
      PROVE  \E b \in Waiting' : Alike(b, blocks[j])
  <2>1. j - 1 \in 1..n /\ t[j - 1] = blocks[j]
    BY <1>2, <1>9
  <2>2. kept[j - 1] \in Waiting' /\ Alike(kept[j - 1], blocks[j])
    BY <1>2, <1>4, <1>6, <2>1 DEF Waiting
  <2>3. QED
    BY <2>2
<1>10. ASSUME NEW j \in 1..Len(blocks'), blocks'[j].op = "build"
       PROVE  blocks'[j] \in Waiting
  <2>1. j # n + 1
    BY <1>3, <1>6, <1>10
  <2>2. j \in 1..n
    BY <1>2, <1>6, <2>1
  <2>3. blocks'[j] = blocks[j + 1]
    BY <1>2, <1>4, <1>6, <1>10, <2>2
  <2>4. QED
    BY <1>2, <2>2, <2>3 DEF Waiting
<1>11. \E b \in Waiting' : b.op = "show" /\ b.got = Head(blocks).got /\ b.then = Head(blocks).then
  BY <1>3, <1>7
<1>12. \A c \in Waiting : c = Head(blocks) \/ \E b \in Waiting' : Alike(b, c)
  BY <1>2, <1>9 DEF Waiting
<1>13. \A b \in Waiting' : b.op = "build" => b \in Waiting
  BY <1>10 DEF Waiting
<1>14. QED
  BY <1>1, <1>2, <1>6, <1>8, <1>11, <1>12, <1>13

-----------------------------------------------------------------------------
(* Steps without a load, and steps that begin one.                         *)

\* The initial state satisfies the inductive invariant.
LEMMA InitIInv ==
    Init => IInv
<1> SUFFICES ASSUME Init PROVE IInv
  OBVIOUS
<1>1. /\ load \in [Loads -> Load]
      /\ \A i \in Loads : load[i] = Free /\ load[i].users = "free"
      /\ blocks = <<>> /\ Waiting = {} /\ blocks \in Seq(Block)
      /\ thread = None /\ data = "empty" /\ source = "nil" /\ delegate = "nil"
  BY DEF Init, Load, Free, Afterwards, Waiting
<1>2. TypeOK
  BY <1>1 DEF Init, TypeOK, Segments
<1>3. ShowsHaveData /\ TapOpensShownRow /\ UntilShownNothingAnswers /\ EndedIsFree
  BY <1>1 DEF ShowsHaveData, TapOpensShownRow, UntilShownNothingAnswers, EndedIsFree
<1>4. NewsFollow /\ ReturnIsOnItsWay
  BY <1>1 DEF Init, NewsFollow, ReturnIsOnItsWay
<1>5. QED
  BY <1>2, <1>3, <1>4 DEF IInv

\* The user appears, switches, or a read of the document fails.
LEMMA CalmSteps ==
    ASSUME IInv, Appear \/ ReadFails \/ \E s \in Segments : Switch(s)
    PROVE  IInv'
<1>1. /\ UNCHANGED <<selectedRegion, known, load, thread, news, blocks, data, hidden, crossing, lost>>
      /\ Waiting' = Waiting
  BY DEF Appear, ReadFails, Switch, history, table, Waiting
<1>2. reads' \in Nat /\ segment' \in Segments
  BY DEF Appear, ReadFails, Switch, UpdateView, IInv, TypeOK
<1>3. /\ {source', delegate'} \subseteq Segments \cup {"nil"}
      /\ data = "empty" => source' = "nil" /\ delegate' = "nil"
      /\ shown' \in Segments \cup {"nothing"}
      /\ torn' \in BOOLEAN
  <2>1. CASE Appear
    BY <2>1 DEF Appear, UpdateView, Rows, history, IInv, TypeOK
  <2>2. CASE ReadFails
    BY <2>2 DEF ReadFails, history, table, IInv, TypeOK
  <2>3. ASSUME NEW s \in Segments, Switch(s)
        PROVE  /\ source' = s /\ delegate' = s /\ shown' = s /\ data # "empty"
               /\ torn' \in BOOLEAN
    BY <2>3 DEF Switch, UpdateView, Rows, Segments, ShowPending
  <2>4. QED
    BY <2>1, <2>2, <2>3
<1>4. TypeOK'
  BY <1>1, <1>2, <1>3 DEF IInv, TypeOK
<1>5. TapOpensShownRow' /\ UntilShownNothingAnswers'
  <2>1. CASE Appear
    BY <1>1, <2>1 DEF Appear, UpdateView, Rows, history, IInv, TapOpensShownRow, UntilShownNothingAnswers
  <2>2. CASE ReadFails
    BY <1>1, <2>2 DEF ReadFails, history, table, IInv, TapOpensShownRow, UntilShownNothingAnswers
  <2>3. ASSUME NEW s \in Segments, Switch(s)
        PROVE  TapOpensShownRow' /\ UntilShownNothingAnswers'
    <3>1. source' = s /\ delegate' = s /\ shown' = s /\ torn' = ShowPending
      BY <2>3 DEF Switch, UpdateView, Rows, Segments
    <3>2. ~ShowPending => \A b \in Waiting : b.op # "show"
      BY DEF ShowPending, Waiting
    <3>3. QED
      BY <1>1, <3>1, <3>2 DEF TapOpensShownRow, UntilShownNothingAnswers
  <2>4. QED
    BY <2>1, <2>2, <2>3
<1>6. ShowsHaveData' /\ EndedIsFree' /\ NewsFollow' /\ ReturnIsOnItsWay'
  BY <1>1 DEF IInv, ShowsHaveData, EndedIsFree, NewsFollow, ReturnIsOnItsWay
<1>7. QED
  BY <1>4, <1>5, <1>6 DEF IInv

\* The table and its blocks are left alone.
LEMMA TableIsLeft ==
    ASSUME IInv, UNCHANGED <<blocks, data, table, torn>>
    PROVE  ShowsHaveData' /\ TapOpensShownRow' /\ UntilShownNothingAnswers' /\ Waiting' = Waiting
BY DEF IInv, table, ShowsHaveData, TapOpensShownRow, UntilShownNothingAnswers, Waiting

\* A load begins, for the region selected.
LEMMA LoadBegins ==
    ASSUME TypeOK, NEW i \in Loads, NEW then \in Afterwards, Begin(i, then), selectedRegion' \in Regions
    PROVE  /\ load[i] = Free /\ load[i].users = "free" /\ load[i].news = "free"
           /\ load' \in [Loads -> Load]
           /\ load'[i] = [users |-> "awaited", news |-> "awaited", region |-> selectedRegion',
                          got |-> None, then |-> then]
           /\ \A k \in Loads : k # i => load'[k] = load[k]
BY DEF TypeOK, Begin, Free, Load

\* A search, and the load after a read of the document.
LEMMA LoadSteps ==
    ASSUME IInv, NEW i \in Loads, Search(i) \/ ReadAnswered(i)
    PROVE  IInv'
<1>1. /\ UNCHANGED <<selectedRegion, segment, thread, news, blocks, data, table, hidden,
                     crossing, torn, lost>>
      /\ reads' \in Nat /\ known' \in BOOLEAN
  <2>1. reads \in Nat /\ known \in BOOLEAN
    BY DEF IInv, TypeOK
  <2>2. CASE Search(i)
    BY <2>1, <2>2 DEF Search, history
  <2>3. CASE ReadAnswered(i)
    BY <2>1, <2>3 DEF ReadAnswered, history
  <2>4. QED
    BY <2>2, <2>3
<1>2. PICK then \in Afterwards : Begin(i, then)
  BY DEF Search, ReadAnswered, Afterwards
<1>3. /\ load[i] = Free /\ load[i].users = "free" /\ load[i].news = "free"
      /\ load' \in [Loads -> Load]
      /\ load'[i] = [users |-> "awaited", news |-> "awaited", region |-> selectedRegion,
                     got |-> None, then |-> then]
      /\ \A k \in Loads : k # i => load'[k] = load[k]
  BY <1>1, <1>2, LoadBegins DEF IInv, TypeOK
<1>4. TypeOK'
  BY <1>1, <1>3 DEF IInv, TypeOK, table
<1>5. ShowsHaveData' /\ TapOpensShownRow' /\ UntilShownNothingAnswers' /\ Waiting' = Waiting
  BY <1>1, TableIsLeft
<1>6. EndedIsFree'
  BY <1>3 DEF IInv, EndedIsFree
<1>7. NewsFollow'
  BY <1>1, <1>3, <1>5 DEF IInv, NewsFollow
<1>8. ReturnIsOnItsWay'
  BY <1>1, <1>3, <1>5 DEF IInv, ReturnIsOnItsWay
<1>9. QED
  BY <1>4, <1>5, <1>6, <1>7, <1>8 DEF IInv

\* A region is picked: with nothing under way all that comes is for it.
LEMMA RegionStep ==
    ASSUME IInv, NEW i \in Loads, NEW r \in Regions, PickRegion(i, r)
    PROVE  IInv'
<1>1. /\ UNCHANGED <<segment, known, reads, thread, news, blocks, data, table, torn>>
      /\ selectedRegion' = r /\ hidden' = TRUE /\ lost' = FALSE /\ crossing' = ~Quiet
  BY DEF PickRegion
<1>2. /\ load[i] = Free /\ load[i].users = "free" /\ load[i].news = "free"
      /\ load' \in [Loads -> Load]
      /\ load'[i] = [users |-> "awaited", news |-> "awaited", region |-> r,
                     got |-> None, then |-> "unhide"]
      /\ \A k \in Loads : k # i => load'[k] = load[k]
  BY <1>1, LoadBegins DEF PickRegion, IInv, TypeOK, Afterwards
<1>3. crossing' \in BOOLEAN
  BY <1>1 DEF Quiet
<1>4. TypeOK'
  BY <1>1, <1>2, <1>3 DEF IInv, TypeOK, table
<1>5. ShowsHaveData' /\ TapOpensShownRow' /\ UntilShownNothingAnswers' /\ Waiting' = Waiting
  BY <1>1, TableIsLeft
<1>6. EndedIsFree'
  BY <1>2 DEF IInv, EndedIsFree
<1>7. NewsFollow'
  <2> SUFFICES ASSUME Quiet PROVE NewsFollow'
    BY <1>1 DEF NewsFollow
  <2>1. Waiting = {} /\ \A k \in Loads : k # i => load'[k].users = "free"
    BY <1>2 DEF Quiet, Waiting, Free
  <2>2. QED
    BY <1>1, <1>2, <1>5, <2>1 DEF NewsFollow
<1>8. ReturnIsOnItsWay'
  BY <1>2 DEF ReturnIsOnItsWay
<1>9. QED
  BY <1>4, <1>5, <1>6, <1>7, <1>8 DEF IInv

-----------------------------------------------------------------------------
(* Answers.                                                                *)

\* The users come.
LEMMA UsersStep ==
    ASSUME IInv, NEW i \in Loads, UsersArrive(i)
    PROVE  IInv'
<1> USE DEF UsersArrive
<1>1. /\ UNCHANGED <<segment, selectedRegion, known, reads, thread, news, data, source, delegate,
                     shown, hidden, torn>>
      /\ load[i].users = "awaited"
  BY DEF table
<1>2. /\ load'[i] = IF load[i].news = "there" /\ thread # i
                    THEN Free ELSE [load[i] EXCEPT !.users = "there"]
      /\ \A k \in Loads : k # i => load'[k] = load[k]
      /\ load' \in [Loads -> Load]
      /\ load[i] \in Load
  <2>1. load \in [Loads -> Load] /\ load[i] \in Load
    BY DEF IInv, TypeOK
  <2>2. [load[i] EXCEPT !.users = "there"] \in Load /\ Free \in Load
    BY <2>1 DEF Load, Free, Afterwards
  <2>3. [load[i] EXCEPT !.users = "there"].users = "there"
        /\ [load[i] EXCEPT !.users = "there"].news = load[i].news
    BY <2>1 DEF Load
  <2>4. QED
    BY <2>1, <2>2, <2>3 DEF Over
<1>3. Build(i) \in Block /\ Build(i).op = "build" /\ Build(i).got = load[i].got
      /\ Build(i).then = load[i].then
  BY <1>2 DEF Build, Load, Block
<1>4. /\ load[i].news = "there" /\ known => Waiting' = Waiting \cup {Build(i)} /\ blocks' \in Seq(Block)
      /\ ~(load[i].news = "there" /\ known) => Waiting' = Waiting /\ blocks' = blocks
  <2>1. blocks \in Seq(Block)
    BY DEF IInv, TypeOK
  <2>2. CASE load[i].news = "there" /\ known
    BY <1>3, <2>1, <2>2, BlockIsAdded
  <2>3. CASE ~(load[i].news = "there" /\ known)
    BY <2>3 DEF Waiting
  <2>4. QED
    BY <2>2, <2>3
<1>5. /\ lost' \in BOOLEAN /\ crossing' \in BOOLEAN
      /\ ~lost' => ~lost /\ (load[i].news = "there" => known)
      /\ ~crossing' => ~crossing /\ (load[i].news = "there" => known)
  BY Zenon
<1> HIDE DEF UsersArrive
<1>6. thread # None => load'[thread].news = "there"
  BY <1>1, <1>2 DEF IInv, TypeOK, Load
<1>7. TypeOK'
  <2>1. blocks' \in Seq(Block)
    BY <1>4 DEF IInv, TypeOK
  <2>2. QED
    BY <1>1, <1>2, <1>5, <1>6, <2>1 DEF IInv, TypeOK
<1>8. ShowsHaveData' /\ TapOpensShownRow' /\ UntilShownNothingAnswers'
  BY <1>1, <1>3, <1>4 DEF IInv, ShowsHaveData, TapOpensShownRow, UntilShownNothingAnswers
<1>9. EndedIsFree'
  BY <1>2 DEF IInv, EndedIsFree, Load, Free
<1>10. NewsFollow'
  <2> SUFFICES ASSUME ~crossing' PROVE NewsFollow'
    BY DEF NewsFollow
  <2>1. load[i].news = "there" => known
    BY <1>5
  <2>2. /\ \A k \in Loads : load[k].users # "free" =>
               /\ load[k].users # "failed"
               /\ load[k].region = selectedRegion
               /\ load[k].news = "there" => load[k].got = selectedRegion
        /\ \A b \in Waiting : b.op = "build" => b.got = selectedRegion
    BY <1>5 DEF IInv, NewsFollow
  <2>3. \A k \in Loads : load'[k].users # "free" =>
               /\ load'[k].users # "failed"
               /\ load'[k].region = selectedRegion
               /\ load'[k].news = "there" => load'[k].got = selectedRegion
    BY <1>1, <1>2, <2>2 DEF Load, Free
  <2>4. \A b \in Waiting' : b.op = "build" => b.got = selectedRegion
    BY <1>1, <1>3, <1>4, <2>2
  <2>5. load'[i].users # "free" \/ \E b \in Waiting' : b.op = "build"
    BY <1>2, <1>3, <1>4, <2>1 DEF Load
  <2>6. QED
    BY <1>1, <2>3, <2>4, <2>5 DEF NewsFollow
<1>11. ReturnIsOnItsWay'
  <2> SUFFICES ASSUME hidden, ~lost'
               PROVE  \/ \E k \in Loads : load'[k].then = "unhide" /\ load'[k].users \in {"awaited", "there"}
                      \/ \E b \in Waiting' : b.then = "unhide"
    BY <1>1 DEF ReturnIsOnItsWay
  <2>1. \/ \E k \in Loads : load[k].then = "unhide" /\ load[k].users \in {"awaited", "there"}
        \/ \E b \in Waiting : b.then = "unhide"
    BY <1>5 DEF IInv, ReturnIsOnItsWay
  <2>2. Waiting \subseteq Waiting'
    BY <1>4
  <2>3. load[i].then = "unhide" => \/ load'[i].then = "unhide" /\ load'[i].users = "there"
                                   \/ \E b \in Waiting' : b.then = "unhide"
    BY <1>2, <1>3, <1>4, <1>5 DEF Load
  <2>4. QED
    BY <1>2, <2>1, <2>2, <2>3
<1>12. QED
  BY <1>7, <1>8, <1>9, <1>10, <1>11 DEF IInv

\* The users do not come, or both answers miss each other: the load is lost.
LEMMA LossSteps ==
    ASSUME IInv, (\E i \in Loads : UsersFail(i)) \/ BothMiss
    PROVE  IInv'
<1>1. PICK i \in Loads : UsersFail(i) \/ (BothMiss /\ thread = i)
  <2>1. CASE BothMiss
    <3>1. thread \in Loads
      BY <2>1 DEF BothMiss, IInv, TypeOK
    <3>2. QED
      BY <2>1, <3>1
  <2>2. QED
    BY <2>1
<1>2. /\ UNCHANGED <<segment, selectedRegion, known, reads, news, blocks, data, table, hidden, torn>>
      /\ lost' = TRUE /\ crossing' = TRUE
  BY <1>1 DEF UsersFail, BothMiss
<1>3. load[i] \in Load /\ load \in [Loads -> Load]
  BY DEF IInv, TypeOK
<1>4. /\ \/ load'[i] = Free
         \/ thread' # None /\ load'[i] = [load[i] EXCEPT !.users = "failed"] /\ thread' = thread
         \/ load[i].news # "there" /\ load'[i] = [load[i] EXCEPT !.users = "failed"] /\ thread' = thread
      /\ load'[i] = Free => thread' # i
      /\ thread' \in {thread, None}
      /\ \A k \in Loads : k # i => load'[k] = load[k]
      /\ load' \in [Loads -> Load]
  <2>1. CASE UsersFail(i)
    <3>1. /\ load' = [load EXCEPT ![i] = Over([load[i] EXCEPT !.users = "failed"], i, thread)]
          /\ thread' = thread
      BY <2>1 DEF UsersFail
    <3>2. [load[i] EXCEPT !.users = "failed"] \in Load /\ Free \in Load
      BY <1>3 DEF Load, Free, Afterwards
    <3>3. /\ [load[i] EXCEPT !.users = "failed"].users = "failed"
          /\ [load[i] EXCEPT !.users = "failed"].news = load[i].news
          /\ [load[i] EXCEPT !.users = "failed"] # Free
      BY <1>3 DEF Load, Free
    <3>4. load'[i] = IF load[i].news = "there" /\ thread # i
                     THEN Free ELSE [load[i] EXCEPT !.users = "failed"]
      BY <1>3, <3>1, <3>3 DEF Over
    <3>5. QED
      BY <1>3, <3>1, <3>2, <3>3, <3>4, DiscoverAssumption
  <2>2. CASE BothMiss /\ thread = i
    <3>1. Free \in Load
      BY DEF Load, Free, Afterwards
    <3>2. QED
      BY <1>3, <2>2, <3>1, DiscoverAssumption DEF BothMiss
  <2>3. QED
    BY <1>1, <2>1, <2>2
<1>5. TypeOK'
  <2>1. thread' # None => load'[thread'].news = "there"
    BY <1>3, <1>4 DEF IInv, TypeOK, Load, Free
  <2>2. QED
    BY <1>2, <1>4, <2>1 DEF IInv, TypeOK, table
<1>6. ShowsHaveData' /\ TapOpensShownRow' /\ UntilShownNothingAnswers'
  BY <1>2, TableIsLeft
<1>7. EndedIsFree'
  BY <1>3, <1>4 DEF IInv, EndedIsFree, Load, Free
<1>8. NewsFollow' /\ ReturnIsOnItsWay'
  BY <1>2 DEF NewsFollow, ReturnIsOnItsWay
<1>9. QED
  BY <1>5, <1>6, <1>7, <1>8 DEF IInv

\* The news come: those of the region the load was begun with.
LEMMA NewsStep ==
    ASSUME IInv, NEW i \in Loads, NewsArrive(i)
    PROVE  IInv'
<1>1. /\ UNCHANGED <<segment, selectedRegion, known, reads, blocks, data, table, hidden, torn, lost>>
      /\ load[i].news = "awaited" /\ thread' = i
      /\ \/ news' = load[i].region /\ crossing' = crossing
         \/ news' = news /\ crossing' = TRUE
  BY DEF NewsArrive
<1>2. load[i] \in Load /\ load \in [Loads -> Load] /\ news' \in Regions \cup {None}
  BY <1>1 DEF IInv, TypeOK, Load
<1>3. /\ load'[i] = [users |-> load[i].users, news |-> "there", region |-> load[i].region,
                     got |-> news', then |-> load[i].then]
      /\ \A k \in Loads : k # i => load'[k] = load[k]
      /\ load' \in [Loads -> Load]
  <2>1. load' = [load EXCEPT ![i].news = "there", ![i].got = news']
    BY DEF NewsArrive
  <2>2. load'[i] = [users |-> load[i].users, news |-> "there", region |-> load[i].region,
                    got |-> news', then |-> load[i].then]
    BY <1>2, <2>1 DEF Load
  <2>3. load'[i] \in Load
    BY <1>2, <2>2 DEF Load
  <2>4. QED
    BY <1>2, <2>1, <2>2, <2>3
<1>4. crossing' \in BOOLEAN /\ (~crossing' => ~crossing /\ news' = load[i].region)
  BY <1>1 DEF IInv, TypeOK
<1>5. TypeOK'
  BY <1>1, <1>2, <1>3, <1>4 DEF IInv, TypeOK, table
<1>6. ShowsHaveData' /\ TapOpensShownRow' /\ UntilShownNothingAnswers' /\ Waiting' = Waiting
  BY <1>1, TableIsLeft
<1>7. load[i].users # "free"
  BY <1>1 DEF IInv, EndedIsFree, Free
<1>8. EndedIsFree'
  BY <1>3, <1>7 DEF IInv, EndedIsFree
<1>9. NewsFollow'
  <2> SUFFICES ASSUME ~crossing' PROVE NewsFollow'
    BY DEF NewsFollow
  <2>1. /\ \A k \in Loads : load'[k].users # "free" =>
               /\ load'[k].users # "failed"
               /\ load'[k].region = selectedRegion
               /\ load'[k].news = "there" => load'[k].got = selectedRegion
        /\ load'[i].users # "free"
    BY <1>3, <1>4, <1>7 DEF IInv, NewsFollow
  <2>2. \A b \in Waiting : b.op = "build" => b.got = selectedRegion
    BY <1>4 DEF IInv, NewsFollow
  <2>3. QED
    BY <1>1, <1>6, <2>1, <2>2 DEF NewsFollow
<1>10. ReturnIsOnItsWay'
  BY <1>1, <1>3, <1>6 DEF IInv, ReturnIsOnItsWay
<1>11. QED
  BY <1>5, <1>6, <1>8, <1>9, <1>10 DEF IInv

\* Their completion looks for the users.
LEMMA LookStep ==
    ASSUME IInv, NewsLook
    PROVE  IInv'
<1> DEFINE i == thread
<1>1. /\ UNCHANGED <<segment, selectedRegion, known, reads, news, data, source, delegate,
                     shown, hidden, torn>>
      /\ i \in Loads /\ load[i].news = "there" /\ thread' = None
  BY DEF NewsLook, table, IInv, TypeOK
<1>2. /\ load'[i] = IF load[i].users \in {"there", "failed"} THEN Free ELSE load[i]
      /\ \A k \in Loads : k # i => load'[k] = load[k]
      /\ load' \in [Loads -> Load]
      /\ load[i] \in Load
  <2>1. load \in [Loads -> Load] /\ load[i] \in Load /\ Free \in Load
    BY <1>1 DEF IInv, TypeOK, Load, Free, Afterwards
  <2>2. load' = [load EXCEPT ![i] = Over(load[i], i, None)]
    BY DEF NewsLook
  <2>3. Over(load[i], i, None) = IF load[i].users \in {"there", "failed"} THEN Free ELSE load[i]
    BY <1>1, DiscoverAssumption DEF Over
  <2>4. QED
    BY <1>1, <2>1, <2>2, <2>3
<1>3. Build(i) \in Block /\ Build(i).op = "build" /\ Build(i).got = load[i].got
      /\ Build(i).then = load[i].then
  BY <1>2 DEF Build, Load, Block
<1>4. /\ load[i].users = "there" /\ known => Waiting' = Waiting \cup {Build(i)} /\ blocks' \in Seq(Block)
      /\ ~(load[i].users = "there" /\ known) => Waiting' = Waiting /\ blocks' = blocks
  <2>1. /\ blocks \in Seq(Block)
        /\ blocks' = IF load[i].users = "there" /\ known THEN Append(blocks, Build(i)) ELSE blocks
    BY DEF NewsLook, IInv, TypeOK
  <2>2. CASE load[i].users = "there" /\ known
    BY <1>3, <2>1, <2>2, BlockIsAdded
  <2>3. CASE ~(load[i].users = "there" /\ known)
    BY <2>1, <2>3 DEF Waiting
  <2>4. QED
    BY <2>2, <2>3
<1>5. /\ lost' \in BOOLEAN /\ crossing' \in BOOLEAN
      /\ ~lost' => ~lost /\ (load[i].users = "there" => known)
      /\ ~crossing' => ~crossing /\ (load[i].users = "there" => known)
  BY Zenon DEF NewsLook
<1> HIDE DEF i
<1>6. TypeOK'
  <2>1. blocks' \in Seq(Block)
    BY <1>4 DEF IInv, TypeOK
  <2>2. QED
    BY <1>1, <1>2, <1>5, <2>1 DEF IInv, TypeOK
<1>7. ShowsHaveData' /\ TapOpensShownRow' /\ UntilShownNothingAnswers'
  BY <1>1, <1>3, <1>4 DEF IInv, ShowsHaveData, TapOpensShownRow, UntilShownNothingAnswers
<1>8. EndedIsFree'
  BY <1>2 DEF IInv, EndedIsFree
<1>9. load[i].users # "free"
  BY <1>1 DEF IInv, EndedIsFree, Free
<1>10. NewsFollow'
  <2> SUFFICES ASSUME ~crossing' PROVE NewsFollow'
    BY DEF NewsFollow
  <2>1. load[i].users = "there" => known
    BY <1>5
  <2>2. /\ \A k \in Loads : load[k].users # "free" =>
               /\ load[k].users # "failed"
               /\ load[k].region = selectedRegion
               /\ load[k].news = "there" => load[k].got = selectedRegion
        /\ \A b \in Waiting : b.op = "build" => b.got = selectedRegion
    BY <1>5 DEF IInv, NewsFollow
  <2>3. \A k \in Loads : load'[k].users # "free" =>
               /\ load'[k].users # "failed"
               /\ load'[k].region = selectedRegion
               /\ load'[k].news = "there" => load'[k].got = selectedRegion
    BY <1>1, <1>2, <2>2 DEF Free
  <2>4. \A b \in Waiting' : b.op = "build" => b.got = selectedRegion
    BY <1>1, <1>3, <1>4, <1>9, <2>2
  <2>5. load'[i].users # "free" \/ \E b \in Waiting' : b.op = "build"
    BY <1>1, <1>2, <1>3, <1>4, <1>9, <2>1, <2>2
  <2>6. QED
    BY <1>1, <2>3, <2>4, <2>5 DEF NewsFollow
<1>11. ReturnIsOnItsWay'
  <2> SUFFICES ASSUME hidden, ~lost'
               PROVE  \/ \E k \in Loads : load'[k].then = "unhide" /\ load'[k].users \in {"awaited", "there"}
                      \/ \E b \in Waiting' : b.then = "unhide"
    BY <1>1 DEF ReturnIsOnItsWay
  <2>1. \/ \E k \in Loads : load[k].then = "unhide" /\ load[k].users \in {"awaited", "there"}
        \/ \E b \in Waiting : b.then = "unhide"
    BY <1>5 DEF IInv, ReturnIsOnItsWay
  <2>2. Waiting \subseteq Waiting'
    BY <1>4
  <2>3. load[i].then = "unhide" /\ load[i].users \in {"awaited", "there"}
        => \/ load'[i].then = "unhide" /\ load'[i].users = "awaited"
           \/ \E b \in Waiting' : b.then = "unhide"
    BY <1>2, <1>3, <1>4, <1>5
  <2>4. QED
    BY <1>2, <2>1, <2>2, <2>3
<1>12. QED
  BY <1>6, <1>7, <1>8, <1>10, <1>11 DEF IInv

-----------------------------------------------------------------------------
(* The two blocks of a load.                                               *)

\* The data sources are made, and the table has none for a moment.
LEMMA MakeStep ==
    ASSUME IInv, MakeSources
    PROVE  IInv'
<1>1. /\ UNCHANGED <<segment, selectedRegion, known, reads, load, thread, news, shown,
                     hidden, crossing, lost>>
      /\ data' = Head(blocks).got /\ source' = "nil" /\ delegate' = "nil" /\ torn' = FALSE
  BY DEF MakeSources
<1>2. /\ blocks' \in Seq(Block)
      /\ Head(blocks) \in Block /\ Head(blocks) \in Waiting /\ Head(blocks).op = "build"
      /\ \E b \in Waiting' : /\ b.op = "show"
                             /\ b.got = Head(blocks).got /\ b.then = Head(blocks).then
      /\ \A c \in Waiting : c = Head(blocks) \/ \E b \in Waiting' : Alike(b, c)
      /\ \A b \in Waiting' : b.op = "build" => b \in Waiting
  BY SourcesAreMade DEF IInv, TypeOK
<1>3. data' \in Regions \cup {None} /\ data' # "empty"
  BY <1>1, <1>2, DiscoverAssumption DEF Block
<1>4. TypeOK'
  BY <1>1, <1>2, <1>3 DEF IInv, TypeOK
<1>5. ShowsHaveData' /\ TapOpensShownRow' /\ UntilShownNothingAnswers'
  BY <1>1, <1>3 DEF ShowsHaveData, TapOpensShownRow, UntilShownNothingAnswers
<1>6. EndedIsFree'
  BY <1>1 DEF IInv, EndedIsFree
<1>7. NewsFollow'
  BY <1>1, <1>2 DEF IInv, NewsFollow
<1>8. ReturnIsOnItsWay'
  BY <1>1, <1>2 DEF IInv, ReturnIsOnItsWay, Alike
<1>9. QED
  BY <1>4, <1>5, <1>6, <1>7, <1>8 DEF IInv

\* The people's data source is given to the table.
LEMMA ShowStep ==
    ASSUME IInv, ShowPeople
    PROVE  IInv'
<1> DEFINE b == Head(blocks)
<1>1. /\ UNCHANGED <<selectedRegion, known, load, thread, news, data, delegate, crossing, torn, lost>>
      /\ segment' = segment /\ hidden' = (hidden /\ b.then # "unhide")
      /\ source' = IF b.current THEN "people" ELSE "nil"
      /\ b.op = "show" /\ blocks # <<>> /\ blocks' = Tail(blocks)
  BY DEF ShowPeople, NextBlock, history
<1>2. Waiting = {b} \cup Waiting' /\ b \in Block /\ blocks' \in Seq(Block)
  BY <1>1, BlockIsRun DEF IInv, TypeOK
<1>3. shown' = "people" /\ reads' \in Nat
  BY DEF ShowPeople, UpdateView, Rows, IInv, TypeOK
<1> HIDE DEF b
<1>4. data # "empty" /\ (delegate = "nil" \/ torn)
  BY <1>1, <1>2 DEF IInv, ShowsHaveData, UntilShownNothingAnswers
<1>5. hidden' \in BOOLEAN /\ (hidden' => hidden /\ b.then # "unhide")
  BY <1>1 DEF IInv, TypeOK
<1>6. TypeOK'
  BY <1>1, <1>2, <1>3, <1>4, <1>5 DEF IInv, TypeOK, Segments
<1>7. ShowsHaveData' /\ TapOpensShownRow' /\ UntilShownNothingAnswers'
  BY <1>1, <1>4 DEF ShowsHaveData, TapOpensShownRow, UntilShownNothingAnswers
<1>8. EndedIsFree'
  BY <1>1 DEF IInv, EndedIsFree
<1>9. NewsFollow'
  BY <1>1, <1>2 DEF IInv, NewsFollow
<1>10. ReturnIsOnItsWay'
  BY <1>1, <1>2, <1>5 DEF IInv, ReturnIsOnItsWay
<1>11. QED
  BY <1>6, <1>7, <1>8, <1>9, <1>10 DEF IInv

\* The app stops and is started again.
LEMMA TooEarlyIsInit ==
    SwitchTooEarly => Init'
BY DEF SwitchTooEarly, Init

-----------------------------------------------------------------------------
(* The theorems.                                                           *)

\* Every action, or none, preserves the inductive invariant.
LEMMA StepIInv ==
    IInv /\ [Next]_vars => IInv'
<1> SUFFICES ASSUME IInv, [Next]_vars PROVE IInv'
  OBVIOUS
<1>1. CASE SwitchTooEarly
  <2>1. Init' => IInv'
    BY InitIInv, PTL
  <2>2. QED
    BY <1>1, <2>1, TooEarlyIsInit
<1>2. CASE UNCHANGED vars
  BY <1>2 DEF vars, table, history, IInv, TypeOK, ShowsHaveData, TapOpensShownRow,
     UntilShownNothingAnswers, EndedIsFree, NewsFollow, ReturnIsOnItsWay, Waiting
<1>3. CASE Next /\ ~SwitchTooEarly
  BY <1>3, CalmSteps, LoadSteps, RegionStep, UsersStep, LossSteps, NewsStep, LookStep, MakeStep, ShowStep
     DEF Next
<1>4. QED
  BY <1>1, <1>2, <1>3

\* IInv holds in every reachable state.
THEOREM Invariance == Spec => []IInv
BY InitIInv, StepIInv, PTL DEF Spec

\* The state keeps its shape, and the table refers to data sources only while
\* there are some.
THEOREM TypeCorrect == Spec => []TypeOK
<1>1. IInv => TypeOK
  BY DEF IInv
<1>2. QED
  BY Invariance, <1>1, PTL

\* A tap on a row of Discover, if anything answers it, opens what the row
\* shows (DiscoverViewController.loadDataSources, segmentSwitched).
THEOREM TapsOpenShownRows == Spec => []TapOpensShownRow
<1>1. IInv => TapOpensShownRow
  BY DEF IInv
<1>2. QED
  BY Invariance, <1>1, PTL

\* Once everything has been answered the news shown are those of the region
\* that was picked (NewsManager.getNews, loadDataSources).
THEOREM NewsAreOfRegion == Spec => []NewsOfRegion
<1>1. IInv => NewsOfRegion
  <2> SUFFICES ASSUME IInv, Quiet, ~crossing, data # "empty" PROVE data = selectedRegion
    BY DEF NewsOfRegion
  <2>1. Waiting = {} /\ \A i \in Loads : load[i].users = "free"
    BY DEF Quiet, Waiting, Free
  <2>2. QED
    BY <2>1 DEF IInv, NewsFollow
<1>2. QED
  BY Invariance, <1>1, PTL

\* The table hidden by the region picker comes back, unless a load was lost.
THEOREM TableReturns == Spec => []HiddenTableReturns
<1>1. IInv => HiddenTableReturns
  <2> SUFFICES ASSUME IInv, Quiet, hidden, ~lost PROVE FALSE
    BY DEF HiddenTableReturns, IInv, TypeOK
  <2>1. Waiting = {} /\ \A i \in Loads : load[i].users = "free"
    BY DEF Quiet, Waiting, Free
  <2>2. QED
    BY <2>1 DEF IInv, ReturnIsOnItsWay
<1>2. QED
  BY Invariance, <1>1, PTL
=============================================================================
