------------------------------- MODULE Upload -------------------------------
(***************************************************************************)
(* Pictures of a profile: EditProfileViewController.editButtonTapped and   *)
(* ImagesManager.uploadPhoto, on one phone.                                *)
(*                                                                         *)
(* Each upload is a chain of answers: the data is stored under a new name, *)
(* its address is asked for, a document with the address is added to       *)
(* "images", and an update of the profile is given to Firestore, which     *)
(* keeps it until the server has committed or refused it.  Only the update *)
(* looks at who is signed in.  The tap refreshes the profile and reports   *)
(* success at once, and may be repeated.  The profile page loads the       *)
(* pictures of the document it has read, without ever cancelling a load.   *)
(***************************************************************************)
EXTENDS Naturals, Sequences, FiniteSets

CONSTANTS Users,     \* accounts
          Kinds,     \* the pictures of the edit page: profile and background
          Names,     \* names (UUIDs) of uploads, drawn afresh for each
          None,      \* no name, user or picture
          Faults,    \* which of AllFaults may happen
          MaxUploads, \* bound of the model: uploads
          MaxLoads   \* bound of the model: loads of one picture into one view

AllFaults == {"crash", "stepFails", "readFails", "loadFails"}
Running == {"put", "url", "document", "written"}
Steps == {"unused", "updating", "done", "failed"} \cup Running

ASSUME UploadAssumption ==
    /\ None \notin Users \cup Names
    /\ Faults \subseteq AllFaults
    /\ MaxUploads \in Nat /\ MaxLoads \in Nat

VARIABLES
    userId,    \* AuthManager.userId
    picker,    \* picker[k]: the image view of the edit page
    step,      \* step[k][n]: the answer the upload waits for
    queue,     \* queue[u][k]: updates of u's picture that Firestore has yet to send
    here,      \* here[k]: uploads of the edit page that is open
    stored,    \* Storage: stored[k], names whose picture is there
    images,    \* Firestore "images": images[k], names whose address is there
    profile,   \* profile[u][k]: the picture in u's document
    header,    \* header[k]: the picture the profile page shows
    reading,   \* refreshProfile waits for the user's document
    loading,   \* loading[k][n]: loads of the picture into the page under way
    by,        \* history: by[k][n], who tapped
    last,      \* history: last[u][k], u's latest upload
    crossed,   \* history: crossed[k], uploads under way at a change of account
    overlaps,  \* history: overlaps[k], uploads under way with another of their user
    early,     \* history: header[k] may be other than the profile, see Refresh
    unsent     \* history: the picture in picker[k] was not yet tapped, and chosen
               \* with no upload from this page under way

page == <<picker, here, header, reading, loading>>
history == <<by, last, crossed, overlaps, early, unsent>>
vars == <<userId, step, queue, page, stored, images, profile, history>>

\* Uploads whose update is still to be given to Firestore.
InChain(k) == {n \in Names : step[k][n] \in Running}
Queued(u, k) == {queue[u][k][i] : i \in 1..Len(queue[u][k])}
\* Uploads that may still change the picture of whoever is signed in.
UnderWay(k) == InChain(k) \cup Queued(userId, k)
\* u's document as the phone reads it: updates not yet sent show already.
Seen(u, k) == IF queue[u][k] = <<>> THEN profile[u][k] ELSE queue[u][k][Len(queue[u][k])]

Unused(k) == {n \in Names : step[k][n] = "unused"}
\* A plausible bug: the upload is not named.
NoName(k) == None
\* A plausible bug: names are not drawn afresh.
AnyName(k) == CHOOSE n \in Names : TRUE
OwnUnderWay(k) == {n \in UnderWay(k) : by[k][n] = userId}
NewName(k) == CHOOSE n \in Unused(k) : TRUE
Sent == {k \in Kinds : picker[k] = "picture"}
Used == {p \in Kinds \X Names : step[p[1]][p[2]] # "unused"}

Moved(k, n, to) == [step EXCEPT ![k][n] = to]
NoLoads == [k \in Kinds |-> [n \in Names |-> 0]]

-----------------------------------------------------------------------------
(* The edit page.                                                          *)

\* A picture is chosen from the library.
Pick(k) ==
    /\ picker' = [picker EXCEPT ![k] = "picture"]
    /\ unsent' = [unsent EXCEPT ![k] = InChain(k) \cap here[k] = {}]
    /\ UNCHANGED <<userId, step, queue, here, stored, images, profile, header, reading,
                   loading, by, last, crossed, overlaps, early>>

\* editButtonTapped: every picture in a picker is uploaded (a blank one has no
\* data, but the profile page shows it too), and the profile refreshed.
Tap ==
    /\ Cardinality(Used) + Cardinality(Sent) <= MaxUploads
    /\ \A k \in Sent : Unused(k) # {}
    /\ step' = [k \in Kinds |-> IF k \in Sent THEN [step[k] EXCEPT ![NewName(k)] = "put"] ELSE step[k]]
    /\ here' = [k \in Kinds |-> here[k] \cup IF k \in Sent THEN {NewName(k)} ELSE {}]
    /\ header' = [k \in Kinds |-> CASE k \in Sent -> NewName(k)
                                    [] picker[k] = "blank" -> None
                                    [] OTHER -> header[k]]
    /\ reading' = TRUE
    /\ by' = [k \in Kinds |-> IF k \in Sent THEN [by[k] EXCEPT ![NewName(k)] = userId] ELSE by[k]]
    /\ last' = [last EXCEPT ![userId] =
                  [k \in Kinds |-> IF k \in Sent THEN NewName(k) ELSE last[userId][k]]]
    /\ overlaps' = [k \in Kinds |-> IF k \in Sent /\ OwnUnderWay(k) # {}
                                    THEN overlaps[k] \cup OwnUnderWay(k) \cup {NewName(k)}
                                    ELSE overlaps[k]]
    /\ early' = [k \in Kinds |-> early[k] \/ picker[k] # "none"]
    /\ unsent' = [k \in Kinds |-> unsent[k] /\ k \notin Sent]
    /\ UNCHANGED <<userId, queue, picker, loading, stored, images, profile, crossed>>

\* The edit page is left and opened again: new, empty pickers.
Reopen ==
    /\ picker' = [k \in Kinds |-> "none"]
    /\ here' = [k \in Kinds |-> {}]
    /\ unsent' = [k \in Kinds |-> FALSE]
    /\ UNCHANGED <<userId, step, queue, stored, images, profile, header, reading, loading,
                   by, last, crossed, overlaps, early>>

\* ProfileViewController.viewWillAppear.
Appear ==
    /\ reading' = TRUE
    /\ UNCHANGED <<userId, step, queue, picker, here, header, loading, stored, images, profile, history>>

\* A plausible bug: the picture is loaded only where none is shown.
RefreshKeepsHeader ==
    /\ reading
    /\ \A k \in Kinds : Seen(userId, k) # None => loading[k][Seen(userId, k)] < MaxLoads
    /\ loading' = [k \in Kinds |-> [n \in Names |->
                     IF n = Seen(userId, k) /\ header[k] = None
                     THEN loading[k][n] + 1 ELSE loading[k][n]]]
    /\ early' = [k \in Kinds |-> UnderWay(k) # {} \/ Seen(userId, k) = None
                                \/ \E n \in Names : n # Seen(userId, k) /\ loading[k][n] # 0]
    /\ reading' = FALSE
    /\ UNCHANGED <<userId, step, queue, picker, here, header, stored, images, profile,
                   by, last, crossed, overlaps, unsent>>

\* The callback of refreshProfile: loadImage(from:) for each picture the document
\* just read has.  The header may yet part from the profile if an upload is under
\* way, or the load of another picture, which is not cancelled.
Refresh ==
    /\ reading
    /\ \A k \in Kinds : Seen(userId, k) # None => loading[k][Seen(userId, k)] < MaxLoads
    /\ loading' = [k \in Kinds |-> [n \in Names |->
                     IF n = Seen(userId, k) THEN loading[k][n] + 1 ELSE loading[k][n]]]
    /\ early' = [k \in Kinds |-> UnderWay(k) # {} \/ Seen(userId, k) = None
                                \/ \E n \in Names : n # Seen(userId, k) /\ loading[k][n] # 0]
    /\ reading' = FALSE
    /\ UNCHANGED <<userId, step, queue, picker, here, header, stored, images, profile,
                   by, last, crossed, overlaps, unsent>>

Loaded(k, n) == [loading EXCEPT ![k][n] = @ - 1]

\* UIImageLoader sets the picture of a load, in whatever order they are answered.
ShowHeader(k, n) ==
    /\ loading[k][n] # 0
    /\ header' = [header EXCEPT ![k] = n]
    /\ loading' = Loaded(k, n)
    /\ UNCHANGED <<userId, step, queue, picker, here, reading, stored, images, profile, history>>

\* It prints the error, or leaves data that is no picture.
LoadFails(k, n) ==
    /\ "loadFails" \in Faults
    /\ loading[k][n] # 0
    /\ loading' = Loaded(k, n)
    /\ early' = [early EXCEPT ![k] = TRUE]
    /\ UNCHANGED <<userId, step, queue, picker, here, header, reading, stored, images, profile,
                   by, last, crossed, overlaps, unsent>>

RefreshFails ==
    /\ "readFails" \in Faults
    /\ reading
    /\ reading' = FALSE
    /\ UNCHANGED <<userId, step, queue, picker, here, header, loading, stored, images, profile, history>>

-----------------------------------------------------------------------------
(* The chain.                                                              *)

\* The callback of putData.
PutDone(k, n) ==
    /\ step[k][n] = "put"
    /\ stored' = [stored EXCEPT ![k] = @ \cup {n}]
    /\ step' = Moved(k, n, "url")
    /\ UNCHANGED <<userId, queue, page, images, profile, history>>

\* A plausible bug: the profile gets the address before it is in "images".
UrlDoneUpdatesProfile(k, n) ==
    /\ step[k][n] = "url"
    /\ step' = Moved(k, n, "document")
    /\ profile' = [profile EXCEPT ![userId][k] = n]
    /\ UNCHANGED <<userId, queue, page, stored, images, history>>

\* The callback of downloadURL adds the document.
UrlDone(k, n) ==
    /\ step[k][n] = "url"
    /\ step' = Moved(k, n, "document")
    /\ UNCHANGED <<userId, queue, page, stored, images, profile, history>>

\* The server commits it.
CommitDocument(k, n) ==
    /\ step[k][n] = "document"
    /\ images' = [images EXCEPT ![k] = @ \cup {n}]
    /\ step' = Moved(k, n, "written")
    /\ UNCHANGED <<userId, queue, page, stored, profile, history>>

\* A plausible bug: the picker is blanked, whichever page the upload came from.
FinishClearsAny(k, n) ==
    /\ step[k][n] = "written"
    /\ step' = Moved(k, n, "updating")
    /\ picker' = [picker EXCEPT ![k] = "blank"]
    /\ queue' = [queue EXCEPT ![userId][k] = Append(@, n)]
    /\ UNCHANGED <<userId, here, header, reading, loading, stored, images, profile, history>>

\* A plausible bug: the profile is not updated.
FinishForgetsProfile(k, n) ==
    /\ step[k][n] = "written"
    /\ step' = Moved(k, n, "done")
    /\ picker' = [picker EXCEPT ![k] = IF n \in here[k] THEN "blank" ELSE @]
    /\ UNCHANGED <<userId, queue, here, header, reading, loading, stored, images, profile, history>>

\* Its callback: the picker is blanked, and an update of the profile of whoever
\* is signed in now is given to Firestore.
Finish(k, n) ==
    /\ step[k][n] = "written"
    /\ step' = Moved(k, n, "updating")
    /\ picker' = [picker EXCEPT ![k] = IF n \in here[k] THEN "blank" ELSE @]
    /\ queue' = [queue EXCEPT ![userId][k] = Append(@, n)]
    /\ UNCHANGED <<userId, here, header, reading, loading, stored, images, profile, history>>

\* The server commits the first update of the account signed in; those of others
\* wait.  (Sent again after a broken stream, updates arrive in the same order.)
Update(k) ==
    /\ queue[userId][k] # <<>>
    /\ profile' = [profile EXCEPT ![userId][k] = Head(queue[userId][k])]
    /\ queue' = [queue EXCEPT ![userId][k] = Tail(@)]
    /\ step' = Moved(k, Head(queue[userId][k]), "done")
    /\ UNCHANGED <<userId, page, stored, images, history>>

\* Or it refuses it, which is printed.
Refuse(k) ==
    /\ "stepFails" \in Faults
    /\ queue[userId][k] # <<>>
    /\ queue' = [queue EXCEPT ![userId][k] = Tail(@)]
    /\ step' = Moved(k, Head(queue[userId][k]), "failed")
    /\ UNCHANGED <<userId, page, stored, images, profile, history>>

\* An error ends the chain before: printed, or for the document an alert.
Fail(k, n) ==
    /\ "stepFails" \in Faults
    /\ step[k][n] \in {"put", "url", "document"}
    /\ step' = Moved(k, n, "failed")
    /\ UNCHANGED <<userId, queue, page, stored, images, profile, history>>

-----------------------------------------------------------------------------
(* Change of account, and of process.                                      *)

NewPage ==
    /\ picker' = [k \in Kinds |-> "none"]
    /\ here' = [k \in Kinds |-> {}]
    /\ header' = [k \in Kinds |-> None]
    /\ reading' = FALSE
    /\ loading' = NoLoads
    /\ early' = [k \in Kinds |-> TRUE]
    /\ unsent' = [k \in Kinds |-> FALSE]

\* Logout and login of another: uploads go on, updates are on disk and wait.
SignIn(u) ==
    /\ u # userId
    /\ userId' = u
    /\ NewPage
    /\ crossed' = [k \in Kinds |-> crossed[k] \cup InChain(k)]
    /\ UNCHANGED <<step, queue, stored, images, profile, by, last, overlaps>>

\* The user's updates behind the first i.
Unsaved(k, i) == {queue[userId][k][j] : j \in (i + 1)..Len(queue[userId][k])}

\* The app is killed, and started by the same user.  Data may have arrived
\* that was not answered, and a document waiting on disk is sent later.  Updates
\* are saved in their order; those not saved are lost.
Crash ==
    /\ "crash" \in Faults
    /\ \E late \in SUBSET {p \in Kinds \X Names : step[p[1]][p[2]] \in {"put", "document"}} :
          /\ stored' = [k \in Kinds |-> stored[k] \cup
                          {n \in Names : <<k, n>> \in late /\ step[k][n] = "put"}]
          /\ images' = [k \in Kinds |-> images[k] \cup
                          {n \in Names : <<k, n>> \in late /\ step[k][n] = "document"}]
    /\ \E saved \in [Kinds -> 0..MaxUploads] :
          /\ \A k \in Kinds : saved[k] <= Len(queue[userId][k])
          /\ queue' = [queue EXCEPT ![userId] =
                         [k \in Kinds |-> SubSeq(queue[userId][k], 1, saved[k])]]
          /\ step' = [k \in Kinds |-> [n \in Names |->
                        IF n \in InChain(k) \cup Unsaved(k, saved[k]) THEN "failed" ELSE step[k][n]]]
    /\ NewPage
    /\ UNCHANGED <<userId, profile, by, last, crossed, overlaps>>

-----------------------------------------------------------------------------
Init ==
    /\ userId \in Users
    /\ picker = [k \in Kinds |-> "none"]
    /\ step = [k \in Kinds |-> [n \in Names |-> "unused"]]
    /\ queue = [u \in Users |-> [k \in Kinds |-> <<>>]]
    /\ here = [k \in Kinds |-> {}]
    /\ stored = [k \in Kinds |-> {}]
    /\ images = [k \in Kinds |-> {}]
    /\ profile = [u \in Users |-> [k \in Kinds |-> None]]
    /\ header = [k \in Kinds |-> None]
    /\ reading = FALSE
    /\ loading = NoLoads
    /\ by = [k \in Kinds |-> [n \in Names |-> None]]
    /\ last = profile
    /\ crossed = [k \in Kinds |-> {}]
    /\ overlaps = [k \in Kinds |-> {}]
    /\ early = [k \in Kinds |-> TRUE]
    /\ unsent = [k \in Kinds |-> FALSE]

Chain(k, n) ==
    PutDone(k, n) \/ UrlDone(k, n) \/ CommitDocument(k, n) \/ Finish(k, n) \/ Fail(k, n)
Settle(k) == Update(k) \/ Refuse(k)

Next ==
    \/ \E k \in Kinds : Pick(k)
    \/ Tap
    \/ Reopen
    \/ Appear
    \/ Refresh
    \/ RefreshFails
    \/ \E k \in Kinds, n \in Names : ShowHeader(k, n) \/ LoadFails(k, n) \/ Chain(k, n)
    \/ \E k \in Kinds : Settle(k)
    \/ \E u \in Users : SignIn(u)
    \/ Crash

\* Storage and Firestore answer, with a success or an error, every request of
\* a process that lives, and the main queue runs the callbacks.
Fairness ==
    \A k \in Kinds : WF_vars(Settle(k)) /\ \A n \in Names : WF_vars(Chain(k, n))

Spec == Init /\ [][Next]_vars /\ Fairness

-----------------------------------------------------------------------------
(* Properties.                                                             *)

\* Every variable has its shape.
TypeOK ==
    /\ userId \in Users
    /\ picker \in [Kinds -> {"none", "picture", "blank"}]
    /\ step \in [Kinds -> [Names -> Steps]]
    /\ queue \in [Users -> [Kinds -> Seq(Names)]]
    /\ here \in [Kinds -> SUBSET Names]
    /\ stored \in [Kinds -> SUBSET Names]
    /\ images \in [Kinds -> SUBSET Names]
    /\ profile \in [Users -> [Kinds -> Names \cup {None}]]
    /\ header \in [Kinds -> Names \cup {None}]
    /\ reading \in BOOLEAN
    /\ loading \in [Kinds -> [Names -> Nat]]
    /\ by \in [Kinds -> [Names -> Users \cup {None}]]
    /\ last \in [Users -> [Kinds -> Names \cup {None}]]
    /\ crossed \in [Kinds -> SUBSET Names]
    /\ overlaps \in [Kinds -> SUBSET Names]
    /\ early \in [Kinds -> BOOLEAN]
    /\ unsent \in [Kinds -> BOOLEAN]

\* A picture somebody's profile names is in Storage and its address in
\* "images", wherever a chain was cut.
ProfileHasPicture ==
    \A u \in Users, k \in Kinds :
        profile[u][k] # None => profile[u][k] \in stored[k] \cap images[k]

\* A profile shows a picture of its own user, unless an upload was under way
\* when the account changed.
PictureIsOwn ==
    \A u \in Users, k \in Kinds :
        LET n == profile[u][k]
        IN  n # None => by[k][n] = u \/ n \in crossed[k]

\* The latest upload, once its update was committed, is and stays the picture of
\* the profile, whatever is refused, lost or still waiting, unless another of its
\* user was under way with it or an upload crossed a change of account.
LatestWins ==
    \A u \in Users, k \in Kinds :
        LET n == last[u][k]
        IN  n # None /\ step[k][n] = "done" /\ n \notin overlaps[k] \cup crossed[k]
            => profile[u][k] = n \/ profile[u][k] \in crossed[k]

\* A tapped upload does come to the profile of its user, if nothing fails or is
\* lost in a crash, and the user stays signed in.
EventuallyOnProfile ==
    \A k \in Kinds, n \in Names :
        step[k][n] = "put" ~>
            profile[userId][k] = n \/ step[k][n] = "failed" \/ by[k][n] # userId

\* A picture that was chosen stays in its picker until it is tapped, if no
\* upload from this page was under way when it was chosen.
PickIsKept ==
    \A k \in Kinds : unsent[k] => picker[k] = "picture"

\* The profile page shows what the profile names, or is loading it, once it was
\* refreshed with no upload under way and no other picture still being loaded.
HeaderIsProfile ==
    \A k \in Kinds : ~early[k] =>
        LET n == profile[userId][k]
        IN  n # None /\ (header[k] = n \/ loading[k][n] # 0)
=============================================================================
