------------------------------ MODULE Session ------------------------------
(***************************************************************************)
(* Who is signed in: AuthManager.register, login and logout, and           *)
(* UsersManager.createUser and loadLoggedUser, on one phone.               *)
(*                                                                         *)
(* Three variables answer the question.  Firebase Auth's current user      *)
(* ("account", kept over restarts) picks the queue writes go to;           *)
(* AuthManager.userId is written into posts, likes and follows;            *)
(* UsersManager.loggedUser into comments.  They are set by three different *)
(* callbacks, and logout resets only the first.                            *)
(***************************************************************************)
EXTENDS Naturals, SequencesExt

CONSTANTS Users,     \* people who may sign up
          Nobody,    \* no account, an empty userId, a nil loggedUser
          Faults,    \* which of AllFaults may happen
          MaxPending \* bound of the model: requests, blocks and reads under way

AllFaults == {"crash", "readFails"}
Ask == [kind : {"login", "register"}, user : Users]
Block == [kind : {"login", "register", "segue"}, user : Users]
Read == [user : Users, segue : BOOLEAN]

ASSUME SessionAssumption ==
    /\ Nobody \notin Users
    /\ Faults \subseteq AllFaults
    /\ MaxPending \in Nat

VARIABLES
    accounts,    \* Auth service: who has signed up
    document,    \* document[u]: u's document in "users", as this phone reads it
    account,     \* Auth's current user on the phone
    userId,      \* AuthManager.userId
    loggedUser,  \* whose document UsersManager.loggedUser holds
    screen,      \* "welcome" (with log-in and sign-up) or "tabs"
    asks,        \* requests to Auth under way
    main,        \* blocks on the main queue: callbacks of Auth, and the segue
    reads,       \* reads of loadLoggedUser under way
    orphans,     \* history: accounts whose document a crash took
    crossed,     \* history: logged out with a sign-in still being completed
    mixed        \* history: loggedUser may be somebody else's

phone == <<userId, loggedUser, screen>>
history == <<orphans, crossed, mixed>>
vars == <<accounts, document, account, userId, loggedUser, screen, asks, main,
          reads, orphans, crossed, mixed>>

HasRoom == Len(asks) + Len(main) + Len(reads) < MaxPending

\* The document of somebody else is still being read.
ReadsOther(s, u) == \E i \in 1..Len(s) : s[i].user # u

\* u's callback runs with another sign-in not completed behind or before it.
Overlaps(u) == Len(main) > 1 \/ ReadsOther(reads, u)

-----------------------------------------------------------------------------
(* Signing in.                                                             *)

\* LoginViewController.loginButtonTapped, SignUpViewController.signUpTapped.
\* The button stays on the screen, so it can be tapped again.
TapSignIn(kind, u) ==
    /\ screen = "welcome"
    /\ HasRoom
    /\ asks' = Append(asks, [kind |-> kind, user |-> u])
    /\ UNCHANGED <<accounts, document, account, phone, main, reads, history>>

\* Auth grants a request, in any order: the current user changes now, the
\* callback waits on the main queue.
AuthGrants(i) ==
    LET a == asks[i]
    IN  /\ a.kind = "login" <=> a.user \in accounts
        /\ accounts' = accounts \cup {a.user}
        /\ account' = a.user
        /\ asks' = RemoveAt(asks, i)
        /\ main' = Append(main, a)
        /\ crossed' = FALSE
        /\ UNCHANGED <<document, phone, reads, orphans, mixed>>

\* A wrong password, a taken address, no network: an alert, nothing else.
AuthRefuses(i) ==
    /\ asks' = RemoveAt(asks, i)
    /\ UNCHANGED <<accounts, document, account, phone, main, reads, history>>

NextBlock(kind) == main # <<>> /\ Head(main).kind = kind

LoginSeguesAtOnce ==
    /\ NextBlock("login")
    /\ LET u == Head(main).user
       IN  /\ userId' = u
           /\ reads' = Append(reads, [user |-> u, segue |-> FALSE])
           /\ mixed' = (mixed \/ Overlaps(u)
                              \/ (screen = "tabs" /\ loggedUser \notin {Nobody, u}))
           /\ main' = Append(Tail(main), [kind |-> "segue", user |-> u])
    /\ UNCHANGED <<accounts, document, account, loggedUser, screen, asks, orphans, crossed>>

\* The callback of login: set userId, load the user, and go on when that is
\* done.
LoginCallback ==
    /\ NextBlock("login")
    /\ LET u == Head(main).user
       IN  /\ userId' = u
           /\ reads' = Append(reads, [user |-> u, segue |-> TRUE])
           /\ mixed' = (mixed \/ Overlaps(u)
                              \/ (screen = "tabs" /\ loggedUser \notin {Nobody, u}))
    /\ main' = Tail(main)
    /\ UNCHANGED <<accounts, document, account, loggedUser, screen, asks, orphans, crossed>>

RegisterKeepsUserId ==
    /\ NextBlock("register")
    /\ LET u == Head(main).user
       IN  /\ document' = [document EXCEPT ![u] = "queued"]
           /\ mixed' = (mixed \/ Overlaps(u) \/ loggedUser \notin {Nobody, u})
           /\ main' = Append(Tail(main), [kind |-> "segue", user |-> u])
    /\ UNCHANGED <<accounts, account, phone, asks, reads, orphans, crossed>>

RegisterWithoutDocument ==
    /\ NextBlock("register")
    /\ LET u == Head(main).user
       IN  /\ userId' = u
           /\ mixed' = (mixed \/ Overlaps(u) \/ loggedUser \notin {Nobody, u})
           /\ main' = Append(Tail(main), [kind |-> "segue", user |-> u])
    /\ UNCHANGED <<accounts, document, account, loggedUser, screen, asks, reads, orphans, crossed>>

\* The callback of register: set userId, write the user's document, go on.
\* Nothing loads loggedUser.
RegisterCallback ==
    /\ NextBlock("register")
    /\ LET u == Head(main).user
       IN  /\ userId' = u
           /\ document' = [document EXCEPT ![u] = "queued"]
           /\ mixed' = (mixed \/ Overlaps(u) \/ loggedUser \notin {Nobody, u})
           /\ main' = Append(Tail(main), [kind |-> "segue", user |-> u])
    /\ UNCHANGED <<accounts, account, loggedUser, screen, asks, reads, orphans, crossed>>

\* performSegue("signupToFeed").
Segue ==
    /\ NextBlock("segue")
    /\ screen' = "tabs"
    /\ main' = Tail(main)
    /\ UNCHANGED <<accounts, document, account, userId, loggedUser, asks, reads, history>>

\* The SDK's worker queue writes the new document to disk.
StoreDocument(u) ==
    /\ document[u] = "queued"
    /\ document' = [document EXCEPT ![u] = "stored"]
    /\ UNCHANGED <<accounts, account, phone, asks, main, reads, history>>

-----------------------------------------------------------------------------
(* loadLoggedUser and logout.                                              *)

ReloadAnywhere ==
    /\ HasRoom
    /\ reads' = Append(reads, [user |-> userId, segue |-> FALSE])
    /\ UNCHANGED <<accounts, document, account, phone, asks, main, history>>

\* Profile and Discover call loadLoggedUser whenever they appear, Connections
\* after every unfollow.
Reload ==
    /\ screen = "tabs"
    /\ HasRoom
    /\ reads' = Append(reads, [user |-> userId, segue |-> FALSE])
    /\ UNCHANGED <<accounts, document, account, phone, asks, main, history>>

\* A document arrives, in any order, and becomes loggedUser, whoever userId
\* is by now.  If no other sign-in is under way and nobody else's is
\* still being read, loggedUser is right from here on.
ReadAnswered(i) ==
    LET r == reads[i]
        rest == RemoveAt(reads, i)
    IN  /\ document[r.user] # "none"
        /\ loggedUser' = r.user
        /\ screen' = IF r.segue THEN "tabs" ELSE screen
        /\ reads' = rest
        /\ mixed' = (mixed /\ (r.user # userId \/ ReadsOther(rest, userId) \/ main # <<>>))
        /\ UNCHANGED <<accounts, document, account, userId, asks, main, orphans, crossed>>

\* No such document, or no network and none on disk: loadLoggedUser returns
\* without calling its completion, so a login stays where it is.
ReadUnanswered(i) ==
    /\ "readFails" \in Faults \/ document[reads[i].user] = "none"
    /\ reads' = RemoveAt(reads, i)
    /\ UNCHANGED <<accounts, document, account, phone, asks, main, history>>

\* AuthManager.logout and the segue to the welcome page: userId and loggedUser
\* keep their values.
Logout ==
    /\ screen = "tabs"
    /\ account' = Nobody
    /\ screen' = "welcome"
    /\ crossed' = (main # <<>> \/ \E i \in 1..Len(reads) : reads[i].segue)
    /\ UNCHANGED <<accounts, document, userId, loggedUser, asks, main, reads, orphans, mixed>>

\* The app is killed and started again.  A sign-up under way may still reach
\* the Auth service, a document on the worker queue is lost.
Crash ==
    /\ "crash" \in Faults
    /\ \E late \in SUBSET {asks[i].user : i \in {j \in 1..Len(asks) : asks[j].kind = "register"}} :
          /\ accounts' = accounts \cup late
          /\ orphans' = orphans \cup (late \ accounts)
                \cup {u \in accounts : document[u] = "queued"}
                \cup {main[i].user : i \in {j \in 1..Len(main) : main[j].kind = "register"}}
    /\ document' = [u \in Users |-> IF document[u] = "queued" THEN "none" ELSE document[u]]
    /\ userId' = Nobody
    /\ loggedUser' = Nobody
    /\ screen' = "welcome"
    /\ asks' = <<>>
    /\ main' = <<>>
    /\ reads' = <<>>
    /\ crossed' = FALSE
    /\ mixed' = FALSE
    /\ account' = account

-----------------------------------------------------------------------------
Init ==
    /\ accounts \in SUBSET Users
    /\ document = [u \in Users |-> IF u \in accounts THEN "stored" ELSE "none"]
    /\ account \in accounts \cup {Nobody}
    /\ userId = Nobody
    /\ loggedUser = Nobody
    /\ screen = "welcome"
    /\ asks = <<>>
    /\ main = <<>>
    /\ reads = <<>>
    /\ orphans = {}
    /\ crossed = FALSE
    /\ mixed = FALSE

Next ==
    \/ \E kind \in {"login", "register"}, u \in Users : TapSignIn(kind, u)
    \/ \E i \in 1..Len(asks) : AuthGrants(i) \/ AuthRefuses(i)
    \/ LoginCallback
    \/ RegisterCallback
    \/ Segue
    \/ \E u \in Users : StoreDocument(u)
    \/ Reload
    \/ \E i \in 1..Len(reads) : ReadAnswered(i) \/ ReadUnanswered(i)
    \/ Logout
    \/ Crash

Spec == Init /\ [][Next]_vars

-----------------------------------------------------------------------------
(* Properties.                                                             *)

\* Every variable has its shape.  In particular nothing ever reads the
\* document of an empty userId, which the SDK answers by stopping the app.
TypeOK ==
    /\ accounts \subseteq Users
    /\ document \in [Users -> {"none", "queued", "stored"}]
    /\ account \in Users \cup {Nobody}
    /\ userId \in Users \cup {Nobody}
    /\ loggedUser \in Users \cup {Nobody}
    /\ screen \in {"welcome", "tabs"}
    /\ asks \in Seq(Ask)
    /\ main \in Seq(Block)
    /\ reads \in Seq(Read)
    /\ orphans \subseteq Users
    /\ crossed \in BOOLEAN
    /\ mixed \in BOOLEAN

\* Inside the app, once Auth's callbacks have run, userId is the account Auth
\* has signed in, and so the one whose queue takes the writes that carry it:
\* however often the buttons were tapped and whichever request was granted
\* last.  Only a logout that crosses a sign-in being completed breaks it.
UserIdIsSignedIn ==
    screen = "tabs" /\ (\A i \in 1..Len(main) : main[i].kind = "segue") /\ ~crossed
    => userId = account

\* Inside the app, loggedUser, the author of comments, is userId's user or not
\* loaded, unless a sign-up followed another session or reads for two
\* accounts overlapped, and then only until userId's document has been read
\* with no other one under way.
LoggedUserIsUserId ==
    screen = "tabs" /\ ~mixed => loggedUser \in {Nobody, userId}

\* Signing up creates an account and, in a callback, its document: only a
\* crash leaves one without the other, which then can never log in.
AccountsHaveDocuments ==
    \A u \in accounts \ orphans :
        \/ document[u] # "none"
        \/ \E i \in 1..Len(main) : main[i] = [kind |-> "register", user |-> u]
=============================================================================
