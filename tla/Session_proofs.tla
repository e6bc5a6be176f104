--------------------------- MODULE Session_proofs ---------------------------
(***************************************************************************)
(* Theorems about Session, for every set of users and any number of        *)
(* requests, callbacks and reads under way: the three variables that say   *)
(* who is signed in agree.                                                 *)
(***************************************************************************)
EXTENDS Session, SequenceTheorems, TLAPS

-----------------------------------------------------------------------------
(* The inductive invariant, in parts.                                      *)

IsCallback(b) == b.kind # "segue"
Callbacks == {i \in 1..Len(main) : IsCallback(main[i])}

\* Something leads into the app, or has led.
Entering ==
    \/ screen = "tabs"
    \/ \E i \in 1..Len(main) : main[i].kind = "segue"
    \/ \E i \in 1..Len(reads) : reads[i].segue

\* Without a userId nobody is in the app, on the way into it, or read.
NobodyIsOut ==
    userId = Nobody => ~Entering /\ reads = <<>>

\* The last callback waiting is that of the account signed in.
LastIsSignedIn ==
    ~crossed => \A i \in Callbacks : (\A j \in Callbacks : j <= i) => main[i].user = account

\* With no callback waiting, whoever enters the app is signed in.
EnteringIsSignedIn ==
    ~crossed /\ Callbacks = {} /\ Entering => userId = account

\* The documents being read are of userId's user.
ReadsAreOwn ==
    ~mixed => \A i \in 1..Len(reads) : reads[i].user = userId

\* A sign-up leads into the app only if loggedUser is not somebody else's.
LoggedUserIsOwn ==
    ~mixed /\ (screen = "tabs" \/ \E i \in 1..Len(main) : main[i].kind = "segue")
        => loggedUser \in {Nobody, userId}

IInv ==
    /\ TypeOK
    /\ NobodyIsOut
    /\ LastIsSignedIn
    /\ EnteringIsSignedIn
    /\ ReadsAreOwn
    /\ LoggedUserIsOwn
    /\ AccountsHaveDocuments

-----------------------------------------------------------------------------
(* Sequences.                                                              *)

\* What is left when an element is taken out was there before.
LEMMA RemoveAtKeeps ==
    ASSUME NEW S, NEW s \in Seq(S), NEW i \in 1..Len(s)
    PROVE  /\ RemoveAt(s, i) \in Seq(S)
           /\ \A j \in 1..Len(RemoveAt(s, i)) : \E k \in 1..Len(s) : RemoveAt(s, i)[j] = s[k]
<1> DEFINE a == SubSeq(s, 1, i - 1)
           b == SubSeq(s, i + 1, Len(s))
<1>1. /\ a \in Seq(S) /\ Len(a) = i - 1 /\ \A j \in 1..(i - 1) : a[j] = s[j]
      /\ b \in Seq(S) /\ Len(b) = Len(s) - i /\ \A j \in 1..(Len(s) - i) : b[j] = s[i + j]
  OBVIOUS
<1>2. RemoveAt(s, i) = a \o b
  BY DEF RemoveAt
<1> HIDE DEF a, b
<1>3. /\ a \o b \in Seq(S) /\ Len(a \o b) = Len(s) - 1
      /\ \A j \in 1..(i - 1) : (a \o b)[j] = s[j]
      /\ \A j \in i..(Len(s) - 1) : (a \o b)[j] = s[j + 1]
  <2>1. /\ a \o b \in Seq(S) /\ Len(a \o b) = Len(a) + Len(b)
        /\ \A j \in 1..(Len(a) + Len(b)) : (a \o b)[j] = IF j <= Len(a) THEN a[j] ELSE b[j - Len(a)]
    BY <1>1, ConcatProperties
  <2>2. i \in Nat /\ Len(s) \in Nat /\ i >= 1 /\ i <= Len(s)
    OBVIOUS
  <2>3. ASSUME NEW j \in i..(Len(s) - 1)
        PROVE  (a \o b)[j] = s[j + 1]
    <3>1. j \in 1..(Len(a) + Len(b)) /\ ~(j <= Len(a))
      BY <1>1, <2>2
    <3>2. (a \o b)[j] = b[j - Len(a)]
      BY <2>1, <3>1
    <3>3. j - Len(a) \in 1..(Len(s) - i) /\ i + (j - Len(a)) = j + 1
      BY <1>1, <2>2
    <3>4. QED
      BY <1>1, <3>2, <3>3
  <2>4. ASSUME NEW j \in 1..(i - 1)
        PROVE  (a \o b)[j] = s[j]
    BY <1>1, <2>1, <2>2
  <2>5. QED
    BY <1>1, <2>1, <2>2, <2>3, <2>4
<1>4. QED
  BY <1>2, <1>3

\* A callback or a segue joins the main queue.
LEMMA BlockJoins ==
    ASSUME main \in Seq(Block), NEW b \in Block, main' = Append(main, b)
    PROVE  /\ main' \in Seq(Block)
           /\ Len(main) \in Nat /\ Len(main') = Len(main) + 1
           /\ \A i \in 1..Len(main) : main'[i] = main[i]
           /\ main'[Len(main) + 1] = b
OBVIOUS

\* The first block is run.
LEMMA BlockIsRun ==
    ASSUME main \in Seq(Block), main # <<>>, main' = Tail(main)
    PROVE  /\ main' \in Seq(Block)
           /\ Head(main) = main[1] /\ Head(main) \in Block
           /\ Len(main') \in Nat /\ Len(main) = Len(main') + 1
           /\ \A i \in 1..Len(main') : main'[i] = main[i + 1]
OBVIOUS

\* The first block is run and leaves another one.
LEMMA BlockIsFollowed ==
    ASSUME main \in Seq(Block), main # <<>>, NEW b \in Block, main' = Append(Tail(main), b)
    PROVE  /\ main' \in Seq(Block)
           /\ Head(main) = main[1] /\ Head(main) \in Block
           /\ Len(main) \in Nat \ {0} /\ Len(main') = Len(main)
           /\ \A i \in 1..(Len(main) - 1) : main'[i] = main[i + 1]
           /\ main'[Len(main)] = b
<1>1. /\ Tail(main) \in Seq(Block) /\ Len(Tail(main)) = Len(main) - 1
      /\ Head(main) = main[1] /\ Head(main) \in Block
      /\ Len(main) \in Nat \ {0}
      /\ \A i \in 1..(Len(main) - 1) : Tail(main)[i] = main[i + 1]
  OBVIOUS
<1>2. QED
  BY <1>1

-----------------------------------------------------------------------------
(* Steps.                                                                  *)

\* The initial state satisfies the inductive invariant.
LEMMA InitIInv ==
    Init => IInv
<1> SUFFICES ASSUME Init PROVE IInv
  OBVIOUS
<1>1. TypeOK
  <2>1. /\ accounts \subseteq Users /\ account \in Users \cup {Nobody}
        /\ document \in [Users -> {"none", "queued", "stored"}]
    BY DEF Init
  <2>2. asks \in Seq(Ask) /\ main \in Seq(Block) /\ reads \in Seq(Read)
    BY DEF Init
  <2>3. QED
    BY <2>1, <2>2 DEF Init, TypeOK
<1>2. NobodyIsOut /\ LastIsSignedIn /\ EnteringIsSignedIn
  BY DEF Init, NobodyIsOut, LastIsSignedIn, EnteringIsSignedIn, Entering, Callbacks
<1>3. ReadsAreOwn /\ LoggedUserIsOwn /\ AccountsHaveDocuments
  BY DEF Init, ReadsAreOwn, LoggedUserIsOwn, AccountsHaveDocuments
<1>4. QED
  BY <1>1, <1>2, <1>3 DEF IInv

\* Asking Auth, being refused, and writing the document to disk.
LEMMA QuietSteps ==
    ASSUME IInv,
           \/ \E kind \in {"login", "register"}, u \in Users : TapSignIn(kind, u)
           \/ \E i \in 1..Len(asks) : AuthRefuses(i)
           \/ \E u \in Users : StoreDocument(u)
    PROVE  IInv'
<1>1. /\ UNCHANGED <<accounts, account, userId, loggedUser, screen, main, reads,
                     orphans, crossed, mixed>>
      /\ asks' \in Seq(Ask)
      /\ document' \in [Users -> {"none", "queued", "stored"}]
      /\ \A u \in Users : document[u] # "none" => document'[u] # "none"
  <2>1. asks \in Seq(Ask) /\ document \in [Users -> {"none", "queued", "stored"}]
    BY DEF IInv, TypeOK
  <2>2. ASSUME NEW kind \in {"login", "register"}, NEW u \in Users, TapSignIn(kind, u)
        PROVE  <1>1!1 /\ asks' \in Seq(Ask) /\ document' = document
    BY <2>1, <2>2 DEF TapSignIn, Ask, phone, history
  <2>3. ASSUME NEW i \in 1..Len(asks), AuthRefuses(i)
        PROVE  <1>1!1 /\ asks' \in Seq(Ask) /\ document' = document
    BY <2>1, <2>3, RemoveAtKeeps DEF AuthRefuses, phone, history
  <2>4. ASSUME NEW u \in Users, StoreDocument(u)
        PROVE  <1>1!1 /\ asks' = asks /\ document' = [document EXCEPT ![u] = "stored"]
    BY <2>4 DEF StoreDocument, phone, history
  <2>5. QED
    BY <2>1, <2>2, <2>3, <2>4
<1>2. TypeOK'
  BY <1>1 DEF IInv, TypeOK
<1>3. NobodyIsOut' /\ LastIsSignedIn' /\ EnteringIsSignedIn'
  BY <1>1 DEF IInv, NobodyIsOut, LastIsSignedIn, EnteringIsSignedIn, Entering, Callbacks
<1>4. ReadsAreOwn' /\ LoggedUserIsOwn'
  BY <1>1 DEF IInv, ReadsAreOwn, LoggedUserIsOwn
<1>5. AccountsHaveDocuments'
  BY <1>1 DEF IInv, TypeOK, AccountsHaveDocuments
<1>6. QED
  BY <1>2, <1>3, <1>4, <1>5 DEF IInv

\* Auth grants a request: its callback is the last one waiting.
LEMMA GrantStep ==
    ASSUME IInv, NEW g \in 1..Len(asks), AuthGrants(g)
    PROVE  IInv'
<1> DEFINE a == asks[g]
<1>1. /\ UNCHANGED <<document, userId, loggedUser, screen, reads, orphans, mixed>>
      /\ accounts' = accounts \cup {a.user} /\ account' = a.user /\ crossed' = FALSE
      /\ main' = Append(main, a) /\ (a.kind = "login" <=> a.user \in accounts)
  BY DEF AuthGrants, phone
<1>2. a \in Ask /\ a \in Block /\ a.kind \in {"login", "register"} /\ a.user \in Users
      /\ asks' \in Seq(Ask)
  <2>1. asks \in Seq(Ask)
    BY DEF IInv, TypeOK
  <2>2. asks' \in Seq(Ask)
    BY <2>1, RemoveAtKeeps DEF AuthGrants
  <2>3. QED
    <3>1. a \in Ask
      BY <2>1
    <3>2. QED
      BY <2>2, <3>1 DEF Ask, Block
<1> HIDE DEF a
<1>3. /\ main' \in Seq(Block)
      /\ Len(main) \in Nat /\ Len(main') = Len(main) + 1
      /\ \A i \in 1..Len(main) : main'[i] = main[i]
      /\ main'[Len(main) + 1] = a
  BY <1>1, <1>2, BlockJoins DEF IInv, TypeOK
<1>4. TypeOK'
  BY <1>1, <1>2, <1>3 DEF IInv, TypeOK
<1>5. Callbacks' = Callbacks \cup {Len(main) + 1}
  BY <1>2, <1>3 DEF Callbacks, IsCallback
<1>6. Entering' <=> Entering
  <2>1. (\E i \in 1..Len(main') : main'[i].kind = "segue") <=> \E i \in 1..Len(main) : main[i].kind = "segue"
    BY <1>2, <1>3
  <2>2. QED
    BY <1>1, <2>1 DEF Entering
<1>7. NobodyIsOut'
  BY <1>1, <1>6 DEF IInv, NobodyIsOut
<1>8. LastIsSignedIn'
  BY <1>1, <1>3, <1>5 DEF LastIsSignedIn, Callbacks
<1>9. EnteringIsSignedIn'
  BY <1>5 DEF EnteringIsSignedIn
<1>10. ReadsAreOwn' /\ LoggedUserIsOwn'
  <2>1. (\E i \in 1..Len(main') : main'[i].kind = "segue") <=> \E i \in 1..Len(main) : main[i].kind = "segue"
    BY <1>2, <1>3
  <2>2. QED
    BY <1>1, <2>1 DEF IInv, ReadsAreOwn, LoggedUserIsOwn
<1>11. AccountsHaveDocuments'
  <2> SUFFICES ASSUME NEW u \in accounts' \ orphans'
               PROVE  \/ document'[u] # "none"
                      \/ \E i \in 1..Len(main') : main'[i] = [kind |-> "register", user |-> u]
    BY DEF AccountsHaveDocuments
  <2>1. CASE u \in accounts
    BY <1>1, <1>3, <2>1 DEF IInv, AccountsHaveDocuments
  <2>2. CASE u \notin accounts
    <3>1. a = [kind |-> "register", user |-> u]
      BY <1>1, <1>2, <2>2 DEF Ask
    <3>2. QED
      BY <1>3, <3>1
  <2>3. QED
    BY <2>1, <2>2
<1>12. QED
  BY <1>4, <1>7, <1>8, <1>9, <1>10, <1>11 DEF IInv

\* What the callbacks waiting say after the first block is run.
LEMMA RunCallbacks ==
    ASSUME IInv, main # <<>>, main' \in Seq(Block), NEW m \in Nat, Len(main) = m + 1,
           \A i \in 1..m : main'[i] = main[i + 1],
           Len(main') = m \/ (Len(main') = m + 1 /\ main'[m + 1].kind = "segue"),
           UNCHANGED <<account, crossed>>
    PROVE  /\ LastIsSignedIn'
           /\ ~crossed /\ IsCallback(main[1]) /\ Callbacks' = {} => main[1].user = account
           /\ ~IsCallback(main[1]) /\ Callbacks' = {} => Callbacks = {}
<1>1. \A i \in Callbacks' : i \in 1..m /\ i + 1 \in Callbacks
  BY DEF Callbacks, IsCallback
<1>2. \A i \in Callbacks : i # 1 => i - 1 \in Callbacks'
  <2> SUFFICES ASSUME NEW i \in Callbacks, i # 1 PROVE i - 1 \in Callbacks'
    OBVIOUS
  <2>1. i \in 1..(m + 1) /\ IsCallback(main[i])
    BY DEF Callbacks
  <2>2. i - 1 \in 1..m /\ i - 1 \in 1..Len(main') /\ main'[i - 1] = main[i]
    BY <2>1
  <2>3. QED
    BY <2>1, <2>2 DEF Callbacks, IsCallback
<1>3. \A i \in Callbacks : i \in Nat
  BY DEF Callbacks
<1>4. LastIsSignedIn'
  <2> SUFFICES ASSUME ~crossed, NEW i \in Callbacks', \A j \in Callbacks' : j <= i
               PROVE  main'[i].user = account
    BY DEF LastIsSignedIn
  <2>1. \A j \in Callbacks : j <= i + 1
    BY <1>1, <1>2, <1>3
  <2>2. QED
    BY <1>1, <2>1 DEF IInv, LastIsSignedIn
<1>5. ASSUME ~crossed, IsCallback(main[1]), Callbacks' = {}
      PROVE  main[1].user = account
  <2>1. Callbacks = {1}
    BY <1>2, <1>5 DEF Callbacks
  <2>2. QED
    BY <1>5, <2>1 DEF IInv, LastIsSignedIn
<1>6. ASSUME ~IsCallback(main[1]), Callbacks' = {}
      PROVE  Callbacks = {}
  BY <1>2, <1>6 DEF Callbacks
<1>7. QED
  BY <1>4, <1>5, <1>6

\* The callback of login.
LEMMA LoginStep ==
    ASSUME IInv, LoginCallback
    PROVE  IInv'
<1> DEFINE u == Head(main).user
<1>1. /\ UNCHANGED <<accounts, document, account, loggedUser, screen, asks, orphans, crossed>>
      /\ main # <<>> /\ Head(main).kind = "login" /\ main' = Tail(main)
      /\ userId' = u /\ reads' = Append(reads, [user |-> u, segue |-> TRUE])
  BY DEF LoginCallback, NextBlock
<1>2. /\ main' \in Seq(Block) /\ u = main[1].user /\ main[1].kind = "login" /\ u \in Users
      /\ Len(main') \in Nat /\ Len(main) = Len(main') + 1
      /\ \A i \in 1..Len(main') : main'[i] = main[i + 1]
  BY <1>1, BlockIsRun DEF IInv, TypeOK, Block
<1>3. /\ reads' \in Seq(Read) /\ Len(reads) \in Nat /\ Len(reads') = Len(reads) + 1
      /\ \A i \in 1..Len(reads) : reads'[i] = reads[i]
      /\ reads'[Len(reads) + 1] = [user |-> u, segue |-> TRUE]
      /\ reads' # <<>>
  BY <1>1, <1>2 DEF IInv, TypeOK, Read
<1>4. /\ mixed' \in BOOLEAN
      /\ ~mixed' => /\ ~mixed /\ ~(Len(main) > 1) /\ ~ReadsOther(reads, u)
                    /\ ~(screen = "tabs" /\ loggedUser \notin {Nobody, u})
  BY Zenon DEF LoginCallback, Overlaps
<1> HIDE DEF u
<1>5. TypeOK'
  BY <1>1, <1>2, <1>3, <1>4 DEF IInv, TypeOK
<1>6. NobodyIsOut'
  BY <1>1, <1>2, SessionAssumption DEF NobodyIsOut
<1>7. /\ LastIsSignedIn'
      /\ ~crossed /\ IsCallback(main[1]) /\ Callbacks' = {} => main[1].user = account
  BY <1>1, <1>2, RunCallbacks
<1>8. EnteringIsSignedIn'
  BY <1>1, <1>2, <1>7 DEF EnteringIsSignedIn, IsCallback
<1>9. ReadsAreOwn'
  BY <1>1, <1>3, <1>4 DEF ReadsAreOwn, ReadsOther
<1>10. LoggedUserIsOwn'
  <2> SUFFICES ASSUME ~mixed', screen = "tabs" \/ \E i \in 1..Len(main') : main'[i].kind = "segue"
               PROVE  loggedUser \in {Nobody, u}
    BY <1>1 DEF LoggedUserIsOwn
  <2>1. Len(main') = 0
    BY <1>2, <1>4
  <2>2. QED
    BY <1>4, <2>1
<1>11. AccountsHaveDocuments'
  <2> SUFFICES ASSUME NEW v \in accounts \ orphans, document[v] = "none"
               PROVE  \E i \in 1..Len(main') : main'[i] = [kind |-> "register", user |-> v]
    BY <1>1 DEF AccountsHaveDocuments
  <2>1. PICK i \in 1..Len(main) : main[i] = [kind |-> "register", user |-> v]
    BY DEF IInv, AccountsHaveDocuments
  <2>2. i - 1 \in 1..Len(main') /\ main'[i - 1] = main[i]
    BY <1>2, <2>1
  <2>3. QED
    BY <2>1, <2>2
<1>12. QED
  BY <1>5, <1>6, <1>7, <1>8, <1>9, <1>10, <1>11 DEF IInv

\* The callback of register.
LEMMA RegisterStep ==
    ASSUME IInv, RegisterCallback
    PROVE  IInv'
<1> DEFINE u == Head(main).user
           m == Len(main) - 1
<1>1. /\ UNCHANGED <<accounts, account, loggedUser, screen, asks, reads, orphans, crossed>>
      /\ main # <<>> /\ Head(main).kind = "register"
      /\ main' = Append(Tail(main), [kind |-> "segue", user |-> u])
      /\ userId' = u /\ document' = [document EXCEPT ![u] = "queued"]
  BY DEF RegisterCallback, NextBlock
<1>2. u \in Users /\ [kind |-> "segue", user |-> u] \in Block
  <2>1. Head(main) \in Block
    BY <1>1 DEF IInv, TypeOK
  <2>2. QED
    BY <2>1 DEF Block
<1>3. /\ main' \in Seq(Block) /\ u = main[1].user /\ main[1].kind = "register"
      /\ m \in Nat /\ Len(main) = m + 1 /\ Len(main') = m + 1
      /\ \A i \in 1..m : main'[i] = main[i + 1]
      /\ main'[m + 1] = [kind |-> "segue", user |-> u]
  BY <1>1, <1>2, BlockIsFollowed DEF IInv, TypeOK
<1>4. /\ mixed' \in BOOLEAN
      /\ ~mixed' => /\ ~mixed /\ ~(Len(main) > 1) /\ ~ReadsOther(reads, u)
                    /\ loggedUser \in {Nobody, u}
  BY Zenon DEF RegisterCallback, Overlaps
<1> HIDE DEF u, m
<1>5. TypeOK'
  BY <1>1, <1>2, <1>3, <1>4 DEF IInv, TypeOK
<1>6. NobodyIsOut'
  BY <1>1, <1>2, SessionAssumption DEF NobodyIsOut
<1>7. /\ LastIsSignedIn'
      /\ ~crossed /\ IsCallback(main[1]) /\ Callbacks' = {} => main[1].user = account
  BY <1>1, <1>3, RunCallbacks
<1>8. EnteringIsSignedIn'
  BY <1>1, <1>3, <1>7 DEF EnteringIsSignedIn, IsCallback
<1>9. ReadsAreOwn'
  BY <1>1, <1>4 DEF ReadsAreOwn, ReadsOther
<1>10. LoggedUserIsOwn'
  BY <1>1, <1>4 DEF LoggedUserIsOwn
<1>11. AccountsHaveDocuments'
  <2> SUFFICES ASSUME NEW v \in accounts \ orphans, document'[v] = "none"
               PROVE  \E i \in 1..Len(main') : main'[i] = [kind |-> "register", user |-> v]
    BY <1>1 DEF AccountsHaveDocuments
  <2>1. v # u /\ document[v] = "none"
    BY <1>1, <1>2 DEF IInv, TypeOK
  <2>2. PICK i \in 1..Len(main) : main[i] = [kind |-> "register", user |-> v]
    BY <2>1 DEF IInv, AccountsHaveDocuments
  <2>3. i # 1
    BY <1>3, <2>1, <2>2
  <2>4. i - 1 \in 1..m /\ main'[i - 1] = main[i]
    BY <1>3, <2>2, <2>3
  <2>5. i - 1 \in 1..Len(main')
    BY <1>3, <2>4
  <2>6. QED
    BY <2>2, <2>4, <2>5
<1>12. QED
  BY <1>5, <1>6, <1>7, <1>8, <1>9, <1>10, <1>11 DEF IInv

\* The segue into the app.
LEMMA SegueStep ==
    ASSUME IInv, Segue
    PROVE  IInv'
<1>1. /\ UNCHANGED <<accounts, document, account, userId, loggedUser, asks, reads,
                     orphans, crossed, mixed>>
      /\ main # <<>> /\ Head(main).kind = "segue" /\ main' = Tail(main) /\ screen' = "tabs"
  BY DEF Segue, NextBlock, history
<1>2. /\ main' \in Seq(Block) /\ main[1].kind = "segue"
      /\ Len(main') \in Nat /\ Len(main) = Len(main') + 1
      /\ \A i \in 1..Len(main') : main'[i] = main[i + 1]
  BY <1>1, BlockIsRun DEF IInv, TypeOK
<1>3. Entering /\ \E i \in 1..Len(main) : main[i].kind = "segue"
  BY <1>2 DEF Entering
<1>4. TypeOK'
  BY <1>1, <1>2 DEF IInv, TypeOK
<1>5. NobodyIsOut'
  BY <1>1, <1>3 DEF IInv, NobodyIsOut
<1>6. LastIsSignedIn' /\ (Callbacks' = {} => Callbacks = {})
  BY <1>1, <1>2, RunCallbacks DEF IsCallback
<1>7. EnteringIsSignedIn'
  BY <1>1, <1>3, <1>6 DEF IInv, EnteringIsSignedIn
<1>8. ReadsAreOwn' /\ LoggedUserIsOwn'
  BY <1>1, <1>3 DEF IInv, ReadsAreOwn, LoggedUserIsOwn
<1>9. AccountsHaveDocuments'
  <2> SUFFICES ASSUME NEW v \in accounts \ orphans, document[v] = "none"
               PROVE  \E i \in 1..Len(main') : main'[i] = [kind |-> "register", user |-> v]
    BY <1>1 DEF AccountsHaveDocuments
  <2>1. PICK i \in 1..Len(main) : main[i] = [kind |-> "register", user |-> v]
    BY DEF IInv, AccountsHaveDocuments
  <2>2. i - 1 \in 1..Len(main') /\ main'[i - 1] = main[i]
    BY <1>2, <2>1
  <2>3. QED
    BY <2>1, <2>2
<1>10. QED
  BY <1>4, <1>5, <1>6, <1>7, <1>8, <1>9 DEF IInv

\* loadLoggedUser reads the document of userId, which inside the app there is.
LEMMA ReloadStep ==
    ASSUME IInv, Reload
    PROVE  IInv'
<1>1. /\ UNCHANGED <<accounts, document, account, userId, loggedUser, screen, asks, main,
                     orphans, crossed, mixed>>
      /\ screen = "tabs" /\ reads' = Append(reads, [user |-> userId, segue |-> FALSE])
  BY DEF Reload, phone, history
<1>2. Entering /\ userId \in Users
  BY <1>1 DEF IInv, TypeOK, Entering, NobodyIsOut
<1>3. /\ reads' \in Seq(Read) /\ Len(reads) \in Nat /\ Len(reads') = Len(reads) + 1
      /\ \A i \in 1..Len(reads) : reads'[i] = reads[i]
      /\ reads'[Len(reads) + 1] = [user |-> userId, segue |-> FALSE]
  BY <1>1, <1>2 DEF IInv, TypeOK, Read
<1>4. TypeOK'
  BY <1>1, <1>3 DEF IInv, TypeOK
<1>5. NobodyIsOut' /\ LastIsSignedIn' /\ EnteringIsSignedIn'
  BY <1>1, <1>2, SessionAssumption
     DEF IInv, NobodyIsOut, LastIsSignedIn, EnteringIsSignedIn, Callbacks
<1>6. ReadsAreOwn'
  BY <1>1, <1>3 DEF IInv, ReadsAreOwn
<1>7. LoggedUserIsOwn' /\ AccountsHaveDocuments'
  BY <1>1 DEF IInv, LoggedUserIsOwn, AccountsHaveDocuments
<1>8. QED
  BY <1>4, <1>5, <1>6, <1>7 DEF IInv

\* A read is answered, or not.
LEMMA ReadSteps ==
    ASSUME IInv, NEW i \in 1..Len(reads), ReadAnswered(i) \/ ReadUnanswered(i)
    PROVE  IInv'
<1> DEFINE r == reads[i]
<1>1. /\ UNCHANGED <<accounts, document, account, userId, asks, main, orphans, crossed>>
      /\ reads' = RemoveAt(reads, i)
      /\ \/ loggedUser' = r.user /\ screen' = IF r.segue THEN "tabs" ELSE screen
         \/ UNCHANGED <<loggedUser, screen, mixed>>
  BY DEF ReadAnswered, ReadUnanswered, phone, history
<1>2. /\ reads \in Seq(Read) /\ r \in Read /\ r.user \in Users
      /\ reads' \in Seq(Read)
      /\ \A j \in 1..Len(reads') : \E k \in 1..Len(reads) : reads'[j] = reads[k]
      /\ reads # <<>>
  <2>1. reads \in Seq(Read) /\ r \in Read
    BY DEF IInv, TypeOK
  <2>2. reads # <<>>
    BY <2>1
  <2>3. QED
    BY <1>1, <2>1, <2>2, RemoveAtKeeps DEF Read
<1>3. \/ UNCHANGED <<loggedUser, screen, mixed>>
      \/ /\ loggedUser' = r.user /\ mixed' \in BOOLEAN
         /\ ~mixed' => ~mixed \/ /\ r.user = userId
                                 /\ ~ReadsOther(RemoveAt(reads, i), userId) /\ main = <<>>
  <2>1. CASE ReadAnswered(i)
    <3>1. mixed' = (mixed /\ (r.user # userId \/ ReadsOther(RemoveAt(reads, i), userId) \/ main # <<>>))
      BY <2>1 DEF ReadAnswered
    <3>2. QED
      BY <2>1, <3>1, Zenon DEF ReadAnswered
  <2>2. CASE ReadUnanswered(i)
    BY <2>2 DEF ReadUnanswered, phone, history
  <2>3. QED
    BY <2>1, <2>2
<1>4. Entering' => Entering
  BY <1>1, <1>2 DEF Entering
<1> HIDE DEF r
<1>5. TypeOK'
  BY <1>1, <1>2, <1>3 DEF IInv, TypeOK
<1>6. NobodyIsOut' /\ LastIsSignedIn' /\ EnteringIsSignedIn'
  BY <1>1, <1>2, <1>4 DEF IInv, NobodyIsOut, LastIsSignedIn, EnteringIsSignedIn, Callbacks
<1>7. ReadsAreOwn'
  BY <1>1, <1>2, <1>3 DEF IInv, ReadsAreOwn, ReadsOther
<1>8. LoggedUserIsOwn'
  <2>1. ~mixed => r.user = userId
    BY DEF IInv, ReadsAreOwn, r
  <2>2. QED
    BY <1>1, <1>3, <2>1 DEF IInv, LoggedUserIsOwn
<1>9. AccountsHaveDocuments'
  BY <1>1 DEF IInv, AccountsHaveDocuments
<1>10. QED
  BY <1>5, <1>6, <1>7, <1>8, <1>9 DEF IInv

\* A logout leaves nobody on the way into the app, unless it crosses a sign-in.
LEMMA LogoutStep ==
    ASSUME IInv, Logout
    PROVE  IInv'
<1>1. /\ UNCHANGED <<accounts, document, userId, loggedUser, asks, main, reads, orphans, mixed>>
      /\ screen = "tabs" /\ account' = Nobody /\ screen' = "welcome"
      /\ crossed' = (main # <<>> \/ \E i \in 1..Len(reads) : reads[i].segue)
  BY DEF Logout
<1>2. /\ crossed' \in BOOLEAN
      /\ ~crossed' => main = <<>> /\ \A i \in 1..Len(reads) : ~reads[i].segue
  BY <1>1, Zenon
<1>3. Entering
  BY <1>1 DEF Entering
<1>4. TypeOK'
  BY <1>1, <1>2 DEF IInv, TypeOK
<1>5. NobodyIsOut'
  BY <1>1, <1>3 DEF IInv, NobodyIsOut
<1>6. LastIsSignedIn' /\ EnteringIsSignedIn'
  BY <1>1, <1>2 DEF LastIsSignedIn, EnteringIsSignedIn, Callbacks, Entering
<1>7. ReadsAreOwn' /\ LoggedUserIsOwn'
  BY <1>1 DEF IInv, ReadsAreOwn, LoggedUserIsOwn
<1>8. AccountsHaveDocuments'
  BY <1>1 DEF IInv, AccountsHaveDocuments
<1>9. QED
  BY <1>4, <1>5, <1>6, <1>7, <1>8 DEF IInv

\* The app is killed.
LEMMA CrashStep ==
    ASSUME IInv, Crash
    PROVE  IInv'
<1>1. /\ account' = account /\ userId' = Nobody /\ loggedUser' = Nobody /\ screen' = "welcome"
      /\ asks' = <<>> /\ main' = <<>> /\ reads' = <<>> /\ crossed' = FALSE /\ mixed' = FALSE
      /\ document' = [u \in Users |-> IF document[u] = "queued" THEN "none" ELSE document[u]]
  BY DEF Crash
<1>2. PICK late \in SUBSET {asks[i].user : i \in {j \in 1..Len(asks) : asks[j].kind = "register"}} :
          /\ accounts' = accounts \cup late
          /\ orphans' = orphans \cup (late \ accounts)
                \cup {u \in accounts : document[u] = "queued"}
                \cup {main[i].user : i \in {j \in 1..Len(main) : main[j].kind = "register"}}
  BY DEF Crash
<1>3. /\ accounts \subseteq Users /\ orphans \subseteq Users /\ asks \in Seq(Ask) /\ main \in Seq(Block)
      /\ document \in [Users -> {"none", "queued", "stored"}]
  BY DEF IInv, TypeOK
<1>4. late \subseteq Users
  <2>1. \A i \in 1..Len(asks) : asks[i] \in Ask
    BY <1>3
  <2>2. \A i \in 1..Len(asks) : asks[i].user \in Users
    BY <2>1 DEF Ask
  <2>3. QED
    BY <2>2
<1>5. {main[i].user : i \in {j \in 1..Len(main) : main[j].kind = "register"}} \subseteq Users
  <2>1. \A i \in 1..Len(main) : main[i] \in Block
    BY <1>3
  <2>2. \A i \in 1..Len(main) : main[i].user \in Users
    BY <2>1 DEF Block
  <2>3. QED
    BY <2>2
<1>6. document' \in [Users -> {"none", "queued", "stored"}]
  BY <1>1, <1>3
<1>7. TypeOK'
  <2>1. accounts' \subseteq Users /\ orphans' \subseteq Users
    BY <1>2, <1>3, <1>4, <1>5
  <2>2. asks' \in Seq(Ask) /\ main' \in Seq(Block) /\ reads' \in Seq(Read)
    BY <1>1
  <2>3. QED
    BY <1>1, <1>6, <2>1, <2>2 DEF IInv, TypeOK
<1>8. NobodyIsOut' /\ LastIsSignedIn' /\ EnteringIsSignedIn' /\ ReadsAreOwn' /\ LoggedUserIsOwn'
  BY <1>1 DEF NobodyIsOut, LastIsSignedIn, EnteringIsSignedIn, Entering, Callbacks, ReadsAreOwn,
     LoggedUserIsOwn
<1>9. AccountsHaveDocuments'
  <2> SUFFICES ASSUME NEW u \in accounts' \ orphans' PROVE document'[u] # "none"
    BY DEF AccountsHaveDocuments
  <2>1. /\ u \in accounts \ orphans /\ document[u] # "queued"
        /\ \A i \in 1..Len(main) : main[i].kind = "register" => main[i].user # u
    BY <1>2
  <2>2. document[u] # "none"
    <3>1. \/ document[u] # "none"
          \/ \E i \in 1..Len(main) : main[i] = [kind |-> "register", user |-> u]
      BY <2>1 DEF IInv, AccountsHaveDocuments
    <3>2. ASSUME NEW i \in 1..Len(main), main[i] = [kind |-> "register", user |-> u]
          PROVE  FALSE
      <4>1. main[i].kind = "register" /\ main[i].user = u
        BY <3>2
      <4>2. QED
        BY <2>1, <4>1
    <3>3. QED
      BY <3>1, <3>2
  <2>3. QED
    BY <1>1, <1>3, <2>1, <2>2
<1>10. QED
  BY <1>7, <1>8, <1>9 DEF IInv

-----------------------------------------------------------------------------
(* The theorems.                                                           *)

\* Every action, or none, preserves the inductive invariant.
LEMMA StepIInv ==
    IInv /\ [Next]_vars => IInv'
<1> SUFFICES ASSUME IInv, [Next]_vars PROVE IInv'
  OBVIOUS
<1>1. CASE UNCHANGED vars
  BY <1>1 DEF vars, IInv, TypeOK, NobodyIsOut, LastIsSignedIn, EnteringIsSignedIn, Entering, Callbacks,
     ReadsAreOwn, LoggedUserIsOwn, AccountsHaveDocuments
<1>2. CASE Next
  BY <1>2, QuietSteps, GrantStep, LoginStep, RegisterStep, SegueStep, ReloadStep, ReadSteps,
     LogoutStep, CrashStep DEF Next
<1>3. QED
  BY <1>1, <1>2

\* IInv holds in every reachable state.
THEOREM Invariance == Spec => []IInv
BY InitIInv, StepIInv, PTL DEF Spec

\* The state keeps its shape; nothing reads the document of an empty userId.
THEOREM TypeCorrect == Spec => []TypeOK
<1>1. IInv => TypeOK
  BY DEF IInv
<1>2. QED
  BY Invariance, <1>1, PTL

\* Inside the app userId is the account Auth has signed in, once its callbacks
\* have run and unless a logout crossed them (AuthManager.login, register).
THEOREM UserIdsAreSignedIn == Spec => []UserIdIsSignedIn
<1>1. IInv => UserIdIsSignedIn
  BY DEF IInv, EnteringIsSignedIn, Entering, Callbacks, IsCallback, UserIdIsSignedIn
<1>2. QED
  BY Invariance, <1>1, PTL

\* Inside the app loggedUser is userId's user or not loaded, unless sign-ins
\* or reads of two accounts overlapped (UsersManager.loadLoggedUser).
THEOREM LoggedUsersAreUserId == Spec => []LoggedUserIsUserId
<1>1. IInv => LoggedUserIsUserId
  BY DEF IInv, LoggedUserIsOwn, LoggedUserIsUserId
<1>2. QED
  BY Invariance, <1>1, PTL

\* An account has its document, or will get it from a callback, unless the app
\* was killed in between (AuthManager.register, UsersManager.createUser).
THEOREM AccountsGetDocuments == Spec => []AccountsHaveDocuments
<1>1. IInv => AccountsHaveDocuments
  BY DEF IInv
<1>2. QED
  BY Invariance, <1>1, PTL
=============================================================================
