---------------------------- MODULE Feed_proofs ----------------------------
(***************************************************************************)
(* Proofs about Feed: type correctness, that the table has no rows beyond  *)
(* the array but in the cases named, and that an undisturbed refresh shows *)
(* every post once.                                                        *)
(***************************************************************************)
EXTENDS Feed, FiniteSetTheorems, SequenceTheorems, WellFoundedInduction, TLAPS

-----------------------------------------------------------------------------
(* The inductive invariant, in parts.                                      *)

\* The block that empties the array has the one that asks for one's own posts,
\* and thus the reload, behind it.
OwnBehind ==
    \A i \in 1..Len(main) : main[i].step = "ask" /\ main[i].kind = "following" =>
        \E j \in 1..Len(main) : i < j /\ main[j].kind = "own"

\* No request of the kind is under way among the blocks m and the queries q.
Absent(kind, m, q) ==
    /\ \A i \in 1..Len(m) : m[i].kind # kind
    /\ \A i \in 1..Len(q) : q[i].kind # kind

\* There is at most one.
Sole(kind, m, q) ==
    /\ \A i, j \in 1..Len(m) : m[i].kind = kind /\ m[j].kind = kind => i = j
    /\ \A i, j \in 1..Len(q) : q[i].kind = kind /\ q[j].kind = kind => i = j
    /\ \A i \in 1..Len(m), j \in 1..Len(q) : ~(m[i].kind = kind /\ q[j].kind = kind)

Followed == OldestFirst(By(following))
Own == NewestFirst(OldestFirst(By({Me})))
Whole == NewestFirst(OldestFirst(By(following \cup {Me})))

\* Of an undisturbed refresh, each of the two requests is in one place.
InOnePlace == \A kind \in Kinds : Sole(kind, main, queries)

\* It asks whom it should, and brings what they have posted.
Asks(q) == q.authors = IF q.kind = "following" THEN following ELSE {Me}
Brings(b) ==
    IF b.step = "ask" THEN b.kind = "following" => b.authors = following
    ELSE b.found = IF b.kind = "following" THEN Followed ELSE Own
BringsPosts ==
    /\ \A i \in 1..Len(main) : Brings(main[i])
    /\ \A i \in 1..Len(queries) : Asks(queries[i])

\* The array has what has been brought.
Shows ==
    Absent("following", main, queries) =>
        IF OwnPending THEN posts = Followed ELSE posts = Whole /\ rows = Len(posts)

Calm == up /\ InOnePlace /\ BringsPosts /\ Shows
CalmInv == calm => Calm

IInv == TypeOK /\ RowsAreInArray /\ OwnBehind /\ CalmInv
-----------------------------------------------------------------------------
(* Numbers.                                                                *)

\* Every set of numbers that is not empty has a least one.
LEMMA NatMin ==
    ASSUME NEW S, S \subseteq Nat, S # {}
    PROVE  \E x \in S : \A y \in S : x <= y
<1> DEFINE R == OpToRel(<, Nat)
<1>1. IsWellFoundedOn(R, Nat)
  BY NatLessThanWellFounded
<1> HIDE DEF R
<1>2. PICK x \in S : \A y \in S : <<y, x>> \notin R
  BY <1>1, WFMin
<1>3. ASSUME NEW y \in S PROVE x <= y
  <2>1. x \in Nat /\ y \in Nat
    OBVIOUS
  <2>2. ~(y < x)
    BY <1>2, <2>1 DEF R, OpToRel
  <2>3. QED
    BY <2>1, <2>2
<1>4. QED
  BY <1>3

\* A set of numbers with 0 and, with each number, the next one has them all.
LEMMA NatInd ==
    ASSUME NEW S, 0 \in S, \A n \in Nat : n \in S => n + 1 \in S
    PROVE  Nat \subseteq S
<1> DEFINE T == Nat \ S
<1> SUFFICES ASSUME T # {} PROVE FALSE
  OBVIOUS
<1>1. PICK x \in T : \A y \in T : x <= y
  <2>1. T \subseteq Nat
    OBVIOUS
  <2> HIDE DEF T
  <2>2. QED
    BY <2>1, NatMin
<1>2. x \in Nat /\ x # 0
  OBVIOUS
<1>3. x - 1 \in Nat /\ (x - 1) + 1 = x /\ ~(x <= x - 1)
  BY <1>2
<1>4. x - 1 \in T
  BY <1>2, <1>3
<1>5. QED
  BY <1>1, <1>3, <1>4

-----------------------------------------------------------------------------
(* Sorting.                                                                *)

\* p puts the first n elements of s in order.
Orders(p, s, n) ==
    /\ p \in Bijection(1..n, 1..n)
    /\ \A i, j \in 1..n : i < j => s[p[i]] >= s[p[j]]

\* The next element has a place in that order.
LEMMA OrdersOneMore ==
    ASSUME NEW s \in Seq(Nat), NEW n \in Nat, n + 1 <= Len(s), NEW p, Orders(p, s, n)
    PROVE  \E q : Orders(q, s, n + 1)
<1> DEFINE x == s[n + 1]
           Before(k) == /\ \A i \in 1..n : i < k => s[p[i]] >= x
                        /\ \A i \in 1..n : i >= k => x >= s[p[i]]
<1>1. /\ p \in [1..n -> 1..n]
      /\ \A i, j \in 1..n : p[i] = p[j] => i = j
      /\ \A t \in 1..n : \E i \in 1..n : p[i] = t
      /\ \A i, j \in 1..n : i < j => s[p[i]] >= s[p[j]]
  BY DEF Orders, Bijection, Injection, Surjection, IsInjective
<1>2. x \in Nat /\ \A i \in 1..n : p[i] \in 1..n /\ s[p[i]] \in Nat
  <2>1. n + 1 \in 1..Len(s) /\ \A t \in 1..n : t \in 1..Len(s)
    OBVIOUS
  <2>2. \A t \in 1..Len(s) : s[t] \in Nat
    OBVIOUS
  <2>3. \A i \in 1..n : p[i] \in 1..n
    BY <1>1
  <2>4. QED
    BY <2>1, <2>2, <2>3
<1>3. \E k \in 1..n + 1 : Before(k)
  <2> DEFINE Less == {i \in 1..n : x > s[p[i]]}
  <2>1. CASE Less = {}
    <3>1. ASSUME NEW i \in 1..n PROVE s[p[i]] >= x
      <4>1. x \in Nat /\ s[p[i]] \in Nat
        BY <1>2
      <4>2. ~(x > s[p[i]])
        BY <2>1
      <4>3. QED
        BY <4>1, <4>2
    <3>2. n + 1 \in 1..n + 1 /\ \A i \in 1..n : ~(i >= n + 1)
      OBVIOUS
    <3>3. QED
      BY <3>1, <3>2
  <2>2. CASE Less # {}
    <3>1. PICK k \in Less : \A i \in Less : k <= i
      <4>1. Less \subseteq Nat
        OBVIOUS
      <4> HIDE DEF Less
      <4>2. QED
        BY <2>2, <4>1, NatMin
    <3>2. k \in 1..n /\ x > s[p[k]]
      OBVIOUS
    <3>3. ASSUME NEW i \in 1..n, i < k PROVE s[p[i]] >= x
      <4>1. i \notin Less
        BY <3>1, <3>2, <3>3
      <4>2. QED
        BY <1>2, <4>1
    <3>4. ASSUME NEW i \in 1..n, i >= k PROVE x >= s[p[i]]
      <4>1. i = k \/ k < i
        BY <3>2, <3>4
      <4>2. s[p[k]] >= s[p[i]] \/ i = k
        BY <1>1, <3>2, <4>1
      <4>3. x \in Nat /\ s[p[i]] \in Nat /\ s[p[k]] \in Nat
        BY <1>2, <3>2
      <4>4. CASE i = k
        BY <3>2, <4>3, <4>4
      <4>5. CASE s[p[k]] >= s[p[i]]
        BY <3>2, <4>3, <4>5
      <4>6. QED
        BY <4>2, <4>4, <4>5
    <3>5. k \in 1..n + 1
      BY <3>2
    <3>6. QED
      BY <3>3, <3>4, <3>5
  <2>3. QED
    BY <2>1, <2>2
<1>4. PICK k \in 1..n + 1 : Before(k)
  BY <1>3
<1> DEFINE q == [i \in 1..n + 1 |-> IF i < k THEN p[i] ELSE IF i = k THEN n + 1 ELSE p[i - 1]]
<1>5. /\ \A i \in 1..n + 1 : i < k => i \in 1..n /\ q[i] = p[i]
      /\ q[k] = n + 1
      /\ \A i \in 1..n + 1 : k < i => i - 1 \in 1..n /\ i - 1 >= k /\ q[i] = p[i - 1]
  OBVIOUS
<1>6. q \in [1..n + 1 -> 1..n + 1]
  <2>1. ASSUME NEW i \in 1..n + 1 PROVE q[i] \in 1..n + 1
    <3>1. i < k \/ i = k \/ k < i
      OBVIOUS
    <3>2. \A t \in 1..n : t \in 1..n + 1
      OBVIOUS
    <3> HIDE DEF q
    <3>3. n + 1 \in 1..n + 1
      OBVIOUS
    <3>4. QED
      BY <1>2, <1>5, <3>1, <3>2, <3>3
  <2>2. QED
    BY <2>1
<1> HIDE DEF q, Before, x
<1>7. ASSUME NEW i \in 1..n + 1, NEW j \in 1..n + 1, i < j PROVE q[i] # q[j] /\ s[q[i]] >= s[q[j]]
  <2>1. /\ \A m \in 1..n : p[m] # n + 1
        /\ \A m \in 1..n : m < k => s[p[m]] >= x
        /\ \A m \in 1..n : m >= k => x >= s[p[m]]
        /\ x = s[n + 1]
    BY <1>2, <1>4 DEF Before, x
  <2>2. CASE j < k
    <3>1. i < k
      BY <1>7, <2>2
    <3>2. i \in 1..n /\ j \in 1..n /\ q[i] = p[i] /\ q[j] = p[j] /\ i # j
      BY <1>5, <1>7, <2>2, <3>1
    <3>3. QED
      BY <1>1, <1>7, <3>2
  <2>3. CASE j = k
    BY <1>5, <1>7, <2>1, <2>3
  <2>4. CASE k < j /\ i < k
    <3>1. i \in 1..n /\ j - 1 \in 1..n /\ q[i] = p[i] /\ q[j] = p[j - 1] /\ j - 1 >= k
      BY <1>5, <2>4
    <3>2. i < j - 1 /\ i # j - 1
      BY <2>4, <3>1
    <3>3. QED
      BY <1>1, <3>1, <3>2
  <2>5. CASE k < j /\ i = k
    BY <1>5, <2>1, <2>5
  <2>6. CASE k < j /\ k < i
    <3>1. i - 1 \in 1..n /\ j - 1 \in 1..n /\ q[i] = p[i - 1] /\ q[j] = p[j - 1]
      BY <1>5, <2>6
    <3>2. i - 1 < j - 1 /\ i - 1 # j - 1
      BY <1>7
    <3>3. QED
      BY <1>1, <3>1, <3>2
  <2>7. QED
    BY <2>2, <2>3, <2>4, <2>5, <2>6
<1>8. ASSUME NEW i \in 1..n + 1, NEW j \in 1..n + 1, q[i] = q[j] PROVE i = j
  <2>1. i < j \/ j < i \/ i = j
    OBVIOUS
  <2>2. QED
    BY <1>7, <1>8, <2>1
<1>9. ASSUME NEW t \in 1..n + 1 PROVE \E i \in 1..n + 1 : q[i] = t
  <2>1. CASE t = n + 1
    BY <1>5, <2>1
  <2>2. CASE t # n + 1
    <3>1. t \in 1..n
      BY <2>2
    <3>2. PICK i \in 1..n : p[i] = t
      BY <1>1, <3>1
    <3>3. CASE i < k
      <4>1. i \in 1..n + 1
        OBVIOUS
      <4>2. QED
        BY <1>5, <3>2, <3>3, <4>1
    <3>4. CASE ~(i < k)
      <4>1. i + 1 \in 1..n + 1 /\ k < i + 1 /\ (i + 1) - 1 = i
        BY <3>4
      <4>2. QED
        BY <1>5, <3>2, <4>1
    <3>5. QED
      BY <3>3, <3>4
  <2>3. QED
    BY <2>1, <2>2
<1>10. Orders(q, s, n + 1)
  BY <1>6, <1>7, <1>8, <1>9 DEF Orders, Bijection, Injection, Surjection, IsInjective
<1>11. QED
  BY <1>10

\* Every list of numbers can be put in order.
LEMMA OrderExists ==
    ASSUME NEW s \in Seq(Nat)
    PROVE  \E p : Orders(p, s, Len(s))
<1> DEFINE N == {n \in Nat : n <= Len(s) => \E p : Orders(p, s, n)}
<1>1. 0 \in N
  <2>1. Orders([i \in 1..0 |-> 0], s, 0)
    BY DEF Orders, Bijection, Injection, Surjection, IsInjective
  <2>2. QED
    BY <2>1
<1>2. ASSUME NEW n \in Nat, n \in N PROVE n + 1 \in N
  <2>1. SUFFICES ASSUME n + 1 <= Len(s) PROVE \E p : Orders(p, s, n + 1)
    OBVIOUS
  <2>2. PICK p : Orders(p, s, n)
    BY <1>2, <2>1
  <2>3. QED
    BY <2>1, <2>2, OrdersOneMore
<1>3. Nat \subseteq N
  <2> HIDE DEF N
  <2>1. QED
    BY <1>1, <1>2, NatInd
<1>4. Len(s) \in N
  BY <1>3
<1>5. QED
  BY <1>4

Descends(t) == \A i, j \in 1..Len(t) : i < j => t[i] >= t[j]

\* NewestFirst puts a list in order, and neither loses nor adds an element.
LEMMA NewestFirstSorts ==
    ASSUME NEW s \in Seq(Posts)
    PROVE  /\ NewestFirst(s) \in Seq(Posts)
           /\ Len(NewestFirst(s)) = Len(s)
           /\ Descends(NewestFirst(s))
           /\ \E p \in Bijection(1..Len(s), 1..Len(s)) :
                 \A i \in 1..Len(s) : NewestFirst(s)[i] = s[p[i]]
<1> DEFINE n == Len(s)
           order == CHOOSE p \in Bijection(1..n, 1..n) :
                        \A i, j \in 1..n : i < j => s[p[i]] >= s[p[j]]
           t == [i \in 1..n |-> s[order[i]]]
<1>1. s \in Seq(Nat) /\ n \in Nat
  <2>1. Posts \subseteq Nat
    BY FeedAssumption
  <2>2. s \in Seq(Nat)
    BY <2>1, SeqMonotonic
  <2>3. QED
    BY <2>2
<1>2. \E p \in Bijection(1..n, 1..n) : \A i, j \in 1..n : i < j => s[p[i]] >= s[p[j]]
  BY <1>1, OrderExists DEF Orders
<1>3. /\ order \in Bijection(1..n, 1..n)
      /\ \A i, j \in 1..n : i < j => s[order[i]] >= s[order[j]]
  BY <1>2
<1>4. NewestFirst(s) = t
  BY DEF NewestFirst
<1> HIDE DEF order
<1>5. \A i \in 1..n : order[i] \in 1..n
  BY <1>3 DEF Bijection, Injection
<1>6. t \in Seq(Posts) /\ Len(t) = n /\ \A i \in 1..n : t[i] = s[order[i]]
  BY <1>1, <1>5
<1> HIDE DEF t
<1>7. Descends(t)
  BY <1>3, <1>6 DEF Descends
<1>8. QED
  BY <1>3, <1>4, <1>6, <1>7
-----------------------------------------------------------------------------
(* Lists of posts.                                                         *)

\* t has every post of S once, and no other.
Lists(t, S) ==
    /\ t \in Seq(S)
    /\ IsInjective(t)
    /\ \A x \in S : \E i \in 1..Len(t) : t[i] = x

\* What a list has, by its indices.
LEMMA ListsByIndex ==
    ASSUME NEW S, NEW t, Lists(t, S)
    PROVE  /\ t \in Seq(S) /\ Len(t) \in Nat /\ DOMAIN t = 1..Len(t)
           /\ \A i \in 1..Len(t) : t[i] \in S
           /\ \A i, j \in 1..Len(t) : t[i] = t[j] => i = j
           /\ \A x \in S : \E i \in 1..Len(t) : t[i] = x
<1>1. t \in Seq(S)
  BY DEF Lists
<1>2. Len(t) \in Nat /\ DOMAIN t = 1..Len(t) /\ \A i \in 1..Len(t) : t[i] \in S
  BY <1>1
<1>3. \A i, j \in 1..Len(t) : t[i] = t[j] => i = j
  BY <1>2 DEF Lists, IsInjective
<1>4. \A x \in S : \E i \in 1..Len(t) : t[i] = x
  BY DEF Lists
<1>5. QED
  BY <1>1, <1>2, <1>3, <1>4

\* Sorting leaves a list one of the same posts.
LEMMA SortedLists ==
    ASSUME NEW S, S \subseteq Posts, NEW s, Lists(s, S)
    PROVE  Lists(NewestFirst(s), S) /\ Descends(NewestFirst(s))
<1> DEFINE n == Len(s)
           t == NewestFirst(s)
<1>1. s \in Seq(Posts)
  BY SeqMonotonic DEF Lists
<1>2. t \in Seq(Posts) /\ Len(t) = n /\ Descends(t)
  BY <1>1, NewestFirstSorts
<1>3. PICK p \in Bijection(1..n, 1..n) : \A i \in 1..n : t[i] = s[p[i]]
  BY <1>1, NewestFirstSorts
<1>4. /\ \A i \in 1..n : p[i] \in 1..n
      /\ \A i, j \in 1..n : p[i] = p[j] => i = j
      /\ \A a \in 1..n : \E i \in 1..n : p[i] = a
  BY <1>3 DEF Bijection, Injection, Surjection, IsInjective
<1>5. /\ \A i \in 1..n : s[i] \in S
      /\ \A i, j \in 1..n : s[i] = s[j] => i = j
      /\ \A x \in S : \E i \in 1..n : s[i] = x
  BY ListsByIndex
<1> HIDE DEF t
<1>6. t \in Seq(S)
  <2>1. \A i \in 1..Len(t) : t[i] \in S
    BY <1>2, <1>3, <1>4, <1>5
  <2>2. QED
    BY <1>2, <2>1
<1>7. IsInjective(t)
  <2>1. ASSUME NEW i \in 1..n, NEW j \in 1..n, t[i] = t[j] PROVE i = j
    <3>1. s[p[i]] = s[p[j]] /\ p[i] \in 1..n /\ p[j] \in 1..n
      BY <1>3, <1>4, <2>1
    <3>2. QED
      BY <1>4, <1>5, <3>1
  <2>2. DOMAIN t = 1..n
    BY <1>2
  <2>3. QED
    BY <2>1, <2>2 DEF IsInjective
<1>8. ASSUME NEW x \in S PROVE \E i \in 1..Len(t) : t[i] = x
  <2>1. PICK a \in 1..n : s[a] = x
    BY <1>5
  <2>2. PICK i \in 1..n : p[i] = a
    BY <1>4
  <2>3. QED
    BY <1>2, <1>3, <2>1, <2>2
<1>9. QED
  BY <1>2, <1>6, <1>7, <1>8 DEF Lists, t

\* OldestFirst is a list of its set.
LEMMA OldestFirstLists ==
    ASSUME NEW S, S \subseteq Posts
    PROVE  Lists(OldestFirst(S), S)
<1> DEFINE n == Cardinality(S)
           f == SetToSeq(S)
           s == NewestFirst(f)
           t == Reverse(s)
<1>1. IsFiniteSet(S)
  BY FeedAssumption, FS_Subset
<1>2. n \in Nat /\ ExistsBijection(1..n, S)
  BY <1>1, FS_CardinalityType
<1>3. \E g \in [1..n -> S] : IsInjective(g)
  BY <1>2 DEF ExistsBijection, Bijection, Injection
<1>4. f \in [1..n -> S] /\ IsInjective(f)
  BY <1>3 DEF SetToSeq
<1> HIDE DEF f
<1>5. f \in Surjection(1..n, S)
  <2>1. f \in Injection(1..n, S)
    BY <1>4 DEF Injection
  <2>2. Cardinality(1..n) = n
    BY <1>2, FS_Interval
  <2> HIDE DEF n
  <2>3. QED
    BY <1>1, <2>1, <2>2, FS_Injection DEF n
<1>6. Lists(f, S)
  <2>1. f \in Seq(S) /\ Len(f) = n
    BY <1>2, <1>4
  <2>2. \A x \in S : \E i \in 1..n : f[i] = x
    BY <1>5 DEF Surjection
  <2>3. QED
    BY <1>4, <2>1, <2>2 DEF Lists
<1>7. Lists(s, S)
  BY <1>6, SortedLists
<1> HIDE DEF s, n
<1>8. s \in Seq(S) /\ Len(s) \in Nat
      /\ \A i, j \in 1..Len(s) : s[i] = s[j] => i = j
  BY <1>7 DEF Lists, IsInjective
<1>9. t \in Seq(S) /\ Len(t) = Len(s) /\ \A i \in 1..Len(s) : t[i] = s[(Len(s) - i) + 1]
  <2>1. \A i \in 1..Len(s) : (Len(s) - i) + 1 \in 1..Len(s)
    BY <1>8
  <2>2. QED
    BY <1>8, <2>1 DEF Reverse
<1> HIDE DEF t
<1>10. IsInjective(t)
  <2>1. ASSUME NEW i \in 1..Len(t), NEW j \in 1..Len(t), t[i] = t[j] PROVE i = j
    <3>1. (Len(s) - i) + 1 \in 1..Len(s) /\ (Len(s) - j) + 1 \in 1..Len(s)
      BY <1>8, <1>9
    <3>2. (Len(s) - i) + 1 = (Len(s) - j) + 1
      BY <1>8, <1>9, <2>1, <3>1
    <3>3. QED
      BY <1>8, <1>9, <3>2
  <2>2. DOMAIN t = 1..Len(t)
    BY <1>9
  <2>3. QED
    BY <2>1, <2>2 DEF IsInjective
<1>11. ASSUME NEW x \in S PROVE \E i \in 1..Len(t) : t[i] = x
  <2>1. PICK a \in 1..Len(s) : s[a] = x
    BY <1>7 DEF Lists
  <2>2. (Len(s) - a) + 1 \in 1..Len(s) /\ (Len(s) - ((Len(s) - a) + 1)) + 1 = a
    BY <1>8
  <2>3. QED
    BY <1>9, <2>1, <2>2
<1>12. QED
  BY <1>9, <1>10, <1>11 DEF Lists, OldestFirst, f, s, t

\* Where two lists of the same posts agree so far and one is in order, it does
\* not go on with an older post than the other.
LEMMA OrderedLeads ==
    ASSUME NEW S, S \subseteq Posts, NEW s, NEW t, Lists(s, S), Lists(t, S), Descends(t),
           NEW n \in Nat, n + 1 <= Len(s), n + 1 <= Len(t), \A i \in 1..n : s[i] = t[i]
    PROVE  t[n + 1] >= s[n + 1]
<1>1. Len(s) \in Nat /\ Len(t) \in Nat /\ s \in Seq(S) /\ t \in Seq(S)
  BY ListsByIndex
<1>2. n + 1 \in 1..Len(s) /\ n + 1 \in 1..Len(t) /\ \A i \in 1..n : i \in 1..Len(s)
  BY <1>1
<1>3. s[n + 1] \in S /\ t[n + 1] \in S
  BY <1>1, <1>2
<1>4. PICK j \in 1..Len(t) : t[j] = s[n + 1]
  BY <1>3 DEF Lists
<1>5. ~(j <= n)
  <2>1. SUFFICES ASSUME j \in 1..n PROVE FALSE
    BY <1>1
  <2>2. s[j] = s[n + 1] /\ j \in 1..Len(s) /\ j # n + 1
    BY <1>2, <1>4, <2>1
  <2>3. QED
    BY <1>2, <2>2, ListsByIndex
<1>6. j = n + 1 \/ n + 1 < j
  BY <1>1, <1>5
<1>7. t[n + 1] \in Nat
  BY <1>3, FeedAssumption
<1>8. QED
  BY <1>2, <1>4, <1>6, <1>7 DEF Descends

\* Posts can be listed in order in one way only.
LEMMA OneOrder ==
    ASSUME NEW S, S \subseteq Posts, NEW s, NEW t,
           Lists(s, S), Lists(t, S), Descends(s), Descends(t)
    PROVE  s = t
<1>1. Len(s) \in Nat /\ Len(t) \in Nat /\ s \in Seq(S) /\ t \in Seq(S)
  BY ListsByIndex
<1> DEFINE Agree(n) == \A i \in 1..n : s[i] = t[i]
           N == {n \in Nat : n <= Len(s) /\ n <= Len(t) => Agree(n)}
<1>2. 0 \in N
  OBVIOUS
<1>3. ASSUME NEW n \in Nat, n \in N PROVE n + 1 \in N
  <2>1. SUFFICES ASSUME n + 1 <= Len(s), n + 1 <= Len(t) PROVE Agree(n + 1)
    OBVIOUS
  <2>2. Agree(n)
    BY <1>1, <1>3, <2>1
  <2>3. t[n + 1] >= s[n + 1] /\ s[n + 1] >= t[n + 1]
    <3>1. t[n + 1] >= s[n + 1]
      BY <2>1, <2>2, OrderedLeads
    <3>2. s[n + 1] >= t[n + 1]
      BY <2>1, <2>2, OrderedLeads
    <3>3. QED
      BY <3>1, <3>2
  <2>4. s[n + 1] \in Nat /\ t[n + 1] \in Nat
    <3>1. n + 1 \in 1..Len(s) /\ n + 1 \in 1..Len(t)
      BY <1>1, <2>1
    <3>2. s[n + 1] \in S /\ t[n + 1] \in S
      BY <1>1, <3>1
    <3>3. QED
      BY <3>2, FeedAssumption
  <2>5. s[n + 1] = t[n + 1]
    BY <2>3, <2>4
  <2>6. \A i \in 1..n + 1 : i \in 1..n \/ i = n + 1
    OBVIOUS
  <2>7. QED
    BY <2>2, <2>5, <2>6
<1>4. Nat \subseteq N
  <2> HIDE DEF N
  <2>1. QED
    BY <1>2, <1>3, NatInd
<1>5. ~(Len(s) < Len(t))
  <2>1. SUFFICES ASSUME Len(s) < Len(t) PROVE FALSE
    OBVIOUS
  <2>2. Agree(Len(s))
    BY <1>1, <1>4, <2>1
  <2>3. Len(s) + 1 \in 1..Len(t) /\ \A i \in 1..Len(s) : i \in 1..Len(t) /\ i # Len(s) + 1
    BY <1>1, <2>1
  <2>4. t[Len(s) + 1] \in S
    BY <1>1, <2>3
  <2>5. PICK i \in 1..Len(s) : s[i] = t[Len(s) + 1]
    BY <2>4 DEF Lists
  <2>6. t[i] = t[Len(s) + 1]
    BY <2>2, <2>5
  <2>7. QED
    BY <2>3, <2>6, ListsByIndex
<1>6. ~(Len(t) < Len(s))
  <2>1. SUFFICES ASSUME Len(t) < Len(s) PROVE FALSE
    OBVIOUS
  <2>2. Agree(Len(t))
    BY <1>1, <1>4, <2>1
  <2>3. Len(t) + 1 \in 1..Len(s) /\ \A i \in 1..Len(t) : i \in 1..Len(s) /\ i # Len(t) + 1
    BY <1>1, <2>1
  <2>4. s[Len(t) + 1] \in S
    BY <1>1, <2>3
  <2>5. PICK i \in 1..Len(t) : t[i] = s[Len(t) + 1]
    BY <2>4 DEF Lists
  <2>6. s[i] = s[Len(t) + 1]
    BY <2>2, <2>5
  <2>7. QED
    BY <2>3, <2>6, ListsByIndex
<1>7. Len(s) = Len(t) /\ Agree(Len(s))
  BY <1>1, <1>4, <1>5, <1>6
<1>8. QED
  BY <1>1, <1>7, SeqEqual

\* Two lists without a common post make one of the posts of both.
LEMMA JoinedLists ==
    ASSUME NEW S, NEW T, NEW s, NEW t, Lists(s, S), Lists(t, T), S \cap T = {}
    PROVE  Lists(s \o t, S \cup T)
<1> DEFINE u == s \o t
           m == Len(s)
           n == Len(t)
<1>1. s \in Seq(S) /\ t \in Seq(T) /\ m \in Nat /\ n \in Nat
  BY DEF Lists
<1>2. /\ u \in Seq(S \cup T) /\ Len(u) = m + n
      /\ \A i \in 1..m + n : u[i] = IF i <= m THEN s[i] ELSE t[i - m]
  <2>1. s \in Seq(S \cup T) /\ t \in Seq(S \cup T)
    <3>1. s \in Seq(S \cup T)
      BY <1>1, SeqMonotonic
    <3>2. t \in Seq(S \cup T)
      BY <1>1, SeqMonotonic
    <3>3. QED
      BY <3>1, <3>2
  <2>2. QED
    BY <2>1, ConcatProperties
<1>3. /\ \A i \in 1..m : s[i] \in S /\ i \in 1..m + n /\ u[i] = s[i]
      /\ \A i \in 1..n : t[i] \in T /\ i + m \in 1..m + n /\ u[i + m] = t[i]
  <2>1. ASSUME NEW i \in 1..m PROVE s[i] \in S /\ i \in 1..m + n /\ u[i] = s[i]
    BY <1>1, <1>2
  <2>2. ASSUME NEW i \in 1..n PROVE t[i] \in T /\ i + m \in 1..m + n /\ u[i + m] = t[i]
    <3>1. i + m \in 1..m + n /\ ~(i + m <= m) /\ (i + m) - m = i
      BY <1>1
    <3>2. QED
      BY <1>1, <1>2, <3>1
  <2>3. QED
    BY <2>1, <2>2
<1>4. /\ \A i, j \in 1..m : s[i] = s[j] => i = j
      /\ \A i, j \in 1..n : t[i] = t[j] => i = j
      /\ \A x \in S : \E i \in 1..m : s[i] = x
      /\ \A x \in T : \E i \in 1..n : t[i] = x
  <2>1. \A i, j \in 1..m : s[i] = s[j] => i = j
    BY ListsByIndex
  <2>2. \A i, j \in 1..n : t[i] = t[j] => i = j
    BY ListsByIndex
  <2>3. QED
    BY <2>1, <2>2 DEF Lists
<1> HIDE DEF u, m, n
<1>5. \A i \in 1..m + n : i \in 1..m \/ (i - m \in 1..n /\ (i - m) + m = i)
  BY <1>1
<1>6. ASSUME NEW i \in 1..m + n, NEW j \in 1..m + n, u[i] = u[j] PROVE i = j
  <2>1. CASE i \in 1..m /\ j \in 1..m
    BY <1>3, <1>6, <1>4, <2>1
  <2>2. CASE i \notin 1..m /\ j \notin 1..m
    <3>1. /\ i - m \in 1..n /\ u[i] = t[i - m] /\ (i - m) + m = i
          /\ j - m \in 1..n /\ u[j] = t[j - m] /\ (j - m) + m = j
      BY <1>3, <1>5, <2>2
    <3>2. t[i - m] = t[j - m] => i - m = j - m
      BY <1>4, <3>1
    <3>3. QED
      BY <1>1, <1>6, <3>1, <3>2
  <2>3. CASE i \in 1..m /\ j \notin 1..m
    BY <1>3, <1>5, <1>6, <2>3
  <2>4. CASE i \notin 1..m /\ j \in 1..m
    BY <1>3, <1>5, <1>6, <2>4
  <2>5. QED
    BY <2>1, <2>2, <2>3, <2>4
<1>7. IsInjective(u)
  BY <1>2, <1>6 DEF IsInjective
<1>8. ASSUME NEW x \in S \cup T PROVE \E i \in 1..Len(u) : u[i] = x
  <2>1. CASE x \in S
    BY <1>2, <1>3, <1>4, <2>1
  <2>2. CASE x \in T
    <3>1. PICK i \in 1..n : t[i] = x
      BY <1>4, <2>2
    <3>2. QED
      BY <1>2, <1>3, <3>1
  <2>3. QED
    BY <2>1, <2>2
<1>9. QED
  BY <1>2, <1>7, <1>8 DEF Lists, u
\* The followed posts and one's own make the whole feed; who follows nobody
\* has no followed posts.
LEMMA FeedFromParts ==
    ASSUME TypeOK
    PROVE  /\ Followed \in Seq(Posts) /\ Own \in Seq(Posts)
           /\ NewestFirst(Followed \o Own) = Whole
           /\ following = {} => Followed = <<>>
<1>1. wall \subseteq Posts /\ following \subseteq Others /\ Me \notin Others
  BY FeedAssumption DEF TypeOK
<1> DEFINE F == By(following)
           O == By({Me})
           W == By(following \cup {Me})
<1>2. F \subseteq Posts /\ O \subseteq Posts /\ W \subseteq Posts
  BY <1>1 DEF By
<1>3. F \cap O = {} /\ F \cup O = W /\ (following = {} => F = {})
  BY <1>1 DEF By
<1> HIDE DEF F, O, W
<1>4. Lists(Followed, F)
  BY <1>2, OldestFirstLists DEF Followed, F
<1>5. Lists(Own, O)
  <2>1. Lists(OldestFirst(O), O)
    BY <1>2, OldestFirstLists
  <2>2. QED
    BY <1>2, <2>1, SortedLists DEF Own, O
<1>6. Lists(Whole, W) /\ Descends(Whole)
  <2>1. Lists(OldestFirst(W), W)
    BY <1>2, OldestFirstLists
  <2>2. QED
    BY <1>2, <2>1, SortedLists DEF Whole, W
<1>7. Lists(NewestFirst(Followed \o Own), W) /\ Descends(NewestFirst(Followed \o Own))
  <2>1. Lists(Followed \o Own, W)
    BY <1>3, <1>4, <1>5, JoinedLists
  <2>2. QED
    BY <1>2, <2>1, SortedLists
<1>8. NewestFirst(Followed \o Own) = Whole
  BY <1>2, <1>6, <1>7, OneOrder
<1>9. Followed \in Seq(Posts) /\ Own \in Seq(Posts)
  <2>1. Followed \in Seq(F) /\ Own \in Seq(O)
    BY <1>4, <1>5 DEF Lists
  <2>2. Followed \in Seq(Posts)
    BY <1>2, <2>1, SeqMonotonic
  <2>3. Own \in Seq(Posts)
    BY <1>2, <2>1, SeqMonotonic
  <2>4. QED
    BY <2>2, <2>3
<1>10. ASSUME following = {} PROVE Followed = <<>>
  <2>1. Followed \in Seq({})
    BY <1>3, <1>4, <1>10 DEF Lists
  <2>2. Len(Followed) \in Nat /\ \A i \in 1..Len(Followed) : Followed[i] \in {}
    BY <2>1
  <2>3. Len(Followed) = 0
    BY <2>2
  <2>4. QED
    BY <2>1, <2>3
<1>11. QED
  BY <1>8, <1>9, <1>10

-----------------------------------------------------------------------------
(* The blocks and the queries.                                             *)

\* What follows the first element.
LEMMA TailByIndex ==
    ASSUME NEW S, NEW m \in Seq(S), m # <<>>
    PROVE  /\ Len(m) \in Nat /\ Len(m) >= 1 /\ Head(m) = m[1] /\ m[1] \in S
           /\ Tail(m) \in Seq(S) /\ Len(Tail(m)) = Len(m) - 1
           /\ \A i \in 1..Len(m) - 1 : Tail(m)[i] = m[i + 1]
<1>1. Len(m) \in Nat /\ Len(m) >= 1
  OBVIOUS
<1>2. QED
  BY <1>1, HeadTailProperties

\* An element more.
LEMMA AppendByIndex ==
    ASSUME NEW S, NEW m \in Seq(S), NEW x \in S
    PROVE  /\ Append(m, x) \in Seq(S) /\ Len(m) \in Nat /\ Len(Append(m, x)) = Len(m) + 1
           /\ \A i \in 1..Len(m) : Append(m, x)[i] = m[i]
           /\ Append(m, x)[Len(m) + 1] = x
  OBVIOUS

\* An element less, from the middle.
LEMMA RemoveAtByIndex ==
    ASSUME NEW S, NEW s \in Seq(S), NEW i \in 1..Len(s)
    PROVE  /\ RemoveAt(s, i) \in Seq(S) /\ Len(RemoveAt(s, i)) = Len(s) - 1
           /\ \A j \in 1..Len(s) - 1 : RemoveAt(s, i)[j] = IF j < i THEN s[j] ELSE s[j + 1]
<1> DEFINE a == SubSeq(s, 1, i - 1)
           b == SubSeq(s, i + 1, Len(s))
<1>1. /\ a \in Seq(S) /\ Len(a) = i - 1 /\ \A j \in 1..(i - 1) : a[j] = s[j]
      /\ b \in Seq(S) /\ Len(b) = Len(s) - i /\ \A j \in 1..(Len(s) - i) : b[j] = s[i + j]
  OBVIOUS
<1>2. RemoveAt(s, i) = a \o b
  BY DEF RemoveAt
<1>3. i \in Nat /\ Len(s) \in Nat /\ i >= 1 /\ i <= Len(s)
  OBVIOUS
<1> HIDE DEF a, b
<1>4. /\ a \o b \in Seq(S) /\ Len(a \o b) = Len(a) + Len(b)
      /\ \A j \in 1..(Len(a) + Len(b)) : (a \o b)[j] = IF j <= Len(a) THEN a[j] ELSE b[j - Len(a)]
  BY <1>1, ConcatProperties
<1>5. ASSUME NEW j \in 1..Len(s) - 1
      PROVE  (a \o b)[j] = IF j < i THEN s[j] ELSE s[j + 1]
  <2>1. j \in 1..(Len(a) + Len(b))
    BY <1>1, <1>3
  <2>2. CASE j < i
    <3>1. j <= Len(a) /\ j \in 1..(i - 1)
      BY <1>1, <1>3, <2>2
    <3>2. QED
      BY <1>1, <1>4, <2>1, <2>2, <3>1
  <2>3. CASE ~(j < i)
    <3>1. ~(j <= Len(a)) /\ j - Len(a) \in 1..(Len(s) - i) /\ i + (j - Len(a)) = j + 1
      BY <1>1, <1>3, <2>3
    <3>2. QED
      BY <1>1, <1>4, <2>1, <2>3, <3>1
  <2>4. QED
    BY <2>2, <2>3
<1>6. QED
  BY <1>1, <1>2, <1>3, <1>4, <1>5

\* The index an element had before the i-th was taken.
Was(i, j) == IF j < i THEN j ELSE j + 1

\* Where an element of the rest was.
LEMMA RemoveAtFrom ==
    ASSUME NEW S, NEW s \in Seq(S), NEW i \in 1..Len(s)
    PROVE  /\ \A j \in 1..Len(RemoveAt(s, i)) :
                 /\ Was(i, j) \in 1..Len(s) /\ Was(i, j) # i
                 /\ RemoveAt(s, i)[j] = s[Was(i, j)]
           /\ \A j, k \in 1..Len(RemoveAt(s, i)) : Was(i, j) = Was(i, k) => j = k
           /\ \A k \in 1..Len(s) : k # i => \E j \in 1..Len(RemoveAt(s, i)) : RemoveAt(s, i)[j] = s[k]
<1> DEFINE t == RemoveAt(s, i)
<1>1. /\ Len(t) = Len(s) - 1 /\ Len(s) \in Nat
      /\ \A j \in 1..Len(s) - 1 : t[j] = IF j < i THEN s[j] ELSE s[j + 1]
  BY RemoveAtByIndex
<1> HIDE DEF t
<1>2. ASSUME NEW j \in 1..Len(t)
      PROVE  Was(i, j) \in 1..Len(s) /\ Was(i, j) # i /\ t[j] = s[Was(i, j)]
  <2>1. CASE j < i
    BY <1>1, <2>1 DEF Was
  <2>2. CASE ~(j < i)
    <3>1. j + 1 \in 1..Len(s) /\ j + 1 # i /\ t[j] = s[j + 1]
      BY <1>1, <2>2
    <3>2. QED
      BY <2>2, <3>1 DEF Was
  <2>3. QED
    BY <2>1, <2>2
<1>3. \A j, k \in 1..Len(t) : Was(i, j) = Was(i, k) => j = k
  BY <1>1 DEF Was
<1>4. ASSUME NEW k \in 1..Len(s), k # i PROVE \E j \in 1..Len(t) : t[j] = s[k]
  <2>1. CASE k < i
    BY <1>1, <2>1
  <2>2. CASE ~(k < i)
    <3>1. k - 1 \in 1..Len(t) /\ ~(k - 1 < i) /\ (k - 1) + 1 = k
      BY <1>1, <1>4, <2>2
    <3>2. t[k - 1] = s[k]
      BY <1>1, <3>1
    <3>3. QED
      BY <3>1, <3>2
  <2>3. QED
    BY <2>1, <2>2
<1>5. QED
  BY <1>2, <1>4, <1>3 DEF t

\* A request taken from the front of the blocks.
LEMMA TakenBlock ==
    ASSUME NEW S, NEW m \in Seq(S), m # <<>>, NEW q, NEW kind
    PROVE  /\ Absent(kind, m, q) <=> Head(m).kind # kind /\ Absent(kind, Tail(m), q)
           /\ Sole(kind, m, q) => /\ Sole(kind, Tail(m), q)
                                  /\ Head(m).kind = kind => Absent(kind, Tail(m), q)
<1> DEFINE t == Tail(m)
<1>1. /\ Len(m) \in Nat /\ Len(m) >= 1 /\ Head(m) = m[1] /\ Len(t) = Len(m) - 1
      /\ \A i \in 1..Len(m) - 1 : t[i] = m[i + 1]
  BY TailByIndex
<1> HIDE DEF t
<1>2. \A i \in 1..Len(t) : i + 1 \in 1..Len(m) /\ i + 1 # 1 /\ t[i] = m[i + 1]
  BY <1>1
<1>3. 1 \in 1..Len(m) /\ \A i \in 1..Len(m) : i = 1 \/ (i - 1 \in 1..Len(t) /\ t[i - 1] = m[i])
  BY <1>1
<1>4. Absent(kind, m, q) <=> Head(m).kind # kind /\ Absent(kind, t, q)
  <2>1. ASSUME Absent(kind, m, q) PROVE Head(m).kind # kind /\ Absent(kind, t, q)
    BY <1>1, <1>2, <1>3, <2>1 DEF Absent
  <2>2. ASSUME Head(m).kind # kind, Absent(kind, t, q) PROVE Absent(kind, m, q)
    BY <1>1, <1>3, <2>2 DEF Absent
  <2>3. QED
    BY <2>1, <2>2
<1>5. ASSUME Sole(kind, m, q) PROVE Sole(kind, t, q)
  <2>1. ASSUME NEW i \in 1..Len(t), NEW j \in 1..Len(t), t[i].kind = kind, t[j].kind = kind
        PROVE  i = j
    <3>1. i + 1 = j + 1
      BY <1>2, <1>5, <2>1 DEF Sole
    <3>2. QED
      BY <3>1
  <2>2. ASSUME NEW i \in 1..Len(t), NEW j \in 1..Len(q) PROVE ~(t[i].kind = kind /\ q[j].kind = kind)
    BY <1>2, <1>5 DEF Sole
  <2>3. QED
    BY <1>5, <2>1, <2>2 DEF Sole
<1>6. ASSUME Sole(kind, m, q), Head(m).kind = kind PROVE Absent(kind, t, q)
  <2>1. ASSUME NEW i \in 1..Len(t) PROVE t[i].kind # kind
    BY <1>1, <1>2, <1>3, <1>6 DEF Sole
  <2>2. QED
    BY <1>1, <1>3, <1>6, <2>1 DEF Sole, Absent
<1>7. QED
  BY <1>4, <1>5, <1>6 DEF t

\* A request taken from among the queries.
LEMMA TakenQuery ==
    ASSUME NEW S, NEW q \in Seq(S), NEW i \in 1..Len(q), NEW m, NEW kind
    PROVE  /\ Absent(kind, m, q) <=> q[i].kind # kind /\ Absent(kind, m, RemoveAt(q, i))
           /\ Sole(kind, m, q) => /\ Sole(kind, m, RemoveAt(q, i))
                                  /\ q[i].kind = kind => Absent(kind, m, RemoveAt(q, i))
<1> DEFINE t == RemoveAt(q, i)
<1>1. /\ \A j \in 1..Len(t) : Was(i, j) \in 1..Len(q) /\ Was(i, j) # i /\ t[j] = q[Was(i, j)]
      /\ \A j, k \in 1..Len(t) : Was(i, j) = Was(i, k) => j = k
      /\ \A k \in 1..Len(q) : k # i => \E j \in 1..Len(t) : t[j] = q[k]
  BY RemoveAtFrom
<1> HIDE DEF t
<1>2. Absent(kind, m, q) <=> q[i].kind # kind /\ Absent(kind, m, t)
  <2>1. ASSUME Absent(kind, m, q) PROVE q[i].kind # kind /\ Absent(kind, m, t)
    BY <1>1, <2>1 DEF Absent
  <2>2. ASSUME q[i].kind # kind, Absent(kind, m, t) PROVE Absent(kind, m, q)
    BY <1>1, <2>2 DEF Absent
  <2>3. QED
    BY <2>1, <2>2
<1>3. ASSUME Sole(kind, m, q) PROVE Sole(kind, m, t)
  <2>1. ASSUME NEW j \in 1..Len(t), NEW k \in 1..Len(t), t[j].kind = kind, t[k].kind = kind
        PROVE  j = k
    <3>1. /\ Was(i, j) \in 1..Len(q) /\ q[Was(i, j)].kind = kind
          /\ Was(i, k) \in 1..Len(q) /\ q[Was(i, k)].kind = kind
      BY <1>1, <2>1
    <3>2. Was(i, j) = Was(i, k)
      BY <1>3, <3>1 DEF Sole
    <3>3. QED
      BY <1>1, <2>1, <3>2
  <2>2. ASSUME NEW j \in 1..Len(m), NEW k \in 1..Len(t) PROVE ~(m[j].kind = kind /\ t[k].kind = kind)
    BY <1>1, <1>3 DEF Sole
  <2>3. QED
    BY <1>3, <2>1, <2>2 DEF Sole
<1>4. ASSUME Sole(kind, m, q), q[i].kind = kind PROVE Absent(kind, m, t)
  <2>1. ASSUME NEW j \in 1..Len(t) PROVE t[j].kind # kind
    BY <1>1, <1>4 DEF Sole
  <2>2. QED
    BY <1>4, <2>1 DEF Sole, Absent
<1>5. QED
  BY <1>2, <1>3, <1>4 DEF t

\* A block more.
LEMMA AddedBlock ==
    ASSUME NEW S, NEW m \in Seq(S), NEW x \in S, NEW q, NEW kind
    PROVE  /\ Absent(kind, Append(m, x), q) <=> x.kind # kind /\ Absent(kind, m, q)
           /\ Sole(kind, m, q) /\ (x.kind = kind => Absent(kind, m, q)) => Sole(kind, Append(m, x), q)
<1> DEFINE t == Append(m, x)
           n == Len(m)
<1>1. n \in Nat /\ Len(t) = n + 1 /\ (\A i \in 1..n : t[i] = m[i]) /\ t[n + 1] = x
  BY AppendByIndex
<1>2. /\ \A i \in 1..Len(t) : i = n + 1 \/ i \in 1..n
      /\ n + 1 \in 1..Len(t) /\ \A i \in 1..n : i \in 1..Len(t)
  <2> HIDE DEF t, n
  <2>1. QED
    BY <1>1
<1> HIDE DEF t
<1>3. Absent(kind, t, q) <=> x.kind # kind /\ Absent(kind, m, q)
  <2>1. ASSUME Absent(kind, t, q) PROVE x.kind # kind /\ Absent(kind, m, q)
    BY <1>1, <1>2, <2>1 DEF Absent
  <2>2. ASSUME x.kind # kind, Absent(kind, m, q) PROVE Absent(kind, t, q)
    BY <1>1, <1>2, <2>2 DEF Absent
  <2>3. QED
    BY <2>1, <2>2
<1>4. ASSUME Sole(kind, m, q), x.kind = kind => Absent(kind, m, q) PROVE Sole(kind, t, q)
  <2>1. ASSUME NEW i \in 1..Len(t), NEW j \in 1..Len(t), t[i].kind = kind, t[j].kind = kind
        PROVE  i = j
    <3>1. CASE i \in 1..n /\ j \in 1..n
      BY <1>1, <1>4, <2>1, <3>1 DEF Sole
    <3>2. CASE i = n + 1 /\ j = n + 1
      BY <3>2
    <3>3. CASE i = n + 1 /\ j \in 1..n
      BY <1>1, <1>4, <2>1, <3>3 DEF Absent
    <3>4. CASE i \in 1..n /\ j = n + 1
      BY <1>1, <1>4, <2>1, <3>4 DEF Absent
    <3>5. QED
      BY <1>2, <3>1, <3>2, <3>3, <3>4
  <2>2. ASSUME NEW i \in 1..Len(t), NEW j \in 1..Len(q) PROVE ~(t[i].kind = kind /\ q[j].kind = kind)
    <3>1. CASE i \in 1..n
      BY <1>1, <1>4, <3>1 DEF Sole
    <3>2. CASE i = n + 1
      BY <1>1, <1>4, <3>2 DEF Absent
    <3>3. QED
      BY <1>2, <3>1, <3>2
  <2>3. QED
    BY <1>4, <2>1, <2>2 DEF Sole
<1>5. QED
  BY <1>3, <1>4 DEF t

\* A query more.
LEMMA AddedQuery ==
    ASSUME NEW S, NEW q \in Seq(S), NEW x \in S, NEW m, NEW kind
    PROVE  /\ Absent(kind, m, Append(q, x)) <=> x.kind # kind /\ Absent(kind, m, q)
           /\ Sole(kind, m, q) /\ (x.kind = kind => Absent(kind, m, q)) => Sole(kind, m, Append(q, x))
<1> DEFINE t == Append(q, x)
           n == Len(q)
<1>1. n \in Nat /\ Len(t) = n + 1 /\ (\A i \in 1..n : t[i] = q[i]) /\ t[n + 1] = x
  BY AppendByIndex
<1>2. /\ \A i \in 1..Len(t) : i = n + 1 \/ i \in 1..n
      /\ n + 1 \in 1..Len(t) /\ \A i \in 1..n : i \in 1..Len(t)
  <2> HIDE DEF t, n
  <2>1. QED
    BY <1>1
<1> HIDE DEF t
<1>3. Absent(kind, m, t) <=> x.kind # kind /\ Absent(kind, m, q)
  <2>1. ASSUME Absent(kind, m, t) PROVE x.kind # kind /\ Absent(kind, m, q)
    BY <1>1, <1>2, <2>1 DEF Absent
  <2>2. ASSUME x.kind # kind, Absent(kind, m, q) PROVE Absent(kind, m, t)
    BY <1>1, <1>2, <2>2 DEF Absent
  <2>3. QED
    BY <2>1, <2>2
<1>4. ASSUME Sole(kind, m, q), x.kind = kind => Absent(kind, m, q) PROVE Sole(kind, m, t)
  <2>1. ASSUME NEW i \in 1..Len(t), NEW j \in 1..Len(t), t[i].kind = kind, t[j].kind = kind
        PROVE  i = j
    <3>1. CASE i \in 1..n /\ j \in 1..n
      BY <1>1, <1>4, <2>1, <3>1 DEF Sole
    <3>2. CASE i = n + 1 /\ j = n + 1
      BY <3>2
    <3>3. CASE i = n + 1 /\ j \in 1..n
      BY <1>1, <1>4, <2>1, <3>3 DEF Absent
    <3>4. CASE i \in 1..n /\ j = n + 1
      BY <1>1, <1>4, <2>1, <3>4 DEF Absent
    <3>5. QED
      BY <1>2, <3>1, <3>2, <3>3, <3>4
  <2>2. ASSUME NEW i \in 1..Len(m), NEW j \in 1..Len(t) PROVE ~(m[i].kind = kind /\ t[j].kind = kind)
    <3>1. CASE j \in 1..n
      BY <1>1, <1>4, <3>1 DEF Sole
    <3>2. CASE j = n + 1
      BY <1>1, <1>4, <3>2 DEF Absent
    <3>3. QED
      BY <1>2, <3>1, <3>2
  <2>3. QED
    BY <1>4, <2>1, <2>2 DEF Sole
<1>5. QED
  BY <1>3, <1>4 DEF t
-----------------------------------------------------------------------------
(* Type correctness.                                                       *)

\* What a query finds is a list of posts.
LEMMA FoundTypes ==
    ASSUME TypeOK, NEW authors
    PROVE  OldestFirst(By(authors)) \in Seq(Posts) /\ NewestFirst(OldestFirst(By(authors))) \in Seq(Posts)
<1>1. By(authors) \subseteq Posts
  BY DEF TypeOK, By
<1>2. Lists(OldestFirst(By(authors)), By(authors))
  BY <1>1, OldestFirstLists
<1>3. OldestFirst(By(authors)) \in Seq(Posts)
  BY <1>1, <1>2, SeqMonotonic DEF Lists
<1>4. QED
  BY <1>3, NewestFirstSorts

LimitKept(q) == \A i \in 1..Len(q) : Cardinality(q[i].authors) \in 1..InLimit

\* A query that the SDK accepts keeps all of them ones it can run.
LEMMA LimitWithOneMore ==
    ASSUME NEW q \in Seq(Query), LimitKept(q), NEW x \in Query, Cardinality(x.authors) \in 1..InLimit
    PROVE  Append(q, x) \in Seq(Query) /\ LimitKept(Append(q, x))
<1>1. /\ Append(q, x) \in Seq(Query) /\ Len(q) \in Nat /\ Len(Append(q, x)) = Len(q) + 1
      /\ \A i \in 1..Len(q) : Append(q, x)[i] = q[i]
      /\ Append(q, x)[Len(q) + 1] = x
  BY AppendByIndex
<1>2. \A i \in 1..Len(q) + 1 : i \in 1..Len(q) \/ i = Len(q) + 1
  BY <1>1
<1>3. QED
  BY <1>1, <1>2 DEF LimitKept

\* So does one that is answered.
LEMMA LimitWithOneLess ==
    ASSUME NEW q \in Seq(Query), LimitKept(q), NEW i \in 1..Len(q)
    PROVE  RemoveAt(q, i) \in Seq(Query) /\ LimitKept(RemoveAt(q, i))
<1>1. RemoveAt(q, i) \in Seq(Query)
  BY RemoveAtByIndex
<1>2. ASSUME NEW j \in 1..Len(RemoveAt(q, i)) PROVE \E k \in 1..Len(q) : RemoveAt(q, i)[j] = q[k]
  <2>1. Was(i, j) \in 1..Len(q) /\ RemoveAt(q, i)[j] = q[Was(i, j)]
    BY RemoveAtFrom
  <2>2. QED
    BY <2>1
<1>3. QED
  BY <1>1, <1>2 DEF LimitKept

\* The first state has its shape.
LEMMA TypeInit == Init => TypeOK
<1> SUFFICES ASSUME Init PROVE TypeOK
  OBVIOUS
<1>1. /\ wall \subseteq Posts /\ known = FALSE /\ following = {} /\ up = FALSE /\ rows = 0
      /\ posts = <<>> /\ main = <<>> /\ queries = <<>> /\ stale = FALSE /\ calm = FALSE
  BY DEF Init
<1>2. posts \in Seq(Posts) /\ main \in Seq(Block) /\ queries \in Seq(Query) /\ Len(queries) = 0
  BY <1>1, EmptySeq
<1>3. following \subseteq Others /\ rows \in Nat
  BY <1>1
<1>4. \A i \in 1..Len(queries) : FALSE
  BY <1>2
<1>5. QED
  BY <1>1, <1>2, <1>3, <1>4 DEF TypeOK

\* Every step keeps it.
LEMMA TypeStep == TypeOK /\ [Next]_vars => TypeOK'
<1> SUFFICES ASSUME TypeOK, [Next]_vars PROVE TypeOK'
  OBVIOUS
<1>1. /\ wall \subseteq Posts /\ following \subseteq Others /\ posts \in Seq(Posts) /\ rows \in Nat
      /\ known \in BOOLEAN /\ up \in BOOLEAN /\ stale \in BOOLEAN /\ calm \in BOOLEAN
      /\ main \in Seq(Block) /\ queries \in Seq(Query)
  BY DEF TypeOK
<1>2. LimitKept(queries)
  BY DEF TypeOK, LimitKept
<1>3. Me \notin Others /\ IsFiniteSet(Others) /\ InLimit \in Nat /\ InLimit >= 1
  BY FeedAssumption
<1>4. ASSUME main # <<>>
      PROVE  Head(main) \in Block /\ Tail(main) \in Seq(Block)
  BY <1>1, <1>4, TailByIndex
<1>5. \A kind \in Kinds, f \in SUBSET (Others \cup {Me}) : Ask(kind, f) \in Block
  BY DEF Ask, Block
<1> DEFINE Parts == /\ wall' \subseteq Posts /\ following' \subseteq Others
                    /\ posts' \in Seq(Posts) /\ rows' \in Nat
                    /\ known' \in BOOLEAN /\ up' \in BOOLEAN /\ stale' \in BOOLEAN /\ calm' \in BOOLEAN
                    /\ main' \in Seq(Block) /\ queries' \in Seq(Query) /\ LimitKept(queries')
<1> SUFFICES Parts
  BY DEF TypeOK, LimitKept
<1>6. ASSUME NEW p \in Posts, Publish(p) \/ Delete(p) PROVE Parts
  BY <1>1, <1>2, <1>6 DEF Publish, Delete, screen
<1>7. ASSUME NEW f \in SUBSET Others, LoadUser(f) PROVE Parts
  BY <1>1, <1>2, <1>7 DEF LoadUser, screen
<1>8. CASE Refresh
  <2>1. main' \in Seq(Block)
    <3>1. Ask("following", following) \in Block /\ Ask("own", {Me}) \in Block
      BY <1>1, <1>5 DEF Kinds
    <3>2. QED
      BY <1>1, <1>8, <3>1 DEF Refresh
  <2>2. calm' \in BOOLEAN
    BY <1>8 DEF Refresh
  <2>3. QED
    BY <1>1, <1>2, <1>8, <2>1, <2>2 DEF Refresh, screen
<1>9. CASE AskFollowing
  <2> DEFINE f == Head(main).authors
  <2>1. /\ main # <<>> /\ main' = Tail(main) /\ posts' = <<>> /\ Cardinality(f) <= InLimit
        /\ queries' = IF f = {} THEN queries ELSE Append(queries, [kind |-> "following", authors |-> f])
    BY <1>9 DEF AskFollowing, NextBlock
  <2>2. f \subseteq Others \cup {Me} /\ main' \in Seq(Block)
    BY <1>4, <2>1 DEF Block
  <2> HIDE DEF f
  <2>3. queries' \in Seq(Query) /\ LimitKept(queries')
    <3>1. CASE f = {}
      BY <1>1, <1>2, <2>1, <3>1
    <3>2. CASE f # {}
      <4>1. IsFiniteSet(Others \cup {Me})
        BY <1>3, FS_AddElement
      <4>2. IsFiniteSet(f)
        BY <2>2, <4>1, FS_Subset
      <4>3. Cardinality(f) \in Nat /\ Cardinality(f) # 0
        BY <3>2, <4>2, FS_CardinalityType, FS_EmptySet
      <4>4. Cardinality(f) \in 1..InLimit
        BY <1>3, <2>1, <4>3
      <4>5. [kind |-> "following", authors |-> f] \in Query
        BY <2>2 DEF Query, Kinds
      <4>6. QED
        BY <1>1, <1>2, <2>1, <3>2, <4>4, <4>5, LimitWithOneMore
    <3>3. QED
      BY <3>1, <3>2
  <2>4. QED
    BY <1>1, <1>9, <2>1, <2>2, <2>3 DEF AskFollowing
<1>10. CASE AskOwn
  <2>1. /\ main # <<>> /\ main' = Tail(main)
        /\ queries' = Append(queries, [kind |-> "own", authors |-> {Me}])
    BY <1>10 DEF AskOwn, NextBlock
  <2>2. queries' \in Seq(Query) /\ LimitKept(queries')
    <3>1. Cardinality({Me}) \in 1..InLimit
      BY <1>3, FS_Singleton
    <3>2. [kind |-> "own", authors |-> {Me}] \in Query
      BY DEF Query, Kinds
    <3>3. QED
      BY <1>1, <1>2, <2>1, <3>1, <3>2, LimitWithOneMore
  <2>3. QED
    BY <1>1, <1>4, <1>10, <2>1, <2>2 DEF AskOwn, screen
<1>11. ASSUME NEW i \in 1..Len(queries), Answer(i) PROVE Parts
  <2>1. queries' = RemoveAt(queries, i)
    BY <1>11 DEF Answer
  <2>2. queries' \in Seq(Query) /\ LimitKept(queries')
    BY <1>1, <1>2, <2>1, LimitWithOneLess
  <2>3. main' \in Seq(Block)
    <3> DEFINE q == queries[i]
               x == [step |-> "take", kind |-> q.kind, authors |-> q.authors,
                     found |-> IF q.kind = "own" THEN NewestFirst(OldestFirst(By(q.authors)))
                               ELSE OldestFirst(By(q.authors))]
    <3>1. q \in Query
      BY <1>1
    <3>2. q.kind \in Kinds /\ q.authors \subseteq Others \cup {Me}
      BY <3>1 DEF Query
    <3>3. x.found \in Seq(Posts)
      BY FoundTypes
    <3>4. x \in Block
      BY <3>2, <3>3 DEF Block
    <3>5. main' = Append(main, x)
      BY <1>11 DEF Answer
    <3> HIDE DEF x
    <3>6. QED
      BY <1>1, <3>4, <3>5
  <2>4. QED
    BY <1>1, <1>11, <2>2, <2>3 DEF Answer, screen
<1>12. ASSUME NEW i \in 1..Len(queries), QueryFails(i) PROVE Parts
  <2>1. queries' = RemoveAt(queries, i)
    BY <1>12 DEF QueryFails
  <2>2. queries' \in Seq(Query) /\ LimitKept(queries')
    BY <1>1, <1>2, <2>1, LimitWithOneLess
  <2>3. stale' \in BOOLEAN /\ calm' \in BOOLEAN
    BY <1>12 DEF QueryFails
  <2>4. QED
    BY <1>1, <1>12, <2>2, <2>3 DEF QueryFails, screen
<1>13. CASE TakeFollowing
  <2>1. /\ main # <<>> /\ main' = Tail(main) /\ posts' = Head(main).found
        /\ stale' \in BOOLEAN /\ calm' \in BOOLEAN
    BY <1>13 DEF TakeFollowing, NextBlock
  <2>2. posts' \in Seq(Posts) /\ main' \in Seq(Block)
    BY <1>4, <2>1 DEF Block
  <2>3. QED
    BY <1>1, <1>2, <1>13, <2>1, <2>2 DEF TakeFollowing
<1>14. CASE TakeOwn
  <2>1. main # <<>> /\ main' = Append(Tail(main), [Head(main) EXCEPT !.step = "append"])
    BY <1>14 DEF TakeOwn, NextBlock
  <2>2. [Head(main) EXCEPT !.step = "append"] \in Block
    BY <1>4, <2>1 DEF Block
  <2>3. main' \in Seq(Block)
    BY <1>4, <2>1, <2>2
  <2>4. QED
    BY <1>1, <1>2, <1>14, <2>3 DEF TakeOwn, screen
<1>15. CASE AppendOwn
  <2>1. /\ main # <<>> /\ main' = Tail(main) /\ posts' = NewestFirst(posts \o Head(main).found)
        /\ rows' = Len(posts') /\ stale' = FALSE
    BY <1>15 DEF AppendOwn, NextBlock
  <2>2. Head(main).found \in Seq(Posts) /\ main' \in Seq(Block)
    BY <1>4, <2>1 DEF Block
  <2>3. posts \o Head(main).found \in Seq(Posts)
    BY <1>1, <2>2
  <2>4. posts' \in Seq(Posts)
    BY <2>1, <2>3, NewestFirstSorts
  <2>5. rows' \in Nat
    BY <2>1, <2>4
  <2>6. QED
    BY <1>1, <1>2, <1>15, <2>1, <2>2, <2>4, <2>5 DEF AppendOwn
<1>16. ASSUME Stop PROVE Parts
  <2>1. /\ posts' = <<>> /\ main' = <<>> /\ queries' = <<>> /\ rows' = 0
        /\ up' = FALSE /\ stale' = FALSE /\ calm' = FALSE
        /\ wall' = wall /\ known' = known /\ following' = following
    BY <1>16 DEF Stop
  <2>2. posts' \in Seq(Posts) /\ main' \in Seq(Block) /\ queries' \in Seq(Query) /\ Len(queries') = 0
    BY <2>1, EmptySeq
  <2>3. LimitKept(queries')
    BY <2>2 DEF LimitKept
  <2>4. QED
    BY <1>1, <2>1, <2>2, <2>3
<1>17. CASE Launch
  <2>1. known' \in BOOLEAN /\ following' \subseteq Others /\ up' = TRUE
    BY <1>17 DEF Launch
  <2>2. QED
    BY <1>1, <1>2, <1>17, <2>1 DEF Launch, screen
<1>18. CASE UNCHANGED vars
  BY <1>1, <1>2, <1>18 DEF vars
<1>19. CASE TooManyFollowed \/ ShowMissingRow
  BY <1>16, <1>19 DEF TooManyFollowed, ShowMissingRow
<1>20. QED
  <2> HIDE DEF Parts
  <2>1. QED
    BY <1>6, <1>7, <1>8, <1>9, <1>10, <1>11, <1>12, <1>13, <1>14, <1>15, <1>17, <1>18, <1>19 DEF Next

\* Every variable has its shape in every state, and no query under way has
\* more authors than the SDK supports, or none.
THEOREM TypeCorrect == Spec => []TypeOK
<1>1. QED
  BY TypeInit, TypeStep, PTL DEF Spec
-----------------------------------------------------------------------------
(* The table and the array.                                                *)

\* One's own posts are on their way when a request for them is under way.
LEMMA PendingIs ==
    /\ OwnPending <=> ~Absent("own", main, queries)
    /\ OwnPending' <=> ~Absent("own", main', queries')
  BY DEF OwnPending, Absent

\* The block behind the one that asks for the followed posts is still there
\* when that one has run.
LEMMA AskLeavesOwn ==
    ASSUME TypeOK, OwnBehind, AskFollowing
    PROVE  OwnPending /\ OwnPending'
<1>1. main \in Seq(Block) /\ queries \in Seq(Query)
  BY DEF TypeOK
<1>2. main # <<>> /\ Head(main).step = "ask" /\ Head(main).kind = "following" /\ main' = Tail(main)
  BY DEF AskFollowing, NextBlock
<1>3. Len(main) \in Nat /\ Len(main) >= 1 /\ Head(main) = main[1]
  BY <1>1, <1>2, TailByIndex
<1>4. PICK j \in 1..Len(main) : main[j].kind = "own"
  BY <1>2, <1>3 DEF OwnBehind
<1>5. ~Absent("own", main, queries)
  BY <1>4 DEF Absent
<1>6. ~Absent("own", Tail(main), queries)
  BY <1>1, <1>2, <1>5, TakenBlock
<1>7. ~Absent("own", main', queries')
  <2> DEFINE f == Head(main).authors
             x == [kind |-> "following", authors |-> f]
  <2>1. queries' = IF f = {} THEN queries ELSE Append(queries, x)
    BY DEF AskFollowing
  <2>2. x \in Query
    <3>1. Head(main) \in Block
      BY <1>1, <1>2, TailByIndex
    <3>2. QED
      BY <3>1 DEF Block, Query, Kinds
  <2>3. Absent("own", Tail(main), Append(queries, x)) => Absent("own", Tail(main), queries)
    BY <1>1, <2>2, AddedQuery
  <2> HIDE DEF x, f
  <2>4. QED
    BY <1>2, <1>6, <2>1, <2>3
<1>8. QED
  BY <1>5, <1>7, PendingIs

\* No step but a reload leaves the table with rows the array does not have,
\* unless one's own posts are to come or have failed to.
LEMMA RowsStep ==
    ASSUME TypeOK, RowsAreInArray, OwnBehind, [Next]_vars
    PROVE  RowsAreInArray'
<1>1. main \in Seq(Block) /\ queries \in Seq(Query) /\ posts \in Seq(Posts) /\ rows \in Nat
  BY DEF TypeOK
<1> DEFINE Held == UNCHANGED <<rows, posts, stale>> /\ (OwnPending => OwnPending')
<1>2. ASSUME Held PROVE RowsAreInArray'
  BY <1>2 DEF RowsAreInArray
<1>3. ASSUME UNCHANGED <<main, queries>> PROVE OwnPending <=> OwnPending'
  BY <1>3, PendingIs
<1>4. CASE Refresh
  <2>1. PICK m \in Seq(Block) : main' = Append(m, Ask("own", {Me}))
    <3>1. Ask("following", following) \in Block /\ Ask("own", {Me}) \in Block
      BY DEF TypeOK, Ask, Block, Kinds
    <3> DEFINE m == main \o (IF known THEN <<Ask("following", following)>> ELSE <<>>)
    <3>2. m \in Seq(Block)
      BY <1>1, <3>1
    <3>3. main' = m \o <<Ask("own", {Me})>>
      BY <1>4 DEF Refresh
    <3> HIDE DEF m
    <3>4. main' = Append(m, Ask("own", {Me}))
      BY <3>1, <3>2, <3>3, AppendIsConcat
    <3>5. QED
      BY <3>2, <3>4
  <2>2. Ask("own", {Me}) \in Block /\ Ask("own", {Me}).kind = "own"
    BY DEF Ask, Block, Kinds
  <2>3. ~Absent("own", main', queries')
    BY <2>1, <2>2, AddedBlock
  <2>4. QED
    BY <2>3, PendingIs DEF RowsAreInArray
<1>5. CASE AskFollowing
  BY <1>5, AskLeavesOwn DEF RowsAreInArray
<1>6. CASE AskOwn
  <2>1. [kind |-> "own", authors |-> {Me}] \in Query
    BY DEF Query, Kinds
  <2>2. ~Absent("own", main', queries')
    <3>1. queries' = Append(queries, [kind |-> "own", authors |-> {Me}])
      BY <1>6 DEF AskOwn
    <3>2. QED
      BY <1>1, <2>1, <3>1, AddedQuery
  <2>3. QED
    BY <2>2, PendingIs DEF RowsAreInArray
<1>7. ASSUME NEW i \in 1..Len(queries), Answer(i) PROVE RowsAreInArray'
  <2>1. PICK x \in Block : main' = Append(main, x) /\ x.kind = queries[i].kind
    <3> DEFINE q == queries[i]
               x == [step |-> "take", kind |-> q.kind, authors |-> q.authors,
                     found |-> IF q.kind = "own" THEN NewestFirst(OldestFirst(By(q.authors)))
                               ELSE OldestFirst(By(q.authors))]
    <3>1. q \in Query
      BY <1>1
    <3>2. x.found \in Seq(Posts)
      BY FoundTypes
    <3>3. x \in Block
      BY <3>1, <3>2 DEF Block, Query
    <3>4. main' = Append(main, x)
      BY <1>7 DEF Answer
    <3>5. QED
      BY <3>3, <3>4
  <2>2. /\ Absent("own", main, queries) <=>
              queries[i].kind # "own" /\ Absent("own", main, RemoveAt(queries, i))
        /\ Absent("own", main', RemoveAt(queries, i)) <=>
              x.kind # "own" /\ Absent("own", main, RemoveAt(queries, i))
    BY <1>1, <2>1, TakenQuery, AddedBlock
  <2>3. queries' = RemoveAt(queries, i) /\ UNCHANGED <<rows, posts, stale>>
    BY <1>7 DEF Answer, screen
  <2>4. OwnPending => OwnPending'
    BY <2>1, <2>2, <2>3, PendingIs
  <2>5. QED
    BY <1>2, <2>3, <2>4
<1>8. ASSUME NEW i \in 1..Len(queries), QueryFails(i) PROVE RowsAreInArray'
  <2>1. /\ queries' = RemoveAt(queries, i) /\ main' = main /\ UNCHANGED <<rows, posts>>
        /\ stale' = (stale \/ queries[i].kind = "own")
    BY <1>8 DEF QueryFails, screen
  <2>2. Absent("own", main, queries) <=> queries[i].kind # "own" /\ Absent("own", main, RemoveAt(queries, i))
    BY <1>1, TakenQuery
  <2>3. OwnPending => OwnPending' \/ queries[i].kind = "own"
    BY <2>1, <2>2, PendingIs
  <2>4. QED
    BY <2>1, <2>3 DEF RowsAreInArray
<1>9. CASE TakeFollowing
  <2>1. /\ main # <<>> /\ Head(main).kind = "following" /\ main' = Tail(main) /\ queries' = queries
        /\ stale' = (stale \/ ~OwnPending)
    BY <1>9 DEF TakeFollowing, NextBlock
  <2>2. OwnPending => OwnPending'
    BY <1>1, <2>1, TakenBlock, PendingIs
  <2>3. QED
    BY <2>1, <2>2 DEF RowsAreInArray
<1>10. CASE TakeOwn
  <2> DEFINE x == [Head(main) EXCEPT !.step = "append"]
  <2>1. /\ main # <<>> /\ Head(main).kind = "own" /\ main' = Append(Tail(main), x)
    BY <1>10 DEF TakeOwn, NextBlock
  <2>2. x \in Block /\ x.kind = "own" /\ Tail(main) \in Seq(Block)
    <3>1. Head(main) \in Block /\ Tail(main) \in Seq(Block)
      BY <1>1, <2>1, TailByIndex
    <3>2. QED
      BY <2>1, <3>1 DEF Block
  <2> HIDE DEF x
  <2>3. ~Absent("own", main', queries')
    BY <2>1, <2>2, AddedBlock
  <2>4. QED
    BY <2>3, PendingIs DEF RowsAreInArray
<1>11. CASE AppendOwn
  <2>1. TypeOK'
    BY TypeStep
  <2>2. rows' = Len(posts') /\ posts' \in Seq(Posts)
    BY <1>11, <2>1 DEF AppendOwn, TypeOK
  <2>3. rows' \in Nat /\ ~(rows' > Len(posts'))
    BY <2>2
  <2>4. QED
    BY <2>3 DEF RowsAreInArray
<1>12. CASE TooManyFollowed \/ ShowMissingRow
  <2>1. rows' = 0 /\ posts' = <<>>
    BY <1>12 DEF TooManyFollowed, ShowMissingRow, Stop
  <2>2. Len(posts') = 0
    BY <2>1
  <2>3. ~(rows' > Len(posts'))
    BY <2>1, <2>2
  <2>4. QED
    BY <2>3 DEF RowsAreInArray
<1>13. CASE UNCHANGED vars
  BY <1>2, <1>3, <1>13 DEF vars
<1>14. CASE Launch
  BY <1>2, <1>3, <1>14 DEF Launch, screen
<1>15. ASSUME NEW p \in Posts, Publish(p) \/ Delete(p) PROVE RowsAreInArray'
  BY <1>2, <1>3, <1>15 DEF Publish, Delete, screen
<1>16. ASSUME NEW f \in SUBSET Others, LoadUser(f) PROVE RowsAreInArray'
  BY <1>2, <1>3, <1>16 DEF LoadUser, screen
<1>17. QED
  BY <1>4, <1>5, <1>6, <1>7, <1>8, <1>9, <1>10, <1>11, <1>12, <1>13, <1>14, <1>15, <1>16 DEF Next

\* A block for one's own posts stays behind each that asks for the followed
\* ones: the main queue runs its blocks in turn.
LEMMA BehindStep ==
    ASSUME TypeOK, OwnBehind, [Next]_vars
    PROVE  OwnBehind'
<1>1. main \in Seq(Block) /\ Len(main) \in Nat
  BY DEF TypeOK
<1> DEFINE Ordered(m) == \A i \in 1..Len(m) : m[i].step = "ask" /\ m[i].kind = "following" =>
                             \E j \in 1..Len(m) : i < j /\ m[j].kind = "own"
<1>2. Ordered(main)
  BY DEF OwnBehind
<1>3. SUFFICES Ordered(main')
  BY DEF OwnBehind
<1>4. ASSUME main # <<>> PROVE Ordered(Tail(main)) /\ Tail(main) \in Seq(Block)
  <2> DEFINE t == Tail(main)
  <2>1. /\ t \in Seq(Block) /\ Len(t) = Len(main) - 1
        /\ \A i \in 1..Len(main) - 1 : t[i] = main[i + 1]
    BY <1>1, <1>4, TailByIndex
  <2> HIDE DEF t
  <2>2. ASSUME NEW i \in 1..Len(t), t[i].step = "ask", t[i].kind = "following"
        PROVE  \E j \in 1..Len(t) : i < j /\ t[j].kind = "own"
    <3>1. i + 1 \in 1..Len(main) /\ main[i + 1] = t[i]
      BY <1>1, <2>1
    <3>2. PICK j \in 1..Len(main) : i + 1 < j /\ main[j].kind = "own"
      BY <1>2, <2>2, <3>1
    <3>3. j - 1 \in 1..Len(t) /\ i < j - 1 /\ (j - 1) + 1 = j
      BY <1>1, <2>1, <3>2
    <3>4. t[j - 1] = main[j]
      BY <1>1, <2>1, <3>3
    <3>5. QED
      BY <3>2, <3>3, <3>4
  <2>3. QED
    BY <2>1, <2>2 DEF t
<1>5. ASSUME NEW m \in Seq(Block), Ordered(m), NEW x \in Block, x.step # "ask" \/ x.kind = "own"
      PROVE  Ordered(Append(m, x))
  <2> DEFINE t == Append(m, x)
  <2>1. /\ Len(m) \in Nat /\ Len(t) = Len(m) + 1 /\ t[Len(m) + 1] = x
        /\ \A i \in 1..Len(m) : t[i] = m[i]
    BY AppendByIndex
  <2> HIDE DEF t
  <2>2. ASSUME NEW i \in 1..Len(t), t[i].step = "ask", t[i].kind = "following"
        PROVE  \E j \in 1..Len(t) : i < j /\ t[j].kind = "own"
    <3>1. i # Len(m) + 1
      BY <1>5, <2>1, <2>2
    <3>2. i \in 1..Len(m) /\ t[i] = m[i]
      BY <2>1, <3>1
    <3>3. PICK j \in 1..Len(m) : i < j /\ m[j].kind = "own"
      BY <1>5, <2>2, <3>2
    <3>4. j \in 1..Len(t) /\ t[j] = m[j]
      BY <2>1
    <3>5. QED
      BY <3>3, <3>4
  <2>3. QED
    BY <2>2 DEF t
<1>6. CASE Refresh
  <2> DEFINE o == Ask("own", {Me})
             g == Ask("following", following)
  <2>1. o \in Block /\ g \in Block /\ o.kind = "own"
    BY DEF TypeOK, Ask, Block, Kinds
  <2>2. CASE known
    <3>1. main' = Append(Append(main, g), o)
      BY <1>1, <1>6, <2>1, <2>2 DEF Refresh
    <3> DEFINE t == Append(Append(main, g), o)
    <3>2. /\ Len(t) = Len(main) + 2 /\ t[Len(main) + 1] = g /\ t[Len(main) + 2] = o
          /\ \A i \in 1..Len(main) : t[i] = main[i]
      <4> HIDE DEF o, g
      <4>1. QED
        BY <1>1, <2>1
    <3> HIDE DEF t, o, g
    <3>3. ASSUME NEW i \in 1..Len(t), t[i].step = "ask", t[i].kind = "following"
          PROVE  \E j \in 1..Len(t) : i < j /\ t[j].kind = "own"
      <4>1. i # Len(main) + 2
        BY <2>1, <3>2, <3>3
      <4>2. Len(main) + 2 \in 1..Len(t) /\ i < Len(main) + 2
        BY <1>1, <3>2, <4>1
      <4>3. QED
        BY <2>1, <3>2, <4>2
    <3>4. QED
      BY <3>1, <3>3 DEF t
  <2>3. CASE ~known
    <3>1. main' = Append(main, o)
      BY <1>1, <1>6, <2>1, <2>3 DEF Refresh
    <3> HIDE DEF o
    <3>2. QED
      BY <1>1, <1>2, <1>5, <2>1, <3>1
  <2>4. QED
    BY <2>2, <2>3
<1>7. CASE AskFollowing \/ AskOwn \/ TakeFollowing \/ AppendOwn
  <2>1. main # <<>> /\ main' = Tail(main)
    BY <1>7 DEF AskFollowing, AskOwn, TakeFollowing, AppendOwn, NextBlock
  <2>2. QED
    BY <1>4, <2>1
<1>8. CASE TakeOwn
  <2> DEFINE x == [Head(main) EXCEPT !.step = "append"]
  <2>1. main # <<>> /\ main' = Append(Tail(main), x)
    BY <1>8 DEF TakeOwn, NextBlock
  <2>2. x \in Block /\ x.step # "ask"
    <3>1. Head(main) \in Block
      BY <1>1, <2>1, TailByIndex
    <3>2. QED
      BY <3>1 DEF Block
  <2> HIDE DEF x, Ordered
  <2>3. Ordered(Tail(main)) /\ Tail(main) \in Seq(Block)
    BY <1>4, <2>1
  <2>4. QED
    BY <1>5, <2>1, <2>2, <2>3
<1>9. ASSUME NEW i \in 1..Len(queries), Answer(i) PROVE Ordered(main')
  <2> DEFINE q == queries[i]
             x == [step |-> "take", kind |-> q.kind, authors |-> q.authors,
                   found |-> IF q.kind = "own" THEN NewestFirst(OldestFirst(By(q.authors)))
                             ELSE OldestFirst(By(q.authors))]
  <2>1. q \in Query
    BY DEF TypeOK
  <2>2. x.found \in Seq(Posts)
    BY FoundTypes
  <2>3. x \in Block /\ x.step # "ask"
    BY <2>1, <2>2 DEF Block, Query
  <2>4. main' = Append(main, x)
    BY <1>9 DEF Answer
  <2> HIDE DEF x
  <2>5. QED
    BY <1>1, <1>2, <1>5, <2>3, <2>4
<1>10. CASE TooManyFollowed \/ ShowMissingRow
  <2>1. main' = <<>>
    BY <1>10 DEF TooManyFollowed, ShowMissingRow, Stop
  <2>2. Len(main') = 0
    BY <2>1
  <2>3. QED
    BY <2>2
<1>11. ASSUME main' = main PROVE Ordered(main')
  BY <1>2, <1>11
<1>12. CASE UNCHANGED vars
  BY <1>11, <1>12 DEF vars
<1>13. CASE Launch
  BY <1>11, <1>13 DEF Launch
<1>14. ASSUME NEW p \in Posts, Publish(p) \/ Delete(p) PROVE Ordered(main')
  BY <1>11, <1>14 DEF Publish, Delete
<1>15. ASSUME NEW f \in SUBSET Others, LoadUser(f) PROVE Ordered(main')
  BY <1>11, <1>15 DEF LoadUser
<1>16. ASSUME NEW i \in 1..Len(queries), QueryFails(i) PROVE Ordered(main')
  BY <1>11, <1>16 DEF QueryFails
<1>17. QED
  <2> HIDE DEF Ordered
  <2>1. QED
    BY <1>6, <1>7, <1>8, <1>9, <1>10, <1>12, <1>13, <1>14, <1>15, <1>16 DEF Next
-----------------------------------------------------------------------------
(* An undisturbed refresh.                                                 *)

\* What is on its way stays right as long as the posts and the followed users
\* do, and what joins it is right.
LEMMA BringsStep ==
    ASSUME BringsPosts, wall' = wall, following' = following,
           \A i \in 1..Len(main') : Brings(main'[i]) \/ \E j \in 1..Len(main) : main'[i] = main[j],
           \A i \in 1..Len(queries') :
              Asks(queries'[i]) \/ \E j \in 1..Len(queries) : queries'[i] = queries[j]
    PROVE  BringsPosts'
<1>1. By(following)' = By(following) /\ By({Me})' = By({Me})
  BY DEF By
<1>2. Followed' = Followed /\ Own' = Own
  BY <1>1 DEF Followed, Own
<1>3. ASSUME NEW i \in 1..Len(main') PROVE Brings(main[i])'
  <2>1. Brings(main'[i])
    BY DEF BringsPosts
  <2>2. QED
    BY <1>2, <2>1 DEF Brings
<1>4. ASSUME NEW i \in 1..Len(queries') PROVE Asks(queries[i])'
  <2>1. Asks(queries'[i])
    BY DEF BringsPosts
  <2>2. QED
    BY <2>1 DEF Asks
<1>5. QED
  BY <1>3, <1>4 DEF BringsPosts

\* The posts that are shown stay so, too.
LEMMA ShownSame ==
    ASSUME wall' = wall, following' = following
    PROVE  Followed' = Followed /\ Own' = Own /\ Whole' = Whole
<1>1. By(following)' = By(following) /\ By({Me})' = By({Me})
      /\ By(following \cup {Me})' = By(following \cup {Me})
  BY DEF By
<1>2. QED
  BY <1>1 DEF Followed, Own, Whole

\* The blocks behind the first were there before.
LEMMA TailFrom ==
    ASSUME NEW S, NEW m \in Seq(S), m # <<>>
    PROVE  \A i \in 1..Len(Tail(m)) : \E j \in 1..Len(m) : Tail(m)[i] = m[j]
<1>1. /\ Len(m) \in Nat /\ Len(Tail(m)) = Len(m) - 1
      /\ \A i \in 1..Len(m) - 1 : Tail(m)[i] = m[i + 1]
  BY TailByIndex
<1>2. \A i \in 1..Len(m) - 1 : i + 1 \in 1..Len(m)
  BY <1>1
<1>3. QED
  BY <1>1, <1>2

\* So were those a new element joins.
LEMMA AppendFrom ==
    ASSUME NEW S, NEW m \in Seq(S), NEW x \in S
    PROVE  \A i \in 1..Len(Append(m, x)) :
              Append(m, x)[i] = x \/ \E j \in 1..Len(m) : Append(m, x)[i] = m[j]
<1>1. /\ Len(m) \in Nat /\ Len(Append(m, x)) = Len(m) + 1
      /\ Append(m, x)[Len(m) + 1] = x
      /\ \A i \in 1..Len(m) : Append(m, x)[i] = m[i]
  BY AppendByIndex
<1>2. \A i \in 1..Len(m) + 1 : i \in 1..Len(m) \/ i = Len(m) + 1
  BY <1>1
<1>3. QED
  BY <1>1, <1>2

\* A refresh with nothing else under way asks for both.
LEMMA CalmRefresh == ASSUME TypeOK, Refresh, calm' PROVE Calm'
<1> DEFINE g == Ask("following", following)
           o == Ask("own", {Me})
<1>1. /\ up /\ up' = up /\ main = <<>> /\ queries = <<>> /\ queries' = queries
      /\ known /\ main \in Seq(Block)
  BY DEF Refresh, Quiet, TypeOK
<1>2. /\ g.kind = "following" /\ g.step = "ask" /\ g.authors = following
      /\ o.kind = "own" /\ o.step = "ask" /\ g \in Block /\ o \in Block
  BY DEF TypeOK, Ask, Block, Kinds
<1>3. Len(main') = 2 /\ main'[1] = g /\ main'[2] = o /\ Len(queries') = 0
  <2>1. main' = Append(Append(main, g), o)
    BY <1>1, <1>2 DEF Refresh
  <2> HIDE DEF g, o
  <2>2. Len(main) = 0
    BY <1>1
  <2>3. QED
    BY <1>1, <1>2, <2>1, <2>2
<1> HIDE DEF g, o
<1>4. \A i \in 1..Len(main') : i = 1 \/ i = 2
  BY <1>3
<1>5. \A i \in 1..Len(queries') : FALSE
  BY <1>3
<1>6. InOnePlace'
  BY <1>2, <1>3, <1>4, <1>5 DEF InOnePlace, Sole
<1>7. following' = following
  BY DEF Refresh
<1>8. BringsPosts'
  BY <1>2, <1>3, <1>4, <1>5, <1>7 DEF BringsPosts, Brings
<1>9. ~Absent("following", main', queries')
  BY <1>2, <1>3 DEF Absent
<1>10. QED
  BY <1>1, <1>6, <1>8, <1>9 DEF Calm, Shows

\* The block that asks for the followed posts.
LEMMA CalmAskFollowing ==
    ASSUME TypeOK, OwnBehind, Calm, AskFollowing
    PROVE  Calm'
<1> DEFINE f == Head(main).authors
           x == [kind |-> "following", authors |-> f]
<1>1. main \in Seq(Block) /\ queries \in Seq(Query)
  BY DEF TypeOK
<1>2. /\ main # <<>> /\ Head(main).step = "ask" /\ Head(main).kind = "following" /\ main' = Tail(main)
      /\ queries' = (IF f = {} THEN queries ELSE Append(queries, x))
      /\ posts' = <<>> /\ UNCHANGED <<wall, following, up>>
  BY DEF AskFollowing, NextBlock
<1>3. Head(main) \in Block /\ Tail(main) \in Seq(Block) /\ 1 \in 1..Len(main) /\ Head(main) = main[1]
  BY <1>1, <1>2, TailByIndex
<1>4. f = following
  <2>1. Brings(main[1])
    BY <1>3 DEF Calm, BringsPosts
  <2>2. QED
    BY <1>2, <1>3, <2>1 DEF Brings
<1>5. x \in Query /\ x.kind = "following" /\ x.authors = following
  BY <1>3, <1>4 DEF Block, Query, Kinds
<1> HIDE DEF f, x
<1>6. ASSUME NEW kind \in Kinds PROVE Sole(kind, main', queries')
  <2>1. Sole(kind, main, queries)
    BY DEF Calm, InOnePlace
  <2>2. Sole(kind, Tail(main), queries) /\ (kind = "following" => Absent(kind, Tail(main), queries))
    BY <1>1, <1>2, <2>1, TakenBlock
  <2>3. Sole(kind, Tail(main), Append(queries, x))
    BY <1>1, <1>5, <2>2, AddedQuery
  <2>4. QED
    BY <1>2, <2>2, <2>3
<1>7. BringsPosts'
  <2>1. BringsPosts /\ Asks(x)
    BY <1>5 DEF Calm, Asks
  <2>2. \A i \in 1..Len(main') : \E j \in 1..Len(main) : main'[i] = main[j]
    BY <1>1, <1>2, TailFrom
  <2>3. \A i \in 1..Len(queries') : queries'[i] = x \/ \E j \in 1..Len(queries) : queries'[i] = queries[j]
    <3>1. CASE f = {}
      BY <1>2, <3>1
    <3>2. CASE f # {}
      BY <1>1, <1>2, <1>5, <3>2, AppendFrom
    <3>3. QED
      BY <3>1, <3>2
  <2>4. QED
    BY <1>2, <2>1, <2>2, <2>3, BringsStep
<1>8. Shows'
  <2>1. SUFFICES ASSUME Absent("following", main', queries')
                 PROVE  OwnPending' /\ posts' = Followed'
    BY DEF Shows
  <2>2. f = {}
    <3>1. ~Absent("following", main', Append(queries, x))
      BY <1>1, <1>5, AddedQuery
    <3>2. QED
      BY <1>2, <2>1, <3>1
  <2>3. Followed = <<>>
    BY <1>4, <2>2, FeedFromParts
  <2>4. QED
    BY <1>2, <2>3, AskLeavesOwn, ShownSame
<1>9. QED
  BY <1>2, <1>6, <1>7, <1>8 DEF Calm, InOnePlace

\* The block that asks for one's own.
LEMMA CalmAskOwn ==
    ASSUME TypeOK, Calm, AskOwn
    PROVE  Calm'
<1> DEFINE x == [kind |-> "own", authors |-> {Me}]
<1>1. main \in Seq(Block) /\ queries \in Seq(Query)
  BY DEF TypeOK
<1>2. /\ main # <<>> /\ Head(main).kind = "own" /\ main' = Tail(main) /\ queries' = Append(queries, x)
      /\ UNCHANGED <<wall, following, up, posts, rows>>
  BY DEF AskOwn, NextBlock, screen
<1>3. x \in Query /\ x.kind = "own" /\ Asks(x)
  BY DEF Query, Kinds, Asks
<1> HIDE DEF x
<1>4. ASSUME NEW kind \in Kinds PROVE Sole(kind, main', queries')
  <2>1. Sole(kind, main, queries)
    BY DEF Calm, InOnePlace
  <2>2. Sole(kind, Tail(main), queries) /\ (kind = "own" => Absent(kind, Tail(main), queries))
    BY <1>1, <1>2, <2>1, TakenBlock
  <2>3. QED
    BY <1>1, <1>2, <1>3, <2>2, AddedQuery
<1>5. BringsPosts'
  <2>1. \A i \in 1..Len(main') : \E j \in 1..Len(main) : main'[i] = main[j]
    BY <1>1, <1>2, TailFrom
  <2>2. \A i \in 1..Len(queries') : queries'[i] = x \/ \E j \in 1..Len(queries) : queries'[i] = queries[j]
    BY <1>1, <1>2, <1>3, AppendFrom
  <2>3. QED
    BY <1>2, <1>3, <2>1, <2>2, BringsStep DEF Calm
<1>6. OwnPending /\ OwnPending'
  <2>1. ~Absent("own", main, queries)
    BY <1>1, <1>2, TakenBlock
  <2>2. ~Absent("own", main', queries')
    BY <1>1, <1>2, <1>3, AddedQuery
  <2>3. QED
    BY <2>1, <2>2, PendingIs
<1>7. Absent("following", main', queries') => Absent("following", main, queries)
  <2>1. Absent("following", main', queries') => Absent("following", main', queries)
    BY <1>1, <1>2, <1>3, AddedQuery
  <2>2. Absent("following", main', queries) => Absent("following", main, queries)
    BY <1>1, <1>2, TakenBlock
  <2>3. QED
    BY <2>1, <2>2
<1>8. Shows'
  BY <1>2, <1>6, <1>7, ShownSame DEF Calm, Shows
<1>9. QED
  BY <1>2, <1>4, <1>5, <1>8 DEF Calm, InOnePlace

\* An answer has what was asked for.
LEMMA CalmAnswer ==
    ASSUME TypeOK, Calm, NEW i \in 1..Len(queries), Answer(i)
    PROVE  Calm'
<1> DEFINE q == queries[i]
           x == [step |-> "take", kind |-> q.kind, authors |-> q.authors,
                 found |-> IF q.kind = "own" THEN NewestFirst(OldestFirst(By(q.authors)))
                           ELSE OldestFirst(By(q.authors))]
<1>1. main \in Seq(Block) /\ queries \in Seq(Query) /\ q \in Query
  BY DEF TypeOK
<1>2. /\ main' = Append(main, x) /\ queries' = RemoveAt(queries, i)
      /\ UNCHANGED <<wall, following, up, posts, rows>>
  BY DEF Answer, screen
<1>3. x \in Block /\ x.kind = q.kind
  <2>1. x.found \in Seq(Posts)
    BY FoundTypes
  <2>2. QED
    BY <1>1, <2>1 DEF Block, Query
<1>4. Brings(x)
  <2>1. Asks(q)
    BY DEF Calm, BringsPosts
  <2>2. q.kind \in Kinds
    BY <1>1 DEF Query
  <2>3. CASE q.kind = "own"
    BY <2>1, <2>3 DEF Asks, Brings, Own
  <2>4. CASE q.kind = "following"
    BY <2>1, <2>4 DEF Asks, Brings, Followed
  <2>5. QED
    BY <2>2, <2>3, <2>4 DEF Kinds
<1> HIDE DEF x, q
<1>5. ASSUME NEW kind \in Kinds
      PROVE  Sole(kind, main', queries') /\ (Absent(kind, main', queries') <=> Absent(kind, main, queries))
  <2>1. Sole(kind, main, queries)
    BY DEF Calm, InOnePlace
  <2>2. /\ Absent(kind, main, queries) <=> q.kind # kind /\ Absent(kind, main, queries')
        /\ Sole(kind, main, queries') /\ (q.kind = kind => Absent(kind, main, queries'))
    BY <1>1, <1>2, <2>1, TakenQuery DEF q
  <2>3. /\ Absent(kind, main', queries') <=> x.kind # kind /\ Absent(kind, main, queries')
        /\ Sole(kind, main', queries')
    BY <1>1, <1>2, <1>3, <2>2, AddedBlock
  <2>4. QED
    BY <1>3, <2>2, <2>3
<1>6. BringsPosts'
  <2>1. \A j \in 1..Len(main') : main'[j] = x \/ \E k \in 1..Len(main) : main'[j] = main[k]
    BY <1>1, <1>2, <1>3, AppendFrom
  <2>2. ASSUME NEW j \in 1..Len(queries') PROVE \E k \in 1..Len(queries) : queries'[j] = queries[k]
    <3>1. Was(i, j) \in 1..Len(queries) /\ queries'[j] = queries[Was(i, j)]
      BY <1>1, <1>2, <2>2, RemoveAtFrom
    <3>2. QED
      BY <3>1
  <2>3. QED
    BY <1>2, <1>4, <2>1, <2>2, BringsStep DEF Calm
<1>7. /\ OwnPending' <=> OwnPending
      /\ Absent("following", main', queries') <=> Absent("following", main, queries)
  BY <1>5, PendingIs DEF Kinds
<1>8. Shows'
  BY <1>2, <1>7, ShownSame DEF Calm, Shows
<1>9. QED
  BY <1>2, <1>5, <1>6, <1>8 DEF Calm, InOnePlace

\* The followed posts come before one's own are added.
LEMMA CalmTakeFollowing ==
    ASSUME TypeOK, Calm, TakeFollowing, OwnPending
    PROVE  Calm'
<1>1. main \in Seq(Block)
  BY DEF TypeOK
<1>2. /\ main # <<>> /\ Head(main).step = "take" /\ Head(main).kind = "following"
      /\ main' = Tail(main) /\ queries' = queries /\ posts' = Head(main).found
      /\ UNCHANGED <<wall, following, up>>
  BY DEF TakeFollowing, NextBlock
<1>3. posts' = Followed
  <2>1. 1 \in 1..Len(main) /\ Head(main) = main[1]
    BY <1>1, <1>2, TailByIndex
  <2>2. Brings(main[1])
    BY <2>1 DEF Calm, BringsPosts
  <2>3. QED
    BY <1>2, <2>1, <2>2 DEF Brings
<1>4. ASSUME NEW kind \in Kinds PROVE Sole(kind, main', queries')
  BY <1>1, <1>2, TakenBlock DEF Calm, InOnePlace
<1>5. BringsPosts'
  <2>1. \A i \in 1..Len(main') : \E j \in 1..Len(main) : main'[i] = main[j]
    BY <1>1, <1>2, TailFrom
  <2>2. \A i \in 1..Len(queries') : \E j \in 1..Len(queries) : queries'[i] = queries[j]
    BY <1>2
  <2>3. QED
    BY <1>2, <2>1, <2>2, BringsStep DEF Calm
<1>6. OwnPending'
  BY <1>1, <1>2, TakenBlock, PendingIs
<1>7. Shows'
  BY <1>2, <1>3, <1>6, ShownSame DEF Shows
<1>8. QED
  BY <1>2, <1>4, <1>5, <1>7 DEF Calm, InOnePlace

\* One's own posts are handed on.
LEMMA CalmTakeOwn ==
    ASSUME TypeOK, Calm, TakeOwn
    PROVE  Calm'
<1> DEFINE h == Head(main)
           x == [h EXCEPT !.step = "append"]
<1>1. main \in Seq(Block) /\ queries \in Seq(Query)
  BY DEF TypeOK
<1>2. /\ main # <<>> /\ h.step = "take" /\ h.kind = "own" /\ main' = Append(Tail(main), x)
      /\ queries' = queries /\ UNCHANGED <<wall, following, up, posts, rows>>
  BY DEF TakeOwn, NextBlock, screen
<1>3. h \in Block /\ Tail(main) \in Seq(Block) /\ 1 \in 1..Len(main) /\ h = main[1]
  BY <1>1, <1>2, TailByIndex
<1>4. x \in Block /\ x.kind = "own" /\ x.step = "append" /\ x.found = h.found
  BY <1>2, <1>3 DEF Block
<1> HIDE DEF h, x
<1>5. Brings(x)
  <2>1. Brings(h)
    BY <1>3 DEF Calm, BringsPosts
  <2>2. h.found = Own
    BY <1>2, <2>1 DEF Brings
  <2>3. QED
    BY <1>4, <2>2 DEF Brings
<1>6. ASSUME NEW kind \in Kinds PROVE Sole(kind, main', queries')
  <2>1. Sole(kind, main, queries)
    BY DEF Calm, InOnePlace
  <2>2. Sole(kind, Tail(main), queries) /\ (kind = "own" => Absent(kind, Tail(main), queries))
    BY <1>1, <1>2, <2>1, TakenBlock DEF h
  <2>3. QED
    BY <1>2, <1>3, <1>4, <2>2, AddedBlock
<1>7. BringsPosts'
  <2>1. \A i \in 1..Len(main') : main'[i] = x \/ \E j \in 1..Len(main) : main'[i] = main[j]
    <3>1. \A i \in 1..Len(main') : main'[i] = x \/ \E j \in 1..Len(Tail(main)) : main'[i] = Tail(main)[j]
      BY <1>2, <1>3, <1>4, AppendFrom
    <3>2. \A i \in 1..Len(Tail(main)) : \E j \in 1..Len(main) : Tail(main)[i] = main[j]
      BY <1>1, <1>2, TailFrom
    <3>3. QED
      BY <3>1, <3>2
  <2>2. \A i \in 1..Len(queries') : \E j \in 1..Len(queries) : queries'[i] = queries[j]
    BY <1>2
  <2>3. QED
    BY <1>2, <1>5, <2>1, <2>2, BringsStep DEF Calm
<1>8. /\ OwnPending /\ OwnPending'
      /\ Absent("following", main', queries') => Absent("following", main, queries)
  <2>1. ~Absent("own", main, queries)
    BY <1>1, <1>2, TakenBlock DEF h
  <2>2. ~Absent("own", main', queries')
    BY <1>2, <1>3, <1>4, AddedBlock
  <2>3. Absent("following", main', queries') => Absent("following", Tail(main), queries)
    BY <1>2, <1>3, <1>4, AddedBlock
  <2>4. Absent("following", Tail(main), queries) => Absent("following", main, queries)
    BY <1>1, <1>2, TakenBlock DEF h
  <2>5. QED
    BY <2>1, <2>2, <2>3, <2>4, PendingIs
<1>9. Shows'
  BY <1>2, <1>8, ShownSame DEF Calm, Shows
<1>10. QED
  BY <1>2, <1>6, <1>7, <1>9 DEF Calm, InOnePlace

\* One's own posts are added to the followed ones, and the table is reloaded.
LEMMA CalmAppendOwn ==
    ASSUME TypeOK, Calm, AppendOwn
    PROVE  Calm'
<1>1. main \in Seq(Block)
  BY DEF TypeOK
<1>2. /\ main # <<>> /\ Head(main).step = "append" /\ Head(main).kind = "own"
      /\ main' = Tail(main) /\ queries' = queries
      /\ posts' = NewestFirst(posts \o Head(main).found) /\ rows' = Len(posts')
      /\ UNCHANGED <<wall, following, up>>
  BY DEF AppendOwn, NextBlock
<1>3. Head(main).found = Own
  <2>1. 1 \in 1..Len(main) /\ Head(main) = main[1]
    BY <1>1, <1>2, TailByIndex
  <2>2. Brings(main[1])
    BY <2>1 DEF Calm, BringsPosts
  <2>3. QED
    BY <1>2, <2>1, <2>2 DEF Brings
<1>4. ASSUME NEW kind \in Kinds PROVE Sole(kind, main', queries')
  BY <1>1, <1>2, TakenBlock DEF Calm, InOnePlace
<1>5. BringsPosts'
  <2>1. \A i \in 1..Len(main') : \E j \in 1..Len(main) : main'[i] = main[j]
    BY <1>1, <1>2, TailFrom
  <2>2. \A i \in 1..Len(queries') : \E j \in 1..Len(queries) : queries'[i] = queries[j]
    BY <1>2
  <2>3. QED
    BY <1>2, <2>1, <2>2, BringsStep DEF Calm
<1>6. OwnPending /\ ~OwnPending'
  <2>1. ~Absent("own", main, queries)
    BY <1>1, <1>2, TakenBlock
  <2>2. Sole("own", main, queries)
    BY DEF Calm, InOnePlace, Kinds
  <2>3. Absent("own", main', queries')
    BY <1>1, <1>2, <2>2, TakenBlock
  <2>4. QED
    BY <2>1, <2>3, PendingIs
<1>7. Shows'
  <2>1. SUFFICES ASSUME Absent("following", main', queries')
                 PROVE  posts' = Whole'
    BY <1>2, <1>6 DEF Shows
  <2>2. Absent("following", main, queries)
    BY <1>1, <1>2, <2>1, TakenBlock
  <2>3. posts = Followed
    BY <1>6, <2>2 DEF Calm, Shows
  <2>4. posts' = Whole
    BY <1>2, <1>3, <2>3, FeedFromParts
  <2>5. QED
    BY <1>2, <2>4, ShownSame
<1>8. QED
  BY <1>2, <1>4, <1>5, <1>7 DEF Calm, InOnePlace

\* While a refresh is undisturbed, what is to come and what has come make up
\* the feed.
LEMMA CalmStep ==
    ASSUME TypeOK, OwnBehind, CalmInv, [Next]_vars
    PROVE  CalmInv'
<1>1. SUFFICES ASSUME calm' PROVE Calm'
  BY DEF CalmInv
<1>2. calm => Calm
  BY DEF CalmInv
<1>3. CASE Refresh
  BY <1>1, <1>3, CalmRefresh
<1>4. CASE AskFollowing
  <2>1. calm
    BY <1>1, <1>4 DEF AskFollowing
  <2>2. QED
    BY <1>2, <1>4, <2>1, CalmAskFollowing
<1>5. CASE AskOwn
  <2>1. calm
    BY <1>1, <1>5 DEF AskOwn
  <2>2. QED
    BY <1>2, <1>5, <2>1, CalmAskOwn
<1>6. ASSUME NEW i \in 1..Len(queries), Answer(i) PROVE Calm'
  <2>1. calm
    BY <1>1, <1>6 DEF Answer
  <2>2. QED
    BY <1>2, <1>6, <2>1, CalmAnswer
<1>7. CASE TakeFollowing
  <2>1. calm /\ OwnPending
    BY <1>1, <1>7 DEF TakeFollowing
  <2>2. QED
    BY <1>2, <1>7, <2>1, CalmTakeFollowing
<1>8. CASE TakeOwn
  <2>1. calm
    BY <1>1, <1>8 DEF TakeOwn
  <2>2. QED
    BY <1>2, <1>8, <2>1, CalmTakeOwn
<1>9. CASE AppendOwn
  <2>1. calm
    BY <1>1, <1>9 DEF AppendOwn
  <2>2. QED
    BY <1>2, <1>9, <2>1, CalmAppendOwn
<1>10. CASE TooManyFollowed \/ ShowMissingRow
  BY <1>1, <1>10 DEF TooManyFollowed, ShowMissingRow, Stop
<1>11. CASE Launch
  BY <1>1, <1>2, <1>11 DEF Launch, Calm
<1>12. ASSUME NEW p \in Posts, Publish(p) \/ Delete(p) PROVE FALSE
  BY <1>1, <1>12 DEF Publish, Delete
<1>13. ASSUME NEW f \in SUBSET Others, LoadUser(f) PROVE FALSE
  BY <1>1, <1>13 DEF LoadUser
<1>14. ASSUME NEW i \in 1..Len(queries), QueryFails(i) PROVE FALSE
  BY <1>1, <1>14 DEF QueryFails
<1>15. CASE UNCHANGED vars
  <2>1. Calm
    BY <1>1, <1>2, <1>15 DEF vars
  <2>2. /\ main' = main /\ queries' = queries /\ up' = up /\ posts' = posts /\ rows' = rows
        /\ wall' = wall /\ following' = following
    BY <1>15 DEF vars
  <2>3. InOnePlace'
    BY <2>1, <2>2 DEF Calm, InOnePlace
  <2>4. BringsPosts'
    BY <2>1, <2>2, BringsStep DEF Calm
  <2>5. OwnPending' <=> OwnPending
    BY <2>2, PendingIs
  <2>6. Shows'
    BY <2>1, <2>2, <2>5, ShownSame DEF Calm, Shows
  <2>7. QED
    BY <2>1, <2>2, <2>3, <2>4, <2>6 DEF Calm
<1>16. QED
  BY <1>3, <1>4, <1>5, <1>6, <1>7, <1>8, <1>9, <1>10, <1>11, <1>12, <1>13, <1>14, <1>15 DEF Next

\* The inductive invariant holds in every state.
LEMMA Invariant == Spec => []IInv
<1>1. Init => IInv
  <2>1. SUFFICES ASSUME Init PROVE IInv
    OBVIOUS
  <2>2. TypeOK
    BY <2>1, TypeInit
  <2>3. rows = 0 /\ Len(posts) = 0 /\ Len(main) = 0 /\ ~calm
    BY <2>1 DEF Init
  <2>4. ~(rows > Len(posts)) /\ \A i \in 1..Len(main) : FALSE
    BY <2>3
  <2>5. QED
    BY <2>2, <2>3, <2>4 DEF IInv, RowsAreInArray, OwnBehind, CalmInv
<1>2. IInv /\ [Next]_vars => IInv'
  BY TypeStep, RowsStep, BehindStep, CalmStep DEF IInv
<1>3. QED
  BY <1>1, <1>2, PTL DEF Spec

\* The table never has rows beyond the array behind it, except while one's
\* own posts are on their way, after their query failed, or after the followed
\* posts were answered last: populatePostsTable reloads only with one's own.
THEOREM RowsStayInArray == Spec => []RowsAreInArray
<1>1. IInv => RowsAreInArray
  BY DEF IInv
<1>2. QED
  BY <1>1, Invariant, PTL

\* A refresh that runs undisturbed, with the user loaded and the followed posts
\* answered first, ends with every own and followed post in the table once,
\* the newest first.
THEOREM FeedCompletes == Spec => []FeedIsComplete
<1>1. IInv => FeedIsComplete
  <2>1. SUFFICES ASSUME IInv, Quiet, calm PROVE posts = Whole /\ rows = Len(posts)
    BY DEF FeedIsComplete, Whole
  <2>2. Len(main) = 0 /\ Len(queries) = 0
    BY <2>1 DEF Quiet
  <2>3. \A i \in 1..0 : FALSE
    OBVIOUS
  <2>4. Absent("following", main, queries) /\ Absent("own", main, queries)
    BY <2>2, <2>3 DEF Absent
  <2>5. QED
    BY <2>1, <2>4, PendingIs DEF IInv, CalmInv, Calm, Shows
<1>2. QED
  BY <1>1, Invariant, PTL

=============================================================================
