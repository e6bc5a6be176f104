------------------------- MODULE Connections_proofs -------------------------
(***************************************************************************)
(* Proofs about Connections: type correctness, and that after every        *)
(* unfollow and change the rows, the taps on them and the document come to *)
(* agree.                                                                  *)
(***************************************************************************)
EXTENDS Connections, FiniteSetTheorems, SequenceTheorems, WellFoundedInduction, TLAPS

-----------------------------------------------------------------------------
(* The inductive invariant, in parts.                                      *)

Renewing == {"logged", "unfollow"}

\* Versions of the document are delivered in turn.
InTurn ==
    /\ \A i, j \in 1..Len(main) :
          i < j /\ main[i].op \in Reads /\ main[j].op \in Reads => main[i].doc <= main[j].doc
    /\ \A i \in 1..Len(main) :
          main[i].op \in Reads => logged <= main[i].doc /\ rows <= main[i].doc

\* loggedUser is the latest version, or will be.
UserFollows ==
    open /\ ~disturbed =>
        \/ logged = Latest
        \/ \E i \in 1..Len(reads) : reads[i] \in Renewing
        \/ \E i \in 1..Len(main) : main[i].op \in Renewing /\ main[i].doc = Latest

\* So are the rows: an unfollow will ask for them once loggedUser has come.
RowsFollow ==
    open /\ ~disturbed =>
        \/ rows = Latest
        \/ \E i \in 1..Len(reads) : reads[i] \in {"rows", "unfollow"}
        \/ \E i \in 1..Len(main) :
              main[i].op = "unfollow" \/ (main[i].op = "rows" /\ main[i].doc = Latest)

\* The table will show the segment that is selected.
SegmentFollows == open => source = segment \/ \E i \in 1..Len(main) : main[i].op = "segment"

IInv ==
    /\ TypeOK
    /\ InTurn
    /\ UserFollows
    /\ RowsFollow
    /\ SegmentFollows

-----------------------------------------------------------------------------
(* Sequences.                                                              *)

\* A set of numbers with 0 and, with each number, the next one has them all.
LEMMA NatInd ==
    ASSUME NEW S, 0 \in S, \A n \in Nat : n \in S => n + 1 \in S
    PROVE  Nat \subseteq S
<1> DEFINE R == OpToRel(<, Nat)
           T == Nat \ S
<1> SUFFICES ASSUME T # {} PROVE FALSE
  OBVIOUS
<1>1. PICK x \in T : \A y \in T : <<y, x>> \notin R
  <2>1. IsWellFoundedOn(R, Nat)
    BY NatLessThanWellFounded
  <2>2. T \subseteq Nat
    OBVIOUS
  <2> HIDE DEF R, T
  <2>3. QED
    BY <2>1, <2>2, WFMin
<1>2. x # 0 /\ x \in Nat
  OBVIOUS
<1>3. x - 1 \in Nat /\ (x - 1) + 1 = x /\ x - 1 < x
  BY <1>2
<1>4. x - 1 \in T
  BY <1>2, <1>3
<1>5. <<x - 1, x>> \in R
  BY <1>2, <1>3 DEF OpToRel
<1>6. QED
  BY <1>1, <1>4, <1>5

\* What one more element makes of those that are left.
OneMore(left, x, S) == IF x \in S THEN Append(left, x) ELSE left
Layers(v, s, S) ==
    v = [n \in 0..Len(s) |-> IF n = 0 THEN <<>>
                             ELSE IF s[n] \in S THEN Append(v[n - 1], s[n])
                             ELSE v[n - 1]]

\* The recursion of Filter has a solution for every list.
LEMMA LayersExist ==
    ASSUME NEW s, Len(s) \in Nat, NEW S
    PROVE  \E v : Layers(v, s, S)
<1> DEFINE Upto(v, n) == v = [i \in 0..n |-> IF i = 0 THEN <<>> ELSE OneMore(v[i - 1], s[i], S)]
           N == {n \in Nat : \E v : Upto(v, n)}
<1>1. 0 \in N
  <2>1. Upto([i \in 0..0 |-> <<>>], 0)
    OBVIOUS
  <2>2. QED
    BY <2>1
<1>2. ASSUME NEW n \in Nat, n \in N PROVE n + 1 \in N
  <2>1. PICK v : Upto(v, n)
    BY <1>2
  <2> DEFINE w == [i \in 0..n + 1 |-> IF i = n + 1 THEN OneMore(v[n], s[n + 1], S) ELSE v[i]]
  <2>2. v[0] = <<>> /\ w[0] = <<>>
    BY <2>1
  <2>3. ASSUME NEW i \in 0..n + 1, i # 0 PROVE w[i] = OneMore(w[i - 1], s[i], S)
    <3>1. i - 1 \in 0..n /\ w[i - 1] = v[i - 1]
      BY <2>3
    <3>2. CASE i = n + 1
      BY <3>1, <3>2
    <3>3. CASE i # n + 1
      <4>1. i \in 0..n
        BY <3>3, <2>3
      <4>2. v[i] = OneMore(v[i - 1], s[i], S)
        BY <2>1, <4>1, <2>3
      <4>3. QED
        BY <3>1, <3>3, <4>1, <4>2
    <3>4. QED
      BY <3>2, <3>3
  <2>4. w = [i \in 0..n + 1 |-> IF i = 0 THEN <<>> ELSE OneMore(w[i - 1], s[i], S)]
    <3> DEFINE x == [i \in 0..n + 1 |-> IF i = 0 THEN <<>> ELSE OneMore(w[i - 1], s[i], S)]
    <3>1. \A i \in 0..n + 1 : w[i] = x[i]
      BY <2>2, <2>3
    <3>2. w = x
      BY <3>1
    <3>3. QED
      BY <3>2
  <2>5. \E x : Upto(x, n + 1)
    BY <2>4
  <2>6. QED
    BY <2>5
<1>3. Nat \subseteq N
  <2> HIDE DEF N
  <2>1. QED
    BY <1>1, <1>2, NatInd
<1>4. Len(s) \in N
  BY <1>3
<1>5. PICK v : Upto(v, Len(s))
  BY <1>4
<1>6. Layers(v, s, S)
  BY <1>5 DEF Layers, OneMore
<1>7. QED
  BY <1>6

\* v[n] is what Filter leaves of the first n elements.
Stacked(v, s, S) ==
    /\ v[0] = <<>>
    /\ \A n \in 1..Len(s) : v[n] = OneMore(v[n - 1], s[n], S)
    /\ Filter(s, S) = v[Len(s)]

\* Filter takes one element after the other.
LEMMA FilterSteps ==
    ASSUME NEW s, Len(s) \in Nat, NEW S
    PROVE  \E v : Stacked(v, s, S)
<1> DEFINE v == CHOOSE v : Layers(v, s, S)
<1>1. Layers(v, s, S)
  BY LayersExist
<1>2. Filter(s, S) = v[Len(s)]
  BY DEF Filter, Layers
<1> HIDE DEF v
<1>3. v[0] = <<>>
  BY <1>1 DEF Layers
<1>4. ASSUME NEW n \in 1..Len(s) PROVE v[n] = OneMore(v[n - 1], s[n], S)
  <2>1. n \in 0..Len(s) /\ n # 0
    OBVIOUS
  <2>2. QED
    BY <1>1, <2>1 DEF Layers, OneMore
<1>5. QED
  BY <1>2, <1>3, <1>4 DEF Stacked

\* t has elements of the first n of s, in their order, that are in S.
Picked(t, s, n, S) ==
    /\ \A i \in 1..Len(t) : t[i] \in S /\ \E a \in 1..n : t[i] = s[a]
    /\ \A i, j \in 1..Len(t) : i < j => \E a, b \in 1..n : a < b /\ t[i] = s[a] /\ t[j] = s[b]

\* What Filter leaves.
LEMMA FilterPicks ==
    ASSUME NEW T, NEW s \in Seq(T), NEW S
    PROVE  Filter(s, S) \in Seq(T) /\ Picked(Filter(s, S), s, Len(s), S)
<1>1. Len(s) \in Nat
  OBVIOUS
<1>2. PICK v : Stacked(v, s, S)
  BY <1>1, FilterSteps
<1>3. /\ v[0] = <<>>
      /\ \A n \in 1..Len(s) : v[n] = OneMore(v[n - 1], s[n], S)
      /\ Filter(s, S) = v[Len(s)]
  BY <1>2 DEF Stacked
<1> DEFINE N == {n \in Nat : n <= Len(s) => v[n] \in Seq(T) /\ Picked(v[n], s, n, S)}
<1>4. 0 \in N
  <2>1. v[0] \in Seq(T) /\ Len(v[0]) = 0
    BY <1>3
  <2>2. QED
    BY <2>1 DEF Picked
<1>5. ASSUME NEW n \in Nat, n \in N PROVE n + 1 \in N
  <2>1. SUFFICES ASSUME n + 1 <= Len(s) PROVE v[n + 1] \in Seq(T) /\ Picked(v[n + 1], s, n + 1, S)
    OBVIOUS
  <2>2. v[n] \in Seq(T) /\ Picked(v[n], s, n, S)
    BY <1>1, <1>5, <2>1
  <2>3. v[n + 1] = OneMore(v[n], s[n + 1], S) /\ s[n + 1] \in T
    BY <1>1, <1>3, <2>1
  <2>4. CASE s[n + 1] \notin S
    <3>1. v[n + 1] = v[n]
      BY <2>3, <2>4 DEF OneMore
    <3>2. Picked(v[n], s, n + 1, S)
      BY <2>2 DEF Picked
    <3>3. QED
      BY <2>2, <3>1, <3>2
  <2>5. CASE s[n + 1] \in S
    <3> DEFINE t == v[n + 1]
               m == Len(v[n])
    <3>1. t = Append(v[n], s[n + 1])
      BY <2>3, <2>5 DEF OneMore
    <3>2. m \in Nat /\ t \in Seq(T) /\ Len(t) = m + 1 /\ t[m + 1] = s[n + 1]
          /\ \A i \in 1..m : t[i] = v[n][i]
      BY <2>2, <2>3, <3>1
    <3> HIDE DEF t, m
    <3>3. ASSUME NEW i \in 1..m
          PROVE  t[i] \in S /\ \E a \in 1..n : t[i] = s[a]
      <4>1. v[n][i] \in S /\ \E a \in 1..n : v[n][i] = s[a]
        BY <2>2 DEF Picked, m
      <4>2. QED
        BY <3>2, <4>1
    <3>4. ASSUME NEW i \in 1..Len(t)
          PROVE  t[i] \in S /\ \E a \in 1..n + 1 : t[i] = s[a]
      <4>1. CASE i = m + 1
        BY <2>5, <3>2, <4>1
      <4>2. CASE i # m + 1
        <5>1. i \in 1..m
          BY <3>2, <4>2
        <5>2. QED
          BY <3>3, <5>1
      <4>3. QED
        BY <4>1, <4>2
    <3>5. ASSUME NEW i \in 1..Len(t), NEW j \in 1..Len(t), i < j
          PROVE  \E a, b \in 1..n + 1 : a < b /\ t[i] = s[a] /\ t[j] = s[b]
      <4>1. i \in 1..m
        BY <3>2, <3>5
      <4>2. CASE j = m + 1
        <5>1. PICK a \in 1..n : t[i] = s[a]
          BY <3>3, <4>1
        <5>2. a < n + 1 /\ a \in 1..n + 1 /\ n + 1 \in 1..n + 1
          OBVIOUS
        <5>3. QED
          BY <3>2, <4>2, <5>1, <5>2
      <4>3. CASE j # m + 1
        <5>1. j \in 1..m
          BY <3>2, <4>3
        <5>2. \E a, b \in 1..n : a < b /\ v[n][i] = s[a] /\ v[n][j] = s[b]
          BY <2>2, <3>5, <4>1, <5>1 DEF Picked, m
        <5>3. QED
          BY <3>2, <4>1, <5>1, <5>2
      <4>4. QED
        BY <4>2, <4>3
    <3>6. Picked(t, s, n + 1, S)
      BY <3>4, <3>5 DEF Picked
    <3>7. QED
      BY <3>2, <3>6 DEF t
  <2>6. QED
    BY <2>4, <2>5
<1>6. Nat \subseteq N
  <2> HIDE DEF N
  <2>1. QED
    BY <1>4, <1>5, NatInd
<1>7. QED
  BY <1>1, <1>3, <1>6

\* It leaves a list as it is when all of it is in S.
LEMMA FilterLeavesAll ==
    ASSUME NEW T, NEW s \in Seq(T), NEW S, \A i \in 1..Len(s) : s[i] \in S
    PROVE  Filter(s, S) = s
<1>1. Len(s) \in Nat
  OBVIOUS
<1>2. PICK v : Stacked(v, s, S)
  BY <1>1, FilterSteps
<1>3. /\ v[0] = <<>>
      /\ \A n \in 1..Len(s) : v[n] = OneMore(v[n - 1], s[n], S)
      /\ Filter(s, S) = v[Len(s)]
  BY <1>2 DEF Stacked
<1> DEFINE N == {n \in Nat : n <= Len(s) => /\ v[n] \in Seq(T) /\ Len(v[n]) = n
                                            /\ \A i \in 1..n : v[n][i] = s[i]}
<1>4. 0 \in N
  <2>1. v[0] \in Seq(T) /\ Len(v[0]) = 0
    BY <1>3
  <2>2. \A i \in 1..0 : v[0][i] = s[i]
    OBVIOUS
  <2>3. QED
    BY <2>1, <2>2
<1>5. ASSUME NEW n \in Nat, n \in N PROVE n + 1 \in N
  <2>1. SUFFICES ASSUME n + 1 <= Len(s)
                 PROVE  /\ v[n + 1] \in Seq(T) /\ Len(v[n + 1]) = n + 1
                        /\ \A i \in 1..n + 1 : v[n + 1][i] = s[i]
    OBVIOUS
  <2>2. v[n] \in Seq(T) /\ Len(v[n]) = n /\ \A i \in 1..n : v[n][i] = s[i]
    BY <1>1, <1>5, <2>1
  <2>3. n + 1 \in 1..Len(s) /\ (n + 1) - 1 = n
    BY <1>1, <2>1
  <2>4. s[n + 1] \in T /\ s[n + 1] \in S
    BY <2>3
  <2>5. v[n + 1] = OneMore(v[n], s[n + 1], S)
    BY <1>3, <2>3
  <2>6. v[n + 1] = Append(v[n], s[n + 1])
    BY <2>4, <2>5 DEF OneMore
  <2>7. QED
    BY <2>2, <2>4, <2>6
<1>6. Nat \subseteq N
  <2> HIDE DEF N
  <2>1. QED
    BY <1>4, <1>5, NatInd
<1>7. v[Len(s)] \in Seq(T) /\ Len(v[Len(s)]) = Len(s) /\ \A i \in 1..Len(s) : v[Len(s)][i] = s[i]
  BY <1>1, <1>6
<1>8. v[Len(s)] = s
  BY <1>7, SeqEqual
<1>9. QED
  BY <1>3, <1>8

\* What is left when an element is taken out was there before.
LEMMA RemoveAtKeeps ==
    ASSUME NEW S, NEW s \in Seq(S), NEW i \in 1..Len(s)
    PROVE  /\ RemoveAt(s, i) \in Seq(S)
           /\ \A j \in 1..Len(RemoveAt(s, i)) : \E k \in 1..Len(s) : RemoveAt(s, i)[j] = s[k]
<1> DEFINE a == SubSeq(s, 1, i - 1)
           b == SubSeq(s, i + 1, Len(s))
<1>1. /\ a \in Seq(S) /\ Len(a) = i - 1 /\ \A j \in 1..(i - 1) : a[j] = s[j]
      /\ b \in Seq(S) /\ Len(b) = Len(s) - i /\ \A j \in 1..(Len(s) - i) : b[j] = s[i + j]
  OBVIOUS
<1>2. RemoveAt(s, i) = a \o b
  BY DEF RemoveAt
<1> HIDE DEF a, b
<1>3. /\ a \o b \in Seq(S) /\ Len(a \o b) = Len(s) - 1
      /\ \A j \in 1..(i - 1) : (a \o b)[j] = s[j]
      /\ \A j \in i..(Len(s) - 1) : (a \o b)[j] = s[j + 1]
  <2>1. /\ a \o b \in Seq(S) /\ Len(a \o b) = Len(a) + Len(b)
        /\ \A j \in 1..(Len(a) + Len(b)) : (a \o b)[j] = IF j <= Len(a) THEN a[j] ELSE b[j - Len(a)]
    BY <1>1, ConcatProperties
  <2>2. i \in Nat /\ Len(s) \in Nat /\ i >= 1 /\ i <= Len(s)
    OBVIOUS
  <2>3. ASSUME NEW j \in i..(Len(s) - 1)
        PROVE  (a \o b)[j] = s[j + 1]
    <3>1. j \in 1..(Len(a) + Len(b)) /\ ~(j <= Len(a))
      BY <1>1, <2>2
    <3>2. (a \o b)[j] = b[j - Len(a)]
      BY <2>1, <3>1
    <3>3. j - Len(a) \in 1..(Len(s) - i) /\ i + (j - Len(a)) = j + 1
      BY <1>1, <2>2
    <3>4. QED
      BY <1>1, <3>2, <3>3
  <2>4. ASSUME NEW j \in 1..(i - 1)
        PROVE  (a \o b)[j] = s[j]
    BY <1>1, <2>1, <2>2
  <2>5. QED
    BY <1>1, <2>1, <2>2, <2>3, <2>4
<1>4. QED
  BY <1>2, <1>3

\* The others are all left.
LEMMA RemoveAtLeaves ==
    ASSUME NEW S, NEW s \in Seq(S), NEW i \in 1..Len(s)
    PROVE  \A k \in 1..Len(s) : k = i \/ \E j \in 1..Len(RemoveAt(s, i)) : RemoveAt(s, i)[j] = s[k]
<1> DEFINE a == SubSeq(s, 1, i - 1)
           b == SubSeq(s, i + 1, Len(s))
           t == RemoveAt(s, i)
<1>1. /\ a \in Seq(S) /\ Len(a) = i - 1 /\ \A j \in 1..(i - 1) : a[j] = s[j]
      /\ b \in Seq(S) /\ Len(b) = Len(s) - i /\ \A j \in 1..(Len(s) - i) : b[j] = s[i + j]
  OBVIOUS
<1>2. t = a \o b
  BY DEF RemoveAt
<1>3. i \in Nat /\ Len(s) \in Nat /\ i >= 1 /\ i <= Len(s)
  OBVIOUS
<1> HIDE DEF a, b, t
<1>4. /\ Len(t) = Len(s) - 1
      /\ \A j \in 1..Len(s) - 1 : t[j] = IF j <= i - 1 THEN a[j] ELSE b[j - (i - 1)]
  <2>1. /\ Len(a \o b) = Len(a) + Len(b)
        /\ \A j \in 1..(Len(a) + Len(b)) : (a \o b)[j] = IF j <= Len(a) THEN a[j] ELSE b[j - Len(a)]
    BY <1>1, ConcatProperties
  <2>2. QED
    BY <1>1, <1>2, <1>3, <2>1
<1>5. ASSUME NEW k \in 1..Len(s), k < i PROVE \E j \in 1..Len(t) : t[j] = s[k]
  <2>1. k \in 1..Len(t) /\ k <= i - 1 /\ k \in 1..(i - 1)
    BY <1>3, <1>4, <1>5
  <2>2. t[k] = s[k]
    BY <1>1, <1>4, <2>1
  <2>3. QED
    BY <2>1, <2>2
<1>6. ASSUME NEW k \in 1..Len(s), k > i PROVE \E j \in 1..Len(t) : t[j] = s[k]
  <2>1. k - 1 \in 1..Len(t) /\ ~(k - 1 <= i - 1) /\ k - i \in 1..(Len(s) - i)
        /\ (k - 1) - (i - 1) = k - i /\ i + (k - i) = k
    BY <1>3, <1>4, <1>6
  <2>2. t[k - 1] = s[k]
    BY <1>1, <1>4, <2>1
  <2>3. QED
    BY <2>1, <2>2
<1>7. \A k \in 1..Len(s) : k = i \/ k < i \/ k > i
  BY <1>3
<1>8. QED
  BY <1>5, <1>6, <1>7 DEF t

\* A list without somebody has nobody twice.
LEMMA WithoutIsList ==
    ASSUME NEW list \in Seq(People), IsInjective(list), NEW p \in People
    PROVE  Without(list, p) \in Seq(People) /\ IsInjective(Without(list, p))
<1> DEFINE t == Filter(list, People \ {p})
<1>1. t \in Seq(People) /\ Picked(t, list, Len(list), People \ {p})
  BY FilterPicks
<1> HIDE DEF t
<1>2. ASSUME NEW i \in 1..Len(t), NEW j \in 1..Len(t), i < j PROVE t[i] # t[j]
  <2>1. PICK a \in 1..Len(list), b \in 1..Len(list) : a < b /\ t[i] = list[a] /\ t[j] = list[b]
    BY <1>1, <1>2 DEF Picked
  <2>2. list[a] # list[b]
    BY <2>1 DEF IsInjective
  <2>3. QED
    BY <2>1, <2>2
<1>3. IsInjective(t)
  BY <1>1, <1>2 DEF IsInjective
<1>4. QED
  BY <1>1, <1>3 DEF Without, t

\* Nor has one that somebody joins.
LEMMA LongerIsList ==
    ASSUME NEW list \in Seq(People), IsInjective(list), NEW p \in People, ~Contains(list, p)
    PROVE  Append(list, p) \in Seq(People) /\ IsInjective(Append(list, p))
<1> DEFINE t == Append(list, p)
<1>1. /\ t \in Seq(People) /\ Len(list) \in Nat /\ Len(t) = Len(list) + 1
      /\ t[Len(list) + 1] = p /\ \A i \in 1..Len(list) : t[i] = list[i]
  OBVIOUS
<1>2. \A i \in 1..Len(list) : list[i] # p
  BY DEF Contains
<1>3. \A i, j \in 1..Len(list) : list[i] = list[j] => i = j
  BY DEF IsInjective
<1> HIDE DEF t
<1>4. ASSUME NEW i \in 1..Len(t), NEW j \in 1..Len(t), t[i] = t[j] PROVE i = j
  BY <1>1, <1>2, <1>3, <1>4
<1>5. IsInjective(t)
  BY <1>1, <1>4 DEF IsInjective
<1>6. QED
  BY <1>1, <1>5 DEF t

-----------------------------------------------------------------------------
(* Types.                                                                  *)

Versions == Seq([Segments -> Seq(People)])

\* The latest version is one.
LEMMA LatestIsDocument ==
    ASSUME TypeOK
    PROVE  /\ Latest \in Nat \ {0} /\ Latest = Len(docs) /\ Latest \in 1..Len(docs)
           /\ docs[Latest] \in [Segments -> Seq(People)]
           /\ \A s \in Segments : IsInjective(docs[Latest][s])
<1>1. docs \in Versions /\ docs # <<>>
  BY DEF TypeOK, Versions
<1>2. Len(docs) \in Nat \ {0}
  BY <1>1 DEF Versions
<1>3. Latest \in Nat \ {0} /\ Latest = Len(docs) /\ Latest \in 1..Len(docs)
  BY <1>2 DEF Latest
<1>4. docs[Latest] \in [Segments -> Seq(People)]
  BY <1>1, <1>3 DEF Versions
<1>5. \A s \in Segments : IsInjective(docs[Latest][s])
  BY <1>3 DEF TypeOK
<1>6. QED
  BY <1>3, <1>4, <1>5

\* The document gets another version.
LEMMA DocumentGrows ==
    ASSUME TypeOK, NEW d \in [Segments -> Seq(People)], \A s \in Segments : IsInjective(d[s]),
           docs' = Append(docs, d)
    PROVE  /\ docs' \in Versions /\ docs' # <<>>
           /\ Latest \in Nat /\ Latest' = Latest + 1
           /\ \A i \in 1..Len(docs'), s \in Segments : IsInjective(docs'[i][s])
<1>1. docs \in Versions /\ Len(docs) \in Nat
  BY DEF TypeOK, Versions
<1>2. /\ docs' \in Versions /\ Len(docs') = Len(docs) + 1 /\ docs'[Len(docs) + 1] = d
      /\ \A i \in 1..Len(docs) : docs'[i] = docs[i]
  BY <1>1 DEF Versions
<1>3. docs' # <<>>
  BY <1>1, <1>2
<1>4. ASSUME NEW i \in 1..Len(docs'), NEW s \in Segments PROVE IsInjective(docs'[i][s])
  <2>1. CASE i = Len(docs) + 1
    BY <1>2, <2>1
  <2>2. CASE i # Len(docs) + 1
    <3>1. i \in 1..Len(docs)
      BY <1>1, <1>2, <2>2
    <3>2. QED
      BY <1>2, <3>1 DEF TypeOK
  <2>3. QED
    BY <2>1, <2>2
<1>5. QED
  BY <1>1, <1>2, <1>3, <1>4 DEF Latest

\* Somebody leaves a list, or joins it.
LEMMA ListChanges ==
    ASSUME TypeOK, NEW s \in Segments, NEW list \in Seq(People), IsInjective(list),
           docs' = Append(docs, [docs[Latest] EXCEPT ![s] = list])
    PROVE  /\ docs' \in Versions /\ docs' # <<>>
           /\ Latest \in Nat /\ Latest' = Latest + 1
           /\ \A i \in 1..Len(docs'), x \in Segments : IsInjective(docs'[i][x])
<1> DEFINE d == [docs[Latest] EXCEPT ![s] = list]
<1>1. Latest \in 1..Len(docs) /\ docs[Latest] \in [Segments -> Seq(People)]
  BY LatestIsDocument
<1>2. \A x \in Segments : IsInjective(docs[Latest][x])
  BY LatestIsDocument
<1>3. d \in [Segments -> Seq(People)] /\ \A x \in Segments : d[x] = IF x = s THEN list ELSE docs[Latest][x]
  BY <1>1
<1> HIDE DEF d
<1>4. docs' = Append(docs, d) /\ \A x \in Segments : IsInjective(d[x])
  BY <1>2, <1>3 DEF d
<1>5. QED
  BY <1>3, <1>4, DocumentGrows

\* The blocks of the main queue keep their shape when one joins that delivers
\* the latest version, if any.
LEMMA BlockJoins ==
    ASSUME TypeOK, NEW b \in Block, main' = Append(main, b), docs' = docs, b.op \in Reads => b.doc = Latest
    PROVE  /\ main' \in Seq(Block)
           /\ \A i \in 1..Len(main') : main'[i].op \in Reads => main'[i].doc \in 1..Latest'
<1>1. main \in Seq(Block) /\ Latest \in 1..Latest /\ Latest' = Latest
  BY DEF TypeOK, Latest
<1>2. /\ main' \in Seq(Block) /\ Len(main) \in Nat /\ Len(main') = Len(main) + 1
      /\ main'[Len(main) + 1] = b /\ \A i \in 1..Len(main) : main'[i] = main[i]
  BY <1>1
<1>3. ASSUME NEW i \in 1..Len(main'), main'[i].op \in Reads PROVE main'[i].doc \in 1..Latest'
  <2>1. CASE i = Len(main) + 1
    BY <1>1, <1>2, <1>3, <2>1
  <2>2. CASE i # Len(main) + 1
    <3>1. i \in 1..Len(main)
      BY <1>2, <2>2
    <3>2. QED
      BY <1>1, <1>2, <1>3, <3>1 DEF TypeOK
  <2>3. QED
    BY <2>1, <2>2
<1>4. QED
  BY <1>2, <1>3

\* The first is run.
LEMMA BlockIsRun ==
    ASSUME TypeOK, main # <<>>, main' = Tail(main)
    PROVE  /\ main' \in Seq(Block) /\ Head(main) \in Block /\ Head(main) = main[1]
           /\ Len(main) \in Nat \ {0} /\ Len(main') = Len(main) - 1
           /\ \A i \in 1..Len(main') : i + 1 \in 1..Len(main) /\ main'[i] = main[i + 1]
           /\ \A i \in 1..Len(main') : main'[i].op \in Reads => main'[i].doc \in 1..Latest
<1>1. main \in Seq(Block)
  BY DEF TypeOK
<1>2. /\ main' \in Seq(Block) /\ Head(main) \in Block /\ Head(main) = main[1]
      /\ Len(main) \in Nat \ {0} /\ Len(main') = Len(main) - 1
      /\ \A i \in 1..Len(main') : main'[i] = main[i + 1]
  BY <1>1, HeadTailProperties
<1>3. \A i \in 1..Len(main') : i + 1 \in 1..Len(main)
  BY <1>2
<1>4. QED
  BY <1>2, <1>3 DEF TypeOK

\* What an open page asks for when it is left is for loggedUser only.
LEMMA CloseIsTyped ==
    ASSUME TypeOK, Close
    PROVE  /\ reads' \in Seq(Reads)
           /\ main' \in Seq(Block)
           /\ \A i \in 1..Len(main') : main'[i].op = "logged"
           /\ \A i \in 1..Len(main') : \E a \in 1..Len(main) :
                 main[a].op \in Reads /\ main'[i].doc = main[a].doc
           /\ \A i, j \in 1..Len(main') : i < j => \E a, b \in 1..Len(main) :
                 /\ a < b /\ main[a].op \in Reads /\ main[b].op \in Reads
                 /\ main'[i].doc = main[a].doc /\ main'[j].doc = main[b].doc
<1> DEFINE K == {b \in Block : b.op = "logged"}
           o == OrphanedBlocks
           r == Filter(reads, {"logged", "unfollow"})
<1>1. reads' = Orphaned(r) /\ main' = Filter(o, K)
  BY DEF Close
<1>2. reads \in Seq(Reads) /\ main \in Seq(Block)
  BY DEF TypeOK
<1>3. r \in Seq(Reads)
  BY <1>2, FilterPicks
<1> HIDE DEF r
<1>4. Orphaned(r) \in Seq(Reads)
  <2>1. \A i \in 1..Len(r) : (IF r[i] = "unfollow" THEN "logged" ELSE r[i]) \in Reads
    BY <1>3 DEF Reads
  <2>2. Len(r) \in Nat
    BY <1>3
  <2>3. QED
    BY <2>1, <2>2 DEF Orphaned
<1>5. \A b \in Block : /\ [b EXCEPT !.op = "logged"] \in Block
                       /\ [b EXCEPT !.op = "logged"].doc = b.doc
  BY DEF Block, Reads
<1>6. /\ o \in Seq(Block) /\ Len(o) = Len(main)
      /\ \A i \in 1..Len(main) :
            o[i] = IF main[i].op = "unfollow" THEN [main[i] EXCEPT !.op = "logged"] ELSE main[i]
  <2>1. Len(main) \in Nat /\ \A i \in 1..Len(main) : main[i] \in Block
    BY <1>2
  <2>2. QED
    BY <1>5, <2>1 DEF OrphanedBlocks
<1> HIDE DEF o
<1>7. \A i \in 1..Len(main) : o[i].doc = main[i].doc
  <2>1. \A i \in 1..Len(main) : main[i] \in Block
    BY <1>2
  <2>2. QED
    BY <1>5, <1>6, <2>1
<1>8. \A i \in 1..Len(main) : o[i].op = "logged" => main[i].op \in Reads
  BY <1>2, <1>6 DEF Block, Reads
<1>9. main' \in Seq(Block) /\ Picked(main', o, Len(main), K)
  BY <1>1, <1>6, FilterPicks
<1>10. \A i \in 1..Len(main') : main'[i].op = "logged"
  BY <1>9 DEF Picked
<1>11. ASSUME NEW i \in 1..Len(main')
       PROVE  \E a \in 1..Len(main) : main[a].op \in Reads /\ main'[i].doc = main[a].doc
  <2>1. PICK a \in 1..Len(main) : main'[i] = o[a]
    BY <1>9 DEF Picked
  <2>2. o[a].op = "logged"
    BY <1>10, <2>1
  <2>3. QED
    BY <1>7, <1>8, <2>1, <2>2
<1>12. ASSUME NEW i \in 1..Len(main'), NEW j \in 1..Len(main'), i < j
       PROVE  \E a, b \in 1..Len(main) :
                 /\ a < b /\ main[a].op \in Reads /\ main[b].op \in Reads
                 /\ main'[i].doc = main[a].doc /\ main'[j].doc = main[b].doc
  <2>1. PICK a \in 1..Len(main), b \in 1..Len(main) : a < b /\ main'[i] = o[a] /\ main'[j] = o[b]
    BY <1>9, <1>12 DEF Picked
  <2>2. o[a].op = "logged" /\ o[b].op = "logged"
    BY <1>10, <2>1
  <2>3. QED
    BY <1>7, <1>8, <2>1, <2>2
<1>13. QED
  BY <1>1, <1>4, <1>9, <1>10, <1>11, <1>12

\* The first state has its types.
LEMMA TypeInit == Init => TypeOK
<1> SUFFICES ASSUME Init PROVE TypeOK
  OBVIOUS
<1> DEFINE L == UNION {[1..n -> People] : n \in 0..Cardinality(People)}
<1>1. PICK f \in L, g \in L :
          /\ IsInjective(f) /\ IsInjective(g)
          /\ docs = <<[s \in Segments |-> IF s = "following" THEN f ELSE g]>>
  BY DEF Init
<1>2. Cardinality(People) \in Nat
  BY FS_CardinalityType, ConnectionsAssumption
<1>3. f \in Seq(People) /\ g \in Seq(People)
  <2>1. \A l \in L : \E n \in Nat : l \in [1..n -> People]
    BY <1>2
  <2>2. \A l \in L : l \in Seq(People)
    BY <2>1
  <2>3. QED
    BY <2>2
<1> HIDE DEF L
<1> DEFINE d == [s \in Segments |-> IF s = "following" THEN f ELSE g]
<1>4. d \in [Segments -> Seq(People)] /\ \A s \in Segments : IsInjective(d[s])
  BY <1>1, <1>3
<1> HIDE DEF d
<1>5. docs = <<d>>
  BY <1>1 DEF d
<1>6. /\ docs \in Seq([Segments -> Seq(People)]) /\ docs # <<>> /\ Latest = 1
      /\ \A i \in 1..Len(docs), s \in Segments : IsInjective(docs[i][s])
  BY <1>4, <1>5 DEF Latest
<1>7. kept \in [Segments -> SUBSET People]
  BY DEF Init
<1>8. main = <<>> /\ main \in Seq(Block) /\ Len(main) = 0 /\ reads \in Seq(Reads)
  BY DEF Init
<1>9. logged \in 0..Latest /\ rows \in 1..Latest
  BY <1>6 DEF Init
<1>10. \A i \in 1..Len(main) : main[i].op \in Reads => main[i].doc \in 1..Latest
  BY <1>8
<1>11. open = FALSE /\ disturbed = FALSE /\ segment = "following" /\ source = "none"
  BY DEF Init
<1>12. QED
  BY <1>6, <1>7, <1>8, <1>9, <1>10, <1>11 DEF TypeOK, Segments

\* Every step keeps them.
LEMMA TypeStep == TypeOK /\ [Next]_vars => TypeOK'
<1> SUFFICES ASSUME TypeOK, [Next]_vars PROVE TypeOK'
  OBVIOUS
<1>1. Latest \in Nat \ {0} /\ Latest = Len(docs)
  BY LatestIsDocument
<1>2. ASSUME docs' = docs PROVE Latest' = Latest
  BY <1>2 DEF Latest
<1>3. ASSUME Open PROVE TypeOK'
  <2>1. Do("segment") \in Block /\ Do("update") \in Block
    BY DEF Do, Block, Reads
  <2>2. Do("segment").op \notin Reads /\ Do("update").op \notin Reads
    BY DEF Do, Reads
  <2>3. main' = main \o <<Do("segment"), Do("update")>> /\ docs' = docs
    BY <1>3 DEF Open
  <2> DEFINE a == Do("segment")
             b == Do("update")
  <2> HIDE DEF a, b
  <2>4. /\ main \in Seq(Block) /\ main' \in Seq(Block) /\ Len(main') = Len(main) + 2
        /\ \A i \in 1..Len(main) : main'[i] = main[i]
        /\ main'[Len(main) + 1] = a /\ main'[Len(main) + 2] = b
    <3>1. a \in Block /\ b \in Block /\ main' = main \o <<a, b>> /\ main \in Seq(Block)
      BY <2>1, <2>3 DEF TypeOK, a, b
    <3>2. QED
      BY <3>1
  <2>5. ASSUME NEW i \in 1..Len(main'), main'[i].op \in Reads PROVE main'[i].doc \in 1..Latest'
    <3>1. i \in 1..Len(main) \/ i = Len(main) + 1 \/ i = Len(main) + 2
      BY <2>4
    <3>2. i \in 1..Len(main)
      BY <2>2, <2>4, <2>5, <3>1 DEF a, b
    <3>3. QED
      BY <1>2, <2>3, <2>4, <2>5, <3>2 DEF TypeOK
  <2>6. logged \in 1..Latest
    BY <1>3 DEF Open, TypeOK
  <2>7. disturbed' \in BOOLEAN /\ kept' \in [Segments -> SUBSET People]
    BY <1>3 DEF Open
  <2>8. QED
    BY <1>2, <1>3, <2>3, <2>4, <2>5, <2>6, <2>7 DEF Open, TypeOK, Segments
<1>4. ASSUME Close PROVE TypeOK'
  <2>1. \A i \in 1..Len(main') : main'[i].doc \in 1..Latest
    BY <1>4, CloseIsTyped DEF TypeOK
  <2>2. docs' = docs
    BY <1>4 DEF Close
  <2>3. QED
    BY <1>2, <1>4, <2>1, <2>2, CloseIsTyped DEF Close, TypeOK
<1>5. ASSUME Appear \/ (\E s \in Segments : Select(s)) PROVE TypeOK'
  <2>1. PICK op \in {"segment", "update"} : main' = Append(main, Do(op))
    BY <1>5 DEF Appear, Select
  <2>2. docs' = docs
    BY <1>5 DEF Appear, Select
  <2>3. Do(op) \in Block /\ Do(op).op \notin Reads
    BY DEF Do, Block, Reads
  <2>4. /\ main' \in Seq(Block)
        /\ \A i \in 1..Len(main') : main'[i].op \in Reads => main'[i].doc \in 1..Latest'
    BY <2>1, <2>2, <2>3, BlockJoins
  <2>5. /\ UNCHANGED <<docs, logged, open, rows, kept, source, reads, disturbed>>
        /\ segment' \in Segments
    BY <1>5 DEF Appear, Select, TypeOK
  <2>6. QED
    BY <1>2, <2>4, <2>5 DEF TypeOK
<1>6. ASSUME NEW p \in People, Unfollow(p) PROVE TypeOK'
  <2> DEFINE list == Without(docs[Latest]["following"], p)
  <2>1. docs[Latest]["following"] \in Seq(People) /\ IsInjective(docs[Latest]["following"])
    BY LatestIsDocument DEF Segments
  <2>2. list \in Seq(People) /\ IsInjective(list)
    BY <2>1, WithoutIsList
  <2>3. docs' = Append(docs, [docs[Latest] EXCEPT !["following"] = list])
    BY <1>6 DEF Unfollow
  <2> HIDE DEF list
  <2>4. /\ docs' \in Versions /\ docs' # <<>> /\ Latest' = Latest + 1
        /\ \A i \in 1..Len(docs'), x \in Segments : IsInjective(docs'[i][x])
    BY <2>2, <2>3, ListChanges DEF Segments
  <2>5. reads' \in Seq(Reads)
    BY <1>6 DEF Unfollow, TypeOK, Reads
  <2>6. UNCHANGED <<logged, open, rows, kept, segment, source, main>> /\ disturbed' = FALSE
    BY <1>6 DEF Unfollow
  <2>7. logged' \in 0..Latest' /\ rows' \in 1..Latest'
    <3>1. logged \in 0..Latest /\ rows \in 1..Latest
      BY DEF TypeOK
    <3>2. QED
      BY <1>1, <2>4, <2>6, <3>1
  <2>8. \A i \in 1..Len(main') : main'[i].op \in Reads => main'[i].doc \in 1..Latest'
    <3>1. \A i \in 1..Len(main) : main[i].op \in Reads => main[i].doc \in 1..Latest
      BY DEF TypeOK
    <3>2. main' = main /\ 1..Latest \subseteq 1..Latest'
      BY <1>1, <2>4, <2>6
    <3>3. QED
      BY <3>1, <3>2
  <2>9. QED
    BY <2>4, <2>5, <2>6, <2>7, <2>8 DEF TypeOK, Versions
<1>7. ASSUME SegmentBlock \/ UpdateBlock \/ RowsBlock \/ LoggedBlock PROVE TypeOK'
  <2>1. main # <<>> /\ main' = Tail(main) /\ docs' = docs
    BY <1>7 DEF SegmentBlock, UpdateBlock, RowsBlock, LoggedBlock, NextBlock
  <2>2. /\ main' \in Seq(Block) /\ Head(main) = main[1] /\ Len(main) \in Nat \ {0}
        /\ \A i \in 1..Len(main') : main'[i].op \in Reads => main'[i].doc \in 1..Latest
    BY <2>1, BlockIsRun
  <2>3. main[1].op \in Reads => main[1].doc \in 1..Latest
    BY <2>2 DEF TypeOK
  <2>4. CASE SegmentBlock
    BY <1>2, <2>1, <2>2, <2>4 DEF SegmentBlock, TypeOK
  <2>5. CASE UpdateBlock
    <3>1. reads' \in Seq(Reads)
      BY <2>5 DEF UpdateBlock, TypeOK, Reads
    <3>2. QED
      BY <1>2, <2>1, <2>2, <2>5, <3>1 DEF UpdateBlock, TypeOK
  <2>6. CASE RowsBlock
    <3>1. rows' \in 1..Latest
      BY <2>2, <2>3, <2>6 DEF RowsBlock, NextBlock, Reads
    <3>2. kept' \in [Segments -> SUBSET People]
      BY <2>6 DEF RowsBlock
    <3>3. QED
      BY <1>2, <2>1, <2>2, <2>6, <3>1, <3>2 DEF RowsBlock, TypeOK
  <2>7. CASE LoggedBlock
    <3>1. logged' \in 1..Latest
      BY <2>2, <2>3, <2>7 DEF LoggedBlock, NextBlock, Reads
    <3>2. reads' = reads \o <<"rows">> \/ reads' = reads \o <<>>
      BY <2>7 DEF LoggedBlock
    <3>3. reads' \in Seq(Reads)
      <4>1. reads \in Seq(Reads) /\ <<"rows">> \in Seq(Reads) /\ <<>> \in Seq(Reads)
        BY DEF TypeOK, Reads
      <4>2. QED
        BY <3>2, <4>1
    <3>4. UNCHANGED <<docs, open, rows, kept, segment, source, disturbed>>
      BY <2>7 DEF LoggedBlock
    <3>5. logged' \in 0..Latest /\ (open => logged' # 0)
      BY <1>1, <3>1
    <3>6. QED
      BY <1>2, <2>1, <2>2, <3>3, <3>4, <3>5 DEF TypeOK
  <2>8. QED
    BY <1>7, <2>4, <2>5, <2>6, <2>7
<1>8. ASSUME Load PROVE TypeOK'
  <2>1. reads' \in Seq(Reads)
    BY <1>8 DEF Load, TypeOK, Reads
  <2>2. QED
    BY <1>2, <1>8, <2>1 DEF Load, TypeOK
<1>9. ASSUME NEW i \in 1..Len(reads), Answer(i) PROVE TypeOK'
  <2> DEFINE b == [op |-> reads[i], doc |-> Latest]
  <2>1. reads[i] \in Reads /\ reads' \in Seq(Reads)
    BY <1>9, RemoveAtKeeps DEF Answer, TypeOK
  <2>2. b \in Block /\ b.op \in Reads /\ b.doc = Latest
    BY <1>1, <2>1 DEF Block
  <2>3. main' = Append(main, b) /\ docs' = docs
    BY <1>9 DEF Answer
  <2> HIDE DEF b
  <2>4. /\ main' \in Seq(Block)
        /\ \A j \in 1..Len(main') : main'[j].op \in Reads => main'[j].doc \in 1..Latest'
    BY <2>2, <2>3, BlockJoins
  <2>5. QED
    BY <1>2, <1>9, <2>1, <2>4 DEF Answer, TypeOK
<1>10. ASSUME NEW i \in 1..Len(reads), ReadFails(i) PROVE TypeOK'
  <2>1. reads' \in Seq(Reads)
    BY <1>10, RemoveAtKeeps DEF ReadFails, TypeOK
  <2>2. QED
    BY <1>2, <1>10, <2>1 DEF ReadFails, TypeOK
<1>11. ASSUME NEW s \in Segments, NEW p \in People, ChangeElsewhere(s, p) PROVE TypeOK'
  <2> DEFINE old == docs[Latest][s]
             list == IF Contains(old, p) THEN Without(old, p) ELSE Append(old, p)
  <2>1. old \in Seq(People) /\ IsInjective(old)
    BY LatestIsDocument
  <2>2. docs' = Append(docs, [docs[Latest] EXCEPT ![s] = list])
    BY <1>11 DEF ChangeElsewhere
  <2> HIDE DEF old
  <2>3. list \in Seq(People) /\ IsInjective(list)
    <3>1. CASE Contains(old, p)
      BY <2>1, <3>1, WithoutIsList
    <3>2. CASE ~Contains(old, p)
      BY <2>1, <3>2, LongerIsList
    <3>3. QED
      BY <3>1, <3>2
  <2> HIDE DEF list
  <2>4. /\ docs' \in Versions /\ docs' # <<>> /\ Latest' = Latest + 1
        /\ \A i \in 1..Len(docs'), x \in Segments : IsInjective(docs'[i][x])
    BY <2>2, <2>3, ListChanges
  <2>5. UNCHANGED <<logged, open, rows, kept, segment, source, reads, main>> /\ disturbed' = TRUE
    BY <1>11 DEF ChangeElsewhere
  <2>6. logged' \in 0..Latest' /\ rows' \in 1..Latest'
    <3>1. logged \in 0..Latest /\ rows \in 1..Latest
      BY DEF TypeOK
    <3>2. QED
      BY <1>1, <2>4, <2>5, <3>1
  <2>7. \A i \in 1..Len(main') : main'[i].op \in Reads => main'[i].doc \in 1..Latest'
    <3>1. \A i \in 1..Len(main) : main[i].op \in Reads => main[i].doc \in 1..Latest
      BY DEF TypeOK
    <3>2. main' = main /\ 1..Latest \subseteq 1..Latest'
      BY <1>1, <2>4, <2>5
    <3>3. QED
      BY <3>1, <3>2
  <2>8. QED
    BY <2>4, <2>5, <2>6, <2>7 DEF TypeOK, Versions
<1>12. ASSUME TapMissingRow PROVE TypeOK'
  <2>1. docs' = <<docs[Latest]>> /\ docs[Latest] \in [Segments -> Seq(People)]
    BY <1>12, LatestIsDocument DEF TapMissingRow
  <2>2. \A s \in Segments : IsInjective(docs[Latest][s])
    BY LatestIsDocument
  <2>3. /\ docs' \in Versions /\ docs' # <<>> /\ Latest' = 1
        /\ \A i \in 1..Len(docs'), s \in Segments : IsInjective(docs'[i][s])
    BY <2>1, <2>2 DEF Latest, Versions
  <2>4. kept' \in [Segments -> SUBSET People]
    BY <1>12 DEF TapMissingRow
  <2>5. main' = <<>> /\ main' \in Seq(Block) /\ Len(main') = 0 /\ reads' \in Seq(Reads)
    BY <1>12 DEF TapMissingRow
  <2>6. /\ logged' = 0 /\ rows' = 1 /\ open' = FALSE /\ disturbed' = FALSE
        /\ segment' = "following" /\ source' = "none"
    BY <1>12 DEF TapMissingRow
  <2>7. logged' \in 0..Latest' /\ rows' \in 1..Latest'
    BY <2>3, <2>6
  <2>8. \A i \in 1..Len(main') : main'[i].op \in Reads => main'[i].doc \in 1..Latest'
    BY <2>5
  <2>9. QED
    BY <2>3, <2>4, <2>5, <2>6, <2>7, <2>8 DEF TypeOK, Versions, Segments
<1>13. CASE UNCHANGED vars
  BY <1>13 DEF vars, TypeOK, Latest
<1>14. QED
  BY <1>3, <1>4, <1>5, <1>6, <1>7, <1>8, <1>9, <1>10, <1>11, <1>12, <1>13 DEF Next

\* Every variable has its type, nobody is twice in a list, and an open page has
\* a loggedUser to look rows up in.
THEOREM TypeCorrect == Spec => []TypeOK
<1>1. QED
  BY TypeInit, TypeStep, PTL DEF Spec
-----------------------------------------------------------------------------
(* Every step keeps the invariant.                                         *)

\* The page is opened: its rows are those of loggedUser.
LEMMA OpenStep == ASSUME IInv, Open PROVE InTurn' /\ UserFollows' /\ RowsFollow' /\ SegmentFollows'
<1> DEFINE a == Do("segment")
           b == Do("update")
<1>1. a.op = "segment" /\ b.op = "update" /\ a \in Block /\ b \in Block
  BY DEF Do, Block, Reads
<1>2. /\ main' = main \o <<a, b>> /\ open' = TRUE /\ rows' = logged /\ disturbed' = (logged # Latest)
      /\ docs' = docs /\ logged' = logged /\ reads' = reads /\ segment' = "following" /\ source' = "none"
  BY DEF Open
<1> HIDE DEF a, b
<1>3. /\ Len(main) \in Nat /\ Len(main') = Len(main) + 2
      /\ \A i \in 1..Len(main) : main'[i] = main[i]
      /\ main'[Len(main) + 1] = a /\ main'[Len(main) + 2] = b
  <2>1. main \in Seq(Block)
    BY DEF IInv, TypeOK
  <2>2. QED
    BY <1>1, <1>2, <2>1
<1>4. ASSUME NEW i \in 1..Len(main'), main'[i].op \in Reads
      PROVE  i \in 1..Len(main) /\ main'[i] = main[i] /\ logged <= main[i].doc
  <2>1. i \in 1..Len(main) \/ i = Len(main) + 1 \/ i = Len(main) + 2
    BY <1>3
  <2>2. i \in 1..Len(main)
    BY <1>1, <1>3, <1>4, <2>1 DEF Reads
  <2>3. QED
    BY <1>3, <1>4, <2>2 DEF IInv, InTurn
<1>5. InTurn'
  <2>1. \A i, j \in 1..Len(main') :
           i < j /\ main'[i].op \in Reads /\ main'[j].op \in Reads => main'[i].doc <= main'[j].doc
    BY <1>4 DEF IInv, InTurn
  <2>2. QED
    BY <1>2, <1>4, <2>1 DEF InTurn
<1>6. Latest' = Latest
  BY <1>2 DEF Latest
<1>7. SegmentFollows'
  BY <1>1, <1>3 DEF SegmentFollows
<1>8. QED
  BY <1>2, <1>5, <1>6, <1>7 DEF UserFollows, RowsFollow

\* A block joins the main queue, with the latest version if it delivers one.
LEMMA JoinInTurn ==
    ASSUME TypeOK, InTurn, NEW b \in Block, b.op \in Reads => b.doc = Latest,
           main' = Append(main, b), logged' = logged, rows' = rows
    PROVE  InTurn'
<1>1. main \in Seq(Block) /\ logged <= Latest /\ rows <= Latest
  BY DEF TypeOK, Latest
<1>2. /\ Len(main) \in Nat /\ Len(main') = Len(main) + 1
      /\ main'[Len(main) + 1] = b /\ \A i \in 1..Len(main) : main'[i] = main[i]
  BY <1>1
<1>3. \A i \in 1..Len(main) : main[i].op \in Reads => main[i].doc <= Latest
  BY DEF TypeOK, Latest
<1>4. ASSUME NEW i \in 1..Len(main'), main'[i].op \in Reads
      PROVE  logged <= main'[i].doc /\ rows <= main'[i].doc
  <2>1. i \in 1..Len(main) \/ i = Len(main) + 1
    BY <1>2
  <2>2. QED
    BY <1>1, <1>2, <1>4, <2>1 DEF InTurn
<1>5. ASSUME NEW i \in 1..Len(main'), NEW j \in 1..Len(main'), i < j,
             main'[i].op \in Reads, main'[j].op \in Reads
      PROVE  main'[i].doc <= main'[j].doc
  <2>1. i \in 1..Len(main)
    BY <1>2, <1>5
  <2>2. CASE j = Len(main) + 1
    BY <1>2, <1>3, <1>5, <2>1, <2>2
  <2>3. CASE j # Len(main) + 1
    <3>1. j \in 1..Len(main)
      BY <1>2, <2>3
    <3>2. QED
      BY <1>2, <1>5, <2>1, <3>1 DEF InTurn
  <2>4. QED
    BY <2>2, <2>3
<1>6. QED
  BY <1>4, <1>5 DEF InTurn

\* What waits goes on waiting when another block joins.
LEMMA JoinFollows ==
    ASSUME IInv, NEW b \in Block, main' = Append(main, b), UNCHANGED <<docs, logged, rows, open, disturbed>>,
           \A i \in 1..Len(reads) :
              \/ \E j \in 1..Len(reads') : reads'[j] = reads[i]
              \/ b = [op |-> reads[i], doc |-> Latest]
    PROVE  UserFollows' /\ RowsFollow'
<1>1. main \in Seq(Block)
  BY DEF IInv, TypeOK
<1>2. /\ Len(main) \in Nat /\ Len(main') = Len(main) + 1
      /\ main'[Len(main) + 1] = b /\ \A i \in 1..Len(main) : main'[i] = main[i]
  BY <1>1
<1>3. Latest' = Latest
  BY DEF Latest
<1>4. \A i \in 1..Len(main) : i \in 1..Len(main') /\ main'[i] = main[i]
  BY <1>2
<1>5. Len(main) + 1 \in 1..Len(main')
  BY <1>2
<1>6. UserFollows'
  <2>1. SUFFICES ASSUME open, ~disturbed, logged # Latest
                 PROVE  \/ \E i \in 1..Len(reads') : reads'[i] \in Renewing
                        \/ \E i \in 1..Len(main') : main'[i].op \in Renewing /\ main'[i].doc = Latest
    BY <1>3 DEF UserFollows
  <2>2. CASE \E i \in 1..Len(main) : main[i].op \in Renewing /\ main[i].doc = Latest
    BY <1>4, <2>2
  <2>3. CASE \E i \in 1..Len(reads) : reads[i] \in Renewing
    <3>1. PICK i \in 1..Len(reads) : reads[i] \in Renewing
      BY <2>3
    <3>2. CASE b = [op |-> reads[i], doc |-> Latest]
      <4>1. main'[Len(main) + 1].op \in Renewing /\ main'[Len(main) + 1].doc = Latest
        BY <1>2, <3>1, <3>2
      <4>2. QED
        BY <1>5, <4>1
    <3>3. QED
      BY <3>1, <3>2
  <2>4. QED
    BY <2>1, <2>2, <2>3 DEF IInv, UserFollows
<1>7. RowsFollow'
  <2>1. SUFFICES ASSUME open, ~disturbed, rows # Latest
                 PROVE  \/ \E i \in 1..Len(reads') : reads'[i] \in {"rows", "unfollow"}
                        \/ \E i \in 1..Len(main') :
                              main'[i].op = "unfollow" \/ (main'[i].op = "rows" /\ main'[i].doc = Latest)
    BY <1>3 DEF RowsFollow
  <2>2. CASE \E i \in 1..Len(main) : main[i].op = "unfollow" \/ (main[i].op = "rows" /\ main[i].doc = Latest)
    BY <1>4, <2>2
  <2>3. CASE \E i \in 1..Len(reads) : reads[i] \in {"rows", "unfollow"}
    <3>1. PICK i \in 1..Len(reads) : reads[i] \in {"rows", "unfollow"}
      BY <2>3
    <3>2. CASE b = [op |-> reads[i], doc |-> Latest]
      <4>1. main'[Len(main) + 1].op = reads[i] /\ main'[Len(main) + 1].doc = Latest
        BY <1>2, <3>2
      <4>2. QED
        BY <1>5, <3>1, <4>1
    <3>3. QED
      BY <3>1, <3>2
  <2>4. QED
    BY <2>1, <2>2, <2>3 DEF IInv, RowsFollow
<1>8. QED
  BY <1>6, <1>7

\* Coming back to the page, and the segmented control.
LEMMA ScreenStep ==
    ASSUME IInv, Appear \/ \E s \in Segments : Select(s)
    PROVE  InTurn' /\ UserFollows' /\ RowsFollow' /\ SegmentFollows'
<1>1. PICK op \in {"segment", "update"} : main' = Append(main, Do(op)) /\ (op = "update" => Appear)
  BY DEF Appear, Select
<1>2. UNCHANGED <<docs, logged, open, rows, kept, source, reads, disturbed>>
  BY DEF Appear, Select
<1>3. Do(op) \in Block /\ Do(op).op = op /\ op \notin Reads
  BY DEF Do, Block, Reads
<1>4. InTurn'
  BY <1>1, <1>2, <1>3, JoinInTurn DEF IInv
<1>5. UserFollows' /\ RowsFollow'
  BY <1>1, <1>2, <1>3, JoinFollows
<1>6. SegmentFollows'
  <2>1. main \in Seq(Block)
    BY DEF IInv, TypeOK
  <2>2. /\ Len(main) \in Nat /\ Len(main') = Len(main) + 1
        /\ main'[Len(main) + 1] = Do(op) /\ \A i \in 1..Len(main) : main'[i] = main[i]
    BY <1>1, <1>3, <2>1
  <2>3. CASE op = "segment"
    <3>1. Len(main) + 1 \in 1..Len(main') /\ main'[Len(main) + 1].op = "segment"
      BY <1>3, <2>2, <2>3
    <3>2. QED
      BY <3>1 DEF SegmentFollows
  <2>4. CASE op = "update"
    <3>1. segment' = segment
      BY <1>1, <2>4 DEF Appear
    <3>2. \A i \in 1..Len(main) : i \in 1..Len(main') /\ main'[i] = main[i]
      BY <2>2
    <3>3. QED
      BY <1>2, <3>1, <3>2 DEF IInv, SegmentFollows
  <2>5. QED
    BY <2>3, <2>4
<1>7. QED
  BY <1>4, <1>5, <1>6

\* A read is answered.
LEMMA AnswerStep ==
    ASSUME IInv, NEW n \in 1..Len(reads), Answer(n)
    PROVE  InTurn' /\ UserFollows' /\ RowsFollow' /\ SegmentFollows'
<1> DEFINE b == [op |-> reads[n], doc |-> Latest]
<1>1. main' = Append(main, b) /\ reads' = RemoveAt(reads, n)
  BY DEF Answer
<1>2. UNCHANGED <<docs, logged, open, rows, kept, segment, source, disturbed>>
  BY DEF Answer
<1>3. reads \in Seq(Reads) /\ main \in Seq(Block)
  BY DEF IInv, TypeOK
<1>4. b \in Block /\ b.doc = Latest
  <2>1. reads[n] \in Reads /\ Latest \in Nat
    BY <1>3 DEF IInv, TypeOK, Latest
  <2>2. QED
    BY <2>1 DEF Block
<1>5. \A i \in 1..Len(reads) : (\E j \in 1..Len(reads') : reads'[j] = reads[i]) \/ i = n
  BY <1>1, <1>3, RemoveAtLeaves
<1>6. \A i \in 1..Len(reads) : (\E j \in 1..Len(reads') : reads'[j] = reads[i])
                               \/ b = [op |-> reads[i], doc |-> Latest]
  BY <1>5
<1> HIDE DEF b
<1>7. InTurn'
  BY <1>1, <1>2, <1>4, JoinInTurn DEF IInv
<1>8. UserFollows' /\ RowsFollow'
  BY <1>1, <1>2, <1>4, <1>6, JoinFollows
<1>9. \A i \in 1..Len(main) : i \in 1..Len(main') /\ main'[i] = main[i]
  BY <1>1, <1>3, <1>4
<1>10. SegmentFollows'
  BY <1>2, <1>9 DEF IInv, SegmentFollows
<1>11. QED
  BY <1>7, <1>8, <1>10

\* What is read, or changes in the document, leaves the main queue alone.
LEMMA ReadsStep ==
    ASSUME IInv,
           \/ \E p \in People : Unfollow(p)
           \/ Load
           \/ \E i \in 1..Len(reads) : ReadFails(i)
           \/ \E s \in Segments, p \in People : ChangeElsewhere(s, p)
    PROVE  InTurn' /\ UserFollows' /\ RowsFollow' /\ SegmentFollows'
<1>1. UNCHANGED <<logged, open, rows, segment, source, main>>
  BY DEF Unfollow, Load, ReadFails, ChangeElsewhere
<1>2. InTurn' /\ SegmentFollows'
  BY <1>1 DEF IInv, InTurn, SegmentFollows
<1>3. reads \in Seq(Reads)
  BY DEF IInv, TypeOK
<1>4. ASSUME NEW p \in People, Unfollow(p) PROVE UserFollows' /\ RowsFollow'
  <2>1. reads' = Append(reads, "unfollow")
    BY <1>4 DEF Unfollow
  <2>2. Len(reads) + 1 \in 1..Len(reads') /\ reads'[Len(reads) + 1] = "unfollow"
    BY <1>3, <2>1
  <2>3. QED
    BY <2>2 DEF UserFollows, RowsFollow, Renewing
<1>5. ASSUME Load PROVE UserFollows' /\ RowsFollow'
  <2>1. reads' = Append(reads, "logged") /\ docs' = docs /\ disturbed' = disturbed
    BY <1>5 DEF Load
  <2>2. Latest' = Latest
    BY <2>1 DEF Latest
  <2>3. \A i \in 1..Len(reads) : i \in 1..Len(reads') /\ reads'[i] = reads[i]
    BY <1>3, <2>1
  <2>4. QED
    BY <1>1, <2>1, <2>2, <2>3 DEF IInv, UserFollows, RowsFollow
<1>6. ASSUME disturbed' PROVE UserFollows' /\ RowsFollow'
  BY <1>6 DEF UserFollows, RowsFollow
<1>7. QED
  BY <1>2, <1>4, <1>5, <1>6 DEF ReadFails, ChangeElsewhere

\* A block is run.
LEMMA BlockStep ==
    ASSUME IInv, SegmentBlock \/ UpdateBlock \/ RowsBlock \/ LoggedBlock
    PROVE  InTurn' /\ UserFollows' /\ RowsFollow' /\ SegmentFollows'
<1> DEFINE h == main[1]
<1>1. main # <<>> /\ main' = Tail(main) /\ UNCHANGED <<docs, open, segment, disturbed>>
  BY DEF SegmentBlock, UpdateBlock, RowsBlock, LoggedBlock, NextBlock
<1>2. /\ Head(main) = h /\ Len(main) \in Nat \ {0} /\ Len(main') = Len(main) - 1
      /\ \A i \in 1..Len(main') : i + 1 \in 1..Len(main) /\ main'[i] = main[i + 1]
  BY <1>1, BlockIsRun DEF IInv
<1>3. Latest' = Latest /\ Latest \in Nat
  BY <1>1 DEF Latest, IInv, TypeOK
<1>4. 1 \in 1..Len(main) /\ \A i \in 1..Len(main) : i = 1 \/ (i - 1 \in 1..Len(main') /\ main'[i - 1] = main[i])
  BY <1>2
<1>5. h.op \in Reads => h.doc \in Nat /\ h.doc <= Latest /\ logged <= h.doc /\ rows <= h.doc
  BY <1>3, <1>4 DEF IInv, TypeOK, InTurn
<1>6. \A i \in 1..Len(main') : h.op \in Reads /\ main'[i].op \in Reads => h.doc <= main'[i].doc
  <2>1. \A i \in 1..Len(main') : 1 < i + 1
    OBVIOUS
  <2>2. QED
    BY <1>2, <1>4, <2>1 DEF IInv, InTurn
<1> HIDE DEF h
<1>7. logged' = logged \/ (logged' = h.doc /\ h.op \in Renewing)
  BY <1>2 DEF SegmentBlock, UpdateBlock, RowsBlock, LoggedBlock, NextBlock, Renewing
<1>8. rows' = rows \/ (rows' = h.doc /\ h.op = "rows")
  BY <1>2 DEF SegmentBlock, UpdateBlock, RowsBlock, LoggedBlock, NextBlock
<1>9. /\ h.op \in Renewing => logged' = h.doc
      /\ h.op = "rows" => rows' = h.doc
      /\ h.op = "segment" => source' = segment
      /\ h.op # "segment" => source' = source
  BY <1>2 DEF SegmentBlock, UpdateBlock, RowsBlock, LoggedBlock, NextBlock, Renewing
<1>10. /\ \A i \in 1..Len(reads) : i \in 1..Len(reads') /\ reads'[i] = reads[i]
       /\ h.op = "unfollow" => \E i \in 1..Len(reads') : reads'[i] = "rows"
  <2>1. reads \in Seq(Reads)
    BY DEF IInv, TypeOK
  <2>2. \/ reads' = reads \/ reads' = Append(reads, "rows")
        \/ reads' = reads \o <<>> \/ reads' = reads \o <<"rows">>
    BY DEF SegmentBlock, UpdateBlock, RowsBlock, LoggedBlock
  <2>3. h.op = "unfollow" => reads' = reads \o <<"rows">>
    BY <1>2 DEF SegmentBlock, UpdateBlock, RowsBlock, LoggedBlock, NextBlock
  <2>4. \A i \in 1..Len(reads) : i \in 1..Len(reads') /\ reads'[i] = reads[i]
    BY <2>1, <2>2
  <2>5. ASSUME h.op = "unfollow" PROVE \E i \in 1..Len(reads') : reads'[i] = "rows"
    <3>1. Len(reads) + 1 \in 1..Len(reads') /\ reads'[Len(reads) + 1] = "rows"
      BY <2>1, <2>3, <2>5
    <3>2. QED
      BY <3>1
  <2>6. QED
    BY <2>4, <2>5
<1>11. InTurn'
  <2>1. ASSUME NEW i \in 1..Len(main'), NEW j \in 1..Len(main'), i < j,
               main'[i].op \in Reads, main'[j].op \in Reads
        PROVE  main'[i].doc <= main'[j].doc
    <3>1. i + 1 \in 1..Len(main) /\ j + 1 \in 1..Len(main) /\ i + 1 < j + 1
      BY <1>2, <2>1
    <3>2. QED
      BY <1>2, <2>1, <3>1 DEF IInv, InTurn
  <2>2. ASSUME NEW i \in 1..Len(main'), main'[i].op \in Reads
        PROVE  logged' <= main'[i].doc /\ rows' <= main'[i].doc
    <3>1. logged <= main'[i].doc /\ rows <= main'[i].doc
      BY <1>2, <2>2 DEF IInv, InTurn
    <3>2. QED
      BY <1>6, <1>7, <1>8, <2>2, <3>1 DEF Renewing, Reads
  <2>3. QED
    BY <2>1, <2>2 DEF InTurn
<1>12. UserFollows'
  <2>1. SUFFICES ASSUME open, ~disturbed, logged' # Latest
                 PROVE  \/ \E i \in 1..Len(reads') : reads'[i] \in Renewing
                        \/ \E i \in 1..Len(main') : main'[i].op \in Renewing /\ main'[i].doc = Latest
    BY <1>1, <1>3 DEF UserFollows
  <2>2. logged # Latest
    <3>1. logged \in Nat /\ logged <= Latest
      BY <1>3 DEF IInv, TypeOK
    <3>2. QED
      BY <1>3, <1>5, <1>7, <2>1, <3>1 DEF Renewing, Reads
  <2>3. CASE \E i \in 1..Len(reads) : reads[i] \in Renewing
    BY <1>10, <2>3
  <2>4. CASE \E i \in 1..Len(main) : main[i].op \in Renewing /\ main[i].doc = Latest
    <3>1. PICK i \in 1..Len(main) : main[i].op \in Renewing /\ main[i].doc = Latest
      BY <2>4
    <3>2. i # 1
      BY <1>9, <2>1, <3>1 DEF h
    <3>3. QED
      BY <1>4, <3>1, <3>2
  <2>5. QED
    BY <2>1, <2>2, <2>3, <2>4 DEF IInv, UserFollows
<1>13. RowsFollow'
  <2>1. SUFFICES ASSUME open, ~disturbed, rows' # Latest
                 PROVE  \/ \E i \in 1..Len(reads') : reads'[i] \in {"rows", "unfollow"}
                        \/ \E i \in 1..Len(main') :
                              main'[i].op = "unfollow" \/ (main'[i].op = "rows" /\ main'[i].doc = Latest)
    BY <1>1, <1>3 DEF RowsFollow
  <2>2. rows # Latest
    <3>1. rows \in Nat /\ rows <= Latest
      BY <1>3 DEF IInv, TypeOK
    <3>2. QED
      BY <1>3, <1>5, <1>8, <2>1, <3>1 DEF Reads
  <2>3. CASE \E i \in 1..Len(reads) : reads[i] \in {"rows", "unfollow"}
    BY <1>10, <2>3
  <2>4. CASE \E i \in 1..Len(main) : main[i].op = "unfollow" \/ (main[i].op = "rows" /\ main[i].doc = Latest)
    <3>1. PICK i \in 1..Len(main) : main[i].op = "unfollow" \/ (main[i].op = "rows" /\ main[i].doc = Latest)
      BY <2>4
    <3>2. CASE i = 1
      <4>1. h.op = "unfollow"
        BY <1>9, <2>1, <3>1, <3>2 DEF h
      <4>2. QED
        BY <1>10, <4>1
    <3>3. CASE i # 1
      BY <1>4, <3>1, <3>3
    <3>4. QED
      BY <3>2, <3>3
  <2>5. QED
    BY <2>1, <2>2, <2>3, <2>4 DEF IInv, RowsFollow
<1>14. SegmentFollows'
  <2>1. SUFFICES ASSUME open, source' # segment PROVE \E i \in 1..Len(main') : main'[i].op = "segment"
    BY <1>1 DEF SegmentFollows
  <2>2. h.op # "segment" /\ source # segment
    BY <1>9, <2>1
  <2>3. PICK i \in 1..Len(main) : main[i].op = "segment"
    BY <2>1, <2>2 DEF IInv, SegmentFollows
  <2>4. QED
    BY <1>4, <2>2, <2>3 DEF h
<1>15. QED
  BY <1>11, <1>12, <1>13, <1>14

\* The page is left, and what its blocks deliver keeps its order.
LEMMA CloseStep == ASSUME IInv, Close PROVE InTurn' /\ UserFollows' /\ RowsFollow' /\ SegmentFollows'
<1>1. open' = FALSE /\ UNCHANGED <<docs, logged, rows>>
  BY DEF Close
<1>2. \A i \in 1..Len(main') : \E a \in 1..Len(main) :
         main[a].op \in Reads /\ main'[i].doc = main[a].doc
  BY CloseIsTyped DEF IInv
<1>3. \A i, j \in 1..Len(main') : i < j => \E a, b \in 1..Len(main) :
         /\ a < b /\ main[a].op \in Reads /\ main[b].op \in Reads
         /\ main'[i].doc = main[a].doc /\ main'[j].doc = main[b].doc
  BY CloseIsTyped DEF IInv
<1>4. InTurn'
  <2>1. ASSUME NEW i \in 1..Len(main'), NEW j \in 1..Len(main'), i < j
        PROVE  main'[i].doc <= main'[j].doc
    BY <1>3, <2>1 DEF IInv, InTurn
  <2>2. ASSUME NEW i \in 1..Len(main')
        PROVE  logged' <= main'[i].doc /\ rows' <= main'[i].doc
    BY <1>1, <1>2 DEF IInv, InTurn
  <2>3. QED
    BY <2>1, <2>2 DEF InTurn
<1>5. QED
  BY <1>1, <1>4 DEF UserFollows, RowsFollow, SegmentFollows

\* It holds at first.
LEMMA InvInit == Init => IInv
<1> SUFFICES ASSUME Init PROVE IInv
  OBVIOUS
<1>1. main = <<>> /\ Len(main) = 0 /\ ~open
  BY DEF Init
<1>2. InTurn
  BY <1>1 DEF InTurn
<1>3. QED
  BY <1>1, <1>2, TypeInit DEF IInv, UserFollows, RowsFollow, SegmentFollows

\* It holds after every step.
LEMMA InvStep == IInv /\ [Next]_vars => IInv'
<1> SUFFICES ASSUME IInv, [Next]_vars PROVE InTurn' /\ UserFollows' /\ RowsFollow' /\ SegmentFollows'
  BY TypeStep DEF IInv
<1>1. CASE TapMissingRow
  <2>1. main' = <<>> /\ Len(main') = 0 /\ open' = FALSE
    BY <1>1 DEF TapMissingRow
  <2>2. InTurn'
    BY <2>1 DEF InTurn
  <2>3. QED
    BY <2>1, <2>2 DEF UserFollows, RowsFollow, SegmentFollows
<1>2. CASE UNCHANGED vars
  BY <1>2 DEF vars, IInv, InTurn, UserFollows, RowsFollow, SegmentFollows, Latest
<1>3. CASE Next /\ ~TapMissingRow
  BY <1>3, OpenStep, CloseStep, ScreenStep, ReadsStep, BlockStep, AnswerStep DEF Next
<1>4. QED
  BY <1>1, <1>2, <1>3

-----------------------------------------------------------------------------
(* The theorems.                                                           *)

\* Once every read of an undisturbed page is answered, both copies are the
\* latest version, and the table shows the segment selected.
LEMMA QuietIsCurrent ==
    ASSUME IInv, open, Quiet, ~disturbed
    PROVE  logged = Latest /\ rows = Latest /\ source = segment
<1>1. Len(main) = 0 /\ Len(reads) = 0
  BY DEF Quiet
<1>2. QED
  BY <1>1 DEF IInv, UserFollows, RowsFollow, SegmentFollows

\* When everything has been answered, a row that no filter has moved opens the
\* profile of the person it shows.
THEOREM RowsOpenTheirUsers == Spec => []RowOpensItsUser
<1>1. ASSUME IInv PROVE RowOpensItsUser
  <2>1. SUFFICES ASSUME open, Quiet, ~disturbed, kept[source] = People
                 PROVE  RowsOf(source) = docs[logged][segment]
    BY DEF RowOpensItsUser
  <2>2. logged = Latest /\ rows = Latest /\ source = segment
    BY <1>1, <2>1, QuietIsCurrent
  <2> DEFINE list == docs[rows][source]
  <2>3. list \in Seq(People)
    BY <1>1, <2>2 DEF IInv, TypeOK, Latest
  <2> HIDE DEF list
  <2>4. Filter(list, People) = list
    <3>1. \A i \in 1..Len(list) : list[i] \in People
      BY <2>3
    <3>2. QED
      BY <2>3, <3>1, FilterLeavesAll
  <2>5. QED
    BY <2>1, <2>2, <2>4 DEF RowsOf, list
<1>2. QED
  BY <1>1, InvInit, InvStep, PTL DEF Spec

\* Filtered or not, the rows are then those of the latest document: nobody who
\* was unfollowed is left among them.
THEOREM RowsBecomeCurrent == Spec => []RowsAreCurrent
<1>1. IInv => RowsAreCurrent
  BY QuietIsCurrent DEF RowsAreCurrent, RowsOf
<1>2. QED
  BY <1>1, InvInit, InvStep, PTL DEF Spec

=============================================================================
