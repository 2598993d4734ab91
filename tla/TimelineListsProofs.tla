------------------------- MODULE TimelineListsProofs -------------------------
(***************************************************************************)
(* What the insertion, the merge and the removal make of a list of any     *)
(* length: which entries it has, that none is there twice, and their       *)
(* order.  The merge and the removal are loops.  What holds after every    *)
(* turn of a loop is proved by induction, which is stated with sets here:  *)
(* of the turns after which it does not hold there would be a first one.   *)
(***************************************************************************)
EXTENDS TimelineLists, WellFoundedInduction, SequenceTheorems, FiniteSetTheorems, TLAPS

LEMMA LessIsWellFounded == IsWellFoundedOn({p \in Nat \X Nat : p[1] < p[2]}, Nat)
BY NatLessThanWellFounded DEF OpToRel

\* Induction, as a statement about sets: what holds of no number has a least exception.
LEMMA LeastNumber ==
    ASSUME NEW T \in SUBSET Nat, T # {}
    PROVE  \E x \in T : \A y \in T : x <= y
<1> DEFINE Less == {p \in Nat \X Nat : p[1] < p[2]}
<1>1. IsWellFoundedOn(Less, Nat)
  BY LessIsWellFounded
<1> HIDE DEF Less
<1>2. PICK x \in T : \A y \in T : <<y, x>> \notin Less
  BY <1>1, WFMin
<1>3. \A y \in T : ~(y < x)
  BY <1>2 DEF Less
<1> QED
  BY <1>3

\* Min and Max of the community modules, of sets of numbers that have one.
LEMMA MinIs ==
    ASSUME NEW T \in SUBSET Nat, T # {}
    PROVE  Min(T) \in T /\ \A y \in T : Min(T) <= y
BY LeastNumber DEF Min

LEMMA MaxIs ==
    ASSUME NEW n \in Nat, NEW T \in SUBSET (1 .. n), T # {}
    PROVE  Max(T) \in T /\ \A y \in T : Max(T) >= y
<1> DEFINE U == {n - y : y \in T}
<1>1. \A y \in T : y \in 1 .. n /\ n - y \in Nat
  OBVIOUS
<1>2. U \in SUBSET Nat /\ U # {}
  BY <1>1
<1> HIDE DEF U
<1>3. PICK x \in U : \A z \in U : x <= z
  BY <1>2, LeastNumber
<1>4. PICK m \in T : x = n - m
  BY DEF U
<1>5. \A y \in T : n - y \in U
  BY DEF U
<1>6. \A y \in T : m >= y
  BY <1>1, <1>3, <1>4, <1>5
<1> QED
  BY <1>6 DEF Max

-----------------------------------------------------------------------------
(* A fold from the left is a loop over its sequence.                             *)

\* The fold g over sets of turns, each of which is a step from the fold without the last.
IsFold(g, base, n, step) ==
    \A S \in SUBSET (1 .. n) :
        g[S] = IF S = {} THEN base ELSE step[<<g[S \ {Max(S)}], Max(S)>>]

\* Whatever the step, there is one.
LEMMA FoldExists ==
    ASSUME NEW M, NEW base \in M, NEW n \in Nat, NEW step \in [M \X (1 .. n) -> M]
    PROVE  \E g \in [SUBSET (1 .. n) -> M] : IsFold(g, base, n, step)
<1> DEFINE Fold(g, k) ==
             \A S \in SUBSET (1 .. k) :
                g[S] = IF S = {} THEN base ELSE step[<<g[S \ {Max(S)}], Max(S)>>]
           Bad == {k \in 0 .. n : ~ \E g \in [SUBSET (1 .. k) -> M] : Fold(g, k)}
<1>1. 0 \notin Bad
  <2> DEFINE g == [S \in SUBSET (1 .. 0) |-> base]
  <2>1. g \in [SUBSET (1 .. 0) -> M] /\ Fold(g, 0)
    OBVIOUS
  <2> QED
    BY <2>1
<1>2. ASSUME NEW k \in 0 .. n, k + 1 \in 0 .. n, k \notin Bad
      PROVE  k + 1 \notin Bad
  <2>1. PICK g \in [SUBSET (1 .. k) -> M] : Fold(g, k)
    BY <1>2
  <2> DEFINE h == [S \in SUBSET (1 .. k + 1) |->
                     IF k + 1 \notin S THEN g[S] ELSE step[<<g[S \ {k + 1}], k + 1>>]]
  <2>2. ASSUME NEW S \in SUBSET (1 .. k + 1), k + 1 \notin S
        PROVE  S \in SUBSET (1 .. k) /\ h[S] = g[S]
    BY <2>2
  <2>3. ASSUME NEW S \in SUBSET (1 .. k + 1), k + 1 \in S
        PROVE  /\ S \ {k + 1} \in SUBSET (1 .. k) /\ Max(S) = k + 1
               /\ h[S] = step[<<g[S \ {k + 1}], k + 1>>]
               /\ h[S \ {k + 1}] = g[S \ {k + 1}]
    <3>1. k + 1 \in Nat /\ S # {}
      BY <2>3
    <3>2. Max(S) \in S /\ Max(S) >= k + 1
      BY <2>3, <3>1, MaxIs
    <3>3. Max(S) \in 1 .. k + 1
      BY <3>2
    <3>4. Max(S) = k + 1
      BY <3>2, <3>3
    <3> QED
      BY <2>3, <3>4
  <2>4. h \in [SUBSET (1 .. k + 1) -> M]
    <3> SUFFICES ASSUME NEW S \in SUBSET (1 .. k + 1) PROVE h[S] \in M
      OBVIOUS
    <3>1. CASE k + 1 \notin S
      BY <3>1, <2>2
    <3>2. CASE k + 1 \in S
      <4>1. g[S \ {k + 1}] \in M
        BY <3>2, <2>3
      <4>2. k + 1 \in 1 .. n
        BY <1>2
      <4> QED
        BY <3>2, <2>3, <4>1, <4>2
    <3> QED
      BY <3>1, <3>2
  <2> HIDE DEF h
  <2>5. Fold(h, k + 1)
    <3> SUFFICES ASSUME NEW S \in SUBSET (1 .. k + 1)
                 PROVE  h[S] = IF S = {} THEN base ELSE step[<<h[S \ {Max(S)}], Max(S)>>]
      OBVIOUS
    <3>1. CASE k + 1 \in S
      BY <3>1, <2>3
    <3>2. CASE S = {}
      BY <3>2, <2>2, <2>1
    <3>3. CASE k + 1 \notin S /\ S # {}
      <4>1. S \in SUBSET (1 .. k) /\ h[S] = g[S]
        BY <3>3, <2>2
      <4>2. h[S \ {Max(S)}] = g[S \ {Max(S)}]
        BY <3>3, <2>2
      <4> QED
        BY <3>3, <4>1, <4>2, <2>1
    <3> QED
      BY <3>1, <3>2, <3>3
  <2> QED
    BY <2>4, <2>5
<1>3. Bad \in SUBSET Nat /\ \A k \in Bad : k \in 0 .. n
  OBVIOUS
<1>4. 0 \notin Bad /\ n \in 0 .. n
  BY <1>1
<1>5. \A k \in 0 .. n : k + 1 \in 0 .. n /\ k \notin Bad => k + 1 \notin Bad
  BY <1>2
<1>6. n \notin Bad => \E g \in [SUBSET (1 .. n) -> M] : Fold(g, n)
  BY <1>4
<1> HIDE DEF Bad
<1>7. Bad = {}
  <2> SUFFICES ASSUME Bad # {} PROVE FALSE
    OBVIOUS
  <2>1. PICK k \in Bad : \A j \in Bad : k <= j
    BY <1>3, LeastNumber
  <2>2. k \in 0 .. n /\ k # 0
    BY <1>3, <1>4, <2>1
  <2>3. k - 1 \in 0 .. n /\ (k - 1) + 1 = k /\ ~(k <= k - 1)
    BY <2>2
  <2>4. k - 1 \notin Bad
    BY <2>1, <2>3
  <2> QED
    BY <1>5, <2>1, <2>2, <2>3, <2>4
<1> QED
  BY <1>6, <1>7 DEF IsFold

\* Induction over the turns of a loop: P is the set of the turns for which something holds.
LEMMA Turns ==
    ASSUME NEW n \in Nat, NEW P, 0 \in P, \A i \in 1 .. n : i - 1 \in P => i \in P
    PROVE  \A i \in 0 .. n : i \in P
<1> DEFINE Bad == {i \in 0 .. n : i \notin P}
<1>1. Bad \in SUBSET Nat /\ \A i \in Bad : i \in 0 .. n /\ i \notin P
  OBVIOUS
<1>2. \A i \in 0 .. n : i \in P \/ i \in Bad
  OBVIOUS
<1> HIDE DEF Bad
<1>3. Bad = {}
  <2> SUFFICES ASSUME Bad # {} PROVE FALSE
    OBVIOUS
  <2>1. PICK k \in Bad : \A j \in Bad : k <= j
    BY <1>1, LeastNumber
  <2>2. k \in 1 .. n /\ k - 1 \in 0 .. n /\ ~(k <= k - 1)
    BY <1>1, <2>1
  <2> QED
    BY <1>1, <1>2, <2>1, <2>2
<1> QED
  BY <1>2, <1>3

\* The turns up to one of them: it is the last, and the others are those up to the one before.
LEMMA OneTurn ==
    ASSUME NEW n \in Nat, NEW i \in 1 .. n
    PROVE  /\ 1 .. i \in SUBSET (1 .. n) /\ 1 .. i # {}
           /\ Max(1 .. i) = i /\ (1 .. i) \ {i} = 1 .. (i - 1)
<1>1. i \in Nat /\ i \in 1 .. i /\ 1 .. i \in SUBSET (1 .. i) /\ 1 .. i # {}
  OBVIOUS
<1>2. Max(1 .. i) \in 1 .. i /\ Max(1 .. i) >= i
  BY <1>1, MaxIs
<1>3. Max(1 .. i) = i
  BY <1>1, <1>2
<1>4. 1 .. i \in SUBSET (1 .. n)
  OBVIOUS
<1>5. (1 .. i) \ {i} = 1 .. (i - 1)
  OBVIOUS
<1> QED
  BY <1>1, <1>3, <1>4, <1>5

\* A fold g over the sets of turns, and the loop f that it stands for.
LEMMA FoldTurns ==
    ASSUME NEW n \in Nat
    PROVE  /\ 1 .. n \in SUBSET (1 .. n) /\ {} \in SUBSET (1 .. n)
           /\ \A i \in 0 .. n : 1 .. i \in SUBSET (1 .. n)
           /\ \A i \in 1 .. n : 1 .. i # {} /\ Max(1 .. i) = i /\ (1 .. i) \ {i} = 1 .. (i - 1)
           /\ 1 .. 0 = {}
           /\ \A S \in SUBSET (1 .. n) : S # {} =>
                Max(S) \in 1 .. n /\ S \ {Max(S)} \in SUBSET (1 .. n)
<1>1. ASSUME NEW i \in 1 .. n
      PROVE  1 .. i # {} /\ Max(1 .. i) = i /\ (1 .. i) \ {i} = 1 .. (i - 1)
  BY OneTurn
<1>2. ASSUME NEW S \in SUBSET (1 .. n), S # {}
      PROVE  Max(S) \in 1 .. n /\ S \ {Max(S)} \in SUBSET (1 .. n)
  BY <1>2, MaxIs
<1> QED
  BY <1>1, <1>2

\* A function h that is such a fold where its values are in M, as a loop: f is what there
\* is after each turn.
IsLoop(f, base, n, step, end) ==
    f[0] = base /\ f[n] = end /\ \A i \in 1 .. n : f[i] = step[<<f[i - 1], i>>]

IsFoldIn(M, h, base, n, step) ==
    /\ h[{}] = base
    /\ \A S \in SUBSET (1 .. n) :
         S # {} /\ h[S \ {Max(S)}] \in M => h[S] = step[<<h[S \ {Max(S)}], Max(S)>>]

LEMMA LoopOfFold ==
    ASSUME NEW M, NEW base \in M, NEW n \in Nat, NEW step \in [M \X (1 .. n) -> M], NEW h,
           IsFoldIn(M, h, base, n, step)
    PROVE  \E f \in [0 .. n -> M] : IsLoop(f, base, n, step, h[1 .. n])
<1> DEFINE f == [i \in 0 .. n |-> h[1 .. i]]
           P == {i \in 0 .. n : f[i] \in M}
<1>1. f[0] = base
  BY FoldTurns DEF IsFoldIn
<1>2. ASSUME NEW i \in 1 .. n, f[i - 1] \in M
      PROVE  f[i] = step[<<f[i - 1], i>>] /\ f[i] \in M
  <2>1. /\ 1 .. i \in SUBSET (1 .. n) /\ 1 .. i # {} /\ Max(1 .. i) = i
        /\ (1 .. i) \ {i} = 1 .. (i - 1) /\ i \in 0 .. n /\ i - 1 \in 0 .. n
    <3>1. /\ 1 .. i \in SUBSET (1 .. n) /\ 1 .. i # {} /\ Max(1 .. i) = i
          /\ (1 .. i) \ {i} = 1 .. (i - 1)
      <4> HIDE DEF f
      <4> QED
        BY OneTurn
    <3>2. i \in 0 .. n /\ i - 1 \in 0 .. n
      OBVIOUS
    <3> QED
      BY <3>1, <3>2
  <2>2. f[i - 1] = h[1 .. (i - 1)] /\ f[i] = h[1 .. i]
    BY <2>1
  <2> HIDE DEF f
  <2>3. h[1 .. i] = step[<<h[1 .. (i - 1)], i>>]
    BY <2>1, <2>2, <1>2 DEF IsFoldIn
  <2> QED
    BY <2>2, <2>3, <1>2
<1>3. f[n] = h[1 .. n] /\ DOMAIN f = 0 .. n /\ f = [i \in 0 .. n |-> f[i]]
  OBVIOUS
<1> HIDE DEF f
<1>4. 0 \in P
  BY <1>1
<1>step. \A i \in 1 .. n : i - 1 \in P => i \in P
  <2> SUFFICES ASSUME NEW i \in 1 .. n, i - 1 \in P PROVE i \in P
    OBVIOUS
  <2>1. f[i - 1] \in M /\ i \in 0 .. n
    OBVIOUS
  <2> QED
    BY <2>1, <1>2
<1>5. \A i \in 0 .. n : f[i] \in M
  <2>1. \A i \in 0 .. n : i \in P
    <3> HIDE DEF P
    <3> QED
      BY <1>4, <1>step, Turns
  <2> QED
    BY <2>1
<1>6. f \in [0 .. n -> M]
  BY <1>3, <1>5
<1>7. \A i \in 1 .. n : f[i] = step[<<f[i - 1], i>>]
  <2> SUFFICES ASSUME NEW i \in 1 .. n PROVE f[i] = step[<<f[i - 1], i>>]
    OBVIOUS
  <2>1. i - 1 \in 0 .. n
    OBVIOUS
  <2> QED
    BY <2>1, <1>2, <1>5
<1> QED
  BY <1>1, <1>3, <1>6, <1>7 DEF IsLoop

-----------------------------------------------------------------------------
(* Lists into which an entry is put.                                            *)

\* new is list with e at place k.
PutAt(new, list, k, e) ==
    /\ k \in 1 .. Len(list) + 1 /\ Len(new) = Len(list) + 1
    /\ \A i \in 1 .. Len(new) :
         new[i] = IF i < k THEN list[i] ELSE IF i = k THEN e ELSE list[i - 1]

LEMMA PutAtKeeps ==
    ASSUME NEW E, NEW list \in Seq(E), NEW e \in E, NEW new, NEW k, new \in Seq(E), PutAt(new, list, k, e)
    PROVE  /\ ToSet(new) = ToSet(list) \cup {e}
           /\ IsInjective(list) /\ e \notin ToSet(list) => IsInjective(new)
           /\ \A c, d : Precedes(list, c, d) => Precedes(new, c, d)
<1> DEFINE n == Len(list)
           to(i) == IF i < k THEN i ELSE i + 1
           from(i) == IF i < k THEN i ELSE i - 1
<1>1. /\ n \in Nat /\ DOMAIN list = 1 .. n /\ DOMAIN new = 1 .. n + 1 /\ k \in 1 .. n + 1
      /\ new[k] = e
  BY DEF PutAt
<1>2. \A i \in 1 .. n : to(i) \in 1 .. n + 1 /\ to(i) # k /\ new[to(i)] = list[i]
  BY <1>1 DEF PutAt
<1>3. \A i \in 1 .. n + 1 : i # k => from(i) \in 1 .. n /\ new[i] = list[from(i)]
  BY <1>1 DEF PutAt
<1>4. /\ \A i, j \in 1 .. n : i < j => to(i) < to(j)
      /\ \A i, j \in 1 .. n + 1 : i # k /\ j # k /\ from(i) = from(j) => i = j
  BY <1>1
<1> HIDE DEF to, from, n
<1>5. ToSet(new) = ToSet(list) \cup {e}
  <2>1. \A i \in 1 .. n + 1 : new[i] \in ToSet(list) \cup {e}
    BY <1>1, <1>3 DEF ToSet
  <2>2. \A i \in 1 .. n : list[i] \in ToSet(new)
    BY <1>1, <1>2 DEF ToSet
  <2>3. e \in ToSet(new)
    BY <1>1 DEF ToSet
  <2> QED
    BY <2>1, <2>2, <2>3, <1>1 DEF ToSet
<1>6. ASSUME IsInjective(list), e \notin ToSet(list) PROVE IsInjective(new)
  <2> SUFFICES ASSUME NEW i \in 1 .. n + 1, NEW j \in 1 .. n + 1, new[i] = new[j] PROVE i = j
    BY <1>1 DEF IsInjective
  <2>1. \A x \in 1 .. n : list[x] # e
    BY <1>1, <1>6 DEF ToSet
  <2>2. (i = k) <=> (j = k)
    BY <2>1, <1>1, <1>3
  <2>3. CASE i # k /\ j # k
    <3>1. from(i) = from(j)
      BY <2>3, <1>1, <1>3, <1>6 DEF IsInjective
    <3> QED
      BY <2>3, <3>1, <1>4
  <2> QED
    BY <2>2, <2>3
<1>7. ASSUME NEW c, NEW d, Precedes(list, c, d) PROVE Precedes(new, c, d)
  <2>1. PICK i \in 1 .. n, j \in 1 .. n : i < j /\ list[i] = c /\ list[j] = d
    BY <1>1, <1>7 DEF Precedes
  <2>2. /\ to(i) \in 1 .. n + 1 /\ to(j) \in 1 .. n + 1 /\ to(i) < to(j)
        /\ new[to(i)] = c /\ new[to(j)] = d
    BY <2>1, <1>2, <1>4
  <2> QED
    BY <2>2, <1>1 DEF Precedes
<1> QED
  BY <1>5, <1>6, <1>7

\* The three ways in which an entry is put into a list.
LEMMA AppendPuts ==
    ASSUME NEW E, NEW list \in Seq(E), NEW e \in E
    PROVE  Append(list, e) \in Seq(E) /\ PutAt(Append(list, e), list, Len(list) + 1, e)
BY DEF PutAt

LEMMA InsertAtPuts ==
    ASSUME NEW E, NEW list \in Seq(E), NEW e \in E, NEW k \in 1 .. Len(list)
    PROVE  InsertAt(list, k, e) \in Seq(E) /\ PutAt(InsertAt(list, k, e), list, k, e)
<1> DEFINE n == Len(list)
           a == SubSeq(list, 1, k - 1)
           b == SubSeq(list, k, n)
<1>1. n \in Nat /\ k \in Nat /\ k \in 1 .. n /\ \A i \in 1 .. n : list[i] \in E
  OBVIOUS
<1>2. /\ a \in Seq(E) /\ Len(a) = k - 1
      /\ \A i \in 1 .. k - 1 : a[i] = list[i]
  BY <1>1
<1>3. /\ b \in Seq(E) /\ Len(b) = n - k + 1
      /\ \A i \in 1 .. n - k + 1 : b[i] = list[k + i - 1]
  BY <1>1
<1>4. InsertAt(list, k, e) = a \o <<e>> \o b
  BY DEF InsertAt
<1> HIDE DEF a, b
<1>5. /\ a \o <<e>> \in Seq(E) /\ Len(a \o <<e>>) = k
      /\ \A i \in 1 .. k : (a \o <<e>>)[i] = IF i < k THEN list[i] ELSE e
  BY <1>1, <1>2
<1> DEFINE c == a \o <<e>>
<1>6. c \in Seq(E) /\ Len(c) = k /\ \A i \in 1 .. k : c[i] = IF i < k THEN list[i] ELSE e
  BY <1>5
<1> HIDE DEF c
<1>7. /\ c \o b \in Seq(E) /\ Len(c \o b) = n + 1
      /\ \A i \in 1 .. n + 1 : (c \o b)[i] = IF i <= k THEN c[i] ELSE b[i - k]
  <2>1. c \o b \in Seq(E) /\ Len(c \o b) = k + (n - k + 1)
    BY <1>3, <1>6, ConcatProperties
  <2>2. ASSUME NEW i \in 1 .. k + (n - k + 1)
        PROVE  (c \o b)[i] = IF i <= k THEN c[i] ELSE b[i - k]
    <3>1. i \in 1 .. Len(c) + Len(b)
      BY <1>3, <1>6
    <3> QED
      BY <3>1, <1>3, <1>6, ConcatProperties
  <2>3. k + (n - k + 1) = n + 1
    BY <1>1
  <2> QED
    BY <2>1, <2>2, <2>3
<1>8. ASSUME NEW i \in 1 .. n + 1
      PROVE  (c \o b)[i] = IF i < k THEN list[i] ELSE IF i = k THEN e ELSE list[i - 1]
  <2>1. CASE i <= k
    BY <2>1, <1>1, <1>6, <1>7
  <2>2. CASE i > k
    <3>1. i - k \in 1 .. n - k + 1 /\ k + (i - k) - 1 = i - 1
      BY <2>2, <1>1
    <3>2. (c \o b)[i] = b[i - k]
      BY <2>2, <1>1, <1>7
    <3>3. b[i - k] = list[i - 1]
      BY <3>1, <1>3
    <3> QED
      BY <2>2, <3>2, <3>3, <1>1
  <2>3. i <= k \/ i > k
    BY <1>1
  <2> QED
    BY <2>1, <2>2, <2>3
<1>9. InsertAt(list, k, e) = c \o b
  BY <1>4 DEF c
<1> QED
  BY <1>1, <1>7, <1>8, <1>9 DEF PutAt

LEMMA ConsPuts ==
    ASSUME NEW E, NEW list \in Seq(E), NEW e \in E
    PROVE  <<e>> \o list \in Seq(E) /\ PutAt(<<e>> \o list, list, 1, e)
BY DEF PutAt

\* insertTweet puts the tweet somewhere, and in front of a list of earlier ones.
LEMMA InsertTweetPuts ==
    ASSUME NEW E, NEW list \in Seq(E), NEW e \in E
    PROVE  /\ InsertTweet(list, e) \in Seq(E)
           /\ \E k : PutAt(InsertTweet(list, e), list, k, e)
           /\ (\A d \in ToSet(list) : d.date < e.date) => InsertTweet(list, e)[1] = e
<1>1. CASE list # <<>> /\ list[1].date < e.date
  <2>1. InsertTweet(list, e) = <<e>> \o list
    BY <1>1 DEF InsertTweet
  <2> QED
    BY <2>1, ConsPuts
<1>2. CASE ~(list # <<>> /\ list[1].date < e.date)
  <2>1. InsertTweet(list, e) = Append(list, e)
    BY <1>2 DEF InsertTweet
  <2>2. list # <<>> => list[1] \in ToSet(list)
    BY DEF ToSet
  <2>3. list = <<>> => Append(list, e)[1] = e
    OBVIOUS
  <2> QED
    BY <2>1, <2>2, <2>3, <1>2, AppendPuts
<1> QED
  BY <1>1, <1>2

\* The merge's loop over the recent tweets: f is what it keeps after each turn.
IsMerge(f, base, s) ==
    /\ f[0] = base /\ FoldLeft(Place, base, s) = f[Len(s)]
    /\ \A i \in 1 .. Len(s) : f[i] = Place(f[i - 1], s[i])

LEMMA MergeTurns ==
    ASSUME NEW E, NEW s \in Seq(E), NEW M, NEW base \in M,
           \A m \in M, e \in E : Place(m, e) \in M
    PROVE  \E f \in [0 .. Len(s) -> M] : IsMerge(f, base, s)
<1> DEFINE n == Len(s)
           step == [t \in M \X (1 .. n) |-> Place(t[1], s[t[2]])]
           Fold(g) == g = [S \in SUBSET (1 .. n) |->
                             IF S = {} THEN base ELSE Place(g[S \ {Max(S)}], s[Max(S)])]
           h == CHOOSE k : Fold(k)
<1>1. n \in Nat /\ DOMAIN s = 1 .. n /\ \A i \in 1 .. n : s[i] \in E
  OBVIOUS
<1>2. step \in [M \X (1 .. n) -> M] /\ \A m \in M, i \in 1 .. n : step[<<m, i>>] = Place(m, s[i])
  BY <1>1
<1>3. FoldLeft(Place, base, s) = h[1 .. n]
  BY <1>1 DEF FoldLeft, MapThenFoldSet
<1> HIDE DEF step, n, h
<1>4. \E g : Fold(g)
  <2>1. PICK g \in [SUBSET (1 .. n) -> M] : IsFold(g, base, n, step)
    BY <1>1, <1>2, FoldExists
  <2>2. ASSUME NEW S \in SUBSET (1 .. n)
        PROVE  g[S] = IF S = {} THEN base ELSE Place(g[S \ {Max(S)}], s[Max(S)])
    <3>1. CASE S # {}
      <4>1. Max(S) \in 1 .. n /\ g[S \ {Max(S)}] \in M
        BY <1>1, <3>1, FoldTurns
      <4> QED
        BY <3>1, <4>1, <1>2, <2>1 DEF IsFold
    <3> QED
      BY <3>1, <2>1 DEF IsFold
  <2>3. Fold(g)
    BY <2>2
  <2> QED
    BY <2>3
<1>5. Fold(h)
  BY <1>4 DEF h
<1>6. IsFoldIn(M, h, base, n, step)
  <2>1. h[{}] = base
    BY <1>1, <1>5, FoldTurns
  <2>2. ASSUME NEW S \in SUBSET (1 .. n), S # {}, h[S \ {Max(S)}] \in M
        PROVE  h[S] = step[<<h[S \ {Max(S)}], Max(S)>>]
    <3>1. Max(S) \in 1 .. n
      BY <1>1, <2>2, FoldTurns
    <3>2. h[S] = Place(h[S \ {Max(S)}], s[Max(S)])
      BY <1>5, <2>2
    <3> QED
      BY <1>2, <2>2, <3>1, <3>2
  <2> QED
    BY <2>1, <2>2 DEF IsFoldIn
<1> HIDE DEF Fold
<1>7. PICK f \in [0 .. n -> M] : IsLoop(f, base, n, step, h[1 .. n])
  <2>1. n \in Nat /\ step \in [M \X (1 .. n) -> M] /\ base \in M
    BY <1>1, <1>2
  <2> QED
    BY <2>1, <1>6, LoopOfFold
<1>8. ASSUME NEW i \in 1 .. n PROVE f[i] = Place(f[i - 1], s[i])
  <2>1. i - 1 \in 0 .. n
    BY <1>1
  <2> QED
    BY <2>1, <1>2, <1>7 DEF IsLoop
<1> QED
  BY <1>3, <1>7, <1>8 DEF n, IsMerge, IsLoop

-----------------------------------------------------------------------------
(* The merge of StartFollowingCommand.                                          *)

\* What the loop keeps between two turns.
MergeState(E) == [list : Seq(E), at : Nat, full : BOOLEAN]

\* A turn leaves the list as it is or puts the tweet somewhere; the tweet is in it after,
\* unless the limit is reached.
LEMMA PlacePuts ==
    ASSUME NEW E, NEW m \in MergeState(E), NEW e \in E
    PROVE  /\ Place(m, e) \in MergeState(E)
           /\ \/ Place(m, e).list = m.list
              \/ e \notin ToSet(m.list) /\ \E k : PutAt(Place(m, e).list, m.list, k, e)
           /\ Place(m, e).full \/ e \in ToSet(Place(m, e).list)
           /\ m.full => Place(m, e).full
           /\ e \in ToSet(m.list) => Place(m, e) = m
<1>1. m.list \in Seq(E) /\ m.at \in Nat /\ m.full \in BOOLEAN
  BY DEF MergeState
<1>2. CASE m.full \/ Present(m.list, e)
  BY <1>1, <1>2 DEF Place, Present, MergeState
<1>3. CASE ~(m.full \/ Present(m.list, e))
  <2> DEFINE n     == Len(m.list)
             later == LaterFrom(m.list, m.at, e)
             pos   == IF later # {} THEN Min(later) ELSE Min({n, MaxInTimeline})
             fits  == later # {} \/ pos = n
             new   == IF later # {} THEN InsertAt(m.list, pos, e)
                      ELSE IF fits THEN Append(m.list, e) ELSE m.list
  <2>1. Place(m, e) = [list |-> new, at |-> pos, full |-> pos = MaxInTimeline]
    BY <1>3 DEF Place
  <2>2. n \in Nat /\ MaxInTimeline \in Nat
    BY <1>1, MaxAssumption
  <2>3. later \in SUBSET Nat /\ \A j \in later : j \in 1 .. n
    BY <1>1, <2>2 DEF LaterFrom
  <2>4. e \notin ToSet(m.list) /\ ~m.full
    BY <1>3 DEF Present
  <2> HIDE DEF later, n
  <2>5. CASE later # {}
    <3>1. pos \in 1 .. n
      BY <2>3, <2>5, MinIs
    <3> HIDE DEF pos
    <3>2. new = InsertAt(m.list, pos, e)
      BY <2>5
    <3>3. new \in Seq(E) /\ PutAt(new, m.list, pos, e)
      BY <3>1, <3>2, <1>1, InsertAtPuts DEF n
    <3> HIDE DEF new
    <3>4. e \in ToSet(new)
      BY <3>3, <1>1, PutAtKeeps
    <3>5. Place(m, e).list = new
      BY <2>1
    <3>6. Place(m, e) \in MergeState(E)
      BY <2>1, <3>1, <3>3 DEF MergeState
    <3> QED
      BY <3>3, <3>4, <3>5, <3>6, <2>4
  <2>6. CASE later = {}
    <3>1. {n, MaxInTimeline} \in SUBSET Nat
      BY <2>2
    <3>2. pos \in {n, MaxInTimeline}
      BY <3>1, <2>6, MinIs
    <3> HIDE DEF pos
    <3>3. Append(m.list, e) \in Seq(E)
          /\ PutAt(Append(m.list, e), m.list, Len(m.list) + 1, e)
      BY <1>1, AppendPuts
    <3>4. e \in ToSet(Append(m.list, e))
      <4> DEFINE app == Append(m.list, e)
      <4>1. app \in Seq(E) /\ PutAt(app, m.list, Len(m.list) + 1, e)
        BY <3>3
      <4> HIDE DEF app
      <4>2. ToSet(app) = ToSet(m.list) \cup {e}
        BY <1>1, <4>1, PutAtKeeps
      <4> QED
        BY <4>2 DEF app
    <3>5. CASE pos = n
      <4>1. new = Append(m.list, e)
        BY <3>5, <2>6
      <4> HIDE DEF new
      <4>2. Place(m, e) \in MergeState(E)
        BY <2>1, <2>2, <3>2, <3>3, <4>1 DEF MergeState
      <4> QED
        BY <2>1, <2>4, <3>3, <3>4, <4>1, <4>2
    <3>6. CASE pos # n
      <4>1. new = m.list /\ pos = MaxInTimeline
        BY <3>6, <3>2, <2>6
      <4> HIDE DEF new
      <4>2. Place(m, e) \in MergeState(E)
        BY <2>1, <2>2, <1>1, <4>1 DEF MergeState
      <4> DEFINE stopped == pos = MaxInTimeline
      <4>full. stopped
        BY <4>1
      <4>rec. Place(m, e) = [list |-> new, at |-> pos, full |-> stopped]
        BY <2>1
      <4> HIDE DEF stopped
      <4>3. Place(m, e).full /\ Place(m, e).list = m.list
        BY <4>full, <4>rec, <4>1
      <4> QED
        BY <2>4, <4>2, <4>3
    <3> QED
      BY <3>5, <3>6
  <2> QED
    BY <2>5, <2>6
<1> QED
  BY <1>2, <1>3

\* What a merge may make of a list: no entry goes and none but the tweets come, none comes
\* twice, and those that were there keep their order.
Merged(list, tweets, new) ==
    /\ ToSet(list) \subseteq ToSet(new) /\ ToSet(new) \subseteq ToSet(list) \cup tweets
    /\ IsInjective(list) => IsInjective(new)
    /\ \A c, d : Precedes(list, c, d) => Precedes(new, c, d)

LEMMA MergeLoopKeeps ==
    ASSUME NEW E, NEW list \in Seq(E), NEW recent \in Seq(E)
    PROVE  /\ MergeLoop(list, recent) \in MergeState(E)
           /\ Merged(list, ToSet(recent), Merge(list, recent))
           /\ MergeLoop(list, recent).full \/ ToSet(recent) \subseteq ToSet(Merge(list, recent))
<1> DEFINE R    == ToSet(recent)
           n    == Len(recent)
           base == [list |-> list, at |-> 0, full |-> FALSE]
           M    == {m \in MergeState(E) : Merged(list, R, m.list)}
<1>1. /\ n \in Nat /\ DOMAIN recent = 1 .. n /\ recent \in Seq(R) /\ R \in SUBSET E
      /\ \A i \in 1 .. n : recent[i] \in R
      /\ \A e \in R : \E i \in 1 .. n : e = recent[i]
  BY DEF ToSet
<1>2. base \in M
  BY DEF MergeState, Merged
<1>3. ASSUME NEW m \in M, NEW e \in R PROVE Place(m, e) \in M
  <2>1. m \in MergeState(E) /\ Merged(list, R, m.list) /\ e \in E /\ m.list \in Seq(E)
    BY <1>1, <1>3 DEF MergeState
  <2> DEFINE p == Place(m, e)
  <2>2. /\ p \in MergeState(E) /\ p.list \in Seq(E)
        /\ \/ p.list = m.list
           \/ e \notin ToSet(m.list) /\ \E k : PutAt(p.list, m.list, k, e)
    <3> HIDE DEF R
    <3>1. /\ Place(m, e) \in MergeState(E)
          /\ \/ Place(m, e).list = m.list
             \/ e \notin ToSet(m.list) /\ \E k : PutAt(Place(m, e).list, m.list, k, e)
      BY <2>1, PlacePuts
    <3>2. p.list \in Seq(E)
      BY <3>1 DEF MergeState
    <3> QED
      BY <3>1, <3>2
  <2> HIDE DEF p, R
  <2>3. CASE p.list = m.list
    BY <2>1, <2>2, <2>3 DEF p, R
  <2>4. CASE e \notin ToSet(m.list) /\ \E k : PutAt(p.list, m.list, k, e)
    <3>1. PICK k : PutAt(p.list, m.list, k, e)
      BY <2>4
    <3>2. /\ ToSet(p.list) = ToSet(m.list) \cup {e}
          /\ IsInjective(m.list) /\ e \notin ToSet(m.list) => IsInjective(p.list)
          /\ \A c, d : Precedes(m.list, c, d) => Precedes(p.list, c, d)
      BY <2>1, <2>2, <3>1, PutAtKeeps
    <3>3. Merged(list, R, p.list)
      BY <2>1, <2>4, <3>2, <1>3 DEF Merged
    <3> QED
      BY <2>2, <3>3 DEF p
  <2> QED
    BY <2>2, <2>3, <2>4
<1> HIDE DEF M, base, R
<1>step. \A m \in M, e \in R : Place(m, e) \in M
  BY <1>3
<1>seq. recent \in Seq(R)
  BY <1>1
<1>run. PICK f \in [0 .. Len(recent) -> M] : IsMerge(f, base, recent)
  BY <1>seq, <1>2, <1>step, MergeTurns
<1>4. /\ f \in [0 .. n -> M] /\ f[0] = base /\ FoldLeft(Place, base, recent) = f[n]
      /\ \A i \in 1 .. n : f[i] = Place(f[i - 1], recent[i])
  BY <1>run DEF IsMerge
<1>5. MergeLoop(list, recent) = f[n] /\ f[n] \in M
  BY <1>1, <1>4 DEF MergeLoop, base
<1>6. f[n].full \/ R \subseteq ToSet(f[n].list)
  <2> DEFINE P == {i \in 0 .. n : f[i].full \/ \A j \in 1 .. i : recent[j] \in ToSet(f[i].list)}
  <2>1. 0 \in P
    BY <1>1
  <2>2. ASSUME NEW i \in 1 .. n, i - 1 \in P PROVE i \in P
    <3>1. /\ i - 1 \in 0 .. n /\ f[i - 1] \in M /\ f[i] = Place(f[i - 1], recent[i])
          /\ recent[i] \in E /\ f[i] \in M
      <4>1. i - 1 \in 0 .. n /\ i \in 0 .. n /\ recent[i] \in R
        BY <1>1
      <4>2. f[i - 1] \in M /\ f[i] \in M
        BY <4>1, <1>4
      <4> QED
        BY <4>1, <4>2, <1>1, <1>4
    <3>2. f[i - 1] \in MergeState(E) /\ f[i] \in MergeState(E)
      BY <3>1 DEF M
    <3>3. f[i - 1].list \in Seq(E) /\ f[i].list \in Seq(E)
      BY <3>2 DEF MergeState
    <3>4. /\ f[i].list = f[i - 1].list \/ \E k : PutAt(f[i].list, f[i - 1].list, k, recent[i])
          /\ f[i].full \/ recent[i] \in ToSet(f[i].list)
          /\ f[i - 1].full => f[i].full
      BY <3>1, <3>2, PlacePuts
    <3>5. ToSet(f[i - 1].list) \subseteq ToSet(f[i].list)
      BY <3>1, <3>3, <3>4, PutAtKeeps
    <3>6. f[i - 1].full \/ \A j \in 1 .. i - 1 : recent[j] \in ToSet(f[i - 1].list)
      BY <2>2
    <3>7. \A j \in 1 .. i : j \in 1 .. i - 1 \/ j = i
      OBVIOUS
    <3>8. f[i].full \/ \A j \in 1 .. i : recent[j] \in ToSet(f[i].list)
      BY <3>4, <3>5, <3>6, <3>7
    <3> QED
      BY <3>8
  <2>3. n \in P
    <3> HIDE DEF P
    <3>1. n \in 0 .. n
      BY <1>1
    <3> QED
      BY <3>1, <1>1, <2>1, <2>2, Turns
  <2>4. f[n].full \/ \A j \in 1 .. n : recent[j] \in ToSet(f[n].list)
    BY <2>3
  <2> QED
    BY <2>4, <1>1 DEF R
<1> QED
  BY <1>5, <1>6 DEF M, R, Merge

\* "This part of the command already got executed, so skip it."
LEMMA NothingToMerge ==
    ASSUME NEW E, NEW list \in Seq(E), NEW recent \in Seq(E),
           ToSet(recent) \subseteq ToSet(list)
    PROVE  Merge(list, recent) = list
<1> DEFINE base == [list |-> list, at |-> 0, full |-> FALSE]
           M    == {base}
           R    == ToSet(recent)
<1>1. base \in MergeState(E) /\ recent \in Seq(R) /\ R \in SUBSET E /\ R \subseteq ToSet(base.list)
  <2>1. base \in MergeState(E) /\ base.list = list
    BY DEF MergeState
  <2>2. recent \in Seq(R) /\ R \in SUBSET E
    BY DEF ToSet
  <2> HIDE DEF base
  <2> QED
    BY <2>1, <2>2
<1>2. base.list = list /\ base \in M
  OBVIOUS
<1> HIDE DEF base, R
<1>3. \A m \in M, e \in R : Place(m, e) \in M
  BY <1>1, PlacePuts
<1>4. PICK f \in [0 .. Len(recent) -> M] : IsMerge(f, base, recent)
  <2> HIDE DEF M
  <2>1. recent \in Seq(R)
    BY <1>1
  <2> QED
    BY <2>1, <1>2, <1>3, MergeTurns
<1>5. Len(recent) \in 0 .. Len(recent)
  OBVIOUS
<1>6. MergeLoop(list, recent) = base
  BY <1>4, <1>5 DEF MergeLoop, base, IsMerge
<1> QED
  BY <1>2, <1>6 DEF Merge

\* A merge that the limit did not stop is the last word: another one changes nothing.
LEMMA MergeTwice ==
    ASSUME NEW E, NEW list \in Seq(E), NEW recent \in Seq(E)
    PROVE  MergeLoop(list, recent).full
           \/ Merge(Merge(list, recent), recent) = Merge(list, recent)
<1>1. Merge(list, recent) \in Seq(E)
  BY MergeLoopKeeps DEF Merge, MergeState
<1> QED
  BY <1>1, MergeLoopKeeps, NothingToMerge

-----------------------------------------------------------------------------
(* The removal of StopFollowingCommand.                                         *)

\* Its loop over the list: f is what is kept after each turn.
IsRemoval(f, author, s) ==
    /\ f[0] = <<>> /\ RemoveAuthor(s, author) = f[Len(s)]
    /\ \A i \in 1 .. Len(s) : f[i] = Keep(author, f[i - 1], s[i])

LEMMA RemovalTurns ==
    ASSUME NEW E, NEW s \in Seq(E), NEW author
    PROVE  \E f \in [0 .. Len(s) -> Seq(E)] : IsRemoval(f, author, s)
<1> DEFINE n == Len(s)
           M == Seq(E)
           base == <<>>
           step == [t \in M \X (1 .. n) |-> Keep(author, t[1], s[t[2]])]
           Fold(g) == g = [S \in SUBSET (1 .. n) |->
                             IF S = {} THEN base ELSE Keep(author, g[S \ {Max(S)}], s[Max(S)])]
           h == CHOOSE k : Fold(k)
<1>keep. base \in M /\ \A m \in M, e \in E : Keep(author, m, e) \in M
  BY DEF Keep
<1> HIDE DEF M
<1>1. n \in Nat /\ DOMAIN s = 1 .. n /\ \A i \in 1 .. n : s[i] \in E
  OBVIOUS
<1>2. step \in [M \X (1 .. n) -> M] /\ \A m \in M, i \in 1 .. n : step[<<m, i>>] = Keep(author, m, s[i])
  BY <1>1, <1>keep
<1>3. RemoveAuthor(s, author) = h[1 .. n]
  BY <1>1 DEF RemoveAuthor, FoldLeft, MapThenFoldSet
<1> HIDE DEF step, n, h
<1>4. \E g : Fold(g)
  <2>1. PICK g \in [SUBSET (1 .. n) -> M] : IsFold(g, base, n, step)
    BY <1>1, <1>2, <1>keep, FoldExists
  <2>2. ASSUME NEW S \in SUBSET (1 .. n)
        PROVE  g[S] = IF S = {} THEN base ELSE Keep(author, g[S \ {Max(S)}], s[Max(S)])
    <3>1. CASE S # {}
      <4>1. Max(S) \in 1 .. n /\ g[S \ {Max(S)}] \in M
        BY <1>1, <3>1, FoldTurns
      <4> QED
        BY <3>1, <4>1, <1>2, <2>1 DEF IsFold
    <3> QED
      BY <3>1, <2>1 DEF IsFold
  <2>3. Fold(g)
    BY <2>2
  <2> QED
    BY <2>3
<1>5. Fold(h)
  BY <1>4 DEF h
<1>6. IsFoldIn(M, h, base, n, step)
  <2>1. h[{}] = base
    BY <1>1, <1>5, FoldTurns
  <2>2. ASSUME NEW S \in SUBSET (1 .. n), S # {}, h[S \ {Max(S)}] \in M
        PROVE  h[S] = step[<<h[S \ {Max(S)}], Max(S)>>]
    <3>1. Max(S) \in 1 .. n
      BY <1>1, <2>2, FoldTurns
    <3>2. h[S] = Keep(author, h[S \ {Max(S)}], s[Max(S)])
      BY <1>5, <2>2
    <3> QED
      BY <1>2, <2>2, <3>1, <3>2
  <2> QED
    BY <2>1, <2>2 DEF IsFoldIn
<1> HIDE DEF Fold
<1>7. PICK f \in [0 .. n -> M] : IsLoop(f, base, n, step, h[1 .. n])
  <2>1. n \in Nat /\ step \in [M \X (1 .. n) -> M] /\ base \in M
    BY <1>1, <1>2, <1>keep
  <2> QED
    BY <2>1, <1>6, LoopOfFold
<1>8. ASSUME NEW i \in 1 .. n PROVE f[i] = Keep(author, f[i - 1], s[i])
  <2>1. i - 1 \in 0 .. n
    BY <1>1
  <2> QED
    BY <2>1, <1>2, <1>7 DEF IsLoop
<1> QED
  BY <1>3, <1>7, <1>8 DEF n, M, IsRemoval, IsLoop

\* The author's entries go; the others stay, in their order.
LEMMA RemoveAuthorKeeps ==
    ASSUME NEW E, NEW list \in Seq(E), NEW author
    PROVE  /\ RemoveAuthor(list, author) \in Seq(E)
           /\ ToSet(RemoveAuthor(list, author)) = {t \in ToSet(list) : ~Named(author, t)}
           /\ IsInjective(list) => IsInjective(RemoveAuthor(list, author))
           /\ \A c, d : Precedes(list, c, d) /\ ~Named(author, c) /\ ~Named(author, d)
                          => Precedes(RemoveAuthor(list, author), c, d)
<1> DEFINE n == Len(list)
           Stays(j) == ~Named(author, list[j])
<1>1. n \in Nat /\ DOMAIN list = 1 .. n /\ \A j \in 1 .. n : list[j] \in E
  OBVIOUS
<1>2. PICK f \in [0 .. Len(list) -> Seq(E)] : IsRemoval(f, author, list)
  BY RemovalTurns
<1>3. /\ f \in [0 .. n -> Seq(E)] /\ f[0] = <<>> /\ RemoveAuthor(list, author) = f[n]
      /\ \A i \in 1 .. n : f[i] = Keep(author, f[i - 1], list[i])
  BY <1>2 DEF IsRemoval
<1> DEFINE Holds(i) ==
             /\ \A t \in ToSet(f[i]) : \E j \in 1 .. i : t = list[j] /\ Stays(j)
             /\ \A j \in 1 .. i : Stays(j) => list[j] \in ToSet(f[i])
             /\ IsInjective(list) => IsInjective(f[i])
             /\ \A p, q \in 1 .. i :
                  p < q /\ Stays(p) /\ Stays(q) => Precedes(f[i], list[p], list[q])
           P == {i \in 0 .. n : Holds(i)}
<1>4. 0 \in P
  BY <1>1, <1>3 DEF ToSet, IsInjective
<1>5. ASSUME NEW i \in 1 .. n, i - 1 \in P PROVE i \in P
  <2>1. /\ i - 1 \in 0 .. n /\ i \in 0 .. n /\ f[i - 1] \in Seq(E) /\ f[i] \in Seq(E)
        /\ f[i] = Keep(author, f[i - 1], list[i]) /\ list[i] \in E
        /\ \A j \in 1 .. i : j \in 1 .. i - 1 \/ j = i
        /\ \A j \in 1 .. i - 1 : j \in 1 .. i /\ j < i /\ j \in 1 .. n
    <3>1. i - 1 \in 0 .. n /\ i \in 0 .. n /\ list[i] \in E
      BY <1>1
    <3>2. f[i - 1] \in Seq(E) /\ f[i] \in Seq(E)
      BY <3>1, <1>3
    <3>3. /\ \A j \in 1 .. i : j \in 1 .. i - 1 \/ j = i
          /\ \A j \in 1 .. i - 1 : j \in 1 .. i /\ j < i /\ j \in 1 .. n
      BY <1>1
    <3> QED
      BY <3>1, <3>2, <3>3, <1>3
  <2>2. Holds(i - 1)
    BY <1>5
  <2> HIDE DEF P
  <2>3. CASE Named(author, list[i])
    <3>1. f[i] = f[i - 1] /\ ~Stays(i)
      BY <2>1, <2>3 DEF Keep
    <3>2. Holds(i)
      BY <2>1, <2>2, <3>1
    <3> QED
      BY <2>1, <3>2 DEF P
  <2>4. CASE ~Named(author, list[i])
    <3> DEFINE k == Len(f[i - 1]) + 1
    <3>1. f[i] = Append(f[i - 1], list[i])
      BY <2>1, <2>4 DEF Keep
    <3>2. PutAt(f[i], f[i - 1], k, list[i])
      BY <2>1, <3>1, AppendPuts
    <3>3. /\ ToSet(f[i]) = ToSet(f[i - 1]) \cup {list[i]}
          /\ IsInjective(f[i - 1]) /\ list[i] \notin ToSet(f[i - 1]) => IsInjective(f[i])
          /\ \A c, d : Precedes(f[i - 1], c, d) => Precedes(f[i], c, d)
      BY <2>1, <3>2, PutAtKeeps
    <3>4. IsInjective(list) => IsInjective(f[i])
      <4>1. IsInjective(list) => list[i] \notin ToSet(f[i - 1])
        <5> SUFFICES ASSUME IsInjective(list), list[i] \in ToSet(f[i - 1]) PROVE FALSE
          OBVIOUS
        <5>1. PICK j \in 1 .. i - 1 : list[i] = list[j]
          BY <2>2
        <5>2. j \in 1 .. n /\ j # i
          BY <2>1
        <5> QED
          BY <5>1, <5>2, <1>1 DEF IsInjective
      <4> QED
        BY <4>1, <2>2, <3>3
    <3>5. ASSUME NEW p \in 1 .. i - 1, Stays(p)
          PROVE  Precedes(f[i], list[p], list[i])
      <4>1. PICK x \in 1 .. Len(f[i - 1]) : f[i - 1][x] = list[p]
        <5>1. list[p] \in ToSet(f[i - 1])
          BY <3>5, <2>2
        <5> QED
          BY <5>1, <2>1 DEF ToSet
      <4>2. /\ x \in DOMAIN f[i] /\ k \in DOMAIN f[i] /\ x < k
            /\ f[i][x] = list[p] /\ f[i][k] = list[i]
        BY <2>1, <3>1, <4>1
      <4> QED
        BY <4>2 DEF Precedes
    <3>6. \A p, q \in 1 .. i :
             p < q /\ Stays(p) /\ Stays(q) => Precedes(f[i], list[p], list[q])
      <4> SUFFICES ASSUME NEW p \in 1 .. i, NEW q \in 1 .. i, p < q, Stays(p), Stays(q)
                   PROVE  Precedes(f[i], list[p], list[q])
        OBVIOUS
      <4>1. p \in 1 .. i - 1
        OBVIOUS
      <4>2. CASE q = i
        BY <4>1, <4>2, <3>5
      <4>3. CASE q \in 1 .. i - 1
        BY <4>1, <4>3, <2>2, <3>3
      <4> QED
        BY <4>2, <4>3, <2>1
    <3>7. \A t \in ToSet(f[i]) : \E j \in 1 .. i : t = list[j] /\ Stays(j)
      <4> SUFFICES ASSUME NEW t \in ToSet(f[i]) PROVE \E j \in 1 .. i : t = list[j] /\ Stays(j)
        OBVIOUS
      <4>1. CASE t = list[i]
        <5>1. i \in 1 .. i
          OBVIOUS
        <5> QED
          BY <5>1, <4>1, <2>4
      <4>2. CASE t \in ToSet(f[i - 1])
        <5>1. PICK j \in 1 .. i - 1 : t = list[j] /\ Stays(j)
          BY <4>2, <2>2
        <5> QED
          BY <5>1, <2>1
      <4> QED
        BY <4>1, <4>2, <3>3
    <3>8. \A j \in 1 .. i : Stays(j) => list[j] \in ToSet(f[i])
      BY <2>1, <2>2, <3>3
    <3>9. Holds(i)
      BY <3>4, <3>6, <3>7, <3>8
    <3> QED
      BY <2>1, <3>9 DEF P
  <2> QED
    BY <2>3, <2>4
<1>6. n \in P
  <2> HIDE DEF P
  <2>1. n \in 0 .. n
    BY <1>1
  <2> QED
    BY <2>1, <1>1, <1>4, <1>5, Turns
<1>7. Holds(n)
  BY <1>6
<1> HIDE DEF P
<1>8. ToSet(f[n]) = {t \in ToSet(list) : ~Named(author, t)}
  BY <1>1, <1>7 DEF ToSet
<1>9. ASSUME NEW c, NEW d, Precedes(list, c, d), ~Named(author, c), ~Named(author, d)
      PROVE  Precedes(f[n], c, d)
  BY <1>1, <1>7, <1>9 DEF Precedes
<1>10. n \in 0 .. n
  BY <1>1
<1> QED
  BY <1>3, <1>7, <1>8, <1>9, <1>10

-----------------------------------------------------------------------------
(* What the three changes make of a list.                                       *)

LEMMA InsertTweetKeeps ==
    ASSUME NEW E, NEW list \in Seq(E), NEW e \in E
    PROVE  /\ InsertTweet(list, e) \in Seq(E)
           /\ ToSet(InsertTweet(list, e)) = ToSet(list) \cup {e}
           /\ IsInjective(list) /\ e \notin ToSet(list) => IsInjective(InsertTweet(list, e))
           /\ \A c, d : Precedes(list, c, d) => Precedes(InsertTweet(list, e), c, d)
<1> DEFINE new == InsertTweet(list, e)
<1>1. new \in Seq(E) /\ \E k : PutAt(new, list, k, e)
  BY InsertTweetPuts
<1> HIDE DEF new
<1>2. PICK k : PutAt(new, list, k, e)
  BY <1>1
<1>3. /\ ToSet(new) = ToSet(list) \cup {e}
      /\ IsInjective(list) /\ e \notin ToSet(list) => IsInjective(new)
      /\ \A c, d : Precedes(list, c, d) => Precedes(new, c, d)
  BY <1>1, <1>2, PutAtKeeps
<1> QED
  BY <1>1, <1>3 DEF new

-----------------------------------------------------------------------------
(* How long a merged list may become.                                           *)

\* A list without repetitions is as long as it has entries.
LEMMA LengthIsSize ==
    ASSUME NEW E, NEW list \in Seq(E), IsInjective(list)
    PROVE  /\ IsFiniteSet(ToSet(list)) /\ Cardinality(ToSet(list)) = Len(list)
           /\ Len(list) \in Nat
<1> DEFINE n == Len(list)
           D == 1 .. n
           T == ToSet(list)
<1>1. n \in Nat /\ DOMAIN list = D /\ list \in [D -> T] /\ \A e \in T : \E i \in D : list[i] = e
  BY DEF ToSet
<1> HIDE DEF T, n
<1>2. IsFiniteSet(D) /\ Cardinality(D) = n
  BY <1>1, FS_Interval
<1> HIDE DEF D
<1>3. list \in Surjection(D, T) /\ list \in Injection(D, T)
  BY <1>1 DEF Surjection, Injection, IsInjective
<1>4. IsFiniteSet(T) /\ Cardinality(T) = Cardinality(D)
  BY <1>2, <1>3, FS_Surjection
<1> QED
  BY <1>1, <1>2, <1>4 DEF T, n

\* A turn of the merge does not come to the limit while there is room for an entry.
LEMMA PlaceFits ==
    ASSUME NEW U, IsFiniteSet(U), Cardinality(U) <= MaxInTimeline,
           NEW m \in MergeState(U), NEW e \in U, IsInjective(m.list), ~m.full
    PROVE  IsInjective(Place(m, e).list) /\ ~Place(m, e).full
<1>1. m.list \in Seq(U)
  BY DEF MergeState
<1>2. CASE Present(m.list, e)
  BY <1>2 DEF Place
<1>3. CASE ~Present(m.list, e)
  <2> DEFINE n     == Len(m.list)
             later == LaterFrom(m.list, m.at, e)
             pos   == IF later # {} THEN Min(later) ELSE Min({n, MaxInTimeline})
  <2>1. Place(m, e).full = (pos = MaxInTimeline)
    BY <1>3 DEF Place
  <2>2. n \in Nat /\ MaxInTimeline \in Nat /\ m.at \in Nat
    BY <1>1, MaxAssumption DEF MergeState
  <2>3. later \in SUBSET Nat /\ \A j \in later : j \in 1 .. n
    BY <1>1, <2>2 DEF LaterFrom
  <2>4. n < MaxInTimeline
    <3>1. ToSet(m.list) \in SUBSET (U \ {e})
      BY <1>1, <1>3 DEF Present, ToSet
    <3>2. IsFiniteSet(U \ {e}) /\ Cardinality(U \ {e}) = Cardinality(U) - 1
      BY FS_RemoveElement
    <3>3. Cardinality(ToSet(m.list)) <= Cardinality(U \ {e})
      BY <3>1, <3>2, FS_Subset
    <3>4. Cardinality(ToSet(m.list)) = n
      BY <1>1, LengthIsSize
    <3>5. Cardinality(U) \in Nat
      BY FS_CardinalityType
    <3> HIDE DEF n
    <3> QED
      BY <2>2, <3>2, <3>3, <3>4, <3>5
  <2> HIDE DEF later, n
  <2>5. ASSUME later # {} PROVE pos # MaxInTimeline
    <3>1. Min(later) \in later
      BY <2>3, <2>5, MinIs
    <3>2. Min(later) # MaxInTimeline
      BY <2>2, <2>3, <2>4, <3>1
    <3> QED
      BY <2>5, <3>2
  <2>6. ASSUME later = {} PROVE pos # MaxInTimeline
    <3>1. {n, MaxInTimeline} \in SUBSET Nat
      BY <2>2
    <3>2. Min({n, MaxInTimeline}) <= n
      BY <3>1, MinIs
    <3>3. Min({n, MaxInTimeline}) # MaxInTimeline
      BY <2>2, <2>4, <3>2
    <3> QED
      BY <2>6, <3>3
  <2>7. pos # MaxInTimeline
    BY <2>5, <2>6
  <2>8. ~Place(m, e).full
    <3> HIDE DEF pos
    <3> QED
      BY <2>1, <2>7
  <2>9. IsInjective(Place(m, e).list)
    <3>1. CASE Place(m, e).list = m.list
      BY <3>1
    <3>2. CASE \E k : PutAt(Place(m, e).list, m.list, k, e)
      <4>1. PICK k : PutAt(Place(m, e).list, m.list, k, e)
        BY <3>2
      <4> DEFINE new == Place(m, e).list
      <4>2. new \in Seq(U)
        BY PlacePuts DEF MergeState
      <4>3. PutAt(new, m.list, k, e)
        BY <4>1
      <4> HIDE DEF new
      <4>4. IsInjective(m.list) /\ e \notin ToSet(m.list) => IsInjective(new)
        BY <1>1, <4>2, <4>3, PutAtKeeps
      <4>5. e \notin ToSet(m.list)
        BY <1>3 DEF Present
      <4>6. IsInjective(new)
        BY <4>4, <4>5
      <4> QED
        BY <4>6 DEF new
    <3> QED
      BY <3>1, <3>2, PlacePuts
  <2> QED
    BY <2>8, <2>9
<1> QED
  BY <1>2, <1>3

\* The limit does not stop a merge of no more tweets than it allows.
LEMMA MergeFits ==
    ASSUME NEW U, IsFiniteSet(U), Cardinality(U) <= MaxInTimeline,
           NEW list \in Seq(U), NEW recent \in Seq(U), IsInjective(list)
    PROVE  ToSet(recent) \subseteq ToSet(Merge(list, recent))
<1> DEFINE base == [list |-> list, at |-> 0, full |-> FALSE]
           M    == {m \in MergeState(U) : IsInjective(m.list) /\ ~m.full}
<1>1. base \in M
  BY DEF MergeState
<1>2. \A m \in M, e \in U : Place(m, e) \in M
  <2> SUFFICES ASSUME NEW m \in M, NEW e \in U PROVE Place(m, e) \in M
    OBVIOUS
  <2>1. m \in MergeState(U) /\ IsInjective(m.list) /\ ~m.full
    OBVIOUS
  <2> HIDE DEF M
  <2>2. IsInjective(Place(m, e).list) /\ ~Place(m, e).full
    BY <2>1, PlaceFits
  <2>3. Place(m, e) \in MergeState(U)
    BY <2>1, PlacePuts
  <2> QED
    BY <2>2, <2>3 DEF M
<1> HIDE DEF M, base
<1>3. PICK f \in [0 .. Len(recent) -> M] : IsMerge(f, base, recent)
  BY <1>1, <1>2, MergeTurns
<1>4. Len(recent) \in 0 .. Len(recent)
  OBVIOUS
<1>5. MergeLoop(list, recent) \in M
  BY <1>3, <1>4 DEF MergeLoop, base, IsMerge
<1>6. ~MergeLoop(list, recent).full
  BY <1>5 DEF M
<1> QED
  BY <1>6, MergeLoopKeeps
=============================================================================
