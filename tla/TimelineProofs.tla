--------------------------- MODULE TimelineProofs ---------------------------
(***************************************************************************)
(* Reading a timeline (TimelineReads), of any length and with a pool of    *)
(* any number of threads: what getFriendsTimeline answers, and what of it  *)
(* is lost.  And one reader's timeline (TimelineView), for any authors,    *)
(* any limit and a history of any length: what the commands make of it     *)
(* when they run one after the other.                                      *)
(***************************************************************************)
EXTENDS TimelineReads, TimelineView, TimelineListsProofs, FiniteSetTheorems

ThreadPlaces == {"idle", "fetch", "add", "count"} \cup Adding
Counted ==
    /\ phase \in {"idle", "submit", "await", "copy", "write", "answered", "thrown"}
    /\ length \in Nat /\ start \in Nat /\ toRetrieve \in Nat /\ next \in Nat
    /\ latch \in Nat /\ failed \in Nat
    /\ tasks \in Seq(Nat) /\ tpc \in [Pool -> ThreadPlaces]

\* The latch stands for what is still to be submitted, waits, runs or died, and for the
\* tweets before start, which nobody will count down (getFriendsTimeline, tweetsToRetrieve).
Running == {t \in Pool : tpc[t] # "idle"}
Before(p) == IF p < toRetrieve THEN p ELSE toRetrieve
LatchAccounts ==
    phase # "idle" =>
        latch = Before(start) + (toRetrieve - Before(next)) + Len(tasks) + Cardinality(Running) + failed

\* Before the call there is nothing; a loop begins at start.
AtRest == phase = "idle" => tasks = <<>> /\ Running = {} /\ failed = 0
IInv == Counted /\ AtRest /\ LatchAccounts

\* The threads that run are finitely many.
LEMMA RunningCounted == ASSUME Counted PROVE IsFiniteSet(Running) /\ Cardinality(Running) \in Nat
  <1>1. Running \in SUBSET Pool /\ IsFiniteSet(Pool)
    BY ReadsAssumption DEF Running
  <1> QED BY <1>1, FS_Subset, FS_CardinalityType

\* A thread that goes on, begins or ends.
LEMMA GoesOn ==
    ASSUME Counted, NEW t \in Pool, NEW p \in ThreadPlaces \ {"idle"}, tpc[t] # "idle", PoolGoto(t, p)
    PROVE  tpc' \in [Pool -> ThreadPlaces] /\ Running' = Running
  <1>1. tpc' = [tpc EXCEPT ![t] = p] /\ tpc \in [Pool -> ThreadPlaces]
    BY DEF PoolGoto, Counted
  <1>2. tpc' \in [Pool -> ThreadPlaces] /\ \A u \in Pool : tpc'[u] # "idle" <=> tpc[u] # "idle"
    BY <1>1
  <1>3. Running' = Running
    BY <1>2 DEF Running
  <1> QED BY <1>2, <1>3

LEMMA Begins ==
    ASSUME Counted, NEW t \in Pool, NEW p \in ThreadPlaces \ {"idle"}, tpc[t] = "idle", PoolGoto(t, p)
    PROVE  /\ tpc' \in [Pool -> ThreadPlaces]
           /\ Cardinality(Running)' = Cardinality(Running) + 1
  <1>1. tpc' = [tpc EXCEPT ![t] = p] /\ tpc \in [Pool -> ThreadPlaces]
    BY DEF PoolGoto, Counted
  <1>2. tpc' \in [Pool -> ThreadPlaces]
    BY <1>1
  <1>3. Running' = Running \cup {t} /\ t \notin Running
    BY <1>1 DEF Running
  <1>4. Cardinality(Running \cup {t}) = Cardinality(Running) + 1
    BY <1>3, RunningCounted, FS_AddElement
  <1> QED BY <1>2, <1>3, <1>4

LEMMA Ends ==
    ASSUME Counted, NEW t \in Pool, tpc[t] # "idle", PoolGoto(t, "idle")
    PROVE  /\ tpc' \in [Pool -> ThreadPlaces]
           /\ Cardinality(Running)' = Cardinality(Running) - 1 /\ Cardinality(Running) > 0
  <1>1. tpc' = [tpc EXCEPT ![t] = "idle"] /\ tpc \in [Pool -> ThreadPlaces]
    BY DEF PoolGoto, Counted
  <1>2. tpc' \in [Pool -> ThreadPlaces]
    BY <1>1 DEF ThreadPlaces
  <1>3. Running' = Running \ {t} /\ t \in Running
    BY <1>1 DEF Running
  <1>4. Cardinality(Running \ {t}) = Cardinality(Running) - 1
    BY <1>3, RunningCounted, FS_RemoveElement
  <1>5. Cardinality(Running) # 0
    BY <1>3, RunningCounted, FS_EmptySet
  <1> QED BY <1>2, <1>3, <1>4, <1>5, RunningCounted

LEMMA InitIInv == Init => IInv
  <1> SUFFICES ASSUME Init PROVE IInv
    OBVIOUS
  <1> QED BY DEF Init, IInv, Counted, AtRest, LatchAccounts, Running, ThreadPlaces

LEMMA CallerStep == ASSUME IInv, Caller PROVE IInv'
  <1>1. Counted /\ AtRest /\ LatchAccounts /\ Cardinality(Running) \in Nat
    BY RunningCounted DEF IInv
  <1>2. CASE Call
    <2>1. PICK n \in 0 .. MaxLength, st \in Starts, c \in Counts :
            /\ length' = n /\ start' = st /\ next' = st
            /\ toRetrieve' = IF c < n THEN c ELSE n
            /\ latch' = LatchFor(st, toRetrieve')
      BY <1>2 DEF Call
    <2>2. n \in Nat /\ st \in Nat /\ c \in Nat
      BY ReadsAssumption
    <2>3. /\ phase = "idle" /\ phase' = "submit"
          /\ tasks' = tasks /\ tpc' = tpc /\ failed' = failed
      BY <1>2 DEF Call, histVars
    <2>4. Running' = {} /\ tasks' = <<>> /\ failed' = 0
      BY <1>1, <2>3 DEF AtRest, Running
    <2>5. Cardinality(Running') = 0
      BY <2>4, FS_EmptySet
    <2>6. Counted'
      BY <1>1, <2>1, <2>2, <2>3 DEF Counted, LatchFor
    <2>7. LatchAccounts'
      BY <2>1, <2>2, <2>4, <2>5 DEF LatchAccounts, LatchFor, Before
    <2> QED BY <2>3, <2>6, <2>7 DEF IInv, AtRest
  <1>3. CASE Submit
    <2>1. /\ phase = "submit" /\ next < toRetrieve /\ tasks' = Append(tasks, next + 1) /\ next' = next + 1
          /\ UNCHANGED <<phase, length, start, toRetrieve, tpc, latch, failed>>
      BY <1>3 DEF Submit, callVars, histVars
    <2>2. Counted' /\ Len(tasks') = Len(tasks) + 1 /\ Running' = Running
      BY <1>1, <2>1 DEF Counted, Running
    <2>3. latch = Before(start) + (toRetrieve - Before(next)) + Len(tasks) + Cardinality(Running) + failed
      BY <1>1, <2>1 DEF LatchAccounts
    <2>4. Before(start)' = Before(start) /\ Before(next) = next /\ Before(next)' = next + 1
      BY <1>1, <2>1 DEF Before, Counted
    <2>5. /\ next \in Nat /\ toRetrieve \in Nat /\ Len(tasks) \in Nat /\ failed \in Nat /\ Before(start) \in Nat
          /\ Cardinality(Running)' = Cardinality(Running)
      BY <1>1, <2>2 DEF Counted, Before
    <2>6. latch' = Before(start)' + (toRetrieve' - Before(next)') + Len(tasks') + Cardinality(Running)' + failed'
      BY <1>1, <2>1, <2>2, <2>3, <2>4, <2>5
    <2>7. LatchAccounts'
      BY <2>6 DEF LatchAccounts
    <2> QED BY <2>1, <2>2, <2>7 DEF IInv, AtRest
  <1>4. CASE \/ Submitted \/ Opened \/ TimeOut \/ SortCopy \/ SortThrows
             \/ WriteBack \/ WriteThrows \/ Return
    <2>1. /\ phase # "idle" /\ phase' \in {"await", "copy", "write", "answered", "thrown"}
          /\ UNCHANGED <<length, start, toRetrieve, next, tasks, tpc, latch, failed>>
      BY <1>1, <1>4 DEF Counted, Submitted, Opened, TimeOut, StopWaiting, SortCopy, SortThrows, WriteBack,
                        WriteThrows, Return, sortingVars, callVars, histVars
    <2>2. Running' = Running
      BY <2>1 DEF Running
    <2>3. Counted'
      BY <1>1, <2>1 DEF Counted
    <2>4. LatchAccounts'
      BY <1>1, <2>1, <2>2 DEF LatchAccounts, Before
    <2> QED BY <2>1, <2>3, <2>4 DEF IInv, AtRest
  <1> QED BY <1>2, <1>3, <1>4 DEF Caller

LEMMA PoolStep == ASSUME IInv, NEW t \in Pool, Retrieve(t) PROVE IInv'
  <1>1. Counted /\ AtRest /\ LatchAccounts /\ Cardinality(Running) \in Nat
    BY RunningCounted DEF IInv
  <1>2. UNCHANGED <<phase, length, start, toRetrieve, next>>
    BY DEF Retrieve, Take, Fetch, FetchNull, FetchFails, Add, Replace, Slot, Bump, Store, StoreOutside, Die,
           CountDown, callerVars, callVars
  <1>3. phase # "idle"
    <2>1. tpc[t] # "idle" \/ tasks # <<>>
      BY DEF Retrieve, Take, Fetch, FetchNull, FetchFails, Add, Replace, Slot, Bump, Store, StoreOutside, CountDown
    <2> QED BY <1>1, <2>1 DEF AtRest, Running
  <1>4. latch = Before(start) + (toRetrieve - Before(next)) + Len(tasks) + Cardinality(Running) + failed
    BY <1>1, <1>3 DEF LatchAccounts
  <1>5. Before(start)' = Before(start) /\ Before(next)' = Before(next)
    BY <1>2 DEF Before
  <1>6. Before(start) \in Nat /\ Before(next) \in Nat /\ toRetrieve - Before(next) \in Nat
    BY <1>1 DEF Before, Counted
  <1>7. CASE Take(t)
    <2>1. tpc[t] = "idle" /\ tasks # <<>> /\ tasks' = Tail(tasks) /\ PoolGoto(t, "fetch")
          /\ latch' = latch /\ failed' = failed
      BY <1>7 DEF Take, histVars
    <2>2. tasks' \in Seq(Nat) /\ Len(tasks') = Len(tasks) - 1 /\ Len(tasks) \in Nat
      BY <1>1, <2>1 DEF Counted
    <2>3. tpc' \in [Pool -> ThreadPlaces] /\ Cardinality(Running)' = Cardinality(Running) + 1
      BY <1>1, <2>1, Begins DEF ThreadPlaces
    <2>4. Counted'
      BY <1>1, <1>2, <2>1, <2>2, <2>3 DEF Counted
    <2>5. LatchAccounts'
      BY <1>1, <1>2, <1>4, <1>5, <1>6, <2>1, <2>2, <2>3 DEF LatchAccounts, Counted
    <2> QED BY <1>2, <1>3, <2>4, <2>5 DEF IInv, AtRest
  <1>8. CASE Fetch(t) \/ FetchNull(t) \/ Add(t) \/ Replace(t) \/ Slot(t) \/ Bump(t) \/ Store(t)
    <2>1. tasks' = tasks /\ latch' = latch /\ failed' = failed
      BY <1>8 DEF Fetch, FetchNull, Add, Replace, Slot, Bump, Store, histVars
    <2>2. tpc[t] # "idle" /\ \E p \in ThreadPlaces \ {"idle"} : PoolGoto(t, p)
      BY <1>8 DEF Fetch, FetchNull, Add, Replace, Slot, Bump, Store, ThreadPlaces, Adding
    <2>3. tpc' \in [Pool -> ThreadPlaces] /\ Running' = Running
      BY <1>1, <2>2, GoesOn
    <2>4. Counted'
      BY <1>1, <1>2, <2>1, <2>3 DEF Counted
    <2>5. LatchAccounts'
      BY <1>4, <1>2, <1>5, <2>1, <2>3 DEF LatchAccounts
    <2> QED BY <1>2, <1>3, <2>4, <2>5 DEF IInv, AtRest
  <1>9. CASE FetchFails(t) \/ StoreOutside(t)
    <2>1. tpc[t] # "idle" /\ PoolGoto(t, "idle") /\ tasks' = tasks /\ latch' = latch /\ failed' = failed + 1
      BY <1>9 DEF FetchFails, StoreOutside, Die
    <2>2. /\ tpc' \in [Pool -> ThreadPlaces]
          /\ Cardinality(Running)' = Cardinality(Running) - 1 /\ Cardinality(Running) > 0
      BY <1>1, <2>1, Ends
    <2>3. Counted'
      BY <1>1, <1>2, <2>1, <2>2 DEF Counted
    <2>4. Len(tasks) \in Nat /\ failed \in Nat /\ toRetrieve' = toRetrieve
      BY <1>1, <1>2 DEF Counted
    <2>5. Len(tasks') = Len(tasks) /\ failed' = failed + 1 /\ latch' = latch
      BY <2>1
    <2>6. Cardinality(Running) \in Nat
      BY <1>1
    <2> DEFINE rest == toRetrieve - Before(next)
               here == Before(start)
               runs == Cardinality(Running)
               wait == Len(tasks)
    <2>7. latch = here + rest + wait + runs + failed
      BY <1>4
    <2>8. rest \in Nat /\ here \in Nat /\ runs \in Nat /\ wait \in Nat /\ failed \in Nat
      BY <1>6, <2>6, <2>4
    <2>9. latch = here + rest + wait + (runs - 1) + (failed + 1)
      <3> HIDE DEF rest, here, runs, wait
      <3> QED BY <2>7, <2>8
    <2>10. latch' = Before(start)' + (toRetrieve' - Before(next)') + Len(tasks') + Cardinality(Running)' + failed'
      BY <1>5, <2>2, <2>4, <2>5, <2>9
    <2>11. LatchAccounts'
      BY <2>10 DEF LatchAccounts
    <2> QED BY <1>2, <1>3, <2>3, <2>11 DEF IInv, AtRest
  <1>10. CASE CountDown(t)
    <2>1. /\ tpc[t] # "idle" /\ PoolGoto(t, "idle") /\ tasks' = tasks /\ failed' = failed
          /\ latch' = IF latch > 0 THEN latch - 1 ELSE 0
      BY <1>10 DEF CountDown, histVars
    <2>2. /\ tpc' \in [Pool -> ThreadPlaces]
          /\ Cardinality(Running)' = Cardinality(Running) - 1 /\ Cardinality(Running) > 0
      BY <1>1, <2>1, Ends
    <2>3. Counted'
      BY <1>1, <1>2, <2>1, <2>2 DEF Counted
    <2>4. Len(tasks) \in Nat /\ failed \in Nat
      BY <1>1 DEF Counted
    <2>5. latch > 0
      BY <1>1, <1>4, <1>6, <2>2, <2>4
    <2>6. latch' = Before(start)' + (toRetrieve' - Before(next)') + Len(tasks') + Cardinality(Running)' + failed'
      BY <1>1, <1>2, <1>4, <1>5, <1>6, <2>1, <2>2, <2>4, <2>5
    <2>7. LatchAccounts'
      BY <2>6 DEF LatchAccounts
    <2> QED BY <1>2, <1>3, <2>3, <2>7 DEF IInv, AtRest
  <1> QED BY <1>7, <1>8, <1>9, <1>10 DEF Retrieve

LEMMA NextIInv == IInv /\ [Next]_vars => IInv'
  <1> SUFFICES ASSUME IInv, [Next]_vars PROVE IInv'
    OBVIOUS
  <1>1. CASE UNCHANGED vars
    <2>1. UNCHANGED <<phase, length, start, toRetrieve, next, tasks, tpc, latch, failed>>
      BY <1>1 DEF vars, callVars, histVars
    <2> QED BY <2>1 DEF IInv, Counted, AtRest, LatchAccounts, Running, Before
  <1>2. CASE Next
    BY <1>2, CallerStep, PoolStep DEF Next
  <1> QED BY <1>1, <1>2

-----------------------------------------------------------------------------
(* The sort of getFriendsTimeline.                                              *)

InOrder(s) == \A i, j \in DOMAIN s : i < j => Dates[s[i]] >= Dates[s[j]]

\* A tweet is put before the first that is earlier, and the order stays.
LEMMA PutByDatePuts ==
    ASSUME NEW s \in Seq(Places), NEW p \in Places
    PROVE  /\ PutByDate(s, p) \in Seq(Places)
           /\ \E k : PutAt(PutByDate(s, p), s, k, p)
           /\ InOrder(s) => InOrder(PutByDate(s, p))
<1> DEFINE n == Len(s)
           T == EarlierThan(p, s)
           new == PutByDate(s, p)
<1>1. /\ n \in Nat /\ DOMAIN s = 1 .. n /\ \A i \in 1 .. n : s[i] \in Places
      /\ \A q \in Places : Dates[q] \in Nat
  BY ReadsAssumption DEF Places
<1>2. T \in SUBSET (1 .. n) /\ \A i \in 1 .. n : i \in T <=> Dates[s[i]] < Dates[p]
  BY <1>1 DEF EarlierThan
<1> HIDE DEF T, n
<1>3. PICK k : /\ new \in Seq(Places) /\ PutAt(new, s, k, p) /\ k \in 1 .. n + 1
               /\ \A i \in 1 .. n : i < k => i \notin T
               /\ k # n + 1 => k \in T
  <2>1. CASE T = {}
    <3>1. new = Append(s, p)
      BY <2>1 DEF PutByDate, T
    <3> QED
      BY <2>1, <3>1, <1>1, AppendPuts DEF n
  <2>2. CASE T # {}
    <3>1. new = InsertAt(s, Min(T), p)
      BY <2>2 DEF PutByDate, T
    <3>2. Min(T) \in T /\ \A y \in T : Min(T) <= y
      BY <2>2, <1>1, <1>2, MinIs
    <3>3. Min(T) \in 1 .. n
      BY <3>2, <1>2
    <3>4. new \in Seq(Places) /\ PutAt(new, s, Min(T), p)
      BY <3>1, <3>3, InsertAtPuts DEF n
    <3>5. /\ Min(T) \in 1 .. n + 1
          /\ \A i \in 1 .. n : i < Min(T) => i \notin T
      BY <1>1, <3>2, <3>3
    <3> QED
      BY <3>2, <3>4, <3>5
  <2> QED
    BY <2>1, <2>2
<1> HIDE DEF new
<1>4. ASSUME InOrder(s) PROVE InOrder(new)
  <2>1. /\ DOMAIN new = 1 .. n + 1 /\ new[k] = p
        /\ \A i \in 1 .. n + 1 : i < k => i \in 1 .. n /\ new[i] = s[i]
        /\ \A i \in 1 .. n + 1 : i > k => i - 1 \in 1 .. n /\ new[i] = s[i - 1]
    BY <1>1, <1>3 DEF PutAt, n
  <2>2. \A i, j \in 1 .. n : i < j => Dates[s[i]] >= Dates[s[j]]
    BY <1>1, <1>4 DEF InOrder
  <2>3. \A i \in 1 .. n : Dates[s[i]] \in Nat /\ Dates[p] \in Nat
    BY <1>1
  <2>4. \A i \in 1 .. n : i < k => Dates[s[i]] >= Dates[p]
    BY <1>2, <1>3, <2>3
  <2>5. \A i \in 1 .. n : i >= k => Dates[p] >= Dates[s[i]]
    <3> SUFFICES ASSUME NEW i \in 1 .. n, i >= k PROVE Dates[p] >= Dates[s[i]]
      OBVIOUS
    <3>1. k \in 1 .. n /\ k \in T
      BY <1>1, <1>3
    <3>2. Dates[s[k]] < Dates[p]
      BY <1>2, <3>1
    <3>3. Dates[s[k]] >= Dates[s[i]]
      BY <2>2, <2>3, <3>1
    <3> QED
      BY <3>1, <3>2, <3>3, <2>3
  <2>6. ASSUME NEW i \in 1 .. n + 1, NEW j \in 1 .. n + 1, i < j
        PROVE  Dates[new[i]] >= Dates[new[j]]
    <3>1. k \in 1 .. n + 1 /\ n \in Nat
      BY <1>1, <1>3
    <3>2. CASE j < k
      BY <2>6, <3>1, <3>2, <2>1, <2>2
    <3>3. CASE j = k
      BY <2>6, <3>1, <3>3, <2>1, <2>4
    <3>4. CASE j > k
      <4>1. new[j] = s[j - 1] /\ j - 1 \in 1 .. n
        BY <3>4, <2>1
      <4>2. CASE i < k
        <5>1. i < j - 1
          BY <4>2, <3>1, <3>4, <2>6
        <5> QED
          BY <5>1, <4>1, <4>2, <2>1, <2>2
      <4>3. CASE i = k
        <5>1. j - 1 >= k
          BY <3>1, <3>4
        <5> QED
          BY <4>1, <4>3, <5>1, <2>1, <2>5
      <4>4. CASE i > k
        <5>1. new[i] = s[i - 1] /\ i - 1 \in 1 .. n /\ i - 1 < j - 1
          BY <4>4, <2>1, <2>6
        <5> QED
          BY <4>1, <5>1, <2>2
      <4> QED
        BY <3>1, <4>2, <4>3, <4>4
    <3> QED
      BY <3>1, <3>2, <3>3, <3>4
  <2> QED
    BY <2>1, <2>6 DEF InOrder
<1> QED
  BY <1>3, <1>4 DEF new

\* Its loop over the list: f is what is sorted after each turn.
IsSort(f, s) ==
    /\ f[0] = <<>> /\ Sorted(s) = f[Len(s)]
    /\ \A i \in 1 .. Len(s) : f[i] = PutByDate(f[i - 1], s[i])

LEMMA SortTurns ==
    ASSUME NEW s \in Seq(Places)
    PROVE  \E f \in [0 .. Len(s) -> Seq(Places)] : IsSort(f, s)
<1> DEFINE n == Len(s)
           M == Seq(Places)
           base == <<>>
           step == [t \in M \X (1 .. n) |-> PutByDate(t[1], s[t[2]])]
           Fold(g) == g = [S \in SUBSET (1 .. n) |->
                             IF S = {} THEN base ELSE PutByDate(g[S \ {Max(S)}], s[Max(S)])]
           h == CHOOSE k : Fold(k)
<1>put. base \in M /\ \A m \in M, e \in Places : PutByDate(m, e) \in M
  BY PutByDatePuts
<1> HIDE DEF M
<1>1. n \in Nat /\ DOMAIN s = 1 .. n /\ \A i \in 1 .. n : s[i] \in Places
  OBVIOUS
<1>2. step \in [M \X (1 .. n) -> M] /\ \A m \in M, i \in 1 .. n : step[<<m, i>>] = PutByDate(m, s[i])
  BY <1>1, <1>put
<1>3. Sorted(s) = h[1 .. n]
  BY <1>1 DEF Sorted, FoldLeft, MapThenFoldSet
<1> HIDE DEF step, n, h
<1>4. \E g : Fold(g)
  <2>1. PICK g \in [SUBSET (1 .. n) -> M] : IsFold(g, base, n, step)
    BY <1>1, <1>2, <1>put, FoldExists
  <2>2. ASSUME NEW S \in SUBSET (1 .. n)
        PROVE  g[S] = IF S = {} THEN base ELSE PutByDate(g[S \ {Max(S)}], s[Max(S)])
    <3>1. CASE S # {}
      <4>1. Max(S) \in 1 .. n /\ g[S \ {Max(S)}] \in M
        BY <1>1, <3>1, FoldTurns
      <4> QED
        BY <3>1, <4>1, <1>2, <2>1 DEF IsFold
    <3> QED
      BY <3>1, <2>1 DEF IsFold
  <2>3. Fold(g)
    BY <2>2
  <2> QED
    BY <2>3
<1>5. Fold(h)
  BY <1>4 DEF h
<1>6. IsFoldIn(M, h, base, n, step)
  <2>1. h[{}] = base
    BY <1>1, <1>5, FoldTurns
  <2>2. ASSUME NEW S \in SUBSET (1 .. n), S # {}, h[S \ {Max(S)}] \in M
        PROVE  h[S] = step[<<h[S \ {Max(S)}], Max(S)>>]
    <3>1. Max(S) \in 1 .. n
      BY <1>1, <2>2, FoldTurns
    <3>2. h[S] = PutByDate(h[S \ {Max(S)}], s[Max(S)])
      BY <1>5, <2>2
    <3> QED
      BY <1>2, <2>2, <3>1, <3>2
  <2> QED
    BY <2>1, <2>2 DEF IsFoldIn
<1> HIDE DEF Fold
<1>7. PICK f \in [0 .. n -> M] : IsLoop(f, base, n, step, h[1 .. n])
  <2>1. n \in Nat /\ step \in [M \X (1 .. n) -> M] /\ base \in M
    BY <1>1, <1>2, <1>put
  <2> QED
    BY <2>1, <1>6, LoopOfFold
<1>8. ASSUME NEW i \in 1 .. n PROVE f[i] = PutByDate(f[i - 1], s[i])
  <2>1. i - 1 \in 0 .. n
    BY <1>1
  <2> QED
    BY <2>1, <1>2, <1>7 DEF IsLoop
<1> QED
  BY <1>3, <1>7, <1>8 DEF n, M, IsSort, IsLoop

\* The sort has the tweets it is given, each once if they are so, the latest first.
LEMMA SortedIs ==
    ASSUME NEW s \in Seq(Places)
    PROVE  /\ Sorted(s) \in Seq(Places) /\ ToSet(Sorted(s)) = ToSet(s) /\ Len(Sorted(s)) = Len(s)
           /\ IsInjective(s) => IsInjective(Sorted(s))
           /\ InOrder(Sorted(s))
<1> DEFINE n == Len(s)
<1>1. n \in Nat /\ DOMAIN s = 1 .. n /\ \A j \in 1 .. n : s[j] \in Places
  OBVIOUS
<1>2. PICK f \in [0 .. Len(s) -> Seq(Places)] : IsSort(f, s)
  BY SortTurns
<1>3. /\ f \in [0 .. n -> Seq(Places)] /\ f[0] = <<>> /\ Sorted(s) = f[n]
      /\ \A i \in 1 .. n : f[i] = PutByDate(f[i - 1], s[i])
  BY <1>2 DEF IsSort
<1> DEFINE Holds(i) ==
             /\ ToSet(f[i]) = {s[j] : j \in 1 .. i} /\ Len(f[i]) = i
             /\ IsInjective(s) => IsInjective(f[i])
             /\ InOrder(f[i])
           P == {i \in 0 .. n : Holds(i)}
<1>4. 0 \in P
  BY <1>1, <1>3 DEF ToSet, IsInjective, InOrder
<1>5. ASSUME NEW i \in 1 .. n, i - 1 \in P PROVE i \in P
  <2>1. /\ i - 1 \in 0 .. n /\ i \in 0 .. n /\ s[i] \in Places
        /\ 1 .. i = (1 .. i - 1) \cup {i}
        /\ \A j \in 1 .. i - 1 : j \in 1 .. n /\ j # i
    BY <1>1
  <2>2. f[i - 1] \in Seq(Places) /\ f[i] = PutByDate(f[i - 1], s[i])
    BY <2>1, <1>3
  <2>3. Holds(i - 1)
    BY <1>5
  <2> HIDE DEF P
  <2>4. /\ f[i] \in Seq(Places) /\ InOrder(f[i])
        /\ \E k : PutAt(f[i], f[i - 1], k, s[i])
    <3>1. InOrder(f[i - 1])
      BY <2>3
    <3>2. /\ PutByDate(f[i - 1], s[i]) \in Seq(Places)
          /\ \E k : PutAt(PutByDate(f[i - 1], s[i]), f[i - 1], k, s[i])
          /\ InOrder(PutByDate(f[i - 1], s[i]))
      <4> HIDE DEF Holds
      <4> QED BY <2>1, <2>2, <3>1, PutByDatePuts
    <3> QED BY <2>2, <3>2
  <2>5. /\ ToSet(f[i]) = ToSet(f[i - 1]) \cup {s[i]}
        /\ IsInjective(f[i - 1]) /\ s[i] \notin ToSet(f[i - 1]) => IsInjective(f[i])
    BY <2>1, <2>2, <2>4, PutAtKeeps
  <2>6. IsInjective(s) => s[i] \notin ToSet(f[i - 1])
    BY <1>1, <2>1, <2>3 DEF IsInjective
  <2>7. ToSet(f[i]) = {s[j] : j \in 1 .. i}
    BY <2>1, <2>3, <2>5
  <2>a. Len(f[i]) = i
    BY <2>1, <2>3, <2>4 DEF PutAt
  <2>b. IsInjective(s) => IsInjective(f[i])
    BY <2>3, <2>5, <2>6
  <2>8. Holds(i)
    BY <2>4, <2>7, <2>a, <2>b
  <2> QED
    BY <2>1, <2>8 DEF P
<1>6. n \in P
  <2> HIDE DEF P
  <2>1. n \in 0 .. n
    BY <1>1
  <2> QED
    BY <2>1, <1>1, <1>4, <1>5, Turns
<1>7. Holds(n) /\ n \in 0 .. n
  BY <1>1, <1>6
<1> HIDE DEF P
<1>8. ToSet(s) = {s[j] : j \in 1 .. n}
  BY <1>1 DEF ToSet
<1> QED
  BY <1>3, <1>7, <1>8

-----------------------------------------------------------------------------
(* What the list of getFriendsTimeline holds, however the adds overlap.          *)

\* The places of the list, and of the copies that are not installed yet, with what is there.
Cells ==
    {c \in (Nat \ {0}) \X Places :
        \/ c[1] \in DOMAIN array /\ array[c[1]] = c[2]
        \/ \E t \in Pool : /\ tpc[t] = "replace" /\ c[1] \in DOMAIN copy[t]
                           /\ copy[t][c[1]] = c[2]}

\* A thread has a tweet, and one that is still to be added.
HasTweet(t) == tpc[t] # "idle"
ToAdd(t) == tpc[t] \notin {"idle", "count"}

ListType ==
    /\ length <= MaxLength /\ toRetrieve <= length /\ start <= next /\ place \in [Pool -> Nat]
    /\ array \in Seq(Places \cup {0}) /\ gen \in Nat /\ size \in Nat
    /\ ref \in [Pool -> Nat] /\ room \in [Pool -> Nat] /\ slot \in [Pool -> Nat]
    /\ \A t \in Pool : tpc[t] \in {"bump", "store"} => slot[t] # 0
    /\ copy \in [Pool -> Seq(Places \cup {0})]
    /\ sorted \in Seq(Places \cup {0}) /\ written \in Nat

\* Of the page only what the loop has given out is anywhere.
GivenOut == {p \in Page : p <= next}
Belongs ==
    /\ ToSet(tasks) \subseteq GivenOut
    /\ \A t \in Pool : HasTweet(t) => place[t] \in GivenOut
    /\ \A c \in Cells : c[2] \in GivenOut
    /\ ToSet(sorted) \cup ToSet(answer) \subseteq GivenOut \cup {0}

\* Until the sort writes to the list it is in one place: it waits, or a thread has it, or it
\* is in the list.
TasksGiven == ToSet(tasks) \subseteq GivenOut /\ IsInjective(tasks)
HeldGiven ==
    \A t \in Pool : HasTweet(t) =>
        /\ place[t] \in GivenOut \ ToSet(tasks)
        /\ \A u \in Pool : HasTweet(u) /\ place[u] = place[t] => u = t
CellsGiven ==
    /\ \A c \in Cells : /\ c[2] \in GivenOut \ (ToSet(tasks) \cup missing)
                        /\ \A t \in Pool : ToAdd(t) => place[t] # c[2]
    /\ \A c, d \in Cells : c[2] = d[2] => c[1] = d[1]
MissingGiven ==
    /\ missing \subseteq GivenOut \ ToSet(tasks)
    /\ \A t \in Pool : ToAdd(t) => place[t] \notin missing
Given == TasksGiven /\ HeldGiven /\ CellsGiven /\ MissingGiven

InOnePlace == phase \in {"idle", "submit", "await", "copy"} => Given
NothingYet == phase = "idle" => Cells = {} /\ missing = {} /\ sorted = <<>>
NotAnswered == phase # "answered" => answer = <<>>

\* Where no add is late the sort has the list for itself.
Still == phase \in {"copy", "write"} /\ ~disturbed => \A t \in Pool : tpc[t] \notin Adding
InPlace ==
    phase = "write" /\ ~disturbed =>
        /\ Len(sorted) = size /\ IsInjective(sorted) /\ InOrder(sorted)
        /\ \A i \in 1 .. written : i \in DOMAIN array /\ array[i] = sorted[i]
ListInv == ListType /\ Belongs /\ InOnePlace /\ NothingYet /\ NotAnswered /\ Still /\ InPlace

LEMMA PlacesOfPage ==
    ASSUME Counted, ListType
    PROVE  Page \subseteq Places /\ GivenOut \subseteq Page
BY ReadsAssumption DEF Page, Places, GivenOut, Counted, ListType

pageVars == <<phase, length, start, toRetrieve, next, sorted, written, answer>>

\* A thread that goes on or leaves its tweet; the list may hold it then.
LEMMA ThreadBelongs ==
    ASSUME Counted, Belongs, UNCHANGED <<pageVars, tasks>>,
           NEW t \in Pool, NEW q, HasTweet(t), tpc' = [tpc EXCEPT ![t] = q],
           \/ place' = place
           \/ q = "idle" /\ place' = [place EXCEPT ![t] = 0],
           place \in [Pool -> Nat],
           \/ Cells' \subseteq Cells
           \/ \E k : Cells' \subseteq Cells \cup {<<k, place[t]>>}
    PROVE  Belongs'
<1>1. GivenOut' = GivenOut
  BY DEF pageVars, GivenOut, Page
<1>2. \A u \in Pool : HasTweet(u)' => HasTweet(u) /\ place'[u] = place[u]
  BY DEF Counted, HasTweet
<1>3. place[t] \in GivenOut
  BY DEF Belongs
<1>4. ASSUME NEW c \in Cells' PROVE c[2] \in GivenOut
  <2>1. CASE Cells' \subseteq Cells
    BY <2>1 DEF Belongs
  <2>2. ASSUME NEW k, Cells' \subseteq Cells \cup {<<k, place[t]>>} PROVE c[2] \in GivenOut
    <3> DEFINE cell == <<k, place[t]>>
    <3>1. cell[2] = place[t] /\ (c \in Cells \/ c = cell)
      BY <2>2
    <3> HIDE DEF cell
    <3> QED
      BY <1>3, <3>1 DEF Belongs
  <2> QED
    BY <2>1, <2>2
<1>5. UNCHANGED <<tasks, sorted, answer>>
  BY DEF pageVars
<1> QED
  BY <1>1, <1>2, <1>4, <1>5 DEF Belongs

\* A thread that has a tweet goes on with it, or leaves it: the list may hold it then.
LEMMA ThreadKeeps ==
    ASSUME Counted, Given, UNCHANGED <<pageVars, tasks>>,
           NEW t \in Pool, NEW q \in ThreadPlaces, HasTweet(t), tpc' = [tpc EXCEPT ![t] = q],
           \/ place' = place
           \/ q = "idle" /\ place' = [place EXCEPT ![t] = 0],
           place \in [Pool -> Nat],
           q \notin {"idle", "count"} => ToAdd(t),
           \/ missing' = missing /\ Cells' \subseteq Cells
           \/ /\ missing' = missing \cup {place[t]} /\ Cells' \subseteq Cells
              /\ ToAdd(t) /\ q \in {"idle", "count"}
           \/ /\ missing' = missing /\ \E k : Cells' \subseteq Cells \cup {<<k, place[t]>>}
              /\ ToAdd(t) /\ q \in {"idle", "count"}
    PROVE  Given'
<1>1. GivenOut' = GivenOut /\ Page' = Page /\ ToSet(tasks)' = ToSet(tasks)
  BY DEF pageVars, GivenOut, Page
<1>2. tpc \in [Pool -> ThreadPlaces]
  BY DEF Counted
<1>3. /\ \A u \in Pool \ {t} : tpc'[u] = tpc[u] /\ place'[u] = place[u]
      /\ tpc'[t] = q /\ (q # "idle" => place'[t] = place[t])
  BY <1>2
<1>4. \A u \in Pool : /\ HasTweet(u)' => HasTweet(u) /\ place'[u] = place[u]
                      /\ ToAdd(u)' => ToAdd(u) /\ place'[u] = place[u]
                      /\ u # t => (ToAdd(u)' <=> ToAdd(u))
  BY <1>3 DEF HasTweet, ToAdd
<1>5. TasksGiven'
  BY <1>1 DEF Given, TasksGiven
<1>6. HeldGiven'
  BY <1>1, <1>4 DEF Given, HeldGiven
<1>7. CellsGiven'
  <2>1. CASE missing' = missing /\ Cells' \subseteq Cells
    BY <2>1, <1>1, <1>4 DEF Given, CellsGiven
  <2>2. CASE /\ missing' = missing \cup {place[t]} /\ Cells' \subseteq Cells
             /\ ToAdd(t) /\ q \in {"idle", "count"}
    BY <2>2, <1>1, <1>4 DEF Given, CellsGiven
  <2>3. ASSUME NEW k, missing' = missing, Cells' \subseteq Cells \cup {<<k, place[t]>>},
               ToAdd(t), q \in {"idle", "count"}
        PROVE  CellsGiven'
    <3>1. /\ place[t] \in GivenOut \ (ToSet(tasks) \cup missing) /\ ~ToAdd(t)'
          /\ \A u \in Pool : ToAdd(u)' => place'[u] # place[t]
          /\ \A c \in Cells : c[2] # place[t]
      <4>1. HasTweet(t) /\ ~ToAdd(t)'
        BY <2>3, <1>3 DEF ToAdd
      <4>2. \A u \in Pool : ToAdd(u)' => HasTweet(u) /\ u # t /\ place'[u] = place[u]
        BY <1>4, <4>1 DEF ToAdd, HasTweet
      <4> QED
        BY <2>3, <4>1, <4>2 DEF Given, HeldGiven, CellsGiven, MissingGiven
    <3> DEFINE cell == <<k, place[t]>>
    <3>cell. cell[2] = place[t] /\ Cells' \subseteq Cells \cup {cell}
      BY <2>3
    <3> HIDE DEF cell
    <3>2. \A c \in Cells' : c \in Cells \/ (c[2] = place[t] /\ c = cell)
      BY <3>cell
    <3>3. ASSUME NEW c \in Cells'
          PROVE  /\ c[2] \in (GivenOut \ (ToSet(tasks) \cup missing))'
                 /\ \A u \in Pool : ToAdd(u)' => place'[u] # c[2]
      <4>1. CASE c \in Cells
        BY <4>1, <1>1, <1>4, <2>3 DEF Given, CellsGiven
      <4>2. CASE c[2] = place[t]
        BY <4>2, <3>1, <1>1, <2>3
      <4> QED
        BY <3>2, <4>1, <4>2
    <3>4. ASSUME NEW c \in Cells', NEW d \in Cells', c[2] = d[2]
          PROVE  c[1] = d[1]
      <4>1. CASE c \in Cells /\ d \in Cells
        BY <4>1, <3>4 DEF Given, CellsGiven
      <4>2. CASE c \notin Cells /\ d \notin Cells
        BY <4>2, <3>2
      <4> QED
        BY <4>1, <4>2, <3>1, <3>2, <3>4
    <3> QED
      BY <3>3, <3>4 DEF CellsGiven
  <2> QED
    BY <2>1, <2>2, <2>3
<1>8. MissingGiven'
  <2>1. CASE missing' = missing
    BY <2>1, <1>1, <1>4 DEF Given, MissingGiven
  <2>2. CASE missing' = missing \cup {place[t]} /\ ToAdd(t) /\ q \in {"idle", "count"}
    <3>1. HasTweet(t) /\ ~ToAdd(t)'
      BY <2>2, <1>3 DEF ToAdd
    <3>2. \A u \in Pool : ToAdd(u)' => HasTweet(u) /\ u # t /\ place'[u] = place[u] /\ place[u] # place[t]
      BY <1>4, <3>1 DEF ToAdd, HasTweet, Given, HeldGiven
    <3> QED
      BY <2>2, <3>1, <3>2, <1>1, <1>4 DEF Given, HeldGiven, MissingGiven
  <2> QED
    BY <2>1, <2>2
<1> QED
  BY <1>5, <1>6, <1>7, <1>8 DEF Given

LEMMA TakeBelongs == \* the next tweet
    ASSUME Counted, ListType, Belongs, NEW t \in Pool, Take(t)
    PROVE  Belongs' /\ ListType'
<1>1. /\ tpc[t] = "idle" /\ tasks # <<>> /\ tasks' = Tail(tasks)
      /\ place' = [place EXCEPT ![t] = Head(tasks)] /\ tpc' = [tpc EXCEPT ![t] = "fetch"]
      /\ UNCHANGED <<pageVars, array, gen, size, ref, room, slot, copy, missing>>
  BY DEF Take, PoolGoto, callerVars, callVars, sortVars, pageVars, listVars, localVars, histVars
<1>2. /\ tpc \in [Pool -> ThreadPlaces] /\ tasks \in Seq(Nat) /\ place \in [Pool -> Nat]
  BY DEF Counted, ListType
<1>3. GivenOut' = GivenOut /\ UNCHANGED <<sorted, answer>>
  BY <1>1 DEF pageVars, GivenOut, Page
<1>4. Head(tasks) \in ToSet(tasks) /\ Head(tasks) \in Nat /\ ToSet(tasks') \subseteq ToSet(tasks)
  <2>1. /\ 1 \in DOMAIN tasks /\ tasks[1] = Head(tasks) /\ tasks[1] \in Nat
        /\ \A i \in DOMAIN tasks' : i + 1 \in DOMAIN tasks /\ tasks'[i] = tasks[i + 1]
    BY <1>1, <1>2
  <2> QED
    BY <2>1 DEF ToSet
<1>5. /\ \A u \in Pool \ {t} : tpc'[u] = tpc[u] /\ place'[u] = place[u]
      /\ tpc'[t] = "fetch" /\ place'[t] = Head(tasks)
  BY <1>1, <1>2
<1>6. Cells' \subseteq Cells
  BY <1>1, <1>5 DEF Cells
<1>7. Belongs'
  BY <1>3, <1>4, <1>5, <1>6 DEF Belongs, HasTweet
<1>8. ListType'
  BY <1>1, <1>2, <1>4, <1>5 DEF ListType, pageVars, ThreadPlaces
<1> QED
  BY <1>7, <1>8

LEMMA TakeKeeps ==
    ASSUME Counted, ListType, Given, NEW t \in Pool, Take(t)
    PROVE  Given'
<1>1. /\ tpc[t] = "idle" /\ tasks # <<>> /\ tasks' = Tail(tasks)
      /\ place' = [place EXCEPT ![t] = Head(tasks)] /\ tpc' = [tpc EXCEPT ![t] = "fetch"]
      /\ UNCHANGED <<pageVars, array, gen, size, ref, room, slot, copy, missing>>
  BY DEF Take, PoolGoto, callerVars, callVars, sortVars, pageVars, listVars, localVars, histVars
<1>2. /\ tpc \in [Pool -> ThreadPlaces] /\ tasks \in Seq(Nat) /\ place \in [Pool -> Nat]
  BY DEF Counted, ListType
<1>3. GivenOut' = GivenOut
  BY <1>1 DEF pageVars, GivenOut, Page
<1>4. /\ Head(tasks) \in ToSet(tasks) /\ Head(tasks) \in Nat
      /\ ToSet(tasks') = ToSet(tasks) \ {Head(tasks)}
      /\ IsInjective(tasks')
  <2> DEFINE n == Len(tasks)
  <2>1. /\ n \in Nat /\ n > 0 /\ DOMAIN tasks = 1 .. n /\ tasks[1] = Head(tasks)
        /\ tasks[1] \in Nat
    BY <1>1, <1>2
  <2>2. DOMAIN tasks' = 1 .. n - 1 /\ \A i \in 1 .. n - 1 : tasks'[i] = tasks[i + 1]
    BY <1>1, <1>2
  <2>3. \A i, j \in 1 .. n : tasks[i] = tasks[j] => i = j
    BY <2>1 DEF Given, TasksGiven, IsInjective
  <2>4. \A i \in 1 .. n : i = 1 \/ (i - 1 \in 1 .. n - 1 /\ (i - 1) + 1 = i)
    BY <2>1
  <2>5. \A i \in 1 .. n - 1 : i + 1 \in 1 .. n /\ i + 1 # 1
    BY <2>1
  <2> HIDE DEF n
  <2>6. 1 \in 1 .. n
    BY <2>1
  <2>7. IsInjective(tasks')
    <3>1. \A i, j \in 1 .. n - 1 : tasks'[i] = tasks'[j] => i + 1 = j + 1
      BY <2>2, <2>3, <2>5
    <3>2. \A i, j \in 1 .. n - 1 : i + 1 = j + 1 => i = j
      BY <2>1
    <3> QED
      BY <3>1, <3>2, <2>2 DEF IsInjective
  <2>8. ToSet(tasks') = ToSet(tasks) \ {Head(tasks)}
    <3>1. \A p \in ToSet(tasks') : p \in ToSet(tasks) /\ p # Head(tasks)
      BY <2>1, <2>2, <2>3, <2>5, <2>6 DEF ToSet
    <3>2. ASSUME NEW p \in ToSet(tasks) PROVE p = Head(tasks) \/ p \in ToSet(tasks')
      <4>1. PICK i \in 1 .. n : p = tasks[i]
        BY <2>1 DEF ToSet
      <4>2. CASE i # 1
        <5>1. i - 1 \in DOMAIN tasks' /\ tasks'[i - 1] = p
          BY <4>1, <4>2, <2>2, <2>4
        <5> QED
          BY <5>1 DEF ToSet
      <4> QED
        BY <4>1, <4>2, <2>1
    <3> QED
      BY <3>1, <3>2
  <2> QED
    BY <2>1, <2>6, <2>7, <2>8 DEF ToSet
<1>5. /\ \A u \in Pool \ {t} : tpc'[u] = tpc[u] /\ place'[u] = place[u]
      /\ tpc'[t] = "fetch" /\ place'[t] = Head(tasks)
  BY <1>1, <1>2
<1>6. Cells' \subseteq Cells
  BY <1>1, <1>5 DEF Cells
<1>7. TasksGiven'
  BY <1>3, <1>4 DEF Given, TasksGiven
<1>8. HeldGiven'
  BY <1>3, <1>4, <1>5 DEF Given, TasksGiven, HeldGiven, HasTweet
<1>9. CellsGiven'
  BY <1>1, <1>3, <1>4, <1>5, <1>6 DEF Given, CellsGiven, ToAdd
<1>10. MissingGiven'
  BY <1>1, <1>3, <1>4, <1>5 DEF Given, MissingGiven, ToAdd
<1> QED
  BY <1>7, <1>8, <1>9, <1>10 DEF Given

\* A step that changes no array leaves the places, unless a copy is made.
LEMMA SameCells ==
    ASSUME Counted, NEW t \in Pool, NEW q, q # "replace", tpc' = [tpc EXCEPT ![t] = q],
           array' = array, copy' = copy
    PROVE  Cells' \subseteq Cells
<1>1. \A u \in Pool : tpc'[u] = "replace" => tpc[u] = "replace"
  BY DEF Counted
<1> QED
  BY <1>1 DEF Cells

\* The longer copy of an array has nulls at the end.
LEMMA LongerCopy ==
    ASSUME NEW s \in Seq(Places \cup {0}), NEW more \in Nat, NEW new,
           new = s \o [i \in 1 .. more |-> 0]
    PROVE  /\ new \in Seq(Places \cup {0}) /\ Len(new) = Len(s) + more
           /\ DOMAIN new = 1 .. Len(s) + more
           /\ \A i \in 1 .. Len(s) + more : i > Len(s) => new[i] = 0
           /\ \A i \in 1 .. Len(s) : new[i] = s[i]
<1> DEFINE zeros == [i \in 1 .. more |-> 0]
<1>1. Len(s) \in Nat /\ \A i \in 1 .. more : zeros[i] = 0
  OBVIOUS
<1>2. zeros \in Seq(Places \cup {0}) /\ Len(zeros) = more
  <2>1. zeros \in [1 .. more -> Places \cup {0}]
    OBVIOUS
  <2> QED
    BY <2>1
<1>3. new = s \o zeros
  OBVIOUS
<1> HIDE DEF zeros
<1>4. new \in Seq(Places \cup {0}) /\ Len(new) = Len(s) + more
  BY <1>2, <1>3
<1>5. \A i \in 1 .. Len(s) + more : new[i] = IF i <= Len(s) THEN s[i] ELSE zeros[i - Len(s)]
  BY <1>1, <1>2, <1>3
<1>6. \A i \in 1 .. Len(s) + more : i > Len(s) => (i - Len(s) \in 1 .. more /\ ~(i <= Len(s)))
  BY <1>1
<1>7. \A i \in 1 .. Len(s) : i \in 1 .. Len(s) + more /\ i <= Len(s)
  BY <1>1
<1>8. DOMAIN new = 1 .. Len(s) + more
  BY <1>4
<1> QED
  BY <1>1, <1>4, <1>5, <1>6, <1>7, <1>8

LEMMA AddCells ==
    ASSUME Counted, ListType, NEW t \in Pool, Add(t)
    PROVE  Cells' \subseteq Cells /\ copy' \in [Pool -> Seq(Places \cup {0})]
<1>1. /\ array' = array /\ array \in Seq(Places \cup {0}) /\ copy \in [Pool -> Seq(Places \cup {0})]
      /\ tpc \in [Pool -> ThreadPlaces]
  BY DEF Add, Counted, ListType, listVars
<1>2. CASE tpc' = [tpc EXCEPT ![t] = "slot"] /\ copy' = copy
  BY <1>1, <1>2, SameCells
<1>3. CASE /\ tpc' = [tpc EXCEPT ![t] = "replace"]
           /\ copy' = [copy EXCEPT ![t] = array \o [i \in 1 .. Len(array) \div 2 + 1 |-> 0]]
  <2> DEFINE more == Len(array) \div 2 + 1
             both == array \o [i \in 1 .. more |-> 0]
  <2>1. Len(array) \in Nat /\ more \in Nat
    BY <1>1
  <2>2. both = array \o [i \in 1 .. more |-> 0]
    OBVIOUS
  <2>new. copy' = [copy EXCEPT ![t] = both]
    BY <1>3
  <2> HIDE DEF both, more
  <2>3. /\ both \in Seq(Places \cup {0}) /\ DOMAIN both = 1 .. Len(array) + more
        /\ \A i \in 1 .. Len(array) + more : i > Len(array) => both[i] = 0
        /\ \A i \in 1 .. Len(array) : both[i] = array[i]
    BY <1>1, <2>1, <2>2, LongerCopy
  <2>4. copy'[t] = both /\ \A u \in Pool \ {t} : copy'[u] = copy[u] /\ tpc'[u] = tpc[u]
    BY <1>1, <1>3, <2>new
  <2>5. copy' \in [Pool -> Seq(Places \cup {0})]
    BY <1>1, <2>3, <2>new
  <2>6. ASSUME NEW c \in Cells' PROVE c \in Cells
    <3>1. c[2] # 0 /\ c \in (Nat \ {0}) \X Places
      BY DEF Cells, Places
    <3>2. CASE c[1] \in DOMAIN copy'[t] /\ copy'[t][c[1]] = c[2]
      <4>1. c[1] \in 1 .. Len(array) + more /\ both[c[1]] = c[2]
        BY <2>3, <2>4, <3>2
      <4>2. c[1] \in 1 .. Len(array) /\ array[c[1]] = c[2]
        BY <2>1, <2>3, <3>1, <4>1
      <4>3. c[1] \in DOMAIN array
        BY <1>1, <4>2
      <4> QED
        BY <3>1, <4>2, <4>3 DEF Cells
    <3>3. CASE c[1] \in DOMAIN array /\ array[c[1]] = c[2]
      BY <3>1, <3>3 DEF Cells
    <3>4. CASE \E u \in Pool \ {t} : /\ tpc'[u] = "replace" /\ c[1] \in DOMAIN copy'[u]
                                     /\ copy'[u][c[1]] = c[2]
      BY <2>4, <3>1, <3>4 DEF Cells
    <3> QED
      BY <3>2, <3>3, <3>4, <1>1 DEF Cells
  <2> QED
    BY <2>5, <2>6
<1> QED
  BY <1>2, <1>3, <1>1 DEF Add, PoolGoto

LEMMA ReplaceCells ==
    ASSUME Counted, ListType, NEW t \in Pool, Replace(t)
    PROVE  Cells' \subseteq Cells /\ array' \in Seq(Places \cup {0})
<1>1. /\ array' = copy[t] /\ copy' = copy /\ tpc[t] = "replace" /\ tpc' = [tpc EXCEPT ![t] = "slot"]
      /\ tpc \in [Pool -> ThreadPlaces] /\ copy \in [Pool -> Seq(Places \cup {0})]
  BY DEF Replace, PoolGoto, Counted, ListType, localVars
<1>2. \A u \in Pool : tpc'[u] = "replace" => tpc[u] = "replace"
  BY <1>1
<1> QED
  BY <1>1, <1>2 DEF Cells

LEMMA StoreCells ==
    ASSUME Counted, ListType, NEW t \in Pool, Store(t), place[t] \in Places
    PROVE  /\ Cells' \subseteq Cells \cup {<<slot[t], place[t]>>}
           /\ array' \in Seq(Places \cup {0})
<1>1. /\ array' = IF ref[t] = gen THEN [array EXCEPT ![slot[t]] = place[t]] ELSE array
      /\ copy' = copy /\ tpc[t] = "store" /\ tpc' = [tpc EXCEPT ![t] = "count"]
      /\ tpc \in [Pool -> ThreadPlaces] /\ array \in Seq(Places \cup {0})
      /\ slot[t] \in Nat \ {0}
  BY DEF Store, PoolGoto, Counted, ListType, localVars
<1>2. \A u \in Pool : tpc'[u] = "replace" => tpc[u] = "replace"
  BY <1>1
<1>3. /\ array' \in Seq(Places \cup {0}) /\ DOMAIN array' = DOMAIN array
      /\ \A i \in DOMAIN array : array'[i] = array[i] \/ (i = slot[t] /\ array'[i] = place[t])
  <2>1. CASE ref[t] = gen
    <3> DEFINE new == [array EXCEPT ![slot[t]] = place[t]]
    <3>1. /\ DOMAIN array = 1 .. Len(array) /\ Len(array) \in Nat
          /\ \A i \in 1 .. Len(array) : array[i] \in Places \cup {0}
      BY <1>1
    <3>2. new \in Seq(Places \cup {0})
      <4>1. new \in [1 .. Len(array) -> Places \cup {0}]
        BY <3>1
      <4> QED
        BY <3>1, <4>1
    <3>3. /\ DOMAIN new = DOMAIN array
          /\ \A i \in DOMAIN array : new[i] = array[i] \/ (i = slot[t] /\ new[i] = place[t])
      BY <3>1
    <3> QED
      BY <1>1, <2>1, <3>2, <3>3
  <2> QED
    BY <1>1, <2>1
<1>4. ASSUME NEW c \in Cells' PROVE c \in Cells \cup {<<slot[t], place[t]>>}
  <2>1. c \in (Nat \ {0}) \X Places /\ c = <<c[1], c[2]>>
    BY DEF Cells
  <2>2. CASE c[1] \in DOMAIN array' /\ array'[c[1]] = c[2]
    <3>1. c[1] \in DOMAIN array /\ (array[c[1]] = c[2] \/ (c[1] = slot[t] /\ c[2] = place[t]))
      BY <1>3, <2>2
    <3>2. CASE c[1] = slot[t] /\ c[2] = place[t]
      BY <2>1, <3>2
    <3>3. CASE array[c[1]] = c[2]
      BY <2>1, <3>1, <3>3 DEF Cells
    <3> QED
      BY <3>1, <3>2, <3>3
  <2>3. CASE \E u \in Pool : /\ tpc'[u] = "replace" /\ c[1] \in DOMAIN copy'[u]
                             /\ copy'[u][c[1]] = c[2]
    BY <1>1, <1>2, <2>1, <2>3 DEF Cells
  <2> QED
    BY <2>2, <2>3 DEF Cells
<1> QED
  BY <1>3, <1>4

\* A thread's step, whatever it is.
LEMMA PoolList ==
    ASSUME Counted, ListType, Belongs, NEW t \in Pool, Retrieve(t)
    PROVE  Belongs' /\ ListType' /\ (Given => Given')
<1>1. UNCHANGED pageVars /\ tpc \in [Pool -> ThreadPlaces] /\ place \in [Pool -> Nat]
  <2>1. UNCHANGED pageVars
    BY DEF Retrieve, Take, Fetch, FetchNull, FetchFails, Add, Replace, Slot, Bump, Store, StoreOutside,
           Die, CountDown, callerVars, callVars, sortVars, pageVars
  <2> QED
    BY <2>1 DEF Counted, ListType
<1>2. \A u \in Pool : tpc[u] # "idle" => place[u] \in Places
  BY PlacesOfPage DEF Belongs, HasTweet
<1>3. CASE Take(t)
  BY <1>3, TakeKeeps, TakeBelongs
<1>4. CASE Fetch(t)
  <2>1. /\ tpc[t] = "fetch" /\ tpc' = [tpc EXCEPT ![t] = "add"]
        /\ UNCHANGED <<tasks, place, array, gen, size, ref, room, slot, copy, missing>>
    BY <1>4 DEF Fetch, PoolGoto, listVars, localVars, histVars
  <2>2. Cells' \subseteq Cells
    BY <2>1, SameCells
  <2>3. Belongs'
    BY <1>1, <2>1, <2>2, ThreadBelongs DEF HasTweet
  <2>6. Given => Given'
    BY <1>1, <2>1, <2>2, ThreadKeeps DEF HasTweet, ToAdd, ThreadPlaces
  <2>4. ListType'
    BY <1>1, <2>1 DEF ListType, pageVars
  <2> QED
    BY <2>3, <2>4, <2>6
<1>5. CASE FetchNull(t)
  <2>1. /\ tpc[t] = "fetch" /\ tpc' = [tpc EXCEPT ![t] = "count"] /\ missing' = missing \cup {place[t]}
        /\ UNCHANGED <<tasks, place, array, gen, size, ref, room, slot, copy>>
    BY <1>5 DEF FetchNull, PoolGoto, listVars, localVars
  <2>2. Cells' \subseteq Cells
    BY <2>1, SameCells
  <2>3. Belongs'
    BY <1>1, <2>1, <2>2, ThreadBelongs DEF HasTweet
  <2>6. Given => Given'
    BY <1>1, <2>1, <2>2, ThreadKeeps DEF HasTweet, ToAdd, ThreadPlaces
  <2>4. ListType'
    BY <1>1, <2>1 DEF ListType, pageVars
  <2> QED
    BY <2>3, <2>4, <2>6
<1>6. CASE FetchFails(t) \/ StoreOutside(t) \/ CountDown(t)
  <2>1. /\ tpc[t] # "idle" /\ tpc' = [tpc EXCEPT ![t] = "idle"] /\ place' = [place EXCEPT ![t] = 0]
        /\ UNCHANGED <<tasks, array, gen, size, ref, room, slot, copy, missing>>
    BY <1>6 DEF FetchFails, StoreOutside, CountDown, Die, PoolGoto, listVars, localVars, histVars
  <2>2. Cells' \subseteq Cells
    BY <2>1, SameCells
  <2>3. Belongs'
    BY <1>1, <2>1, <2>2, ThreadBelongs DEF HasTweet
  <2>6. Given => Given'
    BY <1>1, <2>1, <2>2, ThreadKeeps DEF HasTweet, ThreadPlaces
  <2>4. place' \in [Pool -> Nat]
    BY <1>1, <2>1
  <2>5. ListType'
    BY <1>1, <2>1, <2>4 DEF ListType, pageVars
  <2> QED
    BY <2>3, <2>5, <2>6
<1>7. CASE Add(t)
  <2>1. /\ tpc[t] = "add" /\ \E q \in {"slot", "replace"} : tpc' = [tpc EXCEPT ![t] = q]
        /\ UNCHANGED <<tasks, place, array, gen, size, ref, room, slot, missing>>
    BY <1>7 DEF Add, PoolGoto, listVars, localVars, histVars
  <2>2. Cells' \subseteq Cells /\ copy' \in [Pool -> Seq(Places \cup {0})]
    BY <1>7, AddCells
  <2>3. Belongs'
    BY <1>1, <2>1, <2>2, ThreadBelongs DEF HasTweet
  <2>6. Given => Given'
    BY <1>1, <2>1, <2>2, ThreadKeeps DEF HasTweet, ToAdd, ThreadPlaces, Adding
  <2>4. ListType'
    BY <1>1, <2>1, <2>2 DEF ListType, pageVars
  <2> QED
    BY <2>3, <2>4, <2>6
<1>8. CASE Replace(t)
  <2>1. /\ tpc[t] = "replace" /\ tpc' = [tpc EXCEPT ![t] = "slot"] /\ gen' = gen + 1
        /\ UNCHANGED <<tasks, place, size, ref, room, slot, copy, missing>>
    BY <1>8 DEF Replace, PoolGoto, localVars, histVars
  <2>2. Cells' \subseteq Cells /\ array' \in Seq(Places \cup {0})
    BY <1>8, ReplaceCells
  <2>3. Belongs'
    BY <1>1, <2>1, <2>2, ThreadBelongs DEF HasTweet
  <2>6. Given => Given'
    BY <1>1, <2>1, <2>2, ThreadKeeps DEF HasTweet, ToAdd, ThreadPlaces, Adding
  <2>4. ListType'
    BY <1>1, <2>1, <2>2 DEF ListType, pageVars
  <2> QED
    BY <2>3, <2>4, <2>6
<1>9. CASE Slot(t)
  <2>1. /\ tpc[t] = "slot" /\ tpc' = [tpc EXCEPT ![t] = "bump"]
        /\ ref' = [ref EXCEPT ![t] = gen] /\ room' = [room EXCEPT ![t] = Len(array)]
        /\ slot' = [slot EXCEPT ![t] = size + 1]
        /\ UNCHANGED <<tasks, place, array, gen, size, copy, missing>>
    BY <1>9 DEF Slot, PoolGoto, listVars, histVars
  <2>2. Cells' \subseteq Cells
    BY <2>1, SameCells
  <2>3. Belongs'
    BY <1>1, <2>1, <2>2, ThreadBelongs DEF HasTweet
  <2>8. Given => Given'
    BY <1>1, <2>1, <2>2, ThreadKeeps DEF HasTweet, ToAdd, ThreadPlaces, Adding
  <2>4. /\ gen \in Nat /\ Len(array) \in Nat /\ size + 1 \in Nat \ {0}
        /\ ref \in [Pool -> Nat] /\ room \in [Pool -> Nat] /\ slot \in [Pool -> Nat]
    BY DEF ListType
  <2>5. ref' \in [Pool -> Nat] /\ room' \in [Pool -> Nat] /\ slot' \in [Pool -> Nat] /\ slot'[t] # 0
    BY <2>1, <2>4
  <2>6. \A u \in Pool : tpc'[u] \in {"bump", "store"} => slot'[u] # 0
    BY <1>1, <2>1, <2>5 DEF ListType
  <2>7. ListType'
    BY <1>1, <2>1, <2>5, <2>6 DEF ListType, pageVars
  <2> QED
    BY <2>3, <2>7, <2>8
<1>10. CASE Bump(t)
  <2>1. /\ tpc[t] = "bump" /\ tpc' = [tpc EXCEPT ![t] = "store"] /\ size' = slot[t]
        /\ UNCHANGED <<tasks, place, array, gen, ref, room, slot, copy, missing>>
    BY <1>10 DEF Bump, PoolGoto, localVars, histVars
  <2>2. Cells' \subseteq Cells
    BY <2>1, SameCells
  <2>3. Belongs'
    BY <1>1, <2>1, <2>2, ThreadBelongs DEF HasTweet
  <2>6. Given => Given'
    BY <1>1, <2>1, <2>2, ThreadKeeps DEF HasTweet, ToAdd, ThreadPlaces, Adding
  <2>4. ListType'
    BY <1>1, <2>1 DEF ListType, pageVars
  <2> QED
    BY <2>3, <2>4, <2>6
<1>11. CASE Store(t)
  <2>1. /\ tpc[t] = "store" /\ tpc' = [tpc EXCEPT ![t] = "count"]
        /\ UNCHANGED <<tasks, place, gen, size, ref, room, slot, copy, missing>>
    BY <1>11 DEF Store, PoolGoto, localVars, histVars
  <2>2. /\ Cells' \subseteq Cells \cup {<<slot[t], place[t]>>}
        /\ array' \in Seq(Places \cup {0})
    BY <1>2, <1>11, <2>1, StoreCells
  <2>3. Belongs'
    BY <1>1, <2>1, <2>2, ThreadBelongs DEF HasTweet
  <2>6. Given => Given'
    BY <1>1, <2>1, <2>2, ThreadKeeps DEF HasTweet, ToAdd, ThreadPlaces
  <2>4. ListType'
    BY <1>1, <2>1, <2>2 DEF ListType, pageVars
  <2> QED
    BY <2>3, <2>4, <2>6
<1> QED
  BY <1>3, <1>4, <1>5, <1>6, <1>7, <1>8, <1>9, <1>10, <1>11 DEF Retrieve

\* A step of the caller; what is answered is in order, from the page, and nothing twice.
PageInv == IInv /\ ListInv /\ AnswerIsOfThePage

LEMMA CallList == \* the page is chosen
    ASSUME PageInv, Call
    PROVE  ListInv' /\ AnswerIsOfThePage'
<1>1. PICK n \in 0 .. MaxLength, st \in Starts, c \in Counts :
        /\ length' = n /\ start' = st /\ next' = st
        /\ toRetrieve' = IF c < n THEN c ELSE n
  BY DEF Call
<1>2. /\ phase = "idle" /\ phase' = "submit"
      /\ UNCHANGED <<tasks, tpc, place, array, gen, size, ref, room, slot, copy, sorted, written, answer,
                     missing>>
  BY DEF Call, sortVars, listVars, localVars, histVars
<1>3. st \in Nat /\ n \in Nat /\ c \in Nat /\ n <= MaxLength
  BY ReadsAssumption
<1>4. tasks = <<>> /\ (\A t \in Pool : tpc[t] = "idle") /\ Cells = {} /\ missing = {}
      /\ sorted = <<>> /\ answer = <<>>
  BY <1>2 DEF PageInv, IInv, AtRest, Running, ListInv, NothingYet, NotAnswered
<1>5. ListType'
  BY <1>1, <1>2, <1>3 DEF PageInv, ListInv, ListType
<1>6. Cells' = {}
  BY <1>2, <1>4 DEF Cells
<1>7. Given'
  <2>1. ToSet(tasks') = {} /\ IsInjective(tasks')
    BY <1>2, <1>4 DEF ToSet, IsInjective
  <2>2. \A t \in Pool : ~HasTweet(t)' /\ ~ToAdd(t)'
    BY <1>2, <1>4 DEF HasTweet, ToAdd
  <2> QED
    BY <1>2, <1>4, <1>6, <2>1, <2>2 DEF Given, TasksGiven, HeldGiven, CellsGiven, MissingGiven
<1>8. NothingYet' /\ NotAnswered' /\ InOnePlace' /\ Still' /\ InPlace'
  BY <1>2, <1>4, <1>7 DEF NothingYet, NotAnswered, InOnePlace, Still, InPlace
<1>10. Belongs'
  <2>1. ToSet(sorted') = {} /\ ToSet(answer') = {}
    BY <1>2, <1>4 DEF ToSet
  <2> QED
    BY <1>7, <2>1 DEF Given, TasksGiven, HeldGiven, CellsGiven, Belongs
<1>9. AnswerIsOfThePage'
  <2>1. answer' = <<>>
    BY <1>2, <1>4
  <2> QED
    BY <2>1 DEF AnswerIsOfThePage, ToSet, IsInjective
<1> QED
  BY <1>5, <1>8, <1>9, <1>10 DEF ListInv

LEMMA SubmitList ==
    ASSUME PageInv, Submit
    PROVE  ListInv' /\ AnswerIsOfThePage'
<1>1. /\ phase = "submit" /\ next < toRetrieve
      /\ tasks' = Append(tasks, next + 1) /\ next' = next + 1
      /\ UNCHANGED <<phase, length, start, toRetrieve, tpc, place, array, gen, size, ref, room, slot,
                     copy, disturbed, sorted, written, answer, missing>>
  BY DEF Submit, callVars, sortVars, listVars, localVars, histVars
<1>2. /\ next \in Nat /\ start \in Nat /\ toRetrieve \in Nat /\ tasks \in Seq(Nat) /\ start <= next
      /\ length \in Nat
  BY DEF PageInv, IInv, Counted, ListInv, ListType
<1>3. toRetrieve <= length
  BY DEF PageInv, ListInv, ListType
<1>4. /\ GivenOut' = GivenOut \cup {next + 1} /\ next + 1 \notin GivenOut
      /\ Page' = Page
  BY <1>1, <1>2, <1>3 DEF GivenOut, Page
<1>7. Given /\ ListType /\ Belongs
  BY <1>1 DEF PageInv, ListInv, InOnePlace
<1>5. /\ ToSet(tasks') = ToSet(tasks) \cup {next + 1}
      /\ IsInjective(tasks')
  <2>1. next + 1 \notin ToSet(tasks) /\ IsInjective(tasks)
    BY <1>4, <1>7 DEF Given, TasksGiven
  <2> DEFINE n == Len(tasks)
             p == next + 1
  <2>2. /\ n \in Nat /\ DOMAIN tasks = 1 .. n /\ DOMAIN tasks' = 1 .. n + 1 /\ tasks'[n + 1] = p
        /\ \A i \in 1 .. n : tasks'[i] = tasks[i]
    BY <1>1, <1>2
  <2>3. 1 .. n + 1 = (1 .. n) \cup {n + 1} /\ n + 1 \notin 1 .. n
    BY <2>2
  <2> HIDE DEF n, p
  <2>4. ToSet(tasks') = ToSet(tasks) \cup {p}
    BY <2>2, <2>3 DEF ToSet
  <2>5. \A i \in 1 .. n : tasks[i] # p
    BY <2>1, <2>2 DEF ToSet, p
  <2>6. IsInjective(tasks')
    BY <2>1, <2>2, <2>3, <2>5 DEF IsInjective
  <2> QED
    BY <2>4, <2>6 DEF p
<1>6. Cells' = Cells /\ \A t \in Pool : (HasTweet(t)' <=> HasTweet(t)) /\ (ToAdd(t)' <=> ToAdd(t))
  BY <1>1 DEF Cells, HasTweet, ToAdd
<1>8. TasksGiven' /\ HeldGiven'
  BY <1>1, <1>4, <1>5, <1>6, <1>7 DEF Given, TasksGiven, HeldGiven
<1>9. CellsGiven' /\ MissingGiven'
  BY <1>1, <1>4, <1>5, <1>6, <1>7 DEF Given, CellsGiven, MissingGiven
<1>10. ListType'
  BY <1>1, <1>2, <1>7 DEF ListType
<1>11. Belongs'
  BY <1>1, <1>4, <1>5, <1>6, <1>7 DEF Belongs
<1>12. InOnePlace' /\ NothingYet' /\ NotAnswered' /\ Still' /\ InPlace' /\ AnswerIsOfThePage'
  <2>1. Given'
    BY <1>8, <1>9 DEF Given
  <2> QED
    BY <1>1, <1>4, <2>1 DEF PageInv, ListInv, InOnePlace, NothingYet, NotAnswered, Still, InPlace,
                            AnswerIsOfThePage
<1> QED
  BY <1>10, <1>11, <1>12 DEF ListInv

\* Where no element is null, the elements are cells of the list.
LEMMA ElementsOfPage ==
    ASSUME Counted, ListType, Given, 0 \notin ToSet(Elements)
    PROVE  /\ Elements \in Seq(Places) /\ IsInjective(Elements)
           /\ ToSet(Elements) \subseteq GivenOut \ (ToSet(tasks) \cup missing)
<1>1. size \in Nat /\ array \in Seq(Places \cup {0}) /\ DOMAIN array = 1 .. Len(array) /\ Len(array) \in Nat
  BY DEF ListType
<1>2. DOMAIN Elements = 1 .. size
  BY DEF Elements
<1>3. ASSUME NEW i \in 1 .. size
      PROVE  /\ i \in DOMAIN array /\ array[i] = Elements[i] /\ Elements[i] \in Places
             /\ <<i, Elements[i]>> \in Cells
  <2>1. Elements[i] = (IF i <= Len(array) THEN array[i] ELSE 0) /\ Elements[i] # 0
    BY <1>2 DEF Elements, ToSet
  <2>2. i \in DOMAIN array /\ Elements[i] = array[i] /\ i \in Nat \ {0}
    BY <1>1, <2>1
  <2>3. Elements[i] \in Places
    BY <1>1, <2>1, <2>2
  <2> QED
    BY <2>2, <2>3 DEF Cells
<1>4. Elements \in Seq(Places)
  <2>1. Elements = [i \in 1 .. size |-> Elements[i]] /\ \A i \in 1 .. size : Elements[i] \in Places
    BY <1>3 DEF Elements
  <2>2. Elements \in [1 .. size -> Places]
    BY <2>1
  <2> QED
    BY <1>1, <2>2
<1>5. ASSUME NEW i \in 1 .. size, NEW j \in 1 .. size, Elements[i] = Elements[j] PROVE i = j
  <2> DEFINE c == <<i, Elements[i]>>
             d == <<j, Elements[j]>>
  <2>1. c \in Cells /\ d \in Cells /\ c[2] = d[2] /\ c[1] = i /\ d[1] = j
    BY <1>3, <1>5
  <2> QED
    BY <2>1 DEF Given, CellsGiven
<1>6. ASSUME NEW p \in ToSet(Elements)
      PROVE  p \in GivenOut \ (ToSet(tasks) \cup missing)
  <2>1. PICK i \in 1 .. size : p = Elements[i]
    BY <1>2 DEF ToSet
  <2> DEFINE c == <<i, p>>
  <2>2. c \in Cells /\ c[2] = p
    BY <1>3, <2>1
  <2> QED
    BY <2>2 DEF Given, CellsGiven
<1> QED
  BY <1>2, <1>4, <1>5, <1>6 DEF IsInjective

\* What a step of the caller leaves that is not inside the sort.
LEMMA CallerKeeps ==
    ASSUME PageInv, UNCHANGED <<length, start, toRetrieve, next, tasks, tpc, place, copy, missing>>
    PROVE  /\ GivenOut' = GivenOut /\ Page' = Page
           /\ \A t \in Pool : (HasTweet(t)' <=> HasTweet(t)) /\ (ToAdd(t)' <=> ToAdd(t))
           /\ array' = array => Cells' = Cells /\ (Given => Given')
<1>1. /\ GivenOut' = GivenOut /\ Page' = Page
      /\ \A t \in Pool : (HasTweet(t)' <=> HasTweet(t)) /\ (ToAdd(t)' <=> ToAdd(t))
  BY DEF GivenOut, Page, HasTweet, ToAdd
<1>2. ASSUME array' = array PROVE Cells' = Cells /\ (Given => Given')
  <2>1. Cells' = Cells
    BY <1>2 DEF Cells
  <2> QED
    BY <1>1, <2>1 DEF Given, TasksGiven, HeldGiven, CellsGiven, MissingGiven
<1> QED
  BY <1>1, <1>2

LEMMA StopList == \* the end of the loop, or of the wait
    ASSUME PageInv, Submitted \/ Opened \/ TimeOut
    PROVE  ListInv' /\ AnswerIsOfThePage'
<1>1. /\ UNCHANGED <<length, start, toRetrieve, next, tasks, tpc, place, array, gen, size, ref, room, slot,
                     copy, sorted, written, answer, missing>>
      /\ phase \in {"submit", "await"} /\ phase' \in {"await", "copy"}
      /\ phase' = "copy" => disturbed' = \E t \in Pool : tpc[t] \in Unsettled
  BY DEF Submitted, Opened, TimeOut, StopWaiting, callVars, listVars, localVars, sortVars, histVars
<1>2. /\ GivenOut' = GivenOut /\ Page' = Page /\ Cells' = Cells /\ Given'
      /\ \A t \in Pool : HasTweet(t)' <=> HasTweet(t)
  BY <1>1, CallerKeeps DEF PageInv, ListInv, InOnePlace
<1>3. ListType' /\ Belongs'
  BY <1>1, <1>2 DEF PageInv, ListInv, ListType, Belongs
<1>4. answer = <<>> /\ answer' = <<>>
  BY <1>1 DEF PageInv, ListInv, NotAnswered
<1>5. AnswerIsOfThePage'
  BY <1>4 DEF AnswerIsOfThePage, ToSet, IsInjective
<1>6. Still'
  BY <1>1 DEF Still, Unsettled
<1> QED
  BY <1>1, <1>2, <1>3, <1>4, <1>5, <1>6 DEF ListInv, InOnePlace, NothingYet, NotAnswered, InPlace

\* The elements of the list are of the page, or null.
LEMMA ElementsBelong ==
    ASSUME Counted, ListType, Belongs
    PROVE  /\ Elements \in Seq(Places \cup {0}) /\ Len(Elements) = size
           /\ ToSet(Elements) \subseteq GivenOut \cup {0}
<1>1. size \in Nat /\ array \in Seq(Places \cup {0}) /\ DOMAIN array = 1 .. Len(array) /\ Len(array) \in Nat
  BY DEF ListType
<1>2. ASSUME NEW i \in 1 .. size
      PROVE  Elements[i] \in Places \cup {0} /\ Elements[i] \in GivenOut \cup {0}
  <2>1. CASE i <= Len(array) /\ array[i] # 0
    <3>1. Elements[i] = array[i] /\ i \in DOMAIN array /\ array[i] \in Places /\ i \in Nat \ {0}
      BY <1>1, <2>1 DEF Elements
    <3> DEFINE c == <<i, array[i]>>
    <3>2. c \in Cells /\ c[2] = array[i]
      BY <3>1 DEF Cells
    <3> QED
      BY <3>1, <3>2 DEF Belongs
  <2>2. CASE ~(i <= Len(array) /\ array[i] # 0)
    BY <2>2 DEF Elements
  <2> QED
    BY <2>1, <2>2
<1>3. DOMAIN Elements = 1 .. size
  BY DEF Elements
<1>4. Elements \in Seq(Places \cup {0}) /\ Len(Elements) = size
  <2>1. Elements = [i \in 1 .. size |-> Elements[i]]
    BY DEF Elements
  <2>2. Elements \in [1 .. size -> Places \cup {0}]
    BY <1>2, <2>1
  <2> HIDE DEF Elements
  <2> QED
    BY <1>1, <1>3, <2>2
<1> QED
  BY <1>2, <1>3, <1>4 DEF ToSet

LEMMA SortCopyList ==
    ASSUME PageInv, SortCopy
    PROVE  /\ ListInv' /\ AnswerIsOfThePage'
           /\ Len(sorted') = size /\ ToSet(sorted') = ToSet(Elements)
<1>1. /\ phase = "copy" /\ phase' = "write" /\ (size <= 1 \/ 0 \notin ToSet(Elements))
      /\ sorted' = IF size <= 1 THEN Elements ELSE Sorted(Elements)
      /\ written' = 0
      /\ UNCHANGED <<length, start, toRetrieve, next, tasks, tpc, place, array, gen, size, ref, room, slot,
                     copy, disturbed, answer, missing>>
  BY DEF SortCopy, sortingVars, callVars, localVars, histVars
<1>2. /\ GivenOut' = GivenOut /\ Page' = Page /\ Cells' = Cells
      /\ \A t \in Pool : HasTweet(t)' <=> HasTweet(t)
  BY <1>1, CallerKeeps
<1>3. Given /\ ListType /\ Counted /\ Belongs /\ answer = <<>>
  BY <1>1 DEF PageInv, IInv, ListInv, InOnePlace, NotAnswered
<1>4. /\ Elements \in Seq(Places \cup {0}) /\ Len(Elements) = size /\ size \in Nat
      /\ ToSet(Elements) \subseteq GivenOut \cup {0}
  BY <1>3, ElementsBelong DEF ListType
<1>5. /\ sorted' \in Seq(Places \cup {0}) /\ Len(sorted') = size /\ IsInjective(sorted') /\ InOrder(sorted')
      /\ ToSet(sorted') = ToSet(Elements)
  <2>1. CASE size <= 1
    <3>1. sorted' = Elements
      BY <1>1, <2>1
    <3>2. DOMAIN Elements = 1 .. size /\ \A i, j \in 1 .. size : i = j
      BY <1>4, <2>1
    <3>3. IsInjective(Elements)
      BY <3>2 DEF IsInjective
    <3>4. \A i, j \in 1 .. size : ~(i < j)
      BY <1>4, <2>1
    <3>5. InOrder(Elements)
      BY <3>2, <3>4 DEF InOrder
    <3> QED
      BY <1>4, <3>1, <3>3, <3>5
  <2>2. CASE ~(size <= 1)
    <3>1. sorted' = Sorted(Elements) /\ 0 \notin ToSet(Elements)
      BY <1>1, <2>2
    <3>2. Elements \in Seq(Places) /\ IsInjective(Elements)
      BY <1>3, <3>1, ElementsOfPage
    <3>3. /\ sorted' \in Seq(Places) /\ ToSet(sorted') = ToSet(Elements) /\ IsInjective(sorted')
          /\ InOrder(sorted')
      BY <3>1, <3>2, SortedIs
    <3>4. Len(sorted') = size
      BY <1>4, <3>1, <3>2, SortedIs
    <3>5. sorted' \in Seq(Places \cup {0})
      BY <3>3
    <3> QED
      BY <3>3, <3>4, <3>5
  <2> QED
    BY <2>1, <2>2
<1>6. ListType'
  BY <1>1, <1>3, <1>5 DEF ListType
<1>7. Belongs'
  BY <1>1, <1>2, <1>3, <1>4, <1>5 DEF Belongs
<1>8. InPlace'
  BY <1>1, <1>5 DEF InPlace
<1>9. InOrder(sorted)' <=> InOrder(sorted')
  BY DEF InOrder
<1>10. AnswerIsOfThePage'
  BY <1>1, <1>3 DEF AnswerIsOfThePage, ToSet, IsInjective
<1>11. InOnePlace' /\ NothingYet' /\ NotAnswered' /\ Still'
  BY <1>1, <1>3 DEF PageInv, ListInv, InOnePlace, NothingYet, NotAnswered, Still
<1> QED
  BY <1>5, <1>6, <1>7, <1>8, <1>10, <1>11 DEF ListInv

LEMMA WriteBackList ==
    ASSUME PageInv, WriteBack
    PROVE  ListInv' /\ AnswerIsOfThePage'
<1> DEFINE w == written + 1
<1>1. /\ phase = "write" /\ written < Len(sorted) /\ written < Len(array)
      /\ array' = [array EXCEPT ![w] = sorted[w]] /\ written' = w
      /\ UNCHANGED <<phase, length, start, toRetrieve, next, tasks, tpc, place, gen, size, ref, room, slot,
                     copy, disturbed, sorted, answer, missing>>
  BY DEF WriteBack, sortingVars, callVars, localVars, histVars
<1>2. /\ GivenOut' = GivenOut /\ Page' = Page
      /\ \A t \in Pool : HasTweet(t)' <=> HasTweet(t)
  BY <1>1, CallerKeeps
<1>3. ListType /\ Counted /\ Belongs /\ answer = <<>>
  BY <1>1 DEF PageInv, IInv, ListInv, NotAnswered
<1>4. /\ written \in Nat /\ array \in Seq(Places \cup {0}) /\ sorted \in Seq(Places \cup {0})
  BY <1>3 DEF ListType
<1>5. /\ w \in DOMAIN sorted /\ w \in DOMAIN array /\ sorted[w] \in Places \cup {0}
      /\ sorted[w] \in GivenOut \cup {0} /\ 1 .. w = (1 .. written) \cup {w} /\ w \notin 1 .. written
  <2>1. w \in 1 .. Len(sorted) /\ w \in 1 .. Len(array)
    BY <1>1, <1>4
  <2>2. w \in DOMAIN sorted /\ w \in DOMAIN array /\ sorted[w] \in Places \cup {0}
    BY <1>4, <2>1
  <2>3. sorted[w] \in GivenOut \cup {0}
    BY <1>3, <2>2 DEF Belongs, ToSet
  <2>4. 1 .. w = (1 .. written) \cup {w} /\ w \notin 1 .. written
    BY <1>4
  <2> QED
    BY <2>2, <2>3, <2>4
<1> HIDE DEF w
<1>6. /\ array' \in Seq(Places \cup {0}) /\ DOMAIN array' = DOMAIN array /\ array'[w] = sorted[w]
      /\ \A i \in DOMAIN array : i # w => array'[i] = array[i]
  <2>1. DOMAIN array = 1 .. Len(array) /\ Len(array) \in Nat /\ \A i \in 1 .. Len(array) : array[i] \in Places \cup {0}
    BY <1>4
  <2>2. array' \in [1 .. Len(array) -> Places \cup {0}]
    BY <1>1, <1>5, <2>1
  <2>3. array' \in Seq(Places \cup {0})
    BY <2>1, <2>2
  <2> QED
    BY <1>1, <1>5, <2>1, <2>3
<1>7. ListType'
  BY <1>1, <1>3, <1>5, <1>6 DEF ListType, w
<1>8. Belongs'
  <2>1. ASSUME NEW c \in Cells' PROVE c[2] \in GivenOut
    <3>1. c \in (Nat \ {0}) \X Places /\ c[2] # 0
      BY DEF Cells, Places
    <3>2. CASE c[1] \in DOMAIN array' /\ array'[c[1]] = c[2]
      <4>1. CASE c[1] = w
        BY <1>5, <1>6, <3>1, <3>2, <4>1
      <4>2. CASE c[1] # w
        <5>1. c \in Cells
          BY <1>6, <3>1, <3>2, <4>2 DEF Cells
        <5> QED
          BY <1>3, <5>1 DEF Belongs
      <4> QED
        BY <4>1, <4>2
    <3>3. CASE \E u \in Pool : /\ tpc'[u] = "replace" /\ c[1] \in DOMAIN copy'[u]
                               /\ copy'[u][c[1]] = c[2]
      <4>1. c \in Cells
        BY <1>1, <3>1, <3>3 DEF Cells
      <4> QED
        BY <1>3, <4>1 DEF Belongs
    <3> QED
      BY <3>2, <3>3 DEF Cells
  <2> QED
    BY <1>1, <1>2, <1>3, <2>1 DEF Belongs
<1>9. InPlace'
  <2> SUFFICES ASSUME ~disturbed PROVE InPlace'
    BY <1>1 DEF InPlace
  <2>1. /\ Len(sorted) = size /\ IsInjective(sorted) /\ InOrder(sorted)
        /\ \A i \in 1 .. written : i \in DOMAIN array /\ array[i] = sorted[i]
    BY <1>1 DEF PageInv, ListInv, InPlace
  <2>2. \A i \in 1 .. w : i \in DOMAIN array' /\ array'[i] = sorted[i]
    BY <1>5, <1>6, <2>1
  <2>3. InOrder(sorted)'
    BY <1>1, <2>1 DEF InOrder
  <2> QED
    BY <1>1, <2>1, <2>2, <2>3 DEF InPlace
<1>10. AnswerIsOfThePage'
  BY <1>1, <1>3 DEF AnswerIsOfThePage, ToSet, IsInjective
<1>11. InOnePlace' /\ NothingYet' /\ NotAnswered' /\ Still'
  BY <1>1, <1>3 DEF PageInv, ListInv, InOnePlace, NothingYet, NotAnswered, Still
<1> QED
  BY <1>7, <1>8, <1>9, <1>10, <1>11 DEF ListInv

\* What was sorted is the list, when all of it is written.
LEMMA WrittenIsSorted ==
    ASSUME ListType, Len(sorted) = size, written = size,
           \A i \in 1 .. written : i \in DOMAIN array /\ array[i] = sorted[i]
    PROVE  Elements = sorted
<1>1. sorted \in Seq(Places \cup {0}) /\ array \in Seq(Places \cup {0}) /\ size \in Nat
  BY DEF ListType
<1>2. DOMAIN sorted = 1 .. size /\ \A i \in 1 .. size : i <= Len(array) /\ array[i] = sorted[i]
  BY <1>1
<1>3. Elements = [i \in 1 .. size |-> sorted[i]]
  BY <1>2 DEF Elements
<1> QED
  BY <1>1, <1>2, <1>3

LEMMA ReturnList == \* the answer, or an exception
    ASSUME PageInv, SortThrows \/ WriteThrows \/ Return
    PROVE  ListInv' /\ AnswerIsOfThePage'
<1>1. /\ UNCHANGED <<length, start, toRetrieve, next, tasks, tpc, place, array, gen, size, ref, room, slot,
                     copy, disturbed, sorted, written, missing>>
      /\ phase \in {"copy", "write"}
      /\ \/ phase' = "thrown" /\ answer' = answer
         \/ /\ phase = "write" /\ written = Len(sorted)
            /\ phase' = "answered" /\ answer' = Elements
  BY DEF SortThrows, WriteThrows, Return, sortingVars, sortVars, callVars, localVars, histVars
<1>2. /\ GivenOut' = GivenOut /\ Page' = Page /\ Cells' = Cells
      /\ \A t \in Pool : HasTweet(t)' <=> HasTweet(t)
  BY <1>1, CallerKeeps
<1>3. ListType /\ Counted /\ Belongs /\ answer = <<>>
  BY <1>1 DEF PageInv, IInv, ListInv, NotAnswered
<1>4. ToSet(answer') \subseteq GivenOut \cup {0}
  <2>1. CASE answer' = answer
    BY <1>3, <2>1 DEF ToSet
  <2>2. CASE answer' = Elements
    BY <1>3, <2>2, ElementsBelong
  <2> QED
    BY <1>1, <2>1, <2>2
<1>5. Belongs'
  BY <1>1, <1>2, <1>3, <1>4 DEF Belongs
<1>6. ListType'
  BY <1>1, <1>3 DEF ListType
<1>7. AnswerIsOfThePage'
  <2>1. CASE answer' = answer
    BY <1>3, <2>1 DEF AnswerIsOfThePage, ToSet, IsInjective
  <2>2. CASE phase = "write" /\ written = Len(sorted) /\ answer' = Elements
    <3>1. ToSet(answer') \subseteq Page' \cup {0}
      BY <1>2, <1>4 DEF GivenOut
    <3>2. ASSUME ~disturbed'
          PROVE  /\ IsInjective(answer')
                 /\ \A i, j \in DOMAIN answer' : i < j => Dates[answer'[i]] >= Dates[answer'[j]]
      <4>1. /\ Len(sorted) = size /\ IsInjective(sorted) /\ InOrder(sorted)
            /\ \A i \in 1 .. written : i \in DOMAIN array /\ array[i] = sorted[i]
        BY <1>1, <2>2, <3>2 DEF PageInv, ListInv, InPlace
      <4>2. answer' = sorted
        BY <1>3, <2>2, <4>1, WrittenIsSorted
      <4> QED
        BY <4>1, <4>2 DEF InOrder
    <3> QED
      BY <3>1, <3>2 DEF AnswerIsOfThePage
  <2> QED
    BY <1>1, <2>1, <2>2
<1>8. InOnePlace' /\ NothingYet' /\ NotAnswered' /\ Still' /\ InPlace'
  BY <1>1, <1>3 DEF InOnePlace, NothingYet, NotAnswered, Still, InPlace
<1> QED
  BY <1>5, <1>6, <1>7, <1>8 DEF ListInv

\* Where no add is late a retriever leaves the list alone while it is sorted.
LEMMA PoolUndisturbed ==
    ASSUME Counted, Still, NEW t \in Pool, Retrieve(t), phase \in {"copy", "write"}, ~disturbed'
    PROVE  ~disturbed /\ UNCHANGED <<array, size>> /\ \A u \in Pool : tpc'[u] \notin Adding
<1>1. ~Add(t) /\ (~Add(t) => disturbed' = disturbed)
  <2>1. ~Add(t)
    BY DEF Add
  <2>2. disturbed' = disturbed
    BY <2>1 DEF Retrieve, Take, Fetch, FetchNull, FetchFails, Replace, Slot, Bump, Store, StoreOutside,
                Die, CountDown
  <2> QED
    BY <2>1, <2>2
<1>2. \A u \in Pool : tpc[u] \notin Adding
  BY <1>1 DEF Still
<1>3. Take(t) \/ Fetch(t) \/ FetchNull(t) \/ FetchFails(t) \/ CountDown(t)
  BY <1>1, <1>2 DEF Retrieve, Replace, Slot, Bump, Store, StoreOutside, Adding
<1>4. UNCHANGED <<array, size>> /\ \E q \in {"fetch", "add", "count", "idle"} : tpc' = [tpc EXCEPT ![t] = q]
  BY <1>3 DEF Take, Fetch, FetchNull, FetchFails, CountDown, Die, PoolGoto, listVars
<1>5. \A u \in Pool : tpc'[u] = tpc[u] \/ tpc'[u] \in {"fetch", "add", "count", "idle"}
  BY <1>4 DEF Counted
<1> QED
  BY <1>1, <1>2, <1>4, <1>5 DEF Adding

LEMMA PageInit == Init => PageInv
<1> SUFFICES ASSUME Init PROVE PageInv
  OBVIOUS
<1>1. /\ phase = "idle" /\ length = 0 /\ start = 0 /\ toRetrieve = 0 /\ next = 0
      /\ tasks = <<>> /\ gen = 0 /\ size = 0
      /\ tpc = [t \in Pool |-> "idle"] /\ place = [t \in Pool |-> 0]
      /\ array = [i \in 1 .. Capacity |-> 0]
      /\ ref = [t \in Pool |-> 0] /\ room = [t \in Pool |-> 0] /\ slot = [t \in Pool |-> 0]
      /\ copy = [t \in Pool |-> <<>>] /\ answer = <<>> /\ missing = {} /\ sorted = <<>> /\ written = 0
  BY DEF Init
<1>2. MaxLength \in Nat /\ Capacity \in Nat
  BY ReadsAssumption
<1>3. array \in Seq(Places \cup {0})
  <2>1. array \in [1 .. Capacity -> Places \cup {0}]
    BY <1>1
  <2> QED
    BY <1>2, <2>1
<1>4. <<>> \in Seq(Places \cup {0})
  OBVIOUS
<1>5. copy \in [Pool -> Seq(Places \cup {0})]
  BY <1>1, <1>4
<1>6. place \in [Pool -> Nat] /\ ref \in [Pool -> Nat] /\ room \in [Pool -> Nat] /\ slot \in [Pool -> Nat]
  BY <1>1
<1>7. ListType
  BY <1>1, <1>2, <1>3, <1>5, <1>6 DEF ListType
<1>8. Cells = {}
  <2>1. \A p \in Places : p # 0
    BY <1>2 DEF Places
  <2>2. \A i \in DOMAIN array : array[i] = 0
    BY <1>1
  <2>3. \A t \in Pool : tpc[t] # "replace"
    BY <1>1
  <2> QED
    BY <2>1, <2>2, <2>3 DEF Cells
<1>9. Given
  <2>1. ToSet(tasks) = {} /\ IsInjective(tasks)
    BY <1>1 DEF ToSet, IsInjective
  <2>2. \A t \in Pool : ~HasTweet(t) /\ ~ToAdd(t)
    BY <1>1 DEF HasTweet, ToAdd
  <2> QED
    BY <1>1, <1>8, <2>1, <2>2 DEF Given, TasksGiven, HeldGiven, CellsGiven, MissingGiven
<1>10. InOnePlace /\ NothingYet /\ NotAnswered /\ Still /\ InPlace
  BY <1>1, <1>8, <1>9 DEF InOnePlace, NothingYet, NotAnswered, Still, InPlace
<1>12. Belongs
  <2>1. ToSet(sorted) = {} /\ ToSet(answer) = {}
    BY <1>1 DEF ToSet
  <2> QED
    BY <1>9, <2>1 DEF Given, TasksGiven, HeldGiven, CellsGiven, Belongs
<1>11. AnswerIsOfThePage
  BY <1>1 DEF AnswerIsOfThePage, ToSet, IsInjective
<1> QED
  BY <1>7, <1>10, <1>11, <1>12, InitIInv DEF PageInv, ListInv

\* A thread that takes a step has something to do, after the call.
LEMMA PoolWorks ==
    ASSUME NEW t \in Pool, Retrieve(t)
    PROVE  /\ tasks # <<>> \/ t \in Running
           /\ UNCHANGED <<pageVars, timedOut>>
<1>1. tpc[t] # "idle" \/ tasks # <<>>
  BY DEF Retrieve, Take, Fetch, FetchNull, FetchFails, Add, Replace, Slot, Bump, Store, StoreOutside, CountDown
<1>2. UNCHANGED <<pageVars, timedOut>>
  BY DEF Retrieve, Take, Fetch, FetchNull, FetchFails, Add, Replace, Slot, Bump, Store, StoreOutside,
         Die, CountDown, callerVars, callVars, sortVars, pageVars
<1> QED
  BY <1>1, <1>2 DEF Running

LEMMA PageNext == PageInv /\ [Next]_vars => PageInv'
<1> SUFFICES ASSUME PageInv, [Next]_vars PROVE ListInv' /\ AnswerIsOfThePage'
  BY NextIInv DEF PageInv
<1>1. CASE UNCHANGED vars
  <2>1. UNCHANGED <<phase, length, start, toRetrieve, next, tasks, tpc, place, array, gen, size, ref, room,
                    slot, copy, disturbed, sorted, written, answer, missing>>
    BY <1>1 DEF vars, callVars, listVars, localVars, sortVars, histVars
  <2>2. ListType' /\ NotAnswered'
    BY <2>1 DEF PageInv, ListInv, ListType, NotAnswered
  <2>3. /\ GivenOut' = GivenOut /\ Page' = Page /\ Cells' = Cells /\ (Given => Given')
        /\ \A t \in Pool : HasTweet(t)' <=> HasTweet(t)
    BY <2>1, CallerKeeps
  <2>4. Belongs' /\ InOnePlace' /\ NothingYet'
    BY <2>1, <2>3 DEF PageInv, ListInv, Belongs, InOnePlace, NothingYet
  <2>5. InOrder(sorted)' <=> InOrder(sorted)
    BY <2>1 DEF InOrder
  <2>6. Still' /\ InPlace'
    BY <2>1, <2>5 DEF PageInv, ListInv, Still, InPlace
  <2>7. AnswerIsOfThePage'
    BY <2>1, <2>3 DEF PageInv, AnswerIsOfThePage
  <2> QED
    BY <2>2, <2>4, <2>6, <2>7 DEF ListInv
<1>2. CASE Caller
  BY <1>2, CallList, SubmitList, StopList, SortCopyList, WriteBackList, ReturnList DEF Caller
<1>3. ASSUME NEW t \in Pool, Retrieve(t) PROVE ListInv' /\ AnswerIsOfThePage'
  <2>1. Belongs' /\ ListType' /\ (Given => Given')
    BY <1>3, PoolList DEF PageInv, IInv, ListInv
  <2>2. (tasks # <<>> \/ t \in Running) /\ UNCHANGED pageVars
    BY <1>3, PoolWorks
  <2>3. phase # "idle" /\ UNCHANGED <<phase, sorted, written, answer>> /\ Page' = Page
    BY <2>2 DEF PageInv, IInv, AtRest, pageVars, Page
  <2>4. InOnePlace' /\ NothingYet' /\ NotAnswered'
    BY <2>1, <2>3 DEF PageInv, ListInv, InOnePlace, NothingYet, NotAnswered
  <2>5. Still' /\ InPlace'
    <3>1. CASE phase \in {"copy", "write"} /\ ~disturbed'
      <4>1. ~disturbed /\ UNCHANGED <<array, size>> /\ \A u \in Pool : tpc'[u] \notin Adding
        BY <1>3, <3>1, PoolUndisturbed DEF PageInv, IInv, ListInv
      <4>2. InOrder(sorted)' <=> InOrder(sorted)
        BY <2>3 DEF InOrder
      <4> QED
        BY <2>3, <4>1, <4>2 DEF PageInv, ListInv, Still, InPlace
    <3>2. CASE ~(phase \in {"copy", "write"} /\ ~disturbed')
      BY <2>3, <3>2 DEF Still, InPlace
    <3> QED
      BY <3>1, <3>2
  <2>6. AnswerIsOfThePage'
    <3>1. CASE phase = "answered"
      <4>1. disturbed' <=> disturbed
        <5>1. CASE Add(t)
          <6>1. phase \notin {"copy", "write"}
            BY <3>1
          <6> QED
            BY <5>1, <6>1 DEF Add
        <5>2. CASE ~Add(t)
          <6>1. disturbed' = disturbed
            BY <1>3, <5>2 DEF Retrieve, Take, Fetch, FetchNull, FetchFails, Replace, Slot, Bump, Store,
                              StoreOutside, Die, CountDown
          <6> QED
            BY <6>1
        <5> QED
          BY <5>1, <5>2
      <4> QED
        BY <2>3, <4>1 DEF PageInv, AnswerIsOfThePage
    <3>2. CASE phase # "answered"
      <4>1. answer' = <<>>
        BY <2>3, <3>2 DEF PageInv, ListInv, NotAnswered
      <4> QED
        BY <4>1 DEF AnswerIsOfThePage, ToSet, IsInjective
    <3> QED
      BY <3>1, <3>2
  <2> QED
    BY <2>1, <2>4, <2>5, <2>6 DEF ListInv
<1> QED
  BY <1>1, <1>2, <1>3 DEF Next

\* Whatever adds overlapped and whichever were lost, getFriendsTimeline answers with tweets of
\* the page, or nulls, only; and none of them twice and the latest first, although it sorts the
\* list that retrievers add to, unless an add was late: under way when the wait ended, or later.
THEOREM PageAnswered == Spec => []AnswerIsOfThePage
<1>1. PageInv => AnswerIsOfThePage
  BY DEF PageInv
<1> QED
  BY <1>1, PageInit, PageNext, PTL DEF Spec

-----------------------------------------------------------------------------
(* Where no two adds overlapped and no retriever died, nothing is lost.          *)

\* One thread at a time is inside add.
AddsAlone == \A t, u \in Pool : tpc[t] \in Adding /\ tpc[u] \in Adding => t = u

\* The indexes below size that have been written.
IsWritten(i) == \A t \in Pool : tpc[t] = "store" => slot[t] # i
Solid == {i \in 1 .. size : IsWritten(i)}
Packed == size <= Len(array) /\ \A i \in Solid : array[i] # 0

\* Inside add a thread has seen the list as it is.
UpToDate(t) ==
    /\ tpc[t] = "replace" => size < Len(copy[t]) /\ \A i \in 1 .. size : copy[t][i] = array[i]
    /\ tpc[t] = "slot" => size < Len(array)
    /\ tpc[t] = "bump" => slot[t] = size + 1
    /\ tpc[t] = "store" => slot[t] = size
    /\ tpc[t] \in {"bump", "store"} =>
         slot[t] <= Len(array) /\ room[t] = Len(array) /\ ref[t] = gen

\* What was given out waits, is missing, is still to be added, or is in the list.
Kept(p) ==
    \/ p \in ToSet(tasks) \cup missing
    \/ \E t \in Pool : ToAdd(t) /\ place[t] = p
    \/ \E i \in Solid : array[i] = p

Lossless ==
    AddsAlone /\ Packed /\ (\A t \in Pool : UpToDate(t)) /\ (\A p \in GivenOut : Kept(p))
Waiting == phase \in {"idle", "submit", "await"}
Orderly == Waiting /\ ~raced /\ failed = 0 => Lossless

\* The wait over, nothing is left to do, and the sort has it all.
Waited == ~Waiting /\ ~raced /\ ~timedOut
Complete == Waited => tasks = <<>> /\ Running = {}
Whole ==
    Waited /\ phase \in {"copy", "write"} =>
        /\ ~disturbed /\ size <= Len(array)
        /\ phase = "copy" => 0 \notin ToSet(Elements) /\ ToSet(Elements) = Page \ missing
        /\ phase = "write" => ToSet(sorted) = Page \ missing
LossInv == PageInv /\ Orderly /\ Complete /\ Whole /\ OnlyRacesLose

\* While a thread is inside add the others are not.
LEMMA OthersOutside ==
    ASSUME AddsAlone, NEW t \in Pool, tpc[t] \in Adding
    PROVE  \A u \in Pool \ {t} : tpc[u] \notin Adding
BY DEF AddsAlone

\* A step outside add.
LEMMA OutsideKeeps ==
    ASSUME Counted, AddsAlone, Packed, \A u \in Pool : UpToDate(u),
           NEW t \in Pool, NEW q, tpc' = [tpc EXCEPT ![t] = q],
           tpc[t] \notin Adding, q \notin Adding,
           UNCHANGED <<array, gen, size, ref, room, slot, copy>>
    PROVE  AddsAlone' /\ Packed' /\ (\A u \in Pool : UpToDate(u)') /\ Solid' = Solid
<1>1. \A u \in Pool : tpc'[u] \in Adding => u # t /\ tpc[u] \in Adding /\ tpc'[u] = tpc[u]
  BY DEF Counted
<1>2. \A u \in Pool : tpc[u] \in Adding => tpc'[u] = tpc[u]
  BY DEF Counted
<1>3. \A u \in Pool : tpc'[u] = "store" <=> tpc[u] = "store"
  BY <1>1, <1>2 DEF Adding
<1>4. Solid' = Solid
  BY <1>3 DEF Solid, IsWritten
<1>5. AddsAlone'
  BY <1>1 DEF AddsAlone
<1>6. Packed'
  BY <1>4 DEF Packed
<1>7. ASSUME NEW u \in Pool PROVE UpToDate(u)'
  <2>1. CASE tpc'[u] \in Adding
    BY <1>1, <2>1 DEF UpToDate
  <2>2. CASE tpc'[u] \notin Adding
    BY <2>2 DEF UpToDate, Adding
  <2> QED
    BY <2>1, <2>2
<1> QED
  BY <1>4, <1>5, <1>6, <1>7

\* A step inside add, or into it, of the only thread there.
LEMMA InsideKeeps ==
    ASSUME Counted, NEW t \in Pool, NEW q, tpc' = [tpc EXCEPT ![t] = q],
           \A u \in Pool \ {t} : tpc[u] \notin Adding,
           UpToDate(t)'
    PROVE  /\ AddsAlone' /\ (\A u \in Pool : UpToDate(u)')
           /\ \A u \in Pool : tpc[u] = "store" => u = t
           /\ \A u \in Pool : tpc'[u] = "store" => u = t
           /\ tpc'[t] = q
<1>1. \A u \in Pool \ {t} : tpc'[u] \notin Adding /\ tpc'[u] = tpc[u]
  BY DEF Counted
<1>2. ASSUME NEW u \in Pool PROVE UpToDate(u)'
  <2>1. CASE u # t
    <3>1. tpc'[u] \notin Adding
      BY <1>1, <2>1
    <3> QED
      BY <3>1 DEF UpToDate, Adding
  <2> QED
    BY <2>1
<1>3. AddsAlone'
  BY <1>1 DEF AddsAlone
<1>4. \A u \in Pool : (tpc[u] = "store" \/ tpc'[u] = "store") => u = t
  BY <1>1 DEF Adding
<1>5. tpc'[t] = q
  BY DEF Counted
<1> QED
  BY <1>2, <1>3, <1>4, <1>5

LEMMA LosslessTake ==
    ASSUME PageInv, Lossless, NEW t \in Pool, Take(t)
    PROVE  Lossless'
<1>1. /\ tpc[t] = "idle" /\ tasks # <<>> /\ tasks' = Tail(tasks)
      /\ place' = [place EXCEPT ![t] = Head(tasks)] /\ tpc' = [tpc EXCEPT ![t] = "fetch"]
      /\ UNCHANGED <<pageVars, array, gen, size, ref, room, slot, copy, missing>>
  BY DEF Take, PoolGoto, callerVars, callVars, sortVars, pageVars, listVars, localVars, histVars
<1>2. /\ Counted /\ tpc \in [Pool -> ThreadPlaces] /\ tasks \in Seq(Nat) /\ place \in [Pool -> Nat]
  BY DEF PageInv, IInv, Counted, ListInv, ListType
<1>3. AddsAlone' /\ Packed' /\ (\A u \in Pool : UpToDate(u)') /\ Solid' = Solid
  BY <1>1, <1>2, OutsideKeeps DEF Lossless, Adding
<1>4. ASSUME NEW p \in ToSet(tasks) PROVE p = Head(tasks) \/ p \in ToSet(tasks')
  <2>1. PICK i \in 1 .. Len(tasks) : p = tasks[i]
    BY <1>2 DEF ToSet
  <2>2. CASE i # 1
    <3>1. i - 1 \in DOMAIN tasks' /\ tasks'[i - 1] = p
      BY <1>1, <1>2, <2>1, <2>2
    <3> QED
      BY <3>1 DEF ToSet
  <2>3. CASE i = 1
    BY <1>1, <1>2, <2>1, <2>3
  <2> QED
    BY <2>2, <2>3
<1>5. /\ place'[t] = Head(tasks) /\ ToAdd(t)'
      /\ \A u \in Pool : ToAdd(u) => ToAdd(u)' /\ place'[u] = place[u]
  BY <1>1, <1>2 DEF ToAdd
<1>6. ASSUME NEW p \in GivenOut' PROVE Kept(p)'
  <2>1. Kept(p)
    BY <1>1, <1>6 DEF Lossless, GivenOut, Page, pageVars
  <2>2. CASE p \in ToSet(tasks)
    BY <1>4, <1>5, <2>2 DEF Kept
  <2>3. CASE p \notin ToSet(tasks)
    BY <1>1, <1>3, <1>5, <2>1, <2>3 DEF Kept
  <2> QED
    BY <2>2, <2>3
<1> QED
  BY <1>3, <1>6 DEF Lossless

LEMMA LosslessOutside ==
    ASSUME PageInv, Lossless, NEW t \in Pool, Fetch(t) \/ FetchNull(t) \/ CountDown(t)
    PROVE  Lossless'
<1>1. /\ tpc[t] \in {"fetch", "count"}
      /\ \E q \in {"add", "count", "idle"} :
           /\ tpc' = [tpc EXCEPT ![t] = q]
           /\ q # "add" /\ tpc[t] = "fetch" => missing' = missing \cup {place[t]}
           /\ tpc[t] = "count" => q = "idle"
      /\ \A u \in Pool \ {t} : place'[u] = place[u]
      /\ tpc[t] = "fetch" => place' = place
      /\ missing \subseteq missing'
      /\ UNCHANGED <<pageVars, tasks, array, gen, size, ref, room, slot, copy>>
  BY DEF Fetch, FetchNull, CountDown, PoolGoto, callerVars, callVars, sortVars, pageVars, listVars, localVars,
         histVars, PageInv, ListInv, ListType
<1>2. Counted /\ tpc \in [Pool -> ThreadPlaces]
  BY DEF PageInv, IInv, Counted
<1>3. AddsAlone' /\ Packed' /\ (\A u \in Pool : UpToDate(u)') /\ Solid' = Solid
  <2>1. PICK q \in {"add", "count", "idle"} : tpc' = [tpc EXCEPT ![t] = q]
    BY <1>1
  <2> QED
    BY <1>1, <1>2, <2>1, OutsideKeeps DEF Lossless, Adding
<1>4. ASSUME NEW u \in Pool, ToAdd(u)
      PROVE  (ToAdd(u)' /\ place'[u] = place[u]) \/ place[u] \in missing'
  <2>1. CASE u # t
    BY <1>1, <1>2, <1>4, <2>1 DEF ToAdd
  <2>2. CASE u = t
    BY <1>1, <1>2, <1>4, <2>2 DEF ToAdd
  <2> QED
    BY <2>1, <2>2
<1>5. ASSUME NEW p \in GivenOut' PROVE Kept(p)'
  <2>1. Kept(p)
    BY <1>1, <1>5 DEF Lossless, GivenOut, Page, pageVars
  <2> QED
    BY <1>1, <1>3, <1>4, <2>1 DEF Kept
<1> QED
  BY <1>3, <1>5 DEF Lossless

\* What is given out is kept when a thread in add goes on and the list keeps its elements.
LEMMA KeptInside ==
    ASSUME Lossless, Counted, NEW t \in Pool, ToAdd(t), NEW q, tpc' = [tpc EXCEPT ![t] = q],
           UNCHANGED <<pageVars, tasks, place, missing>>,
           \A i \in Solid : i \in Solid' /\ array'[i] = array[i],
           \/ q \notin {"idle", "count"}
           \/ \E i \in Solid' : array'[i] = place[t]
    PROVE  \A p \in GivenOut' : Kept(p)'
<1> SUFFICES ASSUME NEW p \in GivenOut' PROVE Kept(p)'
  OBVIOUS
<1>1. Kept(p)
  BY DEF Lossless, GivenOut, Page, pageVars
<1>2. tpc'[t] = q /\ \A u \in Pool \ {t} : tpc'[u] = tpc[u]
  BY DEF Counted
<1>3. CASE p \in ToSet(tasks) \cup missing
  BY <1>3 DEF Kept
<1>4. ASSUME NEW u \in Pool, ToAdd(u), place[u] = p PROVE Kept(p)'
  <2>1. CASE u # t \/ q \notin {"idle", "count"}
    BY <1>2, <1>4, <2>1 DEF Kept, ToAdd
  <2>2. CASE u = t /\ \E i \in Solid' : array'[i] = place[t]
    BY <1>4, <2>2 DEF Kept
  <2> QED
    BY <2>1, <2>2
<1>5. CASE \E i \in Solid : array[i] = p
  BY <1>5 DEF Kept
<1> QED
  BY <1>1, <1>3, <1>4, <1>5 DEF Kept

LEMMA LosslessAdd ==
    ASSUME PageInv, Lossless, NEW t \in Pool, Add(t), ~raced'
    PROVE  Lossless'
<1>1. /\ tpc[t] = "add" /\ \A u \in Pool \ {t} : tpc[u] \notin Unsettled
      /\ UNCHANGED <<pageVars, tasks, place, array, gen, size, ref, room, slot, missing>>
      /\ IF size + 1 > Len(array)
           THEN /\ copy' = [copy EXCEPT ![t] = array \o [i \in 1 .. Len(array) \div 2 + 1 |-> 0]]
                /\ tpc' = [tpc EXCEPT ![t] = "replace"]
           ELSE tpc' = [tpc EXCEPT ![t] = "slot"] /\ copy' = copy
  BY DEF Add, PoolGoto, callerVars, callVars, sortVars, pageVars, listVars
<1>2. /\ Counted /\ tpc \in [Pool -> ThreadPlaces] /\ array \in Seq(Places \cup {0})
      /\ copy \in [Pool -> Seq(Places \cup {0})] /\ size \in Nat
  BY DEF PageInv, IInv, Counted, ListInv, ListType
<1>3. PICK q \in {"replace", "slot"} : tpc' = [tpc EXCEPT ![t] = q]
  BY <1>1
<1>4. UpToDate(t)'
  <2>1. CASE tpc' = [tpc EXCEPT ![t] = "slot"] /\ ~(size + 1 > Len(array))
    <3>1. tpc'[t] = "slot" /\ size' < Len(array')
      BY <1>1, <1>2, <2>1
    <3> QED
      BY <3>1 DEF UpToDate
  <2>2. CASE /\ copy' = [copy EXCEPT ![t] = array \o [i \in 1 .. Len(array) \div 2 + 1 |-> 0]]
             /\ tpc' = [tpc EXCEPT ![t] = "replace"]
    <3> DEFINE more == Len(array) \div 2 + 1
               both == array \o [i \in 1 .. more |-> 0]
    <3>1. Len(array) \in Nat /\ more \in Nat /\ more > 0 /\ size <= Len(array)
      BY <1>2 DEF Lossless, Packed
    <3>2. copy'[t] = both /\ tpc'[t] = "replace"
      BY <1>2, <2>2
    <3>3. both = array \o [i \in 1 .. more |-> 0]
      OBVIOUS
    <3> HIDE DEF both, more
    <3>4. Len(both) = Len(array) + more /\ \A i \in 1 .. Len(array) : both[i] = array[i]
      BY <1>2, <3>1, <3>3, LongerCopy
    <3>6. size < Len(copy'[t]) /\ \A i \in 1 .. size : copy'[t][i] = array[i]
      <4>1. \A i \in 1 .. size : i \in 1 .. Len(array)
        BY <1>2, <3>1
      <4>2. size < Len(array) + more
        BY <1>2, <3>1
      <4> QED
        BY <3>2, <3>4, <4>1, <4>2
    <3> QED
      BY <1>1, <3>2, <3>6 DEF UpToDate
  <2> QED
    BY <1>1, <2>1, <2>2
<1>5. \A u \in Pool \ {t} : tpc[u] \notin Adding
  BY <1>1 DEF Unsettled
<1>6. /\ AddsAlone' /\ (\A u \in Pool : UpToDate(u)')
      /\ \A u \in Pool : tpc[u] = "store" => u = t
      /\ \A u \in Pool : tpc'[u] = "store" => u = t
      /\ tpc'[t] = q
  BY <1>2, <1>3, <1>4, <1>5, InsideKeeps
<1>7. Solid' = Solid
  BY <1>1, <1>6, <1>3 DEF Solid, IsWritten
<1>8. Packed'
  BY <1>1, <1>7 DEF Lossless, Packed
<1>9. \A p \in GivenOut' : Kept(p)'
  BY <1>1, <1>2, <1>3, <1>7, KeptInside DEF ToAdd
<1> QED
  BY <1>6, <1>8, <1>9 DEF Lossless

LEMMA LosslessReplace ==
    ASSUME PageInv, Lossless, NEW t \in Pool, Replace(t)
    PROVE  Lossless'
<1>1. /\ tpc[t] = "replace" /\ tpc' = [tpc EXCEPT ![t] = "slot"] /\ array' = copy[t]
      /\ UNCHANGED <<pageVars, tasks, place, size, ref, room, slot, copy, missing>>
  BY DEF Replace, PoolGoto, callerVars, callVars, sortVars, pageVars, localVars, histVars
<1>2. /\ Counted /\ tpc \in [Pool -> ThreadPlaces] /\ size \in Nat
      /\ Len(copy[t]) \in Nat
  BY DEF PageInv, IInv, Counted, ListInv, ListType
<1>3. size < Len(array') /\ \A i \in 1 .. size : array'[i] = array[i]
  BY <1>1 DEF Lossless, UpToDate
<1>4. UpToDate(t)'
  <2>1. tpc'[t] = "slot"
    BY <1>1, <1>2
  <2> QED
    BY <1>1, <1>3, <2>1 DEF UpToDate
<1>5. \A u \in Pool \ {t} : tpc[u] \notin Adding
  BY <1>1, OthersOutside DEF Lossless, Adding
<1>6. /\ AddsAlone' /\ (\A u \in Pool : UpToDate(u)')
      /\ \A u \in Pool : tpc[u] = "store" => u = t
      /\ \A u \in Pool : tpc'[u] = "store" => u = t
      /\ tpc'[t] = "slot"
  BY <1>1, <1>2, <1>4, <1>5, InsideKeeps
<1>7. Solid' = Solid
  BY <1>1, <1>6 DEF Solid, IsWritten
<1>8. Packed'
  <2>1. size' <= Len(array')
    BY <1>1, <1>2, <1>3
  <2>2. \A i \in Solid : array'[i] # 0
    BY <1>3 DEF Lossless, Packed, Solid
  <2> QED
    BY <1>7, <2>1, <2>2 DEF Packed
<1>9. \A p \in GivenOut' : Kept(p)'
  <2>1. \A i \in Solid : i \in Solid' /\ array'[i] = array[i]
    BY <1>3, <1>7 DEF Solid
  <2> QED
    BY <1>1, <1>2, <2>1, KeptInside DEF ToAdd
<1> QED
  BY <1>6, <1>8, <1>9 DEF Lossless

LEMMA LosslessSlot ==
    ASSUME PageInv, Lossless, NEW t \in Pool, Slot(t)
    PROVE  Lossless'
<1>1. /\ tpc[t] = "slot" /\ tpc' = [tpc EXCEPT ![t] = "bump"]
      /\ ref' = [ref EXCEPT ![t] = gen] /\ room' = [room EXCEPT ![t] = Len(array)]
      /\ slot' = [slot EXCEPT ![t] = size + 1]
      /\ UNCHANGED <<pageVars, tasks, place, array, gen, size, missing>>
  BY DEF Slot, PoolGoto, callerVars, callVars, sortVars, pageVars, listVars, histVars
<1>2. /\ Counted /\ tpc \in [Pool -> ThreadPlaces] /\ size \in Nat /\ Len(array) \in Nat
      /\ ref \in [Pool -> Nat] /\ room \in [Pool -> Nat] /\ slot \in [Pool -> Nat]
  BY DEF PageInv, IInv, Counted, ListInv, ListType
<1>3. size < Len(array)
  BY <1>1 DEF Lossless, UpToDate
<1>4. UpToDate(t)'
  <2>1. tpc'[t] = "bump" /\ slot'[t] = size' + 1 /\ slot'[t] <= Len(array') /\ room'[t] = Len(array')
        /\ ref'[t] = gen'
    BY <1>1, <1>2, <1>3
  <2> QED
    BY <2>1 DEF UpToDate
<1>5. \A u \in Pool \ {t} : tpc[u] \notin Adding
  BY <1>1, OthersOutside DEF Lossless, Adding
<1>6. /\ AddsAlone' /\ (\A u \in Pool : UpToDate(u)')
      /\ \A u \in Pool : tpc[u] = "store" => u = t
      /\ \A u \in Pool : tpc'[u] = "store" => u = t
      /\ tpc'[t] = "bump"
  BY <1>1, <1>2, <1>4, <1>5, InsideKeeps
<1>7. Solid' = Solid
  BY <1>1, <1>6 DEF Solid, IsWritten
<1>8. Packed'
  BY <1>1, <1>7 DEF Lossless, Packed
<1>9. \A p \in GivenOut' : Kept(p)'
  BY <1>1, <1>2, <1>7, KeptInside DEF ToAdd
<1> QED
  BY <1>6, <1>8, <1>9 DEF Lossless

LEMMA LosslessBump ==
    ASSUME PageInv, Lossless, NEW t \in Pool, Bump(t)
    PROVE  Lossless'
<1>1. /\ tpc[t] = "bump" /\ tpc' = [tpc EXCEPT ![t] = "store"] /\ size' = slot[t]
      /\ UNCHANGED <<pageVars, tasks, place, array, gen, ref, room, slot, missing>>
  BY DEF Bump, PoolGoto, callerVars, callVars, sortVars, pageVars, localVars, histVars
<1>2. Counted /\ tpc \in [Pool -> ThreadPlaces] /\ size \in Nat /\ Len(array) \in Nat
  BY DEF PageInv, IInv, Counted, ListInv, ListType
<1>3. /\ slot[t] = size + 1 /\ slot[t] <= Len(array) /\ room[t] = Len(array) /\ ref[t] = gen
  BY <1>1 DEF Lossless, UpToDate
<1>4. UpToDate(t)'
  <2>1. tpc'[t] = "store"
    BY <1>1, <1>2
  <2> QED
    BY <1>1, <1>3, <2>1 DEF UpToDate
<1>5. \A u \in Pool \ {t} : tpc[u] \notin Adding
  BY <1>1, OthersOutside DEF Lossless, Adding
<1>6. /\ AddsAlone' /\ (\A u \in Pool : UpToDate(u)')
      /\ \A u \in Pool : tpc[u] = "store" => u = t
      /\ \A u \in Pool : tpc'[u] = "store" => u = t
      /\ tpc'[t] = "store"
  BY <1>1, <1>2, <1>4, <1>5, InsideKeeps
<1>7. Solid' = Solid
  <2>1. \A i : i \in Solid' <=> i \in 1 .. size + 1 /\ i # size + 1
    BY <1>1, <1>3, <1>6 DEF Solid, IsWritten
  <2>2. \A i : i \in Solid <=> i \in 1 .. size
    BY <1>1, <1>6 DEF Solid, IsWritten
  <2>3. \A i : (i \in 1 .. size + 1 /\ i # size + 1) <=> i \in 1 .. size
    BY <1>2
  <2> QED
    BY <2>1, <2>2, <2>3
<1>8. Packed'
  BY <1>1, <1>3, <1>7 DEF Lossless, Packed
<1>9. \A p \in GivenOut' : Kept(p)'
  BY <1>1, <1>2, <1>7, KeptInside DEF ToAdd
<1> QED
  BY <1>6, <1>8, <1>9 DEF Lossless

LEMMA LosslessStore ==
    ASSUME PageInv, Lossless, NEW t \in Pool, Store(t)
    PROVE  Lossless'
<1>1. /\ tpc[t] = "store" /\ tpc' = [tpc EXCEPT ![t] = "count"]
      /\ array' = IF ref[t] = gen THEN [array EXCEPT ![slot[t]] = place[t]] ELSE array
      /\ UNCHANGED <<pageVars, tasks, place, gen, size, ref, room, slot, copy, missing>>
  BY DEF Store, PoolGoto, callerVars, callVars, sortVars, pageVars, localVars, histVars
<1>2. /\ Counted /\ tpc \in [Pool -> ThreadPlaces] /\ size \in Nat
      /\ array \in Seq(Places \cup {0}) /\ slot[t] \in Nat \ {0}
  BY <1>1 DEF PageInv, IInv, Counted, ListInv, ListType
<1>3. slot[t] = size /\ slot[t] <= Len(array) /\ ref[t] = gen
  BY <1>1 DEF Lossless, UpToDate
<1>4. place[t] # 0
  <2>1. place[t] \in Places
    BY <1>1, PlacesOfPage DEF PageInv, IInv, ListInv, Belongs, HasTweet
  <2> QED
    BY <2>1 DEF Places
<1>5. /\ Len(array') = Len(array) /\ array'[slot[t]] = place[t]
      /\ \A i \in 1 .. size : i # slot[t] => array'[i] = array[i]
  <2>1. /\ Len(array) \in Nat /\ DOMAIN array = 1 .. Len(array) /\ slot[t] \in 1 .. Len(array)
        /\ \A i \in 1 .. size : i \in 1 .. Len(array)
    BY <1>2, <1>3
  <2>2. array' = [array EXCEPT ![slot[t]] = place[t]]
    BY <1>1, <1>3
  <2>3. DOMAIN array' = 1 .. Len(array)
    BY <2>1, <2>2
  <2>4. Len(array') = Len(array)
    BY <2>1, <2>3
  <2> QED
    BY <2>1, <2>2, <2>4
<1>6. \A u \in Pool \ {t} : tpc[u] \notin Adding
  BY <1>1, OthersOutside DEF Lossless, Adding
<1>7. UpToDate(t)'
  <2>1. tpc'[t] = "count"
    BY <1>1, <1>2
  <2> QED
    BY <2>1 DEF UpToDate
<1>8. /\ AddsAlone' /\ (\A u \in Pool : UpToDate(u)')
      /\ \A u \in Pool : tpc[u] = "store" => u = t
      /\ \A u \in Pool : tpc'[u] = "store" => u = t
      /\ tpc'[t] = "count"
  BY <1>1, <1>2, <1>6, <1>7, InsideKeeps
<1>9. /\ Solid' = 1 .. size /\ slot[t] \in Solid'
      /\ \A i \in Solid' : i # slot[t] => i \in Solid
      /\ \A i \in Solid : i \in 1 .. size /\ i # slot[t]
  <2>1. Solid' = 1 .. size
    BY <1>1, <1>8 DEF Solid, IsWritten
  <2>2. \A i \in 1 .. size : i \in Solid <=> i # slot[t]
    BY <1>1, <1>8 DEF Solid, IsWritten
  <2>3. slot[t] \in 1 .. size
    BY <1>2, <1>3
  <2> QED
    BY <2>1, <2>2, <2>3 DEF Solid
<1>10. Packed'
  <2>1. size' <= Len(array')
    BY <1>1, <1>3, <1>5
  <2>2. \A i \in Solid' : array'[i] # 0
    BY <1>4, <1>5, <1>9 DEF Lossless, Packed
  <2> QED
    BY <2>1, <2>2 DEF Packed
<1>11. \A p \in GivenOut' : Kept(p)'
  <2>1. \A i \in Solid : i \in Solid' /\ array'[i] = array[i]
    BY <1>5, <1>9
  <2>2. \E i \in Solid' : array'[i] = place[t]
    BY <1>5, <1>9
  <2> QED
    BY <1>1, <1>2, <2>1, <2>2, KeptInside DEF ToAdd
<1> QED
  BY <1>8, <1>10, <1>11 DEF Lossless

LEMMA LosslessPool ==
    ASSUME PageInv, Orderly, NEW t \in Pool, Retrieve(t)
    PROVE  Orderly'
<1>phase. phase' = phase
  BY PoolWorks DEF pageVars
<1> SUFFICES ASSUME Waiting, ~raced', failed' = 0 PROVE Lossless'
  BY <1>phase DEF Orderly, Waiting
<1>1. failed \in Nat
  BY DEF PageInv, IInv, Counted
<1>2. ~raced /\ failed = 0 /\ ~FetchFails(t) /\ ~StoreOutside(t)
  <2>1. ~FetchFails(t) /\ ~StoreOutside(t)
    BY <1>1 DEF FetchFails, StoreOutside, Die
  <2>2. CASE Add(t)
    BY <2>1, <2>2 DEF Add
  <2>3. CASE ~Add(t)
    <3>1. UNCHANGED <<raced, failed>>
      BY <2>1, <2>3
         DEF Retrieve, Take, Fetch, FetchNull, Replace, Slot, Bump, Store, CountDown, histVars
    <3> QED
      BY <2>1, <3>1
  <2> QED
    BY <2>1, <2>2, <2>3
<1>3. Lossless
  BY <1>2 DEF Orderly
<1> QED
  BY <1>2, <1>3, LosslessTake, LosslessOutside, LosslessAdd, LosslessReplace, LosslessSlot, LosslessBump, LosslessStore DEF Retrieve

\* The steps of the caller.
LEMMA LosslessCaller ==
    ASSUME PageInv, Orderly, Caller
    PROVE  Orderly'
<1> SUFFICES ASSUME Waiting', ~raced', failed' = 0 PROVE Lossless'
  BY DEF Orderly
<1>0. Waiting /\ (Call \/ Submit \/ Submitted)
  BY DEF Caller, Call, Submit, Submitted, Opened, TimeOut, StopWaiting, SortCopy, SortThrows, WriteBack,
         WriteThrows, Return, Waiting
<1>1. /\ UNCHANGED <<tpc, place, array, gen, size, ref, room, slot, copy, missing, raced, failed>>
  BY <1>0 DEF Call, Submit, Submitted, callVars, listVars, localVars, histVars
<1>2. Lossless
  BY <1>0, <1>1 DEF Orderly
<1>3. AddsAlone' /\ Solid' = Solid
  BY <1>1, <1>2 DEF Lossless, AddsAlone, Solid, IsWritten
<1>4. Packed' /\ \A t \in Pool : UpToDate(t)'
  BY <1>1, <1>2, <1>3 DEF Lossless, Packed, UpToDate
<1>5. ASSUME NEW p \in GivenOut' PROVE Kept(p)'
  <2>1. CASE Call
    <3>1. start' = next' /\ start' \in Nat
      BY <2>1, ReadsAssumption DEF Call
    <3>2. p \in 1 .. length' /\ start' < p /\ p <= next' /\ length' \in Nat
      BY <1>5, <2>1 DEF GivenOut, Page, Call
    <3> QED
      BY <3>1, <3>2
  <2>2. CASE Submit
    <3>1. tasks' = Append(tasks, next + 1) /\ next' = next + 1 /\ UNCHANGED <<length, start, toRetrieve>>
          /\ tasks \in Seq(Nat) /\ next \in Nat
      BY <2>2 DEF Submit, callVars, PageInv, IInv, Counted
    <3>2. p \in GivenOut \/ p = next + 1
      BY <1>5, <3>1 DEF GivenOut, Page
    <3>3. /\ DOMAIN tasks' = 1 .. Len(tasks) + 1 /\ tasks'[Len(tasks) + 1] = next + 1
          /\ DOMAIN tasks = 1 .. Len(tasks) /\ \A i \in DOMAIN tasks : tasks'[i] = tasks[i]
          /\ Len(tasks) \in Nat
      BY <3>1
    <3>4. Len(tasks) + 1 \in DOMAIN tasks' /\ \A i \in DOMAIN tasks : i \in DOMAIN tasks'
      BY <3>3
    <3>5. next + 1 \in ToSet(tasks') /\ ToSet(tasks) \subseteq ToSet(tasks')
      BY <3>3, <3>4 DEF ToSet
    <3>6. CASE p \in GivenOut
      <4>1. Kept(p)
        BY <1>2, <3>6 DEF Lossless
      <4> QED
        BY <1>1, <1>3, <3>5, <4>1 DEF Kept, ToAdd
    <3> QED
      BY <3>2, <3>5, <3>6 DEF Kept
  <2>3. CASE Submitted
    <3>1. UNCHANGED <<length, start, toRetrieve, next, tasks>>
      BY <2>3 DEF Submitted, callVars
    <3>2. Kept(p)
      BY <1>2, <1>5, <3>1 DEF Lossless, GivenOut, Page
    <3> QED
      BY <1>1, <1>3, <3>1, <3>2 DEF Kept, ToAdd
  <2> QED
    BY <1>0, <2>1, <2>2, <2>3
<1> QED
  BY <1>3, <1>4, <1>5 DEF Lossless

\* The latch opens when all is done, and the list has it all then.
LEMMA OpenedComplete ==
    ASSUME PageInv, Orderly, Opened, ~raced
    PROVE  tasks' = <<>> /\ Running' = {} /\ Whole'
<1>1. /\ phase = "await" /\ latch = 0 /\ phase' = "copy"
      /\ disturbed' = \E t \in Pool : tpc[t] \in Unsettled
      /\ UNCHANGED <<length, start, toRetrieve, next, tasks, tpc, array, size, missing>>
  BY DEF Opened, StopWaiting, callVars, listVars, histVars
<1>2. Counted /\ Cardinality(Running) \in Nat /\ IsFiniteSet(Running)
  BY RunningCounted DEF PageInv, IInv
<1>3. latch = Before(start) + (toRetrieve - Before(next)) + Len(tasks) + Cardinality(Running) + failed
  BY <1>1 DEF PageInv, IInv, LatchAccounts
<1>4. /\ Before(start) \in Nat /\ toRetrieve - Before(next) \in Nat /\ Len(tasks) \in Nat /\ failed \in Nat
  BY <1>2 DEF Counted, Before
<1>5. /\ toRetrieve - Before(next) = 0 /\ Len(tasks) = 0 /\ Cardinality(Running) = 0 /\ failed = 0
  BY <1>1, <1>2, <1>3, <1>4
<1>6. tasks = <<>> /\ Running = {} /\ next >= toRetrieve
  <2>1. tasks = <<>>
    BY <1>2, <1>5 DEF Counted
  <2>2. Running = {}
    BY <1>2, <1>5, FS_EmptySet
  <2>3. next >= toRetrieve
    BY <1>2, <1>5 DEF Counted, Before
  <2> QED
    BY <2>1, <2>2, <2>3
<1>7. Lossless
  BY <1>1, <1>5 DEF Orderly, Waiting
<1>8. \A t \in Pool : tpc[t] = "idle"
  BY <1>6 DEF Running
<1>9. GivenOut = Page
  BY <1>2, <1>6 DEF GivenOut, Page, Counted
<1>10. Solid = 1 .. size
  BY <1>8 DEF Solid, IsWritten
<1>11. size \in Nat /\ size <= Len(array) /\ Len(array) \in Nat
  BY <1>7 DEF Lossless, Packed, PageInv, ListInv, ListType
<1>12. DOMAIN Elements = 1 .. size /\ \A i \in 1 .. size : Elements[i] = array[i]
  BY <1>11 DEF Elements
<1>13. 0 \notin ToSet(Elements)
  BY <1>7, <1>10, <1>12 DEF Lossless, Packed, ToSet
<1>14. /\ Elements \in Seq(Places) /\ ToSet(Elements) \subseteq GivenOut \ (ToSet(tasks) \cup missing)
  BY <1>1, <1>2, <1>13, ElementsOfPage DEF PageInv, ListInv, InOnePlace
<1>15. ToSet(Elements) = Page \ missing
  <2>1. ASSUME NEW p \in Page, p \notin missing PROVE p \in ToSet(Elements)
    <3>1. Kept(p) /\ p \notin ToSet(tasks) /\ \A t \in Pool : ~ToAdd(t)
      BY <1>6, <1>7, <1>8, <1>9 DEF Lossless, ToAdd, ToSet
    <3>2. PICK i \in 1 .. size : array[i] = p
      BY <1>10, <2>1, <3>1 DEF Kept
    <3> QED
      BY <1>12, <3>2 DEF ToSet
  <2> QED
    BY <1>9, <1>14, <2>1
<1>16. ~disturbed' /\ Elements' = Elements /\ Page' = Page
  BY <1>1, <1>8 DEF Unsettled, Adding, Elements, Page
<1> QED
  BY <1>1, <1>6, <1>11, <1>13, <1>15, <1>16 DEF Whole, Running

\* Then the sort goes through, and its answer is the page.
LEMMA SortWhole ==
    ASSUME LossInv, Waited, SortCopy \/ SortThrows \/ WriteBack \/ WriteThrows \/ Return
    PROVE  Whole' /\ OnlyRacesLose'
<1>1. /\ phase \in {"copy", "write"} /\ ListType
      /\ UNCHANGED <<length, start, toRetrieve, size, disturbed, missing>>
  BY DEF SortCopy, SortThrows, WriteBack, WriteThrows, Return, sortingVars, callVars, histVars,
         LossInv, PageInv, ListInv
<1>2. /\ ~disturbed /\ size <= Len(array) /\ Page' = Page
      /\ phase = "copy" => 0 \notin ToSet(Elements) /\ ToSet(Elements) = Page \ missing
      /\ phase = "write" => ToSet(sorted) = Page \ missing
  BY <1>1 DEF LossInv, Whole, Page
<1>3. phase = "write" => /\ Len(sorted) = size
                         /\ \A i \in 1 .. written : i \in DOMAIN array /\ array[i] = sorted[i]
  BY <1>2 DEF LossInv, PageInv, ListInv, InPlace
<1>4. size \in Nat /\ written \in Nat /\ array \in Seq(Places \cup {0}) /\ Len(array) \in Nat
  BY <1>1 DEF ListType
<1>5. ~SortThrows /\ ~WriteThrows
  <2>1. ~SortThrows
    BY <1>2 DEF SortThrows
  <2>2. ~WriteThrows
    BY <1>2, <1>3, <1>4 DEF WriteThrows
  <2> QED
    BY <2>1, <2>2
<1>6. CASE SortCopy
  <2>1. ToSet(sorted') = ToSet(Elements)
    BY <1>6, SortCopyList DEF LossInv
  <2>2. phase = "copy" /\ phase' = "write" /\ array' = array
    BY <1>6 DEF SortCopy
  <2> QED
    BY <1>1, <1>2, <2>1, <2>2 DEF Whole, OnlyRacesLose
<1>7. CASE WriteBack
  <2>1. /\ phase = "write" /\ phase' = "write" /\ sorted' = sorted
        /\ array' = [array EXCEPT ![written + 1] = sorted[written + 1]]
    BY <1>7 DEF WriteBack
  <2>2. array' \in Seq(Places \cup {0})
    BY <1>7, WriteBackList DEF LossInv, ListInv, ListType
  <2>3. DOMAIN array' = DOMAIN array
    BY <2>1
  <2>4. Len(array') = Len(array)
    <3>1. DOMAIN array = 1 .. Len(array) /\ DOMAIN array' = 1 .. Len(array') /\ Len(array') \in Nat
      BY <1>4, <2>2
    <3> QED
      BY <1>4, <2>3, <3>1
  <2> QED
    BY <1>1, <1>2, <2>1, <2>4 DEF Whole, OnlyRacesLose
<1>8. CASE Return
  <2>1. phase = "write" /\ phase' = "answered" /\ written = Len(sorted) /\ answer' = Elements
    BY <1>8 DEF Return
  <2>2. Elements = sorted
    BY <1>1, <1>3, <2>1, WrittenIsSorted
  <2>3. phase' = "answered" /\ ToSet(answer') = Page' \ missing'
    BY <1>1, <1>2, <2>1, <2>2
  <2> QED
    BY <2>3 DEF Whole, OnlyRacesLose
<1> QED
  BY <1>5, <1>6, <1>7, <1>8

LEMMA LossInit == Init => LossInv
<1> SUFFICES ASSUME Init PROVE LossInv
  OBVIOUS
<1>1. /\ phase = "idle" /\ length = 0 /\ size = 0 /\ tpc = [t \in Pool |-> "idle"]
      /\ array = [i \in 1 .. Capacity |-> 0]
  BY DEF Init
<1>2. \A t \in Pool : tpc[t] = "idle"
  BY <1>1
<1>3. AddsAlone /\ Solid = {} /\ GivenOut = {} /\ \A t \in Pool : UpToDate(t)
  BY <1>1, <1>2 DEF AddsAlone, Adding, Solid, GivenOut, Page, UpToDate
<1>4. Packed
  <2>1. Capacity \in Nat
    BY ReadsAssumption
  <2>2. Len(array) = Capacity
    BY <1>1, <2>1
  <2> QED
    BY <1>1, <1>3, <2>1, <2>2 DEF Packed
<1> QED
  BY <1>1, <1>3, <1>4, PageInit
     DEF LossInv, Orderly, Lossless, Complete, Waited, Waiting, Whole, OnlyRacesLose

LEMMA LossNext == LossInv /\ [Next]_vars => LossInv'
<1> SUFFICES ASSUME LossInv, [Next]_vars PROVE Orderly' /\ Complete' /\ Whole' /\ OnlyRacesLose'
  BY PageNext DEF LossInv
<1>1. CASE UNCHANGED vars
  <2>1. UNCHANGED <<phase, length, start, toRetrieve, next, tasks, tpc, place, array, gen, size, ref, room,
                    slot, copy, disturbed, sorted, answer, missing, failed, raced, timedOut>>
    BY <1>1 DEF vars, callVars, listVars, localVars, sortVars, histVars
  <2>2. /\ Solid' = Solid /\ GivenOut' = GivenOut /\ Page' = Page /\ Running' = Running
        /\ Elements' = Elements /\ (Waiting' <=> Waiting) /\ (Waited' <=> Waited)
    BY <2>1 DEF Solid, IsWritten, GivenOut, Page, Running, Elements, Waiting, Waited
  <2>3. Orderly'
    BY <2>1, <2>2 DEF LossInv, Orderly, Lossless, AddsAlone, Packed, UpToDate, Kept, ToAdd
  <2> QED
    BY <2>1, <2>2, <2>3 DEF LossInv, Complete, Whole, OnlyRacesLose
<1>2. CASE Caller
  <2>1. Orderly'
    BY <1>2, LosslessCaller DEF LossInv
  <2>2. CASE Call \/ Submit \/ Submitted
    <3>1. phase' \in {"submit", "await"}
      BY <2>2 DEF Call, Submit, Submitted
    <3> QED
      BY <2>1, <3>1 DEF Complete, Whole, OnlyRacesLose, Waited, Waiting
  <2>3. CASE Opened
    <3>1. raced' = raced /\ phase' = "copy"
      BY <2>3 DEF Opened, StopWaiting, histVars
    <3>2. CASE raced
      BY <2>1, <3>1, <3>2 DEF Complete, Whole, OnlyRacesLose, Waited
    <3>3. CASE ~raced
      BY <2>1, <2>3, <3>1, <3>3, OpenedComplete DEF LossInv, Complete, OnlyRacesLose
    <3> QED
      BY <3>2, <3>3
  <2>4. CASE TimeOut
    BY <2>1, <2>4 DEF TimeOut, Complete, Whole, OnlyRacesLose, Waited
  <2>5. CASE SortCopy \/ SortThrows \/ WriteBack \/ WriteThrows \/ Return
    <3>1. UNCHANGED <<tasks, tpc, raced, timedOut>> /\ phase \in {"copy", "write"}
      BY <2>5 DEF SortCopy, SortThrows, WriteBack, WriteThrows, Return, sortingVars, histVars
    <3>2. ~Waiting /\ (Waited' => Waited) /\ Running' = Running
      BY <3>1 DEF Waiting, Waited, Running
    <3>3. Complete'
      BY <3>1, <3>2 DEF LossInv, Complete
    <3>4. CASE Waited
      BY <2>1, <2>5, <3>3, <3>4, SortWhole
    <3>5. CASE ~Waited
      <4>1. raced' \/ timedOut'
        BY <3>1, <3>2, <3>5 DEF Waited
      <4> QED
        BY <2>1, <3>3, <4>1 DEF Whole, OnlyRacesLose, Waited
    <3> QED
      BY <3>4, <3>5
  <2> QED
    BY <1>2, <2>2, <2>3, <2>4, <2>5 DEF Caller
<1>3. ASSUME NEW t \in Pool, Retrieve(t)
      PROVE  Orderly' /\ Complete' /\ Whole' /\ OnlyRacesLose'
  <2>1. Orderly'
    BY <1>3, LosslessPool DEF LossInv
  <2>2. (tasks # <<>> \/ Running # {}) /\ UNCHANGED <<phase, timedOut>>
    BY <1>3, PoolWorks DEF pageVars
  <2>3. ~raced' => ~raced
    BY <1>3 DEF Retrieve, Take, Fetch, FetchNull, FetchFails, Add, Replace, Slot, Bump, Store, StoreOutside,
                Die, CountDown, histVars
  <2>4. ~Waited /\ ~Waited'
    BY <2>2, <2>3 DEF LossInv, Complete, Waited, Waiting
  <2>5. phase' \in {"answered", "thrown"} => raced' \/ timedOut'
    BY <2>4 DEF Waited, Waiting
  <2> QED
    BY <2>1, <2>4, <2>5 DEF Complete, Whole, OnlyRacesLose
<1> QED
  BY <1>1, <1>2, <1>3 DEF Next

\* Only overlapping adds lose a tweet: when the caller has waited for all retrievers and no
\* two adds overlapped, getFriendsTimeline answers with every tweet of the page that there is.
THEOREM RacesOnly == Spec => []OnlyRacesLose
<1>1. LossInv => OnlyRacesLose
  BY DEF LossInv
<1> QED
  BY <1>1, LossInit, LossNext, PTL DEF Spec

-----------------------------------------------------------------------------
(* One reader's timeline (TimelineView).                                        *)

ViewEntries == [author : Authors, idx : Nat, date : Int]

\* The timeline has tweets that are stored, and these have indexes the author has given.
ViewInv ==
    /\ list \in Seq(ViewEntries) /\ tweets \subseteq ViewEntries
    /\ last \in [Authors -> Nat] /\ clock \in Int /\ cut \in BOOLEAN
    /\ ToSet(list) \subseteq tweets /\ due \subseteq tweets
    /\ \A e \in tweets : e.idx <= last[e.author]

\* Its loop over the indexes: f is what was found after each turn.
IsReading(f, a, s) ==
    /\ f[0] = <<>> /\ Read(a, s) = f[Len(s)]
    /\ \A i \in 1 .. Len(s) : f[i] = ReadNext(a, f[i - 1], s[i])

LEMMA StoredTweet ==
    ASSUME NEW a, NEW idx, StoredAs(a, idx) # {}
    PROVE  (CHOOSE e \in StoredAs(a, idx) : TRUE) \in tweets
<1>1. (CHOOSE e \in StoredAs(a, idx) : TRUE) \in StoredAs(a, idx)
  OBVIOUS
<1> QED
  BY <1>1 DEF StoredAs

LEMMA ReadingTurns ==
    ASSUME NEW E, NEW s \in Seq(E), NEW a
    PROVE  \E f \in [0 .. Len(s) -> Seq(tweets)] : IsReading(f, a, s)
<1> DEFINE n == Len(s)
           M == Seq(tweets)
           base == <<>>
           step == [t \in M \X (1 .. n) |-> ReadNext(a, t[1], s[t[2]])]
           Fold(g) == g = [S \in SUBSET (1 .. n) |->
                             IF S = {} THEN base ELSE ReadNext(a, g[S \ {Max(S)}], s[Max(S)])]
           h == CHOOSE k : Fold(k)
<1>keep. base \in M /\ \A m \in M, e \in E : ReadNext(a, m, e) \in M
  BY StoredTweet DEF ReadNext
<1> HIDE DEF M
<1>1. n \in Nat /\ DOMAIN s = 1 .. n /\ \A i \in 1 .. n : s[i] \in E
  OBVIOUS
<1>2. step \in [M \X (1 .. n) -> M] /\ \A m \in M, i \in 1 .. n : step[<<m, i>>] = ReadNext(a, m, s[i])
  BY <1>1, <1>keep
<1>3. Read(a, s) = h[1 .. n]
  BY <1>1 DEF Read, FoldLeft, MapThenFoldSet
<1> HIDE DEF step, n, h
<1>4. \E g : Fold(g)
  <2>1. PICK g \in [SUBSET (1 .. n) -> M] : IsFold(g, base, n, step)
    BY <1>1, <1>2, <1>keep, FoldExists
  <2>2. ASSUME NEW S \in SUBSET (1 .. n)
        PROVE  g[S] = IF S = {} THEN base ELSE ReadNext(a, g[S \ {Max(S)}], s[Max(S)])
    <3>1. CASE S # {}
      <4>1. Max(S) \in 1 .. n /\ g[S \ {Max(S)}] \in M
        BY <1>1, <3>1, FoldTurns
      <4> QED
        BY <3>1, <4>1, <1>2, <2>1 DEF IsFold
    <3> QED
      BY <3>1, <2>1 DEF IsFold
  <2>3. Fold(g)
    BY <2>2
  <2> QED
    BY <2>3
<1>5. Fold(h)
  BY <1>4 DEF h
<1>6. IsFoldIn(M, h, base, n, step)
  <2>1. h[{}] = base
    BY <1>1, <1>5, FoldTurns
  <2>2. ASSUME NEW S \in SUBSET (1 .. n), S # {}, h[S \ {Max(S)}] \in M
        PROVE  h[S] = step[<<h[S \ {Max(S)}], Max(S)>>]
    <3>1. Max(S) \in 1 .. n
      BY <1>1, <2>2, FoldTurns
    <3>2. h[S] = ReadNext(a, h[S \ {Max(S)}], s[Max(S)])
      BY <1>5, <2>2
    <3> QED
      BY <1>2, <2>2, <3>1, <3>2
  <2> QED
    BY <2>1, <2>2 DEF IsFoldIn
<1> HIDE DEF Fold
<1>7. PICK f \in [0 .. n -> M] : IsLoop(f, base, n, step, h[1 .. n])
  <2>1. n \in Nat /\ step \in [M \X (1 .. n) -> M] /\ base \in M
    BY <1>1, <1>2, <1>keep
  <2> QED
    BY <2>1, <1>6, LoopOfFold
<1>8. ASSUME NEW i \in 1 .. n PROVE f[i] = ReadNext(a, f[i - 1], s[i])
  <2>1. i - 1 \in 0 .. n
    BY <1>1
  <2> QED
    BY <2>1, <1>2, <1>7 DEF IsLoop
<1> QED
  BY <1>3, <1>7, <1>8 DEF n, M, IsReading, IsLoop

\* getRecentTweets returns tweets that are stored.
LEMMA RecentIsStored ==
    ASSUME ViewInv, NEW a \in Authors
    PROVE  Recent(a) \in Seq(tweets)
<1> DEFINE s == Downward(last[a])
<1>1. last[a] \in Nat
  BY DEF ViewInv
<1>2. s \in Seq(Int) /\ Len(s) \in Nat
  BY <1>1 DEF Downward
<1> HIDE DEF s
<1>3. PICK f \in [0 .. Len(s) -> Seq(tweets)] : IsReading(f, a, s)
  BY <1>2, ReadingTurns
<1>4. Recent(a) = f[Len(s)] /\ Len(s) \in 0 .. Len(s)
  BY <1>2, <1>3 DEF IsReading, Recent, s
<1> QED
  BY <1>4

-----------------------------------------------------------------------------
(* The commands.                                                                *)

\* A sequence of tweets that are stored is one of entries.
LEMMA StoredEntries ==
    ASSUME ViewInv, NEW s \in Seq(tweets)
    PROVE  s \in Seq(ViewEntries) /\ ToSet(s) \subseteq tweets
BY DEF ViewInv, ToSet

\* The tweet of an author has an index no tweet has.
LEMMA WrittenIsNew ==
    ASSUME ViewInv, NEW a \in Authors, NEW date \in Int
    PROVE  Written(a, date) \in ViewEntries /\ Written(a, date) \notin tweets
<1>1. last[a] \in Nat /\ \A e \in tweets : e.idx <= last[e.author]
  BY DEF ViewInv
<1>2. /\ Written(a, date).idx = last[a] + 1 /\ Written(a, date).author = a
      /\ Written(a, date) \in ViewEntries
  BY <1>1 DEF Written, ViewEntries
<1>3. ~(last[a] + 1 <= last[a])
  BY <1>1
<1> QED
  BY <1>1, <1>2, <1>3

LEMMA TweetStep ==
    ASSUME ViewInv, NEW a \in Authors, Tweet(a)
    PROVE  /\ ViewInv'
           /\ \E t \in ViewEntries \ tweets :
                /\ tweets' = tweets \cup {t}
                /\ IF a \in following
                     THEN list' = InsertTweet(list, t) /\ due' = due \cup {t}
                     ELSE list' = list /\ due' = due
<1>1. PICK date \in (clock - 1) .. (clock + 1) :
        LET t == Written(a, date) IN
         /\ clock' = IF date > clock THEN date ELSE clock
         /\ tweets' = tweets \cup {t}
         /\ IF a \in following
              THEN list' = InsertTweet(list, t) /\ due' = due \cup {t}
              ELSE UNCHANGED <<list, due>>
  BY DEF Tweet
<1> DEFINE t == Written(a, date)
<1>2. date \in Int /\ clock \in Int /\ last \in [Authors -> Nat] /\ cut' = cut
  BY <1>1 DEF ViewInv, Tweet
<1>3. t \in ViewEntries /\ t \notin tweets
  BY <1>2, WrittenIsNew
<1>4. /\ clock' = IF date > clock THEN date ELSE clock
      /\ tweets' = tweets \cup {t}
      /\ IF a \in following
           THEN list' = InsertTweet(list, t) /\ due' = due \cup {t}
           ELSE list' = list /\ due' = due
  BY <1>1
<1>5. t.idx = last[a] + 1 /\ t.author = a
  BY DEF Written
<1> HIDE DEF t
<1>6. last' = [last EXCEPT ![a] = @ + 1]
  BY DEF Tweet
<1>7. /\ list' \in Seq(ViewEntries)
      /\ ToSet(list') \subseteq ToSet(list) \cup {t}
      /\ due' \subseteq due \cup {t}
  BY <1>3, <1>4, InsertTweetKeeps DEF ViewInv
<1>8. \A e \in tweets' : e.idx <= last'[e.author]
  <2> SUFFICES ASSUME NEW e \in tweets' PROVE e.idx <= last'[e.author]
    OBVIOUS
  <2>1. CASE e = t
    BY <2>1, <1>2, <1>5, <1>6
  <2>2. CASE e \in tweets
    <3>1. e.idx \in Nat /\ e.author \in Authors /\ e.idx <= last[e.author]
      BY <2>2 DEF ViewInv, ViewEntries
    <3> QED
      BY <3>1, <1>2, <1>6
  <2> QED
    BY <2>1, <2>2, <1>4
<1>9. ViewInv'
  BY <1>2, <1>3, <1>4, <1>6, <1>7, <1>8 DEF ViewInv
<1> QED
  BY <1>3, <1>4, <1>9

LEMMA IndexLostStep ==
    ASSUME ViewInv, NEW a \in Authors, IndexLost(a)
    PROVE  ViewInv'
<1>1. /\ last' = [last EXCEPT ![a] = @ + 1] /\ last \in [Authors -> Nat]
      /\ UNCHANGED <<list, tweets, clock, due, cut>>
  BY DEF IndexLost, ViewInv
<1>2. ASSUME NEW e \in tweets PROVE e.idx <= last'[e.author]
  <2>1. e.idx \in Nat /\ e.author \in Authors /\ e.idx <= last[e.author]
    BY DEF ViewInv, ViewEntries
  <2> QED
    BY <2>1, <1>1
<1>3. last' \in [Authors -> Nat]
  BY <1>1
<1> QED
  BY <1>1, <1>2, <1>3 DEF ViewInv

LEMMA StartStep ==
    ASSUME ViewInv, NEW a \in Authors, StartFollowing(a)
    PROVE  /\ ViewInv'
           /\ Recent(a) \in Seq(ViewEntries) /\ ToSet(Recent(a)) \subseteq tweets
           /\ list' = Merge(list, Recent(a)) /\ due' = due \cup ToSet(Recent(a))
           /\ cut' = (cut \/ MergeLoop(list, Recent(a)).full) /\ tweets' = tweets
<1> DEFINE r == Recent(a)
           m == MergeLoop(list, r)
<1>1. r \in Seq(ViewEntries) /\ ToSet(r) \subseteq tweets
  BY RecentIsStored, StoredEntries
<1>2. /\ list' = Merge(list, r) /\ due' = due \cup ToSet(r) /\ cut' = (cut \/ m.full)
      /\ UNCHANGED <<last, tweets, clock>>
  BY DEF StartFollowing
<1> HIDE DEF r
<1>3. list \in Seq(ViewEntries) /\ ToSet(list) \subseteq tweets /\ due \subseteq tweets
  BY DEF ViewInv
<1>4. m \in MergeState(ViewEntries) /\ Merged(list, ToSet(r), Merge(list, r))
  BY <1>1, <1>3, MergeLoopKeeps
<1>5. Merge(list, r) \in Seq(ViewEntries) /\ m.full \in BOOLEAN
  BY <1>4 DEF Merge, MergeState
<1>6. ToSet(Merge(list, r)) \subseteq tweets
  BY <1>1, <1>3, <1>4 DEF Merged
<1> HIDE DEF m
<1>7. ViewInv'
  BY <1>1, <1>2, <1>3, <1>5, <1>6 DEF ViewInv
<1> QED
  BY <1>1, <1>2, <1>7 DEF r, m

LEMMA StopStep ==
    ASSUME ViewInv, NEW a \in Authors, StopFollowing(a)
    PROVE  ViewInv'
<1>1. /\ list' = RemoveAuthor(list, a) /\ due' = {e \in due : e.author # a}
      /\ UNCHANGED <<last, tweets, clock, cut>>
  BY DEF StopFollowing
<1>2. /\ RemoveAuthor(list, a) \in Seq(ViewEntries)
      /\ ToSet(RemoveAuthor(list, a)) \subseteq ToSet(list)
  BY RemoveAuthorKeeps DEF ViewInv
<1> QED
  BY <1>1, <1>2 DEF ViewInv

LEMMA ViewInitInv == ViewInit => ViewInv
<1> SUFFICES ASSUME ViewInit PROVE ViewInv
  OBVIOUS
<1>1. ToSet(list) = {}
  BY DEF ViewInit, ToSet
<1>2. list \in Seq(ViewEntries)
  <2>1. list = <<>>
    BY DEF ViewInit
  <2> QED
    BY <2>1
<1>3. last \in [Authors -> Nat]
  <2>1. last = [a \in Authors |-> 0]
    BY DEF ViewInit
  <2> QED
    BY <2>1
<1>4. tweets = {} /\ due = {} /\ clock \in Int
  BY DEF ViewInit
<1>5. cut \in BOOLEAN
  BY DEF ViewInit
<1> QED
  BY <1>1, <1>2, <1>3, <1>4, <1>5 DEF ViewInv

LEMMA ViewNextInv == ViewInv /\ [ViewNext]_viewVars => ViewInv'
<1> SUFFICES ASSUME ViewInv, [ViewNext]_viewVars PROVE ViewInv'
  OBVIOUS
<1>1. CASE UNCHANGED viewVars
  BY <1>1 DEF viewVars, ViewInv
<1>2. CASE ViewNext
  BY <1>2, TweetStep, IndexLostStep, StartStep, StopStep DEF ViewNext
<1> QED
  BY <1>1, <1>2

LEMMA ViewInvariance == ViewSpec => []ViewInv
BY ViewInitInv, ViewNextInv, PTL DEF ViewSpec


-----------------------------------------------------------------------------
(* What the reader sees.                                                        *)

\* "This part of the command already got executed, so skip it": whatever the timeline and
\* the author's recent tweets are, a merge that the limit did not stop can be run again and
\* changes nothing (StartFollowingCommand).
THEOREM AgainIsSkipped == ViewSpec => []RunAgainBelowLimit
<1>1. ViewInv => RunAgainBelowLimit
  <2> SUFFICES ASSUME ViewInv, NEW a \in Authors
               PROVE  \/ MergeLoop(list, Recent(a)).full
                      \/ Merge(Merge(list, Recent(a)), Recent(a)) = Merge(list, Recent(a))
    BY DEF RunAgainBelowLimit
  <2>1. Recent(a) \in Seq(ViewEntries) /\ list \in Seq(ViewEntries)
    BY RecentIsStored, StoredEntries DEF ViewInv
  <2> QED
    BY <2>1, MergeTwice
<1> QED
  BY <1>1, ViewInvariance, PTL

\* The body of OrderKept: no step swaps two entries that stay, and a tweet later than all
\* that is shown comes first.
OrderStep ==
    /\ \A d, e \in ToSet(list) \cap ToSet(list') :
         Precedes(list, d, e) => Precedes(list', d, e)
    /\ \A t \in (tweets' \ tweets) \cap ToSet(list') :
         (\A d \in ToSet(list) : d.date < t.date) => list'[1] = t

LEMMA OrderOfStep == ViewInv /\ [ViewNext]_viewVars => [OrderStep]_viewVars
<1> SUFFICES ASSUME ViewInv, ViewNext PROVE OrderStep
  OBVIOUS
<1>1. PICK a \in Authors : Tweet(a) \/ IndexLost(a) \/ StartFollowing(a) \/ StopFollowing(a)
  BY DEF ViewNext
<1>2. list \in Seq(ViewEntries) /\ ToSet(list) \subseteq tweets
  BY DEF ViewInv
<1>3. CASE Tweet(a)
  <2>1. PICK t \in ViewEntries \ tweets :
          /\ tweets' = tweets \cup {t}
          /\ IF a \in following
               THEN list' = InsertTweet(list, t) /\ due' = due \cup {t}
               ELSE list' = list /\ due' = due
    BY <1>3, TweetStep
  <2>2. CASE list' = list
    <3>1. (tweets' \ tweets) \cap ToSet(list') = {}
      BY <1>2, <2>2
    <3> QED
      BY <2>2, <3>1 DEF OrderStep
  <2>3. CASE list' = InsertTweet(list, t)
    <3>1. /\ \A c, d : Precedes(list, c, d) => Precedes(list', c, d)
          /\ (\A d \in ToSet(list) : d.date < t.date) => list'[1] = t
      BY <1>2, <2>1, <2>3, InsertTweetKeeps, InsertTweetPuts
    <3>2. \A s \in tweets' \ tweets : s = t
      BY <2>1
    <3> QED
      BY <3>1, <3>2 DEF OrderStep
  <2> QED
    BY <2>1, <2>2, <2>3
<1>4. CASE IndexLost(a)
  BY <1>4 DEF IndexLost, OrderStep
<1>5. CASE StartFollowing(a)
  <2> DEFINE r == Recent(a)
  <2>1. r \in Seq(ViewEntries) /\ list' = Merge(list, r) /\ tweets' = tweets
    BY <1>5, StartStep
  <2> HIDE DEF r
  <2>2. Merged(list, ToSet(r), Merge(list, r))
    BY <1>2, <2>1, MergeLoopKeeps
  <2> QED
    BY <2>1, <2>2 DEF Merged, OrderStep
<1>6. CASE StopFollowing(a)
  <2>1. list' = RemoveAuthor(list, a) /\ tweets' = tweets
    BY <1>6 DEF StopFollowing
  <2>2. /\ ToSet(list') = {t \in ToSet(list) : ~Named(a, t)}
        /\ \A c, d : Precedes(list, c, d) /\ ~Named(a, c) /\ ~Named(a, d)
                       => Precedes(list', c, d)
    BY <1>2, <2>1, RemoveAuthorKeeps
  <2> QED
    BY <2>1, <2>2 DEF OrderStep
<1> QED
  BY <1>1, <1>3, <1>4, <1>5, <1>6

\* No command swaps two entries that stay, and a tweet later than all that is shown comes
\* first, for a timeline of any length and every limit (insertTweet, the merge, the removal).
THEOREM OrderIsKept == ViewSpec => OrderKept
<1>1. ViewSpec => [][OrderStep]_viewVars
  BY ViewInvariance, OrderOfStep, PTL DEF ViewSpec
<1> QED
  BY <1>1 DEF OrderKept, OrderStep

-----------------------------------------------------------------------------
(* What is due is shown.  Whoever's name begins with another's and a dash is      *)
(* removed with it, so this is of authors among whom nobody's does.              *)

PlainNames == \A a, b \in Authors : <<a, b>> \notin Extends

LEMMA DueStep ==
    ASSUME PlainNames, ViewInv, ShowsWhatIsDue, [ViewNext]_viewVars
    PROVE  ShowsWhatIsDue'
<1>1. CASE UNCHANGED viewVars
  BY <1>1 DEF viewVars, ShowsWhatIsDue
<1>2. CASE ViewNext
  <2>1. PICK a \in Authors : Tweet(a) \/ IndexLost(a) \/ StartFollowing(a) \/ StopFollowing(a)
    BY <1>2 DEF ViewNext
  <2>2. /\ list \in Seq(ViewEntries) /\ ToSet(list) \subseteq tweets
        /\ IsInjective(list) /\ ToSet(list) \subseteq due /\ (cut \/ ToSet(list) = due)
    BY DEF ViewInv, ShowsWhatIsDue
  <2>3. CASE Tweet(a)
    <3>1. PICK t \in ViewEntries \ tweets :
            /\ tweets' = tweets \cup {t}
            /\ IF a \in following
                 THEN list' = InsertTweet(list, t) /\ due' = due \cup {t}
                 ELSE list' = list /\ due' = due
      BY <2>3, TweetStep
    <3>2. cut' = cut
      BY <2>3 DEF Tweet
    <3>3. CASE list' = list /\ due' = due
      BY <2>2, <3>2, <3>3 DEF ShowsWhatIsDue
    <3>4. CASE list' = InsertTweet(list, t) /\ due' = due \cup {t}
      <4>1. t \notin ToSet(list)
        BY <2>2, <3>1
      <4>2. ToSet(list') = ToSet(list) \cup {t} /\ IsInjective(list')
        BY <2>2, <3>1, <3>4, <4>1, InsertTweetKeeps
      <4> QED
        BY <2>2, <3>2, <3>4, <4>2 DEF ShowsWhatIsDue
    <3> QED
      BY <3>1, <3>3, <3>4
  <2>4. CASE IndexLost(a)
    BY <2>2, <2>4 DEF IndexLost, ShowsWhatIsDue
  <2>5. CASE StartFollowing(a)
    <3> DEFINE r == Recent(a)
               m == MergeLoop(list, r)
    <3>1. /\ r \in Seq(ViewEntries) /\ list' = Merge(list, r) /\ due' = due \cup ToSet(r)
          /\ cut' = (cut \/ m.full)
      BY <2>5, StartStep
    <3> HIDE DEF r
    <3>2. /\ Merged(list, ToSet(r), list')
          /\ m.full \/ ToSet(r) \subseteq ToSet(list')
      BY <2>2, <3>1, MergeLoopKeeps
    <3>3. /\ ToSet(list) \subseteq ToSet(list') /\ ToSet(list') \subseteq ToSet(list) \cup ToSet(r)
          /\ IsInjective(list')
      BY <2>2, <3>2 DEF Merged
    <3> HIDE DEF m
    <3>4. cut' \/ ToSet(list') = due'
      BY <2>2, <3>1, <3>2, <3>3
    <3> QED
      BY <2>2, <3>1, <3>3, <3>4 DEF ShowsWhatIsDue
  <2>6. CASE StopFollowing(a)
    <3>1. list' = RemoveAuthor(list, a) /\ due' = {e \in due : e.author # a} /\ cut' = cut
      BY <2>6 DEF StopFollowing
    <3>2. \A t \in ToSet(list) : Named(a, t) <=> t.author = a
      <4>1. ToSet(list) \subseteq ViewEntries
        BY <2>2 DEF ToSet
      <4>2. \A t \in ViewEntries : t.author \in Authors
        BY DEF ViewEntries
      <4> QED
        BY <4>1, <4>2 DEF Named, PlainNames
    <3>3. /\ ToSet(list') = {t \in ToSet(list) : ~Named(a, t)}
          /\ IsInjective(list')
      BY <2>2, <3>1, RemoveAuthorKeeps
    <3> QED
      BY <2>2, <3>1, <3>2, <3>3 DEF ShowsWhatIsDue
  <2> QED
    BY <2>1, <2>3, <2>4, <2>5, <2>6
<1> QED
  BY <1>1, <1>2

\* Where no author's name begins with another's and a dash, the reader sees no tweet twice, nothing
\* but what is due, and all that is due as long as no merge was stopped by the limit, after
\* any history of commands that run one at a time (insertTweet, the merge, the removal).
THEOREM DueIsShown == PlainNames => (ViewSpec => []ShowsWhatIsDue)
<1> SUFFICES ASSUME PlainNames PROVE ViewSpec => []ShowsWhatIsDue
  OBVIOUS
<1>1. ViewInit => ShowsWhatIsDue
  <2> SUFFICES ASSUME ViewInit PROVE ShowsWhatIsDue
    OBVIOUS
  <2>1. list = <<>> /\ due = {}
    BY DEF ViewInit
  <2> QED
    BY <2>1 DEF ShowsWhatIsDue, ToSet, IsInjective
<1>2. ViewInv /\ ShowsWhatIsDue /\ [ViewNext]_viewVars => ShowsWhatIsDue'
  BY DueStep
<1> QED
  BY <1>1, <1>2, ViewInvariance, PTL DEF ViewSpec
=============================================================================
