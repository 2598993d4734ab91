---------------------------- MODULE TimelineReads ----------------------------
(***************************************************************************)
(* One call of getFriendsTimeline.  The caller gives each entry of the     *)
(* page to a pool, whose threads read the tweets and add them to one       *)
(* ArrayList without a lock, waits for a latch or asyncTimeout, and sorts  *)
(* that list, to which retrievers that are late still add.  A tweet is     *)
(* named by its place in the timeline.                                     *)
(***************************************************************************)
EXTENDS Integers, Sequences, SequencesExt, FiniteSets

CONSTANTS
    Pool,           \* threads of tweetServiceExecutor
    MaxLength,      \* bound: entries of the timeline
    Starts, Counts, \* what callers ask for
    Capacity,       \* length of a new ArrayList's array (10)
    Dates,          \* the tweet's date for each place
    MaxFaults       \* bound: tweets that are missing or cannot be read

ASSUME ReadsAssumption ==
    /\ Starts \subseteq Nat /\ Counts \subseteq Nat /\ MaxLength \in Nat /\ MaxFaults \in Nat
    /\ IsFiniteSet(Pool) /\ Capacity \in Nat \ {0} /\ Dates \in [1 .. MaxLength -> Nat]

VARIABLES
    phase,          \* the caller: "idle", "submit", "await", "copy", "write", "answered", "thrown"
    length, start, toRetrieve,
    next,           \* the caller's loop
    tasks,          \* retrievers that wait for a thread
    tpc, place,     \* a thread of the pool: where it is, its tweet
    array, gen,     \* the ArrayList's array; 0 is null.  Its identity
    size,           \* the ArrayList's size
    ref, room, slot,    \* a thread's array, its length, the index it writes to
    copy,               \* a thread's longer copy of the array
    latch,
    disturbed,      \* an add was under way when the wait ended, or has begun since
    sorted, written,    \* the sorted copy; how much of it is in the list again
    answer,
    failed, missing,            \* history: retrievers that died; places of missing tweets
    raced, timedOut             \* history: two adds overlapped; the time was over

callVars == <<length, start, toRetrieve>>
listVars == <<array, gen, size>>
localVars == <<ref, room, slot, copy>>
sortVars == <<sorted, written>>
histVars == <<failed, missing, raced>>
vars == <<phase, callVars, next, tasks, tpc, place, listVars, localVars, latch, disturbed, sortVars,
          answer, histVars, timedOut>>

Places == 1 .. MaxLength
Adding == {"replace", "slot", "bump", "store"}  \* inside ArrayList.add
\* Until the latch is counted down no other thread need see what a thread has written.
Unsettled == Adding \cup {"count"}
Page == {p \in 1 .. length : start < p /\ p <= toRetrieve}

Init ==
    /\ phase = "idle" /\ length = 0 /\ start = 0 /\ toRetrieve = 0 /\ next = 0 /\ tasks = <<>>
    /\ tpc = [t \in Pool |-> "idle"] /\ place = [t \in Pool |-> 0]
    /\ array = [i \in 1 .. Capacity |-> 0] /\ gen = 0 /\ size = 0
    /\ ref = [t \in Pool |-> 0] /\ room = [t \in Pool |-> 0] /\ slot = [t \in Pool |-> 0]
    /\ copy = [t \in Pool |-> <<>>]
    /\ latch = 0 /\ disturbed = FALSE /\ sorted = <<>> /\ written = 0 /\ answer = <<>>
    /\ failed = 0 /\ missing = {} /\ raced = FALSE /\ timedOut = FALSE

-----------------------------------------------------------------------------
(* The caller.                                                                  *)

\* The latch counts as many tweets as the page ends at, the loop begins at start.
LatchFewer(st, n) == IF n > 0 THEN n - 1 ELSE 0    \* variation: one too few
LatchFor(st, n) == n

Call ==
    /\ phase = "idle"
    /\ \E n \in 0 .. MaxLength, st \in Starts, c \in Counts :
         /\ length' = n /\ start' = st /\ next' = st
         /\ toRetrieve' = IF c < n THEN c ELSE n
         /\ latch' = LatchFor(st, toRetrieve')
    /\ phase' = "submit"
    /\ UNCHANGED <<tasks, tpc, place, listVars, localVars, disturbed, sortVars, answer, histVars,
                   timedOut>>

Submit ==
    /\ phase = "submit" /\ next < toRetrieve
    /\ tasks' = Append(tasks, next + 1)
    /\ next' = next + 1
    /\ UNCHANGED <<phase, callVars, tpc, place, listVars, localVars, latch, disturbed, sortVars,
                   answer, histVars, timedOut>>

Submitted ==
    /\ phase = "submit" /\ next >= toRetrieve
    /\ phase' = "await"
    /\ UNCHANGED <<callVars, next, tasks, tpc, place, listVars, localVars, latch, disturbed,
                   sortVars, answer, histVars, timedOut>>

\* After asyncTimeout retrievers may still add, and what they have added be unseen.
StopWaiting ==
    /\ phase' = "copy"
    /\ disturbed' = \E t \in Pool : tpc[t] \in Unsettled
    /\ UNCHANGED <<callVars, next, tasks, tpc, place, listVars, localVars, latch, sortVars, answer,
                   histVars>>

Opened  == phase = "await" /\ latch = 0 /\ timedOut' = FALSE /\ StopWaiting
TimeOut == phase = "await" /\ latch > 0 /\ timedOut' = TRUE /\ StopWaiting

sortingVars == <<callVars, next, tasks, tpc, place, gen, size, localVars, latch, disturbed, histVars,
                 timedOut>>

\* Collections.sort sorts a copy (List.toArray), whose elements getDate is called of,
\* unless there is only one.
Elements == [i \in 1 .. size |-> IF i <= Len(array) THEN array[i] ELSE 0]
AsAdded(s) == s         \* variation: not sorted
\* Each tweet goes before those that are earlier; the sort is stable.
EarlierThan(p, s) == {i \in DOMAIN s : Dates[s[i]] < Dates[p]}
PutByDate(s, p) == IF EarlierThan(p, s) = {} THEN Append(s, p)
                   ELSE InsertAt(s, Min(EarlierThan(p, s)), p)
Sorted(s) == FoldLeft(PutByDate, <<>>, s)
SortCopy ==
    /\ phase = "copy" /\ (size <= 1 \/ 0 \notin ToSet(Elements))
    /\ phase' = "write"
    /\ sorted' = IF size <= 1 THEN Elements ELSE Sorted(Elements)
    /\ written' = 0
    /\ UNCHANGED <<sortingVars, array, answer>>
SortThrows ==
    /\ phase = "copy" /\ (disturbed \/ (size > 1 /\ 0 \in ToSet(Elements)))
    /\ phase' = "thrown"
    /\ UNCHANGED <<sortingVars, array, sortVars, answer>>

\* It sets one element of the list after the other (ListIterator.next, set), and throws
\* where it notices that there is no such element or that the list was changed.
WriteBack ==
    /\ phase = "write" /\ written < Len(sorted) /\ written < size /\ written < Len(array)
    /\ array' = [array EXCEPT ![written + 1] = sorted[written + 1]]
    /\ written' = written + 1
    /\ UNCHANGED <<sortingVars, phase, sorted, answer>>
WriteThrows ==
    /\ phase = "write" /\ written < Len(sorted)
    /\ disturbed \/ written >= size \/ written >= Len(array)
    /\ phase' = "thrown"
    /\ UNCHANGED <<sortingVars, array, sortVars, answer>>

Return ==
    /\ phase = "write" /\ written = Len(sorted)
    /\ phase' = "answered" /\ answer' = Elements
    /\ UNCHANGED <<sortingVars, array, sortVars>>

-----------------------------------------------------------------------------
(* A thread of the pool: a retriever.                                           *)

PoolGoto(t, p) == tpc' = [tpc EXCEPT ![t] = p]
callerVars == <<phase, callVars, next, sortVars, answer, timedOut>>

Take(t) ==
    /\ tpc[t] = "idle" /\ tasks # <<>>
    /\ tasks' = Tail(tasks)
    /\ place' = [place EXCEPT ![t] = Head(tasks)]
    /\ PoolGoto(t, "fetch")
    /\ UNCHANGED <<callerVars, disturbed, listVars, localVars, latch, histVars>>

Fetch(t) ==
    /\ tpc[t] = "fetch" /\ PoolGoto(t, "add")
    /\ UNCHANGED <<callerVars, disturbed, tasks, place, listVars, localVars, latch, histVars>>

\* A tweet that is missing is only counted.
Faults == failed + Cardinality(missing)
FetchNull(t) ==
    /\ tpc[t] = "fetch" /\ Faults < MaxFaults
    /\ missing' = missing \cup {place[t]}
    /\ PoolGoto(t, "count")
    /\ UNCHANGED <<callerVars, disturbed, tasks, place, listVars, localVars, latch, failed, raced>>

\* An exception ends a retriever; the latch never hears of it.
Die(t) ==
    /\ failed' = failed + 1
    /\ PoolGoto(t, "idle") /\ place' = [place EXCEPT ![t] = 0]
    /\ UNCHANGED <<callerVars, disturbed, tasks, listVars, localVars, latch, missing, raced>>
FetchFails(t) == tpc[t] = "fetch" /\ Faults < MaxFaults /\ Die(t)

\* add begins with ensureCapacity, which copies a full array to a longer one.
Add(t) ==
    /\ tpc[t] = "add"
    /\ disturbed' = (disturbed \/ phase \in {"copy", "write"})
    /\ raced' = (raced \/ \E u \in Pool \ {t} : tpc[u] \in Unsettled)
    /\ IF size + 1 > Len(array)
         THEN /\ copy' = [copy EXCEPT ![t] = array \o [i \in 1 .. Len(array) \div 2 + 1 |-> 0]]
              /\ PoolGoto(t, "replace")
         ELSE PoolGoto(t, "slot") /\ UNCHANGED copy
    /\ UNCHANGED <<callerVars, tasks, place, listVars, ref, room, slot, latch, failed, missing>>

Replace(t) ==
    /\ tpc[t] = "replace"
    /\ array' = copy[t] /\ gen' = gen + 1
    /\ PoolGoto(t, "slot")
    /\ UNCHANGED <<callerVars, disturbed, tasks, place, size, localVars, latch, histVars>>

\* elementData[size++] = e
Slot(t) ==
    /\ tpc[t] = "slot"
    /\ ref' = [ref EXCEPT ![t] = gen] /\ room' = [room EXCEPT ![t] = Len(array)]
    /\ slot' = [slot EXCEPT ![t] = size + 1]
    /\ PoolGoto(t, "bump")
    /\ UNCHANGED <<callerVars, disturbed, tasks, place, listVars, copy, latch, histVars>>

Bump(t) ==
    /\ tpc[t] = "bump"
    /\ size' = slot[t]
    /\ PoolGoto(t, "store")
    /\ UNCHANGED <<callerVars, disturbed, tasks, place, array, gen, localVars, latch, histVars>>

\* A write to an array that has been replaced is lost.
Store(t) ==
    /\ tpc[t] = "store" /\ slot[t] <= room[t]
    /\ array' = IF ref[t] = gen THEN [array EXCEPT ![slot[t]] = place[t]] ELSE array
    /\ PoolGoto(t, "count")
    /\ UNCHANGED <<callerVars, disturbed, tasks, place, gen, size, localVars, latch, histVars>>
StoreOutside(t) == tpc[t] = "store" /\ slot[t] > room[t] /\ Die(t)

CountDown(t) ==
    /\ tpc[t] = "count"
    /\ latch' = IF latch > 0 THEN latch - 1 ELSE 0
    /\ PoolGoto(t, "idle") /\ place' = [place EXCEPT ![t] = 0]
    /\ UNCHANGED <<callerVars, disturbed, tasks, listVars, localVars, histVars>>

-----------------------------------------------------------------------------
Caller == Call \/ Submit \/ Submitted \/ Opened \/ TimeOut \/ SortCopy \/ SortThrows
          \/ WriteBack \/ WriteThrows \/ Return
Retrieve(t) == \/ Take(t) \/ Fetch(t) \/ FetchNull(t) \/ FetchFails(t) \/ Add(t) \/ Replace(t) \/ Slot(t)
               \/ Bump(t) \/ Store(t) \/ StoreOutside(t) \/ CountDown(t)
Next == Caller \/ \E t \in Pool : Retrieve(t)
Spec == Init /\ [][Next]_vars

-----------------------------------------------------------------------------
\* What is answered belongs to the page, or is the null of a write that was lost; where no
\* add was late for the wait, it is each tweet once, the latest first, however the adds to
\* the list overlapped and although the list is sorted in place (the retrievers, the sort).
AnswerIsOfThePage ==
    /\ ToSet(answer) \subseteq Page \cup {0}
    /\ ~disturbed => /\ IsInjective(answer)
                     /\ \A i, j \in DOMAIN answer : i < j => Dates[answer[i]] >= Dates[answer[j]]

\* When the caller has waited for all retrievers and no two adds overlapped, the answer has
\* every tweet of the page that there is (the latch, tweetList.add).
OnlyRacesLose ==
    phase \in {"answered", "thrown"} /\ ~raced /\ ~timedOut =>
        phase = "answered" /\ ToSet(answer) = Page \ missing
=============================================================================
