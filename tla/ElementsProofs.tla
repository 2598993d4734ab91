--------------------------- MODULE ElementsProofs ---------------------------
(***************************************************************************)
(* On any page, whatever its handlers and callbacks do: an element has a   *)
(* listener for exactly the types it has an entry of handlers for, which   *)
(* may be empty, a function bound with one is called once, what is removed *)
(* is forgotten, and the functions that wait for the document are called   *)
(* once.  As long as no callback stops a running loop over the timers and  *)
(* nothing throws, every queue of effects moves, and an element is left as *)
(* it was last asked.                                                      *)
(***************************************************************************)
EXTENDS Elements, FiniteSetTheorems, TLAPS

-----------------------------------------------------------------------------
(* The entries of the cache, and what can be read from them.                    *)

Typed(name) == CASE name = "events" -> EventMaps
                 [] name = "fxqueue" -> Seq(Nat)
                 [] OTHER -> {"shown", "none"}

Entries == {en \in UNION {[ns -> DataValues] : ns \in SUBSET DataNames} :
                \A n \in DOMAIN en : en[n] \in Typed(n)}
EntryOK(en) == en = None \/ en \in Entries

LEMMA TypedIsData == \A n \in DataNames : Typed(n) \subseteq DataValues
  BY DEF Typed, DataNames, DataValues

LEMMA NoneIsOutside == None \notin Entries /\ None \notin DataValues
  BY NoneIsNoData DEF Entries

\* No data is an entry.
LEMMA EmptyEntry == <<>> \in Entries /\ DOMAIN <<>> = {} /\ <<>> # None
  <1>1. <<>> \in [{} -> DataValues] /\ DOMAIN <<>> = {}
    OBVIOUS
  <1>2. <<>> \in Entries
    BY <1>1 DEF Entries
  <1> QED BY <1>1, <1>2, NoneIsOutside

\* An entry with "events" has them, and one without has none; so with the queue.
LEMMA Reading ==
    ASSUME NEW en, EntryOK(en)
    PROVE  /\ en # None /\ "events" \in DOMAIN en => EventsOf(en) = en["events"]
           /\ ~(en # None /\ "events" \in DOMAIN en) => EventsOf(en) = <<>>
           /\ en # None /\ "fxqueue" \in DOMAIN en => QueueOf(en) = en["fxqueue"]
           /\ ~(en # None /\ "fxqueue" \in DOMAIN en) => QueueOf(en) = <<>>
  <1>1. CASE en = None
    BY <1>1 DEF EventsOf, QueueOf, Data
  <1>2. CASE en # None
    <2>1. \A n \in DOMAIN en : en[n] # None
      BY <1>2, NoneIsOutside DEF EntryOK, Entries
    <2> QED BY <1>2, <2>1 DEF EventsOf, QueueOf, Data
  <1> QED BY <1>1, <1>2

LEMMA EmptyMaps == <<>> \in EventMaps /\ <<>> \in Seq(Nat)
  <1>1. <<>> \in [{} -> HandlerMaps]
    OBVIOUS
  <1>2. <<>> \in EventMaps
    BY <1>1 DEF EventMaps
  <1> QED BY <1>2

LEMMA ReadingTyped ==
    ASSUME NEW en, EntryOK(en)
    PROVE  EventsOf(en) \in EventMaps /\ QueueOf(en) \in Seq(Nat)
  <1>1. en # None /\ "events" \in DOMAIN en => en["events"] \in EventMaps
    BY DEF EntryOK, Entries, Typed
  <1>2. en # None /\ "fxqueue" \in DOMAIN en => en["fxqueue"] \in Seq(Nat)
    BY DEF EntryOK, Entries, Typed
  <1> QED BY <1>1, <1>2, Reading, EmptyMaps

\* Asking for data changes none.
LEMMA TouchedReads ==
    ASSUME NEW en, EntryOK(en)
    PROVE  /\ Touched(en) \in Entries
           /\ EventsOf(Touched(en)) = EventsOf(en) /\ QueueOf(Touched(en)) = QueueOf(en)
  <1>1. CASE en = None
    <2>1. Touched(en) = <<>> /\ EntryOK(<<>>) /\ <<>> # None
      BY <1>1, EmptyEntry DEF Touched, EntryOK
    <2>2. EventsOf(<<>>) = <<>> /\ QueueOf(<<>>) = <<>>
      BY <2>1, Reading, EmptyEntry
    <2>3. EventsOf(en) = <<>> /\ QueueOf(en) = <<>>
      BY <1>1, Reading
    <2> QED BY <2>1, <2>2, <2>3, EmptyEntry
  <1>2. CASE en # None
    BY <1>2 DEF Touched, EntryOK
  <1> QED BY <1>1, <1>2

\* Data that is set is read, and the other data stays.
LEMMA WithReads ==
    ASSUME NEW en, EntryOK(en), NEW name \in DataNames, NEW v \in Typed(name)
    PROVE  /\ WithData(en, name, v) \in Entries
           /\ EventsOf(WithData(en, name, v)) = IF name = "events" THEN v ELSE EventsOf(en)
           /\ QueueOf(WithData(en, name, v)) = IF name = "fxqueue" THEN v ELSE QueueOf(en)
  <1> DEFINE t == Touched(en)
             new == WithData(en, name, v)
  <1>1. t \in Entries /\ EventsOf(t) = EventsOf(en) /\ QueueOf(t) = QueueOf(en)
    BY TouchedReads
  <1>2. \A n \in DOMAIN t : n \in DataNames /\ t[n] \in Typed(n)
    BY <1>1 DEF Entries
  <1>3. \A n \in DOMAIN t : en[n] = t[n]
    BY EmptyEntry DEF Touched
  <1>4. new = [n \in DOMAIN t \cup {name} |-> IF n = name THEN v ELSE t[n]]
    BY <1>3 DEF WithData
  <1>5. new \in Entries
    <2>1. DOMAIN t \cup {name} \in SUBSET DataNames
      BY <1>2
    <2>2. \A n \in DOMAIN t \cup {name} : (IF n = name THEN v ELSE t[n]) \in DataValues
      BY <1>2, <2>1, TypedIsData
    <2>3. new \in [DOMAIN t \cup {name} -> DataValues]
      BY <1>4, <2>2
    <2>4. \A n \in DOMAIN new : new[n] \in Typed(n)
      BY <1>2, <1>4
    <2> HIDE DEF t, new
    <2> QED BY <2>1, <2>3, <2>4 DEF Entries
  <1>6. new # None /\ t # None /\ EntryOK(new) /\ EntryOK(t)
    BY <1>1, <1>5, NoneIsOutside DEF EntryOK
  <1>7. DOMAIN new = DOMAIN t \cup {name}
    BY <1>4
  <1>8. \A n \in DOMAIN new : new[n] = IF n = name THEN v ELSE t[n]
    BY <1>4
  <1> HIDE DEF t, new
  <1>9. EventsOf(new) = IF name = "events" THEN v ELSE EventsOf(t)
    BY <1>6, <1>7, <1>8, Reading
  <1>10. QueueOf(new) = IF name = "fxqueue" THEN v ELSE QueueOf(t)
    BY <1>6, <1>7, <1>8, Reading
  <1> QED BY <1>1, <1>5, <1>9, <1>10 DEF t, new

\* Events that are taken away are gone, and the queue stays.
LEMMA WithoutReads ==
    ASSUME NEW en, EntryOK(en)
    PROVE  /\ EntryOK(WithoutData(en, "events"))
           /\ EventsOf(WithoutData(en, "events")) = <<>>
           /\ QueueOf(WithoutData(en, "events")) = QueueOf(en)
  <1> DEFINE t == Touched(en)
             left == DOMAIN t \ {"events"}
             new == WithoutData(en, "events")
  <1>1. t \in Entries /\ QueueOf(t) = QueueOf(en) /\ EntryOK(t) /\ t # None
    BY TouchedReads, NoneIsOutside DEF EntryOK
  <1>2. \A n \in DOMAIN t : en[n] = t[n]
    BY EmptyEntry DEF Touched
  <1>3. new = IF left = {} THEN None ELSE [n \in left |-> t[n]]
    BY <1>2 DEF WithoutData
  <1>4. CASE left = {}
    <2>1. new = None /\ "fxqueue" \notin DOMAIN t
      BY <1>3, <1>4
    <2> HIDE DEF t, new
    <2>2. QueueOf(t) = <<>> /\ EventsOf(None) = <<>> /\ QueueOf(None) = <<>>
      BY <1>1, <2>1, Reading DEF EntryOK
    <2> QED BY <1>1, <2>1, <2>2 DEF EntryOK, new
  <1>5. CASE left # {}
    <2>1. new = [n \in left |-> t[n]]
      BY <1>3, <1>5
    <2>2. \A n \in left : n \in DataNames /\ t[n] \in Typed(n) /\ t[n] \in DataValues
      BY <1>1, TypedIsData DEF Entries
    <2>3. new \in [left -> DataValues] /\ \A n \in DOMAIN new : new[n] \in Typed(n)
      BY <2>1, <2>2
    <2>4. new \in Entries
      <3>1. left \in SUBSET DataNames
        BY <2>2
      <3> HIDE DEF left, new
      <3> QED BY <2>3, <3>1 DEF Entries
    <2>5. new # None /\ EntryOK(new) /\ DOMAIN new = left
      BY <2>1, <2>4, NoneIsOutside DEF EntryOK
    <2>6. \A n \in left : new[n] = t[n]
      BY <2>1
    <2>7. "events" \notin left /\ ("fxqueue" \in left <=> "fxqueue" \in DOMAIN t)
      OBVIOUS
    <2> HIDE DEF t, new, left
    <2>8. EventsOf(new) = <<>> /\ QueueOf(new) = QueueOf(t)
      BY <1>1, <2>5, <2>6, <2>7, Reading
    <2> QED BY <1>1, <2>5, <2>8 DEF new
  <1> QED BY <1>4, <1>5

-----------------------------------------------------------------------------
(* The waiting calls: what matters is that a complete is of an animation.       *)

FrameOK(f, n) ==
    "call" \in DOMAIN f /\ (f.call = "complete" => f \in [call : {"complete"}, paused : BOOLEAN, anim : 1 .. n])
Waiting(s, n) == \E S : s \in Seq(S) /\ \A f \in S : FrameOK(f, n)

\* Calls that are added, taken off or looked at.
LEMMA WaitingPush ==
    ASSUME NEW n, NEW s, Waiting(s, n), NEW f, FrameOK(f, n)
    PROVE  Waiting(<<f>> \o s, n)
  <1>1. PICK S : s \in Seq(S) /\ \A g \in S : FrameOK(g, n)
    BY DEF Waiting
  <1> DEFINE U == S \cup {f}
  <1>2. s \in Seq(U) /\ <<f>> \in Seq(U)
    BY <1>1
  <1>3. <<f>> \o s \in Seq(U)
    BY <1>2
  <1> QED BY <1>1, <1>3 DEF Waiting

LEMMA WaitingTop ==
    ASSUME NEW n, NEW s, Waiting(s, n), s # <<>>
    PROVE  /\ Waiting(Tail(s), n) /\ FrameOK(Head(s), n)
           /\ Len(s) \in DOMAIN s
  <1>1. PICK S : s \in Seq(S) /\ \A g \in S : FrameOK(g, n)
    BY DEF Waiting
  <1>2. Tail(s) \in Seq(S) /\ Head(s) \in S /\ Len(s) \in DOMAIN s
    BY <1>1
  <1> QED BY <1>1, <1>2 DEF Waiting

LEMMA WaitingNone == \A n : Waiting(<<>>, n)
  <1> TAKE n
  <1>1. PICK U : U = {}
    OBVIOUS
  <1>2. <<>> \in Seq(U) /\ \A f \in U : FrameOK(f, n)
    BY <1>1
  <1> QED BY <1>2 DEF Waiting

\* More animations keep them.
LEMMA WaitingMore ==
    ASSUME NEW n \in Nat, NEW m \in Nat, n <= m, NEW s, Waiting(s, n)
    PROVE  Waiting(s, m)
  <1>1. \A f : FrameOK(f, n) => FrameOK(f, m)
    <2>1. 1 .. n \subseteq 1 .. m
      OBVIOUS
    <2> QED BY <2>1 DEF FrameOK
  <1>2. PICK S : s \in Seq(S) /\ \A f \in S : FrameOK(f, n)
    BY DEF Waiting
  <1>3. \A f \in S : FrameOK(f, m)
    BY <1>1, <1>2
  <1> QED BY <1>2, <1>3 DEF Waiting

\* Calls that are changed one by one.
LEMMA WaitingEach ==
    ASSUME NEW n, NEW s, Waiting(s, n), NEW t, DOMAIN t = DOMAIN s, t = [k \in DOMAIN s |-> t[k]],
           \A k \in DOMAIN s : FrameOK(s[k], n) => FrameOK(t[k], n)
    PROVE  Waiting(t, n)
  <1>1. PICK S : s \in Seq(S) /\ \A g \in S : FrameOK(g, n)
    BY DEF Waiting
  <1>2. \A k \in DOMAIN s : FrameOK(t[k], n)
    BY <1>1
  <1> DEFINE U == {t[k] : k \in DOMAIN s}
  <1>3. DOMAIN s = 1 .. Len(s) /\ Len(s) \in Nat
    BY <1>1
  <1>4. t \in [1 .. Len(s) -> U]
    BY <1>3
  <1>5. t \in Seq(U)
    BY <1>3, <1>4
  <1> QED BY <1>2, <1>5 DEF Waiting

\* A loop that does not come to the handlers deleted is a call as before.
LEMMA WaitingSkips ==
    ASSUME NEW n, NEW s, Waiting(s, n), NEW e, NEW ts, NEW hs, NEW gone
    PROVE  Waiting(Skipping(s, e, ts, hs, gone), n)
  <1> DEFINE t == Skipping(s, e, ts, hs, gone)
  <1>1. DOMAIN t = DOMAIN s /\ t = [k \in DOMAIN s |-> t[k]]
    BY DEF Skipping
  <1>2. ASSUME NEW k \in DOMAIN s, FrameOK(s[k], n) PROVE FrameOK(t[k], n)
    <2>1. CASE s[k].call = "event"
      <3>1. t[k].call = "event" /\ "call" \in DOMAIN t[k]
        BY <1>2, <2>1 DEF Skipping, FrameOK
      <3> QED BY <3>1 DEF FrameOK
    <2>2. CASE s[k].call # "event"
      BY <1>2, <2>2 DEF Skipping
    <2> QED BY <2>1, <2>2
  <1> HIDE DEF t
  <1>3. Waiting(t, n)
    BY <1>1, <1>2, WaitingEach
  <1> QED BY <1>3 DEF t

\* What is thrown leaves at most the browser's call.
LEMMA WaitingUnwound ==
    ASSUME NEW n, Waiting(stack, n), stack # <<>>
    PROVE  Waiting(Unwound, n)
  <1>1. PICK S : stack \in Seq(S) /\ \A g \in S : FrameOK(g, n)
    BY DEF Waiting
  <1> DEFINE f == stack[Len(stack)]
             g == [f EXCEPT !.paused = FALSE, !.due = {}, !.over = TRUE]
  <1>2. FrameOK(f, n)
    BY <1>1
  <1>3. CASE f.call = "event" /\ f.native
    <2>1. "call" \in DOMAIN g /\ g.call = "event"
      BY <1>2, <1>3 DEF FrameOK
    <2>2. FrameOK(g, n)
      BY <2>1 DEF FrameOK
    <2>3. Waiting(<<g>>, n)
      <3>1. <<g>> \in Seq({g})
        OBVIOUS
      <3> QED BY <2>2, <3>1 DEF Waiting
    <2> QED BY <1>3, <2>3 DEF Unwound
  <1>4. CASE ~(f.call = "event" /\ f.native)
    BY <1>4, WaitingNone DEF Unwound
  <1> QED BY <1>3, <1>4

-----------------------------------------------------------------------------
(* Effects, of any element: they keep the events and the other queues.          *)

CacheOK == cache \in [Elems -> {None} \cup Entries]
QueuesOwn ==
    \A e \in Elems : \A i \in DOMAIN Queue(e) :
        Queue(e)[i] \in 1 .. Len(anims) /\ anims[Queue(e)[i]].elem = e
FxInv == CacheOK /\ anims \in Seq(Anims) /\ Waiting(stack, Len(anims)) /\ QueuesOwn

\* The queue of e becomes q; the other queues and the events stay.
Requeued(e, q) ==
    /\ cache' \in [Elems -> {None} \cup Entries]
    /\ \A x \in Elems : /\ EventsOf(cache'[x]) = EventsOf(cache[x])
                        /\ QueueOf(cache'[x]) = IF x = e THEN q ELSE QueueOf(cache[x])
\* The queues that are empty stay so, but for those of X.
NoneBegun(X) ==
    \A x \in Elems : /\ EventsOf(cache'[x]) = EventsOf(cache[x])
                     /\ x \notin X /\ QueueOf(cache[x]) = <<>> => QueueOf(cache'[x]) = <<>>

LEMMA EntryChanged ==
    ASSUME CacheOK, NEW e \in Elems, NEW en, EntryOK(en), EventsOf(en) = EventsOf(cache[e]),
           cache' = [cache EXCEPT ![e] = en]
    PROVE  Requeued(e, QueueOf(en))
  BY DEF CacheOK, EntryOK, Requeued

LEMMA ShowReads ==
    ASSUME NEW en, EntryOK(en)
    PROVE  /\ EntryOK(ShowEntry(en)) /\ EventsOf(ShowEntry(en)) = EventsOf(en)
           /\ QueueOf(ShowEntry(en)) = QueueOf(en)
  <1>1. "shown" \in Typed("olddisplay") /\ "olddisplay" \in DataNames
    BY DEF Typed, DataNames
  <1>2. CASE Data(en, "olddisplay") = "none"
    <2>1. ShowEntry(en) = WithData(en, "olddisplay", "shown")
      BY <1>2 DEF ShowEntry
    <2> QED BY <1>1, <2>1, WithReads DEF EntryOK
  <1>3. CASE Data(en, "olddisplay") # "none"
    <2>1. ShowEntry(en) = Touched(en)
      BY <1>3 DEF ShowEntry
    <2> QED BY <2>1, TouchedReads DEF EntryOK
  <1> QED BY <1>2, <1>3

LEMMA HideReads ==
    ASSUME NEW en, EntryOK(en), NEW seen
    PROVE  /\ EntryOK(HideEntry(en, seen)) /\ EventsOf(HideEntry(en, seen)) = EventsOf(en)
           /\ QueueOf(HideEntry(en, seen)) = QueueOf(en)
  <1> DEFINE v == IF seen THEN "shown" ELSE "none"
  <1>1. v \in Typed("olddisplay") /\ "olddisplay" \in DataNames
    BY DEF Typed, DataNames
  <1>2. HideEntry(en, seen) = en \/ HideEntry(en, seen) = WithData(en, "olddisplay", v)
    BY DEF HideEntry
  <1> HIDE DEF v
  <1> QED BY <1>1, <1>2, WithReads DEF EntryOK

\* An animation that begins keeps the queue it was begun with.
LEMMA Begins ==
    ASSUME CacheOK, NEW n \in Nat, NEW a \in 1 .. n, NEW anim, anim.elem \in Elems, NEW entry, EntryOK(entry),
           EventsOf(entry) = EventsOf(cache[anim.elem]), NEW running, NEW waits, Waiting(waits, n),
           Begin(a, anim, entry, running, waits)
    PROVE  Requeued(anim.elem, QueueOf(entry)) /\ Waiting(stack', n)
  <1>1. FrameOK(Completing(a), n)
    BY DEF Completing, FrameOK
  <1>2. CASE Hidden(anim.elem) = (anim.kind = "hide")
    <2>1. cache' = [cache EXCEPT ![anim.elem] = entry] /\ stack' = <<Completing(a)>> \o waits
      BY <1>2 DEF Begin
    <2> QED BY <1>1, <2>1, EntryChanged, WaitingPush
  <1>3. CASE Hidden(anim.elem) # (anim.kind = "hide")
    <2>1. stack' = waits /\ ShowFirst(anim, entry)
      BY <1>3 DEF Begin
    <2> DEFINE en == IF anim.kind = "show" THEN ShowEntry(entry) ELSE entry
    <2>2. cache' = [cache EXCEPT ![anim.elem] = en]
      BY <2>1 DEF ShowFirst
    <2>3. EntryOK(en) /\ EventsOf(en) = EventsOf(entry) /\ QueueOf(en) = QueueOf(entry)
      BY ShowReads
    <2> HIDE DEF en
    <2> QED BY <2>1, <2>2, <2>3, EntryChanged
  <1> QED BY <1>2, <1>3

LEMMA QueueTyped ==
    ASSUME FxInv, NEW e \in Elems
    PROVE  EntryOK(cache[e]) /\ Queue(e) \in Seq(Nat) /\ "fxqueue" \in DataNames /\ Typed("fxqueue") = Seq(Nat)
  BY ReadingTyped DEF FxInv, CacheOK, EntryOK, Queue, DataNames, Typed

LEMMA Dequeues ==
    ASSUME FxInv, NEW e \in Elems, NEW q \in {<<>>, Queue(e)}, NEW running, NEW waits,
           Waiting(waits, Len(anims)), Dequeue(e, q, running, waits)
    PROVE  Requeued(e, IF q = <<>> THEN <<>> ELSE Tail(q)) /\ Waiting(stack', Len(anims))
  <1> DEFINE rest == IF q = <<>> THEN <<>> ELSE Tail(q)
             entry == WithData(cache[e], "fxqueue", rest)
  <1>1. q \in Seq(Nat) /\ rest \in Seq(Nat) /\ EntryOK(cache[e])
    <2>1. Queue(e) \in Seq(Nat) /\ EntryOK(cache[e])
      BY QueueTyped
    <2>2. q \in Seq(Nat)
      BY <2>1, EmptyMaps
    <2>3. q # <<>> => Tail(q) \in Seq(Nat)
      BY <2>2
    <2> QED BY <2>1, <2>2, <2>3
  <1>2. EntryOK(entry) /\ EventsOf(entry) = EventsOf(cache[e]) /\ QueueOf(entry) = rest
    <2>1. rest \in Typed("fxqueue") /\ "fxqueue" \in DataNames /\ "fxqueue" # "events"
      BY <1>1, QueueTyped
    <2> HIDE DEF rest
    <2> QED BY <1>1, <2>1, WithReads DEF EntryOK
  <1>3. CASE rest = <<>>
    <2>1. cache' = [cache EXCEPT ![e] = entry] /\ stack' = waits
      BY <1>3 DEF Dequeue
    <2> HIDE DEF entry
    <2>2. Requeued(e, QueueOf(entry))
      BY <1>2, <2>1, EntryChanged DEF FxInv
    <2> QED BY <1>2, <2>1, <2>2
  <1>4. CASE rest # <<>>
    <2>1. q # <<>> /\ q = Queue(e) /\ rest = Tail(q)
      BY <1>4
    <2>2. 2 \in DOMAIN q /\ rest[1] = q[2]
      BY <1>1, <1>4, <2>1
    <2>3. rest[1] \in 1 .. Len(anims) /\ anims[rest[1]].elem = e
      BY <2>1, <2>2 DEF FxInv, QueuesOwn
    <2>4. Begin(rest[1], anims[rest[1]], entry, running, waits)
      BY <1>4 DEF Dequeue
    <2>5. Len(anims) \in Nat /\ CacheOK
      BY DEF FxInv
    <2> HIDE DEF rest, entry
    <2>6. Requeued(anims[rest[1]].elem, QueueOf(entry)) /\ Waiting(stack', Len(anims))
      BY <1>2, <2>3, <2>4, <2>5, Begins
    <2> QED BY <1>2, <2>3, <2>6 DEF rest
  <1> QED BY <1>3, <1>4

\* What the queues need: the new one is of its own element's animations.
LEMMA QueuesStay ==
    ASSUME FxInv, anims' \in Seq(Anims), Len(anims') >= Len(anims),
           \A i \in 1 .. Len(anims) : anims'[i].elem = anims[i].elem,
           Waiting(stack', Len(anims')), NEW e, NEW q, Requeued(e, q),
           \A i \in DOMAIN q : q[i] \in 1 .. Len(anims') /\ (e \in Elems => anims'[q[i]].elem = e)
    PROVE  FxInv' /\ NoneBegun({e})
  <1>1. QueuesOwn'
    <2> SUFFICES ASSUME NEW x \in Elems, NEW i \in DOMAIN QueueOf(cache'[x])
                 PROVE  /\ QueueOf(cache'[x])[i] \in 1 .. Len(anims')
                        /\ anims'[QueueOf(cache'[x])[i]].elem = x
      BY DEF QueuesOwn, Queue
    <2>1. CASE x = e
      BY <2>1 DEF Requeued
    <2>2. CASE x # e
      <3>1. QueueOf(cache'[x]) = Queue(x)
        BY <2>2 DEF Requeued, Queue
      <3>2. Queue(x)[i] \in 1 .. Len(anims) /\ anims[Queue(x)[i]].elem = x
        BY <3>1 DEF FxInv, QueuesOwn
      <3>3. Len(anims) \in Nat /\ Len(anims') \in Nat
        BY DEF FxInv
      <3> QED BY <3>1, <3>2, <3>3
    <2> QED BY <2>1, <2>2
  <1>2. CacheOK'
    BY DEF CacheOK, Requeued
  <1>3. NoneBegun({e})
    BY DEF NoneBegun, Requeued
  <1> QED BY <1>1, <1>2, <1>3 DEF FxInv

\* A queue that loses its first, or all, keeps what the queues need.
LEMMA QueuesShrink ==
    ASSUME FxInv, anims' = anims, Waiting(stack', Len(anims)), NEW e \in Elems, NEW q \in {<<>>, Queue(e)},
           Requeued(e, IF q = <<>> THEN <<>> ELSE Tail(q))
    PROVE  FxInv' /\ NoneBegun({})
  <1> DEFINE rest == IF q = <<>> THEN <<>> ELSE Tail(q)
  <1>1. \A i \in DOMAIN rest : rest[i] \in 1 .. Len(anims') /\ anims'[rest[i]].elem = e
    <2>1. CASE q = <<>>
      BY <2>1
    <2>2. CASE q # <<>>
      <3>1. q = Queue(e) /\ q \in Seq(Nat) /\ rest = Tail(q)
        BY <2>2, QueueTyped
      <3>2. \A i \in DOMAIN rest : i + 1 \in DOMAIN q /\ rest[i] = q[i + 1]
        BY <2>2, <3>1
      <3>3. \A j \in DOMAIN q : q[j] \in 1 .. Len(anims) /\ anims[q[j]].elem = e
        BY <3>1 DEF FxInv, QueuesOwn
      <3> QED BY <3>2, <3>3
    <2> QED BY <2>1, <2>2
  <1>2. FxInv' /\ NoneBegun({e})
    <2>1. anims' \in Seq(Anims) /\ Len(anims') >= Len(anims)
      BY DEF FxInv
    <2> HIDE DEF rest
    <2> QED BY <1>1, <2>1, QueuesStay DEF rest
  <1>3. QueueOf(cache[e]) = <<>> => QueueOf(cache'[e]) = <<>>
    BY DEF Requeued, Queue
  <1> QED BY <1>2, <1>3 DEF NoneBegun

\* With the cache and the animations as they were, only the waiting calls matter.
LEMMA CallsOnly ==
    ASSUME FxInv, anims' = anims, cache' = cache, Waiting(stack', Len(anims))
    PROVE  FxInv' /\ NoneBegun({})
  <1>1. QueuesOwn'
    BY DEF FxInv, QueuesOwn, Queue
  <1> QED BY <1>1 DEF FxInv, CacheOK, NoneBegun

LEMMA Shows ==
    ASSUME FxInv, NEW e \in Elems, NEW kind, ShowOrHide(e, kind)
    PROVE  FxInv' /\ NoneBegun({e}) /\ Requeued(e, Queue(e))
  <1> DEFINE en == IF kind = "show" THEN ShowEntry(cache[e]) ELSE HideEntry(cache[e], visible[e])
  <1>1. cache' = [cache EXCEPT ![e] = en] /\ stack' = stack /\ anims' = anims
    BY DEF ShowOrHide, FxInv, CacheOK
  <1>2. EntryOK(cache[e]) /\ CacheOK
    BY QueueTyped DEF FxInv
  <1>3. EntryOK(en) /\ EventsOf(en) = EventsOf(cache[e]) /\ QueueOf(en) = Queue(e)
    BY <1>2, ShowReads, HideReads DEF Queue
  <1> HIDE DEF en
  <1>4. Requeued(e, Queue(e))
    BY <1>1, <1>2, <1>3, EntryChanged
  <1>5. /\ anims' \in Seq(Anims) /\ Len(anims') >= Len(anims) /\ Waiting(stack', Len(anims'))
        /\ \A i \in DOMAIN Queue(e) : Queue(e)[i] \in 1 .. Len(anims') /\ anims'[Queue(e)[i]].elem = e
    BY <1>1 DEF FxInv, QueuesOwn
  <1>6. FxInv' /\ NoneBegun({e})
    BY <1>1, <1>4, <1>5, QueuesStay
  <1> QED BY <1>4, <1>6

LEMMA Animates ==
    ASSUME FxInv, NEW e \in Animated, NEW kind \in Effect, Animate(e, kind)
    PROVE  FxInv' /\ NoneBegun({e}) /\ Requeued(e, Append(Queue(e), Len(anims) + 1))
  <1> DEFINE anim == [elem |-> e, kind |-> kind, left |-> 1 .. Properties]
             n == Len(anims) + 1
             q == Append(Queue(e), n)
  <1>1. e \in Elems /\ anim \in Anims /\ anim.elem = e
    BY ElementsAssumption DEF Anims
  <1>2. /\ anims' = Append(anims, anim) /\ anims' \in Seq(Anims) /\ n \in Nat /\ n = Len(anims')
        /\ Len(anims) \in Nat
        /\ anims'[n] = anim /\ \A i \in 1 .. Len(anims) : anims'[i] = anims[i]
    <2>1. anims' = Append(anims, anim)
      BY DEF Animate
    <2>2. anims \in Seq(Anims)
      BY DEF FxInv
    <2> HIDE DEF anim
    <2> QED BY <1>1, <2>1, <2>2
  <1>3. /\ EntryOK(cache[e]) /\ Queue(e) \in Seq(Nat) /\ q \in Typed("fxqueue")
        /\ "fxqueue" \in DataNames /\ "fxqueue" # "events"
    <2>1. EntryOK(cache[e]) /\ Queue(e) \in Seq(Nat) /\ "fxqueue" \in DataNames /\ Typed("fxqueue") = Seq(Nat)
      BY <1>1, QueueTyped
    <2> HIDE DEF n
    <2>2. q \in Seq(Nat)
      BY <1>2, <2>1
    <2> QED BY <2>1, <2>2
  <1>4. /\ EntryOK(Queued(e, n)) /\ EventsOf(Queued(e, n)) = EventsOf(cache[e])
        /\ QueueOf(Queued(e, n)) = q
    <2> HIDE DEF n
    <2> QED BY <1>3, WithReads DEF Queued, EntryOK
  <1>5. Waiting(stack, n) /\ CacheOK /\ n \in 1 .. n
    <2>1. Waiting(stack, Len(anims)) /\ Len(anims) <= n /\ n \in 1 .. n
      BY <1>2 DEF FxInv
    <2> HIDE DEF n
    <2> QED BY <1>2, <2>1, WaitingMore DEF FxInv
  <1>6. Requeued(e, q) /\ Waiting(stack', n)
    <2>1. CASE Queue(e) = <<>>
      <3>1. Begin(n, anim, Queued(e, n), timers, stack)
        BY <2>1 DEF Animate
      <3> HIDE DEF n, anim, q
      <3> QED BY <1>1, <1>2, <1>4, <1>5, <3>1, Begins
    <2>2. CASE Queue(e) # <<>>
      <3>1. cache' = [cache EXCEPT ![e] = Queued(e, n)] /\ stack' = stack
        BY <2>2 DEF Animate
      <3> HIDE DEF n, q
      <3> QED BY <1>1, <1>4, <1>5, <3>1, EntryChanged
    <2> QED BY <2>1, <2>2
  <1>7. \A i \in DOMAIN q : q[i] \in 1 .. Len(anims') /\ anims'[q[i]].elem = e
    <2>1. \A i \in DOMAIN Queue(e) : Queue(e)[i] \in 1 .. Len(anims) /\ anims[Queue(e)[i]].elem = e
      BY <1>1 DEF FxInv, QueuesOwn
    <2>2. \A i \in DOMAIN q : q[i] = n \/ (i \in DOMAIN Queue(e) /\ q[i] = Queue(e)[i])
      BY <1>3
    <2>3. 1 .. Len(anims) \subseteq 1 .. n
      BY <1>2
    <2> HIDE DEF n, q, anim
    <2> QED BY <1>1, <1>2, <1>5, <2>1, <2>2, <2>3
  <1>8. /\ Len(anims') >= Len(anims) /\ Waiting(stack', Len(anims'))
        /\ \A i \in 1 .. Len(anims) : anims'[i].elem = anims[i].elem
    BY <1>2, <1>6
  <1> HIDE DEF n, q, anim
  <1>9. FxInv' /\ NoneBegun({e})
    BY <1>1, <1>2, <1>6, <1>7, <1>8, QueuesStay
  <1> QED BY <1>6, <1>9 DEF q, n

\* What stop leaves of a queue that is emptied or not.
Stopped(q, gotoEnd) == IF gotoEnd \/ q = <<>> THEN q ELSE Tail(q)
LEMMA Stops ==
    ASSUME FxInv, NEW e \in Elems, NEW clear \in BOOLEAN, NEW gotoEnd \in BOOLEAN, Stop(e, clear, gotoEnd)
    PROVE  FxInv' /\ NoneBegun({e}) /\ Requeued(e, Stopped(IF clear THEN <<>> ELSE Queue(e), gotoEnd))
  <1> DEFINE q == IF clear THEN <<>> ELSE Queue(e)
             f == Loop("stop", Len(timers), e)
  <1>1. anims' = anims /\ Waiting(stack, Len(anims)) /\ CacheOK
    BY DEF Stop, FxInv
  <1>2. CASE gotoEnd
    <2>1. /\ cache' = IF clear THEN [cache EXCEPT ![e] = WithData(cache[e], "fxqueue", <<>>)] ELSE cache
          /\ stack' = <<f>> \o stack
      BY <1>2 DEF Stop, Push, FxInv, CacheOK
    <2>2. FrameOK(f, Len(anims))
      BY DEF Loop, FrameOK
    <2>3. Waiting(stack', Len(anims))
      <3> HIDE DEF f
      <3> QED BY <1>1, <2>1, <2>2, WaitingPush
    <2>4. CASE clear
      <3>1. EntryOK(cache[e]) /\ "fxqueue" \in DataNames /\ <<>> \in Typed("fxqueue") /\ "fxqueue" # "events"
        BY QueueTyped, EmptyMaps
      <3> DEFINE en == WithData(cache[e], "fxqueue", <<>>)
      <3>2. EntryOK(en) /\ EventsOf(en) = EventsOf(cache[e]) /\ QueueOf(en) = <<>>
        BY <3>1, WithReads DEF EntryOK
      <3>3. cache' = [cache EXCEPT ![e] = en]
        BY <2>1, <2>4
      <3> HIDE DEF en
      <3>4. Requeued(e, QueueOf(en))
        BY <1>1, <3>2, <3>3, EntryChanged
      <3>5. Requeued(e, <<>>)
        BY <3>2, <3>4
      <3>6. Requeued(e, IF <<>> = <<>> THEN <<>> ELSE Tail(<<>>)) /\ <<>> \in {<<>>, Queue(e)}
        BY <3>5
      <3>7. FxInv' /\ NoneBegun({})
        BY <1>1, <2>3, <3>6, QueuesShrink
      <3> QED BY <2>4, <3>5, <3>7 DEF NoneBegun, Stopped
    <2>5. CASE ~clear
      <3>1. FxInv' /\ NoneBegun({})
        BY <1>1, <2>1, <2>3, <2>5, CallsOnly
      <3>2. Requeued(e, Queue(e))
        BY <1>1, <2>1, <2>5 DEF CacheOK, Requeued, Queue
      <3> QED BY <1>2, <2>5, <3>1, <3>2 DEF NoneBegun, Stopped
    <2> QED BY <2>4, <2>5
  <1>3. CASE ~gotoEnd
    <2>1. PICK running : Dequeue(e, q, running, stack)
      BY <1>3 DEF Stop
    <2>2. q \in {<<>>, Queue(e)}
      OBVIOUS
    <2> HIDE DEF q
    <2>3. Requeued(e, IF q = <<>> THEN <<>> ELSE Tail(q)) /\ Waiting(stack', Len(anims))
      BY <1>1, <2>1, <2>2, Dequeues
    <2>4. FxInv' /\ NoneBegun({})
      BY <1>1, <2>2, <2>3, QueuesShrink
    <2>5. Stopped(q, gotoEnd) = IF q = <<>> THEN <<>> ELSE Tail(q)
      BY <1>3 DEF Stopped
    <2>6. Requeued(e, Stopped(q, gotoEnd))
      BY <2>3, <2>5
    <2> QED BY <2>4, <2>6 DEF NoneBegun, q
  <1> QED BY <1>2, <1>3

LEMMA EffectActs ==
    ASSUME FxInv, NEW e \in Elems, EffectAct(e)
    PROVE  FxInv' /\ NoneBegun({e})
  BY Shows, Animates, Stops DEF EffectAct

-----------------------------------------------------------------------------
(* The steps of effects begin nothing on an element whose queue is empty.       *)

\* The call on top goes on, as another of the same kind.
LEMMA TopGoesOn ==
    ASSUME NEW n, Waiting(stack, n), ~Idle, NEW f, FrameOK(f, n)
    PROVE  Waiting(Replace(f), n) /\ Waiting(Pop, n)
  BY WaitingTop, WaitingPush DEF Idle, Replace, Pop

LEMMA LoopGoesOn ==
    ASSUME NEW n, Waiting(stack, n), ~Idle, Top.call # "complete"
    PROVE  /\ Waiting(Replace([Top EXCEPT !.waits = TRUE]), n)
           /\ Waiting(Replace([Top EXCEPT !.waits = FALSE]), n)
           /\ Waiting(Replace([Top EXCEPT !.i = @ + 1]), n)
           /\ Waiting(Replace([Top EXCEPT !.i = @ - 1]), n)
           /\ Waiting(Replace([Top EXCEPT !.waits = FALSE, !.i = @ - 1]), n)
           /\ Waiting(Pop, n)
  <1>1. "call" \in DOMAIN Top
    BY WaitingTop DEF Idle, Top, FrameOK
  <1> DEFINE Alike(g) == "call" \in DOMAIN g /\ g.call = Top.call
  <1>2. /\ Alike([Top EXCEPT !.waits = TRUE]) /\ Alike([Top EXCEPT !.waits = FALSE])
        /\ Alike([Top EXCEPT !.i = @ + 1]) /\ Alike([Top EXCEPT !.i = @ - 1])
        /\ Alike([Top EXCEPT !.waits = FALSE, !.i = @ - 1])
    BY <1>1
  <1>3. \A g : Alike(g) => FrameOK(g, n)
    BY DEF FrameOK
  <1> HIDE DEF Alike
  <1> QED BY <1>2, <1>3, TopGoesOn

LEMMA LastSteps ==
    ASSUME FxInv, ~Idle, Top.call # "complete", NEW t, LastStep(t)
    PROVE  FxInv' /\ NoneBegun({}) /\ Requeued(anims[t.anim].elem, Queue(anims[t.anim].elem))
  <1> DEFINE anim == anims[t.anim]
             left == anim.left \ {t.prop}
             loop == Replace([Top EXCEPT !.waits = TRUE])
             n == Len(anims)
  <1>1. t.anim \in 1 .. n /\ anims \in Seq(Anims) /\ n \in Nat /\ Waiting(stack, n) /\ CacheOK
    BY DEF LastStep, FxInv
  <1>2. anim \in Anims
    BY <1>1
  <1>3. [anim EXCEPT !.left = left] \in Anims /\ [anim EXCEPT !.left = left].elem = anim.elem
        /\ anim.elem \in Elems
    BY <1>2, ElementsAssumption DEF Anims
  <1>4. anims' = [anims EXCEPT ![t.anim] = [anim EXCEPT !.left = left]]
    BY DEF LastStep
  <1>5. /\ anims' \in Seq(Anims) /\ Len(anims') = n
        /\ \A i \in 1 .. n : anims'[i].elem = anims[i].elem
    <2> HIDE DEF left
    <2>1. anims' \in Seq(Anims) /\ Len(anims') = n
      BY <1>1, <1>3, <1>4
    <2>2. ASSUME NEW i \in 1 .. n PROVE anims'[i].elem = anims[i].elem
      <3>1. CASE i = t.anim
        BY <1>1, <1>3, <1>4, <3>1
      <3>2. CASE i # t.anim
        BY <1>1, <1>4, <3>2
      <3> QED BY <3>1, <3>2
    <2> QED BY <2>1, <2>2
  <1>6. Waiting(loop, n) /\ FrameOK(Completing(t.anim), n)
    BY <1>1, LoopGoesOn DEF FrameOK, Completing
  <1>7. stack' = loop \/ stack' = <<Completing(t.anim)>> \o loop
    BY DEF LastStep
  <1>8. Waiting(stack', Len(anims'))
    <2> HIDE DEF loop
    <2> QED BY <1>5, <1>6, <1>7, WaitingPush
  <1>9. Requeued(anim.elem, Queue(anim.elem))
    <2> DEFINE e == anim.elem
    <2>1. EntryOK(cache[e])
      BY <1>3, QueueTyped
    <2>2. \/ \E seen : cache' = [cache EXCEPT ![e] = HideEntry(cache[e], seen)]
          \/ cache' = [cache EXCEPT ![e] = cache[e]]
      <3>1. \/ \E seen : cache' = [cache EXCEPT ![e] = HideEntry(cache[e], seen)]
            \/ cache' = cache
        BY DEF LastStep
      <3> HIDE DEF e
      <3> QED BY <1>1, <3>1 DEF CacheOK
    <2> HIDE DEF anim
    <2> QED BY <1>1, <1>3, <2>1, <2>2, HideReads, EntryChanged DEF Queue
  <1>10. \A i \in DOMAIN Queue(anim.elem) :
            Queue(anim.elem)[i] \in 1 .. Len(anims') /\ anims'[Queue(anim.elem)[i]].elem = anim.elem
    BY <1>3, <1>5 DEF FxInv, QueuesOwn
  <1>11. FxInv' /\ NoneBegun({anim.elem})
    <2> HIDE DEF anim
    <2>1. Len(anims') >= Len(anims)
      BY <1>1, <1>5
    <2> QED BY <1>5, <1>8, <1>9, <1>10, <2>1, QueuesStay
  <1>12. QueueOf(cache'[anim.elem]) = QueueOf(cache[anim.elem])
    <2> HIDE DEF anim
    <2> QED BY <1>3, <1>9 DEF Requeued, Queue
  <1>13. Requeued(anims[t.anim].elem, Queue(anims[t.anim].elem))
    BY <1>9
  <1> HIDE DEF anim
  <1> QED BY <1>11, <1>12, <1>13 DEF NoneBegun

LEMMA Completes ==
    ASSUME FxInv, Complete
    PROVE  /\ FxInv' /\ NoneBegun({}) /\ anims[Top.anim].elem \in Elems
           /\ LET q == Queue(anims[Top.anim].elem)
              IN  Requeued(anims[Top.anim].elem, IF q = <<>> THEN <<>> ELSE Tail(q))
  <1> DEFINE n == Len(anims)
             e == anims[Top.anim].elem
             f == [Top EXCEPT !.paused = TRUE]
  <1>1. ~Idle /\ Top.call = "complete" /\ Waiting(stack, n) /\ anims' = anims
    BY DEF Complete, TopIs, FxInv
  <1>2. Top \in [call : {"complete"}, paused : BOOLEAN, anim : 1 .. n]
    BY <1>1, WaitingTop DEF Idle, Top, FrameOK
  <1>3. FrameOK(f, n)
    BY <1>2 DEF FrameOK
  <1>4. e \in Elems
    <2>1. anims \in Seq(Anims) /\ Top.anim \in 1 .. Len(anims)
      BY <1>2 DEF FxInv
    <2>2. anims[Top.anim] \in Anims
      BY <2>1
    <2> QED BY <2>2, ElementsAssumption DEF Anims
  <1>5. Dequeue(e, Queue(e), timers, Replace(f))
    BY DEF Complete
  <1> HIDE DEF e, f
  <1>6. Waiting(Replace(f), n)
    BY <1>1, <1>3, TopGoesOn
  <1>7. Requeued(e, IF Queue(e) = <<>> THEN <<>> ELSE Tail(Queue(e))) /\ Waiting(stack', n)
    BY <1>4, <1>5, <1>6, Dequeues
  <1>8. FxInv' /\ NoneBegun({})
    BY <1>1, <1>4, <1>7, QueuesShrink
  <1> QED BY <1>4, <1>7, <1>8 DEF e

LEMMA EffectSteps ==
    ASSUME FxInv, EffectStep
    PROVE  FxInv' /\ NoneBegun({})
  <1> DEFINE n == Len(anims)
  <1>1. Waiting(stack, n)
    BY DEF FxInv
  <1>2. CASE Complete
    BY <1>2, Completes
  <1>3. CASE CompleteReturns
    <2>1. anims' = anims /\ cache' = cache /\ stack' = Pop /\ ~Idle
      BY <1>3 DEF CompleteReturns, fxVars, TopIs
    <2>2. Waiting(stack', n)
      BY <1>1, <2>1, WaitingTop DEF Idle, Pop
    <2> QED BY <2>1, <2>2, CallsOnly
  <1>4. CASE Tick
    <2>1. anims' = anims /\ cache' = cache /\ stack' = Push(Loop("tick", 1, None))
      BY <1>4 DEF Tick, fxVars
    <2>2. FrameOK(Loop("tick", 1, None), n)
      BY DEF FrameOK, Loop
    <2>3. Waiting(stack', n)
      BY <1>1, <2>1, <2>2, WaitingPush DEF Push
    <2> QED BY <2>1, <2>3, CallsOnly
  <1>5. CASE TickStep
    <2>1. ~Idle /\ Top.call # "complete"
      BY <1>5 DEF TickStep, TopIs
    <2>2. CASE LastStep(timers[Top.i])
      BY <2>1, <2>2, LastSteps
    <2>3. CASE stack' = Replace([Top EXCEPT !.i = @ + 1]) /\ UNCHANGED <<cache, anims>>
      <3>1. anims' = anims /\ cache' = cache /\ Waiting(stack', n)
        BY <1>1, <2>1, <2>3, LoopGoesOn
      <3> QED BY <3>1, CallsOnly
    <2> QED BY <1>5, <2>2, <2>3 DEF TickStep
  <1>6. CASE TickDrops \/ TickEnds \/ StopDrops
    <2>1. ~Idle /\ Top.call # "complete"
      BY <1>6 DEF TickDrops, TickEnds, StopDrops, TopIs
    <2>2. anims' = anims /\ cache' = cache
      BY <1>6 DEF TickDrops, TickEnds, StopDrops
    <2>3. Waiting(stack', n)
      BY <1>1, <1>6, <2>1, LoopGoesOn DEF TickDrops, TickEnds, StopDrops
    <2> QED BY <2>2, <2>3, CallsOnly
  <1>7. CASE StopStep
    <2>1. ~Idle /\ Top.call # "complete"
      BY <1>7 DEF StopStep, TopIs
    <2>2. CASE LastStep(timers[Top.i])
      BY <2>1, <2>2, LastSteps
    <2>3. CASE stack' = Replace([Top EXCEPT !.i = @ - 1]) /\ UNCHANGED <<cache, removed, threw, fxVars>>
      <3>1. anims' = anims /\ cache' = cache /\ Waiting(stack', n)
        BY <1>1, <2>1, <2>3, LoopGoesOn DEF fxVars
      <3> QED BY <3>1, CallsOnly
    <2> QED BY <1>7, <2>2, <2>3 DEF StopStep
  <1>8. CASE StopEnds
    <2>1. anims' = anims /\ cache' = cache /\ ~Idle /\ (stack' = Pop \/ stack' = Unwound)
      BY <1>8 DEF StopEnds, TopIs, fxVars
    <2>2. Waiting(stack', n)
      BY <1>1, <2>1, WaitingTop, WaitingUnwound DEF Idle, Pop
    <2> QED BY <2>1, <2>2, CallsOnly
  <1> QED BY <1>2, <1>3, <1>4, <1>5, <1>6, <1>7, <1>8 DEF EffectStep

-----------------------------------------------------------------------------
(* Binding and unbinding.                                                       *)

\* One more handler, in its old place or a new one.
OneMore(new, evs, type, h, kind) ==
    /\ new \in EventMaps /\ DOMAIN new = DOMAIN evs \cup {type}
    /\ \A t \in DOMAIN evs : t # type => new[t] = evs[t]
    /\ \A g \in DOMAIN new[type] :
         g # h => /\ type \in DOMAIN evs /\ g \in DOMAIN evs[type]
                  /\ new[type][g] = evs[type][g]
    /\ new[type][h] = kind

LEMMA BoundReads ==
    ASSUME NEW evs \in EventMaps, NEW type \in Types, NEW h \in Handlers, NEW kind \in Kinds
    PROVE  OneMore(Bound(evs, type, h, kind), evs, type, h, kind)
  <1> DEFINE new == Bound(evs, type, h, kind)
             old == DOMAIN HandlersOf(evs, type)
             hm  == [g \in old \cup {h} |-> IF g = h THEN kind ELSE evs[type][g]]
  <1>1. DOMAIN evs \subseteq Types /\ \A t \in DOMAIN evs : evs[t] \in HandlerMaps
    BY DEF EventMaps
  <1>2. \A g \in old : type \in DOMAIN evs /\ g \in DOMAIN evs[type] /\ evs[type][g] \in Kinds /\ g \in Handlers
    <2>1. CASE type \in DOMAIN evs
      BY <1>1, <2>1 DEF HandlersOf, HandlerMaps
    <2>2. CASE type \notin DOMAIN evs
      BY <2>2 DEF HandlersOf
    <2> QED BY <2>1, <2>2
  <1>3. new = [t \in DOMAIN evs \cup {type} |-> IF t # type THEN evs[t] ELSE hm]
    BY DEF Bound
  <1>4. hm \in [old \cup {h} -> Kinds] /\ old \cup {h} \in SUBSET Handlers
    BY <1>2
  <1>5. hm \in HandlerMaps
    BY <1>4 DEF HandlerMaps
  <1>6. new \in EventMaps
    <2>1. \A t \in DOMAIN evs \cup {type} : (IF t # type THEN evs[t] ELSE hm) \in HandlerMaps
      BY <1>1, <1>5
    <2> HIDE DEF hm
    <2>2. new \in [DOMAIN evs \cup {type} -> HandlerMaps] /\ DOMAIN evs \cup {type} \in SUBSET Types
      BY <1>1, <1>3, <2>1
    <2> HIDE DEF new
    <2> QED BY <2>2 DEF EventMaps
  <1>7. new[type] = hm /\ DOMAIN hm = old \cup {h} /\ hm[h] = kind
        /\ \A g \in old \cup {h} : g # h => hm[g] = evs[type][g]
    BY <1>3
  <1>8. DOMAIN new = DOMAIN evs \cup {type} /\ \A t \in DOMAIN evs : t # type => new[t] = evs[t]
    BY <1>3
  <1> HIDE DEF new, hm, old
  <1>9. \A g \in DOMAIN new[type] :
            g # h => type \in DOMAIN evs /\ g \in DOMAIN evs[type] /\ new[type][g] = evs[type][g]
    BY <1>2, <1>7
  <1>10. OneMore(new, evs, type, h, kind)
    BY <1>6, <1>7, <1>8, <1>9 DEF OneMore
  <1> QED BY <1>10 DEF new

\* The handlers ev2 are some of those of ev1.
Fewer(ev1, ev2) ==
    \A t \in DOMAIN ev2 :
        t \in DOMAIN ev1 /\ \A h \in DOMAIN ev2[t] : h \in DOMAIN ev1[t] /\ ev2[t][h] = ev1[t][h]

LEMMA UnboundReads ==
    ASSUME NEW en, EntryOK(en), NEW ts, NEW hs
    PROVE  /\ EntryOK(Unbound(en, ts, hs)) /\ QueueOf(Unbound(en, ts, hs)) = QueueOf(en)
           /\ EventsOf(en) = <<>> => EventsOf(Unbound(en, ts, hs)) = <<>>
           /\ DOMAIN EventsOf(Unbound(en, ts, hs)) = DOMAIN EventsOf(en) \ GivenUp(EventsOf(en), ts, hs)
           /\ Fewer(EventsOf(en), EventsOf(Unbound(en, ts, hs)))
           /\ \A i \in DOMAIN ts : ts[i] \in DOMAIN EventsOf(Unbound(en, ts, hs)) =>
                  DOMAIN EventsOf(Unbound(en, ts, hs))[ts[i]] \cap hs = {}
  <1> DEFINE evs  == EventsOf(en)
             gone == GivenUp(evs, ts, hs)
             left == [t \in DOMAIN evs \ gone |->
                        IF \E i \in DOMAIN ts : ts[i] = t
                          THEN [h \in DOMAIN evs[t] \ hs |-> evs[t][h]] ELSE evs[t]]
             new  == Unbound(en, ts, hs)
  <1>1. new = IF evs = <<>> THEN Touched(en)
              ELSE IF left = <<>> THEN WithoutData(en, "events") ELSE WithData(en, "events", left)
    BY DEF Unbound
  <1>2. evs \in EventMaps
    BY ReadingTyped
  <1>3. DOMAIN evs \subseteq Types /\ \A t \in DOMAIN evs : evs[t] \in HandlerMaps
    BY <1>2 DEF EventMaps
  <1>4. left \in EventMaps
    <2>1. ASSUME NEW t \in DOMAIN evs
          PROVE  [h \in DOMAIN evs[t] \ hs |-> evs[t][h]] \in HandlerMaps
      <3>1. DOMAIN evs[t] \subseteq Handlers /\ \A h \in DOMAIN evs[t] : evs[t][h] \in Kinds
        BY <1>3 DEF HandlerMaps
      <3>2. /\ DOMAIN evs[t] \ hs \in SUBSET Handlers
            /\ [h \in DOMAIN evs[t] \ hs |-> evs[t][h]] \in [DOMAIN evs[t] \ hs -> Kinds]
        BY <3>1
      <3> QED BY <3>2 DEF HandlerMaps
    <2>2. DOMAIN evs \ gone \in SUBSET Types
      BY <1>3
    <2>3. \A t \in DOMAIN evs \ gone :
            (IF \E i \in DOMAIN ts : ts[i] = t
               THEN [h \in DOMAIN evs[t] \ hs |-> evs[t][h]] ELSE evs[t]) \in HandlerMaps
      BY <1>3, <2>1
    <2> HIDE DEF evs, gone
    <2>4. left \in [DOMAIN evs \ gone -> HandlerMaps]
      BY <2>3
    <2> HIDE DEF left
    <2> QED BY <2>2, <2>4 DEF EventMaps
  <1>5. /\ DOMAIN left = DOMAIN evs \ gone
        /\ Fewer(evs, left)
        /\ \A i \in DOMAIN ts : ts[i] \in DOMAIN left => DOMAIN left[ts[i]] \cap hs = {}
    <2> HIDE DEF evs, gone
    <2>1. DOMAIN left = DOMAIN evs \ gone
      OBVIOUS
    <2>2. \A t \in DOMAIN left :
            left[t] = IF \E i \in DOMAIN ts : ts[i] = t
                        THEN [h \in DOMAIN evs[t] \ hs |-> evs[t][h]] ELSE evs[t]
      OBVIOUS
    <2> HIDE DEF left
    <2>3. ASSUME NEW t \in DOMAIN left
          PROVE  \A h \in DOMAIN left[t] : h \in DOMAIN evs[t] /\ left[t][h] = evs[t][h]
      <3>1. CASE \E i \in DOMAIN ts : ts[i] = t
        <4>1. left[t] = [h \in DOMAIN evs[t] \ hs |-> evs[t][h]]
          BY <2>2, <3>1
        <4> QED BY <4>1
      <3>2. CASE ~ \E i \in DOMAIN ts : ts[i] = t
        BY <2>2, <3>2
      <3> QED BY <3>1, <3>2
    <2>4. ASSUME NEW i \in DOMAIN ts, ts[i] \in DOMAIN left PROVE DOMAIN left[ts[i]] \cap hs = {}
      <3>1. left[ts[i]] = [h \in DOMAIN evs[ts[i]] \ hs |-> evs[ts[i]][h]]
        BY <2>2, <2>4
      <3> QED BY <3>1
    <2> QED BY <2>1, <2>3, <2>4 DEF Fewer
  <1>6. EntryOK(new) /\ QueueOf(new) = QueueOf(en) /\ EventsOf(new) = (IF evs = <<>> THEN <<>> ELSE left)
    <2>1. CASE evs = <<>>
      BY <1>1, <2>1, TouchedReads DEF EntryOK
    <2>2. CASE evs # <<>> /\ left = <<>>
      BY <1>1, <2>2, WithoutReads
    <2>3. CASE evs # <<>> /\ left # <<>>
      <3>1. new = WithData(en, "events", left) /\ left \in Typed("events") /\ "events" \in DataNames
            /\ "events" # "fxqueue"
        BY <1>1, <1>4, <2>3 DEF Typed, DataNames
      <3> HIDE DEF left, new
      <3> QED BY <2>3, <3>1, WithReads DEF EntryOK
    <2> QED BY <2>1, <2>2, <2>3
  <1> HIDE DEF left, new
  <1>7. CASE evs = <<>>
    <2>1. DOMAIN evs = {} /\ EventsOf(new) = evs
      BY <1>6, <1>7
    <2> HIDE DEF evs
    <2> QED BY <1>6, <1>7, <2>1 DEF evs, new, Fewer
  <1>8. CASE evs # <<>>
    BY <1>5, <1>6, <1>8 DEF new
  <1> QED BY <1>7, <1>8

-----------------------------------------------------------------------------
(* The invariant of both.                                                       *)

OnesOwed ==
    \A e \in Elems : \A t \in DOMAIN EventsOf(cache[e]) : \A h \in DOMAIN EventsOf(cache[e])[t] :
        EventsOf(cache[e])[t][h] = "one" => <<e, t>> \in Bindable /\ owed[<<e, t>>][h] = 1
EventInv ==
    /\ owed \in [Bindable -> [Handlers -> Nat]]
    /\ listening \in [Elems -> SUBSET Types]
    /\ OnesOwed /\ ListenersMatch
IInv == FxInv /\ EventInv /\ removed \subseteq Elems /\ RemovedIsForgotten

\* An element that has nothing has nothing afterwards, but for those of X.
StaysBare(X) ==
    \A x \in Elems \ X : EventsOf(cache[x]) = <<>> /\ QueueOf(cache[x]) = <<>> =>
                        EventsOf(cache'[x]) = <<>> /\ QueueOf(cache'[x]) = <<>>
Good(X) == FxInv' /\ EventInv' /\ StaysBare(X)

\* What is neither bound nor unbound.
LEMMA EventsStay ==
    ASSUME EventInv, FxInv', NEW X, UNCHANGED eventVars, NoneBegun(X)
    PROVE  Good(X)
  <1>0. owed' = owed /\ listening' = listening
    BY DEF eventVars
  <1>1. \A x \in Elems : EventsOf(cache'[x]) = EventsOf(cache[x])
    BY DEF NoneBegun
  <1>2. OnesOwed'
    BY <1>0, <1>1 DEF EventInv, OnesOwed
  <1>3. ListenersMatch'
    BY <1>0, <1>1 DEF EventInv, ListenersMatch
  <1>4. StaysBare(X)
    BY <1>1 DEF NoneBegun, StaysBare
  <1> QED BY <1>0, <1>2, <1>3, <1>4 DEF EventInv, Good

\* Only the waiting calls change.
LEMMA OnlyCalls ==
    ASSUME FxInv, EventInv, cache' = cache, anims' = anims, UNCHANGED <<listening, owed>>,
           Waiting(stack', Len(anims))
    PROVE  Good({})
  <1>1. FxInv' /\ NoneBegun({})
    BY CallsOnly
  <1>2. OnesOwed' /\ ListenersMatch'
    BY DEF EventInv, OnesOwed, ListenersMatch
  <1> QED BY <1>1, <1>2 DEF EventInv, Good, StaysBare

\* The queues stay or are forgotten.
LEMMA QueuesKept ==
    ASSUME FxInv, anims' = anims, Waiting(stack', Len(anims)), cache' \in [Elems -> {None} \cup Entries],
           \A x \in Elems : QueueOf(cache'[x]) \in {<<>>, QueueOf(cache[x])}
    PROVE  FxInv'
  <1>1. ASSUME NEW x \in Elems, NEW i \in DOMAIN QueueOf(cache'[x])
        PROVE  /\ QueueOf(cache'[x])[i] \in 1 .. Len(anims')
               /\ anims'[QueueOf(cache'[x])[i]].elem = x
    <2>1. QueueOf(cache'[x]) = Queue(x)
      <3>1. DOMAIN <<>> = {}
        OBVIOUS
      <3> QED BY <1>1, <3>1 DEF Queue
    <2> QED BY <1>1, <2>1 DEF FxInv, QueuesOwn
  <1>2. QueuesOwn'
    BY <1>1 DEF QueuesOwn, Queue
  <1> QED BY <1>2 DEF FxInv, CacheOK

\* Handlers that are fewer owe no more.
LEMMA OnesFewer ==
    ASSUME EventInv, owed' = owed, \A x \in Elems : Fewer(EventsOf(cache[x]), EventsOf(cache'[x]))
    PROVE  OnesOwed'
  BY DEF EventInv, OnesOwed, Fewer

LEMMA Binds ==
    ASSUME IInv, NEW e \in Elems, NEW type, <<e, type>> \in Bindable, NEW h \in Handlers, NEW kind \in Kinds,
           Bind(e, type, h, kind), anims' = anims
    PROVE  Good({e})
  <1> DEFINE evs == EventsOf(cache[e])
             new == Bound(evs, type, h, kind)
             en  == WithData(cache[e], "events", new)
  <1>1. EntryOK(cache[e]) /\ evs \in EventMaps /\ type \in Types /\ CacheOK
    <2>1. EntryOK(cache[e]) /\ CacheOK
      BY QueueTyped DEF IInv, FxInv
    <2>2. type \in Types
      BY DEF Types
    <2> QED BY <2>1, <2>2, ReadingTyped
  <1>0. OneMore(new, evs, type, h, kind)
    <2> HIDE DEF evs, en
    <2> QED BY <1>1, BoundReads
  <1>2. cache' = [cache EXCEPT ![e] = en] /\ stack' = stack
    BY DEF Bind, IInv, FxInv, CacheOK
  <1>3. EntryOK(en) /\ EventsOf(en) = new /\ QueueOf(en) = QueueOf(cache[e])
    <2>1. new \in Typed("events") /\ "events" \in DataNames /\ "events" # "fxqueue"
      BY <1>0 DEF OneMore, Typed, DataNames
    <2> HIDE DEF new
    <2> QED BY <1>1, <2>1, WithReads DEF EntryOK
  <1>4. /\ cache' \in [Elems -> {None} \cup Entries] /\ cache'[e] = en
        /\ \A x \in Elems : x # e => cache'[x] = cache[x]
    <2> HIDE DEF en
    <2> QED BY <1>1, <1>2, <1>3 DEF CacheOK, EntryOK
  <1>5. FxInv'
    <2>1. \A x \in Elems : QueueOf(cache'[x]) \in {<<>>, QueueOf(cache[x])}
      <3> HIDE DEF en
      <3> QED BY <1>3, <1>4
    <2>2. Waiting(stack', Len(anims)) /\ FxInv
      BY <1>2 DEF IInv, FxInv
    <2> QED BY <1>4, <2>1, <2>2, QueuesKept
  <1>6. listening' = [listening EXCEPT ![e] = listening[e] \cup {type}]
    BY DEF Bind, IInv, EventInv
  <1>7. owed' = [owed EXCEPT ![<<e, type>>] =
                    [owed[<<e, type>>] EXCEPT ![h] = IF kind = "one" THEN 1 ELSE 0]]
    BY DEF Bind, IInv, EventInv
  <1>8. owed' \in [Bindable -> [Handlers -> Nat]] /\ listening' \in [Elems -> SUBSET Types]
    BY <1>1, <1>6, <1>7 DEF IInv, EventInv
  <1>9. /\ DOMAIN new = DOMAIN evs \cup {type}
        /\ \A u \in DOMAIN evs : u # type => new[u] = evs[u]
        /\ \A f \in DOMAIN new[type] :
                f # h => type \in DOMAIN evs /\ f \in DOMAIN evs[type] /\ new[type][f] = evs[type][f]
        /\ new[type][h] = kind
    <2> HIDE DEF evs, en, new
    <2> QED BY <1>0 DEF OneMore
  <1>10. ListenersMatch'
    <2> HIDE DEF new, en
    <2> QED BY <1>3, <1>4, <1>6, <1>9 DEF IInv, EventInv, ListenersMatch
  <1>11. OnesOwed'
    <2> SUFFICES ASSUME NEW x \in Elems, NEW t \in DOMAIN EventsOf(cache'[x]),
                        NEW g \in DOMAIN EventsOf(cache'[x])[t], EventsOf(cache'[x])[t][g] = "one"
                 PROVE  <<x, t>> \in Bindable /\ owed'[<<x, t>>][g] = 1
      BY DEF OnesOwed
    <2>0. owed \in [Bindable -> [Handlers -> Nat]] /\ OnesOwed
      BY DEF IInv, EventInv
    <2> HIDE DEF en, new, evs
    <2>1. CASE x # e
      <3>1. <<x, t>> \in Bindable /\ owed[<<x, t>>][g] = 1
        BY <1>4, <2>0, <2>1 DEF OnesOwed
      <3> QED BY <1>7, <2>0, <2>1, <3>1
    <2>2. CASE x = e /\ t # type
      <3>1. t \in DOMAIN evs /\ new[t] = evs[t]
        BY <1>1, <1>3, <1>4, <2>2, <1>9
      <3>2. <<x, t>> \in Bindable /\ owed[<<x, t>>][g] = 1
        BY <1>3, <1>4, <2>0, <2>2, <3>1 DEF OnesOwed, evs
      <3> QED BY <1>7, <2>0, <2>2, <3>2
    <2>3. CASE x = e /\ t = type /\ g # h
      <3>1. t \in DOMAIN evs /\ g \in DOMAIN evs[t] /\ new[t][g] = evs[t][g]
        BY <1>1, <1>3, <1>4, <2>3, <1>9
      <3>2. <<x, t>> \in Bindable /\ owed[<<x, t>>][g] = 1
        BY <1>3, <1>4, <2>0, <2>3, <3>1 DEF OnesOwed, evs
      <3> QED BY <1>7, <2>0, <2>3, <3>2
    <2>4. CASE x = e /\ t = type /\ g = h
      <3>1. kind = "one"
        BY <1>1, <1>3, <1>4, <2>4, <1>9
      <3> QED BY <1>7, <2>0, <2>4, <3>1
    <2> QED BY <2>1, <2>2, <2>3, <2>4
  <1>12. StaysBare({e})
    BY <1>4 DEF StaysBare
  <1> QED BY <1>5, <1>8, <1>10, <1>11, <1>12 DEF Good, EventInv

-----------------------------------------------------------------------------
(* The other operations on handlers.                                            *)

\* Removing handlers, whatever the calls that wait then.
LEMMA Removes ==
    ASSUME IInv, NEW e \in Elems, NEW ts, NEW hs, NEW frames, Waiting(frames, Len(anims)),
           RemoveHandlers(e, ts, hs, frames), anims' = anims
    PROVE  /\ FxInv' /\ ListenersMatch' /\ StaysBare({})
           /\ listening' \in [Elems -> SUBSET Types]
           /\ \A x \in Elems : Fewer(EventsOf(cache[x]), EventsOf(cache'[x]))
           /\ \A i \in DOMAIN ts : ts[i] \in DOMAIN EventsOf(cache'[e]) =>
                  DOMAIN EventsOf(cache'[e])[ts[i]] \cap hs = {}
  <1> DEFINE evs == EventsOf(cache[e])
             gone == GivenUp(evs, ts, hs)
             en == Unbound(cache[e], ts, hs)
  <1>1. EntryOK(cache[e]) /\ CacheOK /\ FxInv
    BY QueueTyped DEF IInv, FxInv
  <1>2. /\ cache' = [cache EXCEPT ![e] = en]
        /\ listening' = [listening EXCEPT ![e] = listening[e] \ gone]
        /\ stack' = Skipping(frames, e, ts, hs, gone)
    BY DEF RemoveHandlers, IInv, FxInv, CacheOK, EventInv
  <1>3. /\ EntryOK(en) /\ QueueOf(en) = QueueOf(cache[e])
        /\ evs = <<>> => EventsOf(en) = <<>>
        /\ DOMAIN EventsOf(en) = DOMAIN evs \ gone
        /\ Fewer(evs, EventsOf(en))
        /\ \A i \in DOMAIN ts : ts[i] \in DOMAIN EventsOf(en) =>
              DOMAIN EventsOf(en)[ts[i]] \cap hs = {}
    BY <1>1, UnboundReads
  <1> HIDE DEF en, gone
  <1>4. /\ cache' \in [Elems -> {None} \cup Entries] /\ cache'[e] = en
        /\ \A x \in Elems : x # e => cache'[x] = cache[x]
    BY <1>1, <1>2, <1>3 DEF CacheOK, EntryOK
  <1>5. \A x \in Elems : QueueOf(cache'[x]) = QueueOf(cache[x])
    BY <1>3, <1>4
  <1>6. Waiting(stack', Len(anims))
    BY <1>2, WaitingSkips
  <1>7. FxInv'
    BY <1>1, <1>4, <1>5, <1>6, QueuesKept
  <1>8. ListenersMatch'
    BY <1>2, <1>3, <1>4 DEF IInv, EventInv, ListenersMatch
  <1>9. listening' \in [Elems -> SUBSET Types]
    BY <1>2 DEF IInv, EventInv
  <1>10. \A x \in Elems : Fewer(EventsOf(cache[x]), EventsOf(cache'[x]))
    <2>1. \A ev : Fewer(ev, ev)
      BY DEF Fewer
    <2> QED BY <1>3, <1>4, <2>1
  <1>11. StaysBare({})
    BY <1>3, <1>4, <1>5 DEF StaysBare
  <1> QED BY <1>3, <1>4, <1>7, <1>8, <1>9, <1>10, <1>11

\* Taking all handlers of an element, with or without the rest of its data.
LEMMA RemovesAll ==
    ASSUME IInv, NEW e \in Elems, NEW en, EntryOK(en), EventsOf(en) = <<>>,
           QueueOf(en) \in {<<>>, QueueOf(cache[e])}, cache' = [cache EXCEPT ![e] = en],
           RemoveAllHandlers(e), anims' = anims, owed' = owed
    PROVE  /\ Good({}) /\ EventsOf(cache'[e]) = <<>>
           /\ QueueOf(cache'[e]) = QueueOf(en)
  <1>1. CacheOK /\ FxInv /\ EventInv /\ Waiting(stack, Len(anims))
    BY DEF IInv, FxInv
  <1>2. /\ cache' \in [Elems -> {None} \cup Entries] /\ cache'[e] = en
        /\ \A x \in Elems : x # e => cache'[x] = cache[x]
    BY <1>1 DEF CacheOK, EntryOK
  <1>3. listening' = [listening EXCEPT ![e] = listening[e] \ DOMAIN EventsOf(cache[e])]
    BY <1>1 DEF RemoveAllHandlers, EventInv
  <1>4. Waiting(stack', Len(anims))
    <2> DEFINE t == [k \in DOMAIN stack |->
                       IF stack[k].call = "event" /\ Head(stack[k].path) = e
                         THEN [stack[k] EXCEPT !.due = {}, !.over = TRUE] ELSE stack[k]]
    <2>1. stack' = t /\ DOMAIN t = DOMAIN stack /\ t = [k \in DOMAIN stack |-> t[k]]
      BY DEF RemoveAllHandlers
    <2>2. ASSUME NEW k \in DOMAIN stack, FrameOK(stack[k], Len(anims))
          PROVE  FrameOK(t[k], Len(anims))
      <3>1. CASE stack[k].call = "event"
        <4>1. "call" \in DOMAIN t[k] /\ t[k].call = "event"
          BY <2>2, <3>1 DEF FrameOK
        <4> QED BY <4>1 DEF FrameOK
      <3>2. CASE stack[k].call # "event"
        BY <2>2, <3>2
      <3> QED BY <3>1, <3>2
    <2> HIDE DEF t
    <2>3. Waiting(t, Len(anims))
      BY <1>1, <2>1, <2>2, WaitingEach
    <2> QED BY <2>1, <2>3
  <1>5. \A x \in Elems : QueueOf(cache'[x]) \in {<<>>, QueueOf(cache[x])}
    BY <1>2
  <1>6. FxInv'
    BY <1>1, <1>2, <1>4, <1>5, QueuesKept
  <1>7. DOMAIN <<>> = {}
    OBVIOUS
  <1>8. ListenersMatch' /\ listening' \in [Elems -> SUBSET Types]
    BY <1>1, <1>2, <1>3, <1>7 DEF EventInv, ListenersMatch
  <1>9. OnesOwed'
    <2>1. \A x \in Elems : Fewer(EventsOf(cache[x]), EventsOf(cache'[x]))
      BY <1>2, <1>7 DEF Fewer
    <2> QED BY <1>1, <2>1, OnesFewer
  <1>10. StaysBare({})
    BY <1>2 DEF StaysBare
  <1> QED BY <1>1, <1>2, <1>6, <1>8, <1>9, <1>10 DEF Good, EventInv

LEMMA Unbinds ==
    ASSUME IInv, NEW e \in Elems, NEW ts, NEW hs, Unbind(e, ts, hs), anims' = anims
    PROVE  Good({e})
  <1>1. RemoveHandlers(e, ts, hs, stack) /\ owed' = owed /\ Waiting(stack, Len(anims)) /\ EventInv
    BY DEF Unbind, IInv, FxInv
  <1>2. /\ FxInv' /\ ListenersMatch' /\ StaysBare({}) /\ listening' \in [Elems -> SUBSET Types]
        /\ \A x \in Elems : Fewer(EventsOf(cache[x]), EventsOf(cache'[x]))
    BY <1>1, Removes
  <1>3. OnesOwed'
    BY <1>1, <1>2, OnesFewer
  <1> QED BY <1>1, <1>2, <1>3 DEF Good, EventInv, StaysBare

LEMMA UnbindsAll ==
    ASSUME IInv, NEW e \in Elems, UnbindAll(e), anims' = anims
    PROVE  Good({e})
  <1> DEFINE en == IF EventsOf(cache[e]) = <<>> THEN Touched(cache[e])
                   ELSE WithoutData(cache[e], "events")
  <1>1. EntryOK(cache[e]) /\ CacheOK
    BY QueueTyped DEF IInv, FxInv
  <1>2. cache' = [cache EXCEPT ![e] = en] /\ RemoveAllHandlers(e) /\ owed' = owed
    BY <1>1 DEF UnbindAll, CacheOK
  <1>3. EntryOK(en) /\ EventsOf(en) = <<>> /\ QueueOf(en) \in {<<>>, QueueOf(cache[e])}
    BY <1>1, TouchedReads, WithoutReads DEF EntryOK
  <1> HIDE DEF en
  <1>4. Good({})
    BY <1>2, <1>3, RemovesAll
  <1> QED BY <1>4 DEF Good, StaysBare

\* What is removed keeps no data.
LEMMA RemovesElement ==
    ASSUME IInv, NEW e \in Elems, Remove(e), anims' = anims
    PROVE  /\ Good({}) /\ removed' = removed \cup {e}
           /\ EventsOf(cache'[e]) = <<>> /\ QueueOf(cache'[e]) = <<>>
  <1>1. EntryOK(None) /\ EventsOf(None) = <<>> /\ QueueOf(None) = <<>>
    BY Reading DEF EntryOK
  <1>2. /\ cache' = [cache EXCEPT ![e] = None] /\ RemoveAllHandlers(e) /\ owed' = owed
        /\ removed' = removed \cup {e}
    BY DEF Remove
  <1> QED BY <1>1, <1>2, RemovesAll

\* A handler bound with one unbinds itself as it is called.
LEMMA CallsOne ==
    ASSUME IInv, NEW e \in Elems, NEW h \in Handlers, CallOne(e, h), anims' = anims
    PROVE  Good({})
  <1> DEFINE evs == EventsOf(cache[e])
             T == Top.type
  <1>1. /\ FxInv /\ EventInv /\ CacheOK /\ EntryOK(cache[e]) /\ Waiting(stack, Len(anims))
        /\ ~Idle /\ Top.call = "event" /\ h \in Callable /\ e = Head(Top.path)
        /\ cache[e]["events"][T][h] = "one"
        /\ RemoveHandlers(e, <<T>>, {h}, Replace(Calling(h)))
    BY QueueTyped DEF IInv, FxInv, CallOne, CallOnce, TopIs
  <1>2. T \in DOMAIN evs /\ h \in DOMAIN evs[T] /\ evs[T][h] = "one"
    <2>1. h \in DOMAIN HandlersOf(evs, T)
      BY <1>1 DEF Callable
    <2>2. T \in DOMAIN evs /\ h \in DOMAIN evs[T]
      BY <2>1 DEF HandlersOf
    <2>3. evs = cache[e]["events"]
      BY <1>1, <2>2, Reading
    <2> QED BY <1>1, <2>2, <2>3
  <1>3. owed \in [Bindable -> [Handlers -> Nat]] /\ <<e, T>> \in Bindable /\ owed[<<e, T>>][h] = 1
    BY <1>1, <1>2 DEF EventInv, OnesOwed
  <1>4. owed' = [owed EXCEPT ![<<e, T>>] = [owed[<<e, T>>] EXCEPT ![h] = owed[<<e, T>>][h] - 1]]
    BY <1>3 DEF CallOne, CallOnce
  <1>a. h \in Handlers /\ owed[<<e, T>>] \in [Handlers -> Nat] /\ 1 - 1 \in Nat
    BY <1>3
  <1>b. [owed[<<e, T>>] EXCEPT ![h] = owed[<<e, T>>][h] - 1] \in [Handlers -> Nat]
    BY <1>3, <1>a
  <1>5. owed' \in [Bindable -> [Handlers -> Nat]]
    BY <1>3, <1>4, <1>b
  <1>6. Waiting(Replace(Calling(h)), Len(anims))
    <2>1. FrameOK(Top, Len(anims))
      BY <1>1, WaitingTop DEF Idle, Top
    <2>2. "call" \in DOMAIN Calling(h) /\ Calling(h).call = "event"
      BY <1>1, <2>1 DEF Calling, FrameOK
    <2>3. FrameOK(Calling(h), Len(anims))
      BY <2>2 DEF FrameOK
    <2> QED BY <1>1, <2>3, TopGoesOn
  <1>7. /\ FxInv' /\ ListenersMatch' /\ StaysBare({}) /\ listening' \in [Elems -> SUBSET Types]
        /\ \A x \in Elems : Fewer(EventsOf(cache[x]), EventsOf(cache'[x]))
        /\ \A i \in DOMAIN <<T>> : <<T>>[i] \in DOMAIN EventsOf(cache'[e]) =>
              DOMAIN EventsOf(cache'[e])[<<T>>[i]] \cap {h} = {}
    BY <1>1, <1>6, Removes
  <1>8. T \in DOMAIN EventsOf(cache'[e]) => h \notin DOMAIN EventsOf(cache'[e])[T]
    <2>1. 1 \in DOMAIN <<T>> /\ <<T>>[1] = T
      OBVIOUS
    <2> HIDE DEF T
    <2> QED BY <1>7, <2>1
  <1>9. OnesOwed'
    <2> HIDE DEF T
    <2> SUFFICES ASSUME NEW x \in Elems, NEW t \in DOMAIN EventsOf(cache'[x]),
                        NEW g \in DOMAIN EventsOf(cache'[x])[t], EventsOf(cache'[x])[t][g] = "one"
                 PROVE  <<x, t>> \in Bindable /\ owed'[<<x, t>>][g] = 1
      BY DEF OnesOwed
    <2>1. /\ t \in DOMAIN EventsOf(cache[x]) /\ g \in DOMAIN EventsOf(cache[x])[t]
          /\ EventsOf(cache[x])[t][g] = "one"
      BY <1>7 DEF Fewer
    <2>2. <<x, t>> \in Bindable /\ owed[<<x, t>>][g] = 1
      BY <1>1, <2>1 DEF EventInv, OnesOwed
    <2>3. <<x, t>> # <<e, T>> \/ g # h
      BY <1>8
    <2>4. g \in Handlers
      <3>1. EventsOf(cache[x]) \in EventMaps
        BY <1>1, QueueTyped, ReadingTyped
      <3> QED BY <2>1, <3>1 DEF EventMaps, HandlerMaps
    <2> QED BY <1>3, <1>4, <2>2, <2>3, <2>4
  <1> QED BY <1>5, <1>7, <1>9 DEF Good, EventInv

\* The data of an element is asked for.
LEMMA Handles ==
    ASSUME IInv, Handle, anims' = anims
    PROVE  Good({})
  <1>1. /\ FxInv /\ EventInv /\ CacheOK /\ Waiting(stack, Len(anims)) /\ ~Idle /\ Top.call = "event"
        /\ UNCHANGED eventVars
    BY DEF IInv, FxInv, Handle, TopIs
  <1>2. PICK hs : stack' = Replace([Top EXCEPT !.begun = TRUE, !.due = hs, !.over = hs = {}])
    BY DEF Handle
  <1>3. Waiting(stack', Len(anims))
    <2> DEFINE f == [Top EXCEPT !.begun = TRUE, !.due = hs, !.over = hs = {}]
    <2>1. FrameOK(Top, Len(anims))
      BY <1>1, WaitingTop DEF Idle, Top
    <2>2. "call" \in DOMAIN f /\ f.call = "event"
      BY <1>1, <2>1 DEF FrameOK
    <2>3. FrameOK(f, Len(anims))
      BY <2>2 DEF FrameOK
    <2> HIDE DEF f
    <2>4. Waiting(Replace(f), Len(anims))
      BY <1>1, <2>3, TopGoesOn
    <2> QED BY <1>2, <2>4 DEF f
  <1>4. /\ cache' \in [Elems -> {None} \cup Entries]
        /\ \A x \in Elems : cache'[x] = cache[x] \/ cache'[x] = Touched(cache[x])
    <2> DEFINE e == Head(Top.path)
    <2>1. cache' = cache \/ cache' = [cache EXCEPT ![e] = Touched(cache[e])]
      BY <1>1 DEF Handle, CacheOK
    <2>2. \A x \in Elems : Touched(cache[x]) \in {None} \cup Entries
      BY <1>1, QueueTyped, TouchedReads
    <2> HIDE DEF e
    <2> QED BY <1>1, <2>1, <2>2 DEF CacheOK
  <1>5. \A x \in Elems : /\ EventsOf(cache'[x]) = EventsOf(cache[x])
                       /\ QueueOf(cache'[x]) = QueueOf(cache[x])
    BY <1>1, <1>4, QueueTyped, TouchedReads
  <1>6. FxInv'
    BY <1>1, <1>3, <1>4, <1>5, QueuesKept
  <1>7. NoneBegun({})
    BY <1>5 DEF NoneBegun
  <1> QED BY <1>1, <1>6, <1>7, EventsStay

\* What only pushes, changes or ends a call.
LEMMA Calls ==
    ASSUME IInv, NEW e, NEW type, NEW h, NEW stops, NEW atOnce, anims' = anims,
           \/ Trigger(e, type) \/ BrowserEvent(e, type) \/ CallHandler(h) \/ EventMovesOn
           \/ HandlerReturns(stops, atOnce)
    PROVE  Good({})
  <1> DEFINE n == Len(anims)
  <1>1. FxInv /\ EventInv /\ Waiting(stack, n)
    BY DEF IInv, FxInv
  <1>2. cache' = cache /\ UNCHANGED <<listening, owed>>
    BY DEF Trigger, BrowserEvent, CallHandler, EventMovesOn, HandlerReturns, eventVars
  <1>3. \A path, native : FrameOK(EventFrame(path, type, native), n) /\ FrameOK(EventFrame(path, Top.type, native), n)
    BY DEF EventFrame, FrameOK
  <1>4. \A f : FrameOK(f, n) => Waiting(Push(f), n) /\ (~Idle => Waiting(Replace(f), n) /\ Waiting(Pop, n))
    BY <1>1, WaitingPush, TopGoesOn DEF Push
  <1>5. ~Idle /\ Top.call = "event" => "call" \in DOMAIN Top
    BY <1>1, WaitingTop DEF Idle, Top, FrameOK
  <1>6. Waiting(stack', n)
    <2>1. CASE Trigger(e, type) \/ BrowserEvent(e, type)
      BY <1>3, <1>4, <2>1 DEF Trigger, BrowserEvent
    <2>2. CASE CallHandler(h)
      <3>1. ~Idle /\ Top.call = "event" /\ stack' = Replace(Calling(h))
        BY <2>2 DEF CallHandler, TopIs
      <3>2. "call" \in DOMAIN Calling(h) /\ Calling(h).call = "event"
        BY <1>5, <3>1 DEF Calling
      <3>3. FrameOK(Calling(h), n)
        BY <3>2 DEF FrameOK
      <3> QED BY <1>4, <3>1, <3>3
    <2>3. CASE EventMovesOn
      <3>1. FrameOK(EventFrame(NextPath, Top.type, Top.native), n)
        BY <1>3
      <3>2. ~Idle /\ (stack' = Pop \/ stack' = Replace(EventFrame(NextPath, Top.type, Top.native)))
        BY <2>3 DEF EventMovesOn, TopIs
      <3> QED BY <1>4, <3>1, <3>2
    <2>4. CASE HandlerReturns(stops, atOnce)
      <3> DEFINE f == [Top EXCEPT !.paused = FALSE, !.stopped = @ \/ stops \/ atOnce,
                                  !.due = IF atOnce THEN {} ELSE @, !.over = @ \/ atOnce]
      <3>1. ~Idle /\ Top.call = "event" /\ stack' = Replace(f)
        BY <2>4 DEF HandlerReturns, TopIs
      <3>2. "call" \in DOMAIN f /\ f.call = "event"
        BY <1>5, <3>1
      <3>3. FrameOK(f, n)
        <4> HIDE DEF f
        <4> QED BY <3>2 DEF FrameOK
      <3> HIDE DEF f
      <3> QED BY <1>4, <3>1, <3>3
    <2> QED BY <2>1, <2>2, <2>3, <2>4
  <1> HIDE DEF n
  <1> QED BY <1>1, <1>2, <1>6, OnlyCalls DEF n

LEMMA Readies ==
    ASSUME IInv, NEW f, anims' = anims, AskReady(f) \/ DocumentGoesOn \/ CallReady \/ ReadyReturns
    PROVE  Good({})
  <1> DEFINE n == Len(anims)
  <1>1. FxInv /\ EventInv /\ Waiting(stack, n)
    BY DEF IInv, FxInv
  <1>2. cache' = cache /\ UNCHANGED <<listening, owed>>
    BY DEF AskReady, DocumentGoesOn, CallReady, ReadyReturns, eventVars
  <1>3. \A fns : FrameOK(ReadyFrame(fns), n)
    BY DEF ReadyFrame, FrameOK
  <1>4. \A g : FrameOK(g, n) => Waiting(Push(g), n) /\ (~Idle => Waiting(Replace(g), n) /\ Waiting(Pop, n))
    BY <1>1, WaitingPush, TopGoesOn DEF Push
  <1>5. Waiting(stack', n)
    <2>1. CASE AskReady(f) \/ DocumentGoesOn
      BY <1>1, <1>3, <1>4, <2>1 DEF AskReady, DocumentGoesOn, Ready
    <2>2. CASE CallReady \/ ReadyReturns
      <3> DEFINE g == [Top EXCEPT !.paused = TRUE, !.rest = Tail(@)]
                 r == [Top EXCEPT !.paused = FALSE]
      <3>1. ~Idle /\ Top.call = "ready" /\ stack' \in {Pop, Replace(g), Replace(r)}
        BY <2>2 DEF CallReady, ReadyReturns, TopIs
      <3>2. "call" \in DOMAIN Top
        BY <1>1, <3>1, WaitingTop DEF Idle, Top, FrameOK
      <3>3. "call" \in DOMAIN g /\ g.call = "ready" /\ "call" \in DOMAIN r /\ r.call = "ready"
        BY <3>1, <3>2
      <3> HIDE DEF g, r
      <3>4. FrameOK(g, n) /\ FrameOK(r, n)
        BY <3>3 DEF FrameOK
      <3> QED BY <1>4, <3>1, <3>4
    <2> QED BY <2>1, <2>2
  <1> HIDE DEF n
  <1> QED BY <1>1, <1>2, <1>5, OnlyCalls DEF n

LEMMA EventSteps ==
    ASSUME IInv, EventStep, anims' = anims
    PROVE  Good({})
  <1>1. CASE \E b \in Bindable : BrowserEvent(b[1], b[2])
    BY <1>1, Calls
  <1>2. CASE Handle
    BY <1>2, Handles
  <1>3. CASE EventMovesOn
    BY <1>3, Calls
  <1>4. CASE \E h \in Handlers : CallHandler(h)
    BY <1>4, Calls
  <1>5. CASE \E h \in Handlers, e \in Elems : CallOne(e, h)
    BY <1>5, CallsOne
  <1>6. CASE \E stops, atOnce \in BOOLEAN : HandlerReturns(stops, atOnce)
    BY <1>6, Calls
  <1>7. CASE DocumentGoesOn \/ CallReady \/ ReadyReturns
    BY <1>7, Readies
  <1> QED BY <1>1, <1>2, <1>3, <1>4, <1>5, <1>6, <1>7 DEF EventStep

-----------------------------------------------------------------------------
(* The functions given to ready: each waits in one place, the list or a call.   *)

RestOf(f) == IF f.call = "ready" THEN f.rest ELSE <<>>
FnsOK(s) ==
    \A k \in DOMAIN s : s[k].call = "ready" => "rest" \in DOMAIN s[k] /\ s[k].rest \in Seq(ReadyFns)

ListWaits ==
    /\ readyList \in Seq(ReadyFns)
    /\ \A i \in DOMAIN readyList : calls[readyList[i]] = 0 /\ asked[readyList[i]] # "never"
    /\ \A i, j \in DOMAIN readyList : readyList[i] = readyList[j] => i = j
RestsWait ==
    \A k \in DOMAIN stack : \A i \in DOMAIN RestOf(stack[k]) :
        /\ calls[RestOf(stack[k])[i]] = 0 /\ asked[RestOf(stack[k])[i]] # "never"
        /\ \A l \in DOMAIN stack : \A j \in DOMAIN RestOf(stack[l]) :
               RestOf(stack[k])[i] = RestOf(stack[l])[j] => k = l /\ i = j
InReadyList(f) == \E i \in DOMAIN readyList : readyList[i] = f
InCall(f) == \E k \in DOMAIN stack : \E i \in DOMAIN RestOf(stack[k]) : RestOf(stack[k])[i] = f

ReadyInv ==
    /\ asked \in [ReadyFns -> {"never", "inTime", "late"}] /\ calls \in [ReadyFns -> 0 .. 1]
    /\ \A f \in ReadyFns : asked[f] = "never" => calls[f] = 0
    /\ FnsOK(stack) /\ ListWaits /\ RestsWait
    /\ IF isReady THEN readyList = <<>> ELSE \A k \in DOMAIN stack : RestOf(stack[k]) = <<>>
    /\ ~threw => \A f \in ReadyFns : asked[f] = "never" \/ calls[f] = 1 \/ InReadyList(f) \/ InCall(f)
    /\ document = "loaded" /\ ~isReady => \A f \in ReadyFns : asked[f] # "inTime"

\* As far as functions wait in them, the calls t are the calls s, moved by d.
Moved(s, t, d) ==
    /\ \A k \in DOMAIN t : RestOf(t[k]) # <<>> => k - d \in DOMAIN s /\ RestOf(s[k - d]) = RestOf(t[k])
    /\ \A k \in DOMAIN s : RestOf(s[k]) # <<>> => k + d \in DOMAIN t /\ RestOf(t[k + d]) = RestOf(s[k])
IsList(s) == \E S : s \in Seq(S)
SameRests(s, t) == IsList(t) /\ FnsOK(t) /\ \E d \in Int : Moved(s, t, d)

LEMMA ListIndexed ==
    ASSUME NEW s, IsList(s)
    PROVE  Len(s) \in Nat /\ DOMAIN s = 1 .. Len(s)
  BY DEF IsList

LEMMA SameAsItself ==
    ASSUME NEW s, IsList(s), FnsOK(s)
    PROVE  SameRests(s, s)
  <1>1. \A k \in DOMAIN s : k \in Int
    BY ListIndexed
  <1>2. Moved(s, s, 0)
    BY <1>1 DEF Moved
  <1> QED BY <1>2 DEF SameRests

LEMMA SameThrough ==
    ASSUME NEW s, NEW t, NEW u, IsList(s), SameRests(s, t), SameRests(t, u)
    PROVE  SameRests(s, u)
  <1>1. PICK d \in Int : Moved(s, t, d)
    BY DEF SameRests
  <1>2. PICK e \in Int : Moved(t, u, e)
    BY DEF SameRests
  <1>3. IsList(t) /\ IsList(u) /\ FnsOK(u)
    BY DEF SameRests
  <1>4. \A k : k \in DOMAIN s \/ k \in DOMAIN u => k \in Int
    BY <1>3, ListIndexed
  <1>5. ASSUME NEW k \in DOMAIN u, RestOf(u[k]) # <<>>
        PROVE  k - (d + e) \in DOMAIN s /\ RestOf(s[k - (d + e)]) = RestOf(u[k])
    <2>1. k - e \in DOMAIN t /\ RestOf(t[k - e]) = RestOf(u[k])
      BY <1>2, <1>5 DEF Moved
    <2>2. (k - e) - d \in DOMAIN s /\ RestOf(s[(k - e) - d]) = RestOf(t[k - e])
      BY <1>1, <1>5, <2>1 DEF Moved
    <2>3. (k - e) - d = k - (d + e)
      BY <1>4
    <2> QED BY <2>1, <2>2, <2>3
  <1>6. ASSUME NEW k \in DOMAIN s, RestOf(s[k]) # <<>>
        PROVE  k + (d + e) \in DOMAIN u /\ RestOf(u[k + (d + e)]) = RestOf(s[k])
    <2>1. k + d \in DOMAIN t /\ RestOf(t[k + d]) = RestOf(s[k])
      BY <1>1, <1>6 DEF Moved
    <2>2. (k + d) + e \in DOMAIN u /\ RestOf(u[(k + d) + e]) = RestOf(t[k + d])
      BY <1>2, <1>6, <2>1 DEF Moved
    <2>3. (k + d) + e = k + (d + e)
      BY <1>4
    <2> QED BY <2>1, <2>2, <2>3
  <1>7. Moved(s, u, d + e)
    BY <1>5, <1>6 DEF Moved
  <1> QED BY <1>3, <1>7 DEF SameRests

\* A call that is added, or taken off, with no function waiting in it.
LEMMA SamePushed ==
    ASSUME NEW s, IsList(s), FnsOK(s), NEW f, f.call # "ready"
    PROVE  SameRests(s, <<f>> \o s)
  <1> DEFINE t == <<f>> \o s
  <1>1. PICK S : s \in Seq(S)
    BY DEF IsList
  <1>2. s \in Seq(S \cup {f}) /\ <<f>> \in Seq(S \cup {f})
    BY <1>1
  <1>3. /\ t \in Seq(S \cup {f}) /\ Len(t) = Len(s) + 1 /\ DOMAIN t = 1 .. Len(s) + 1
        /\ Len(s) \in Nat /\ DOMAIN s = 1 .. Len(s)
        /\ t[1] = f /\ \A k \in 1 .. Len(s) : t[k + 1] = s[k]
    BY <1>2
  <1> HIDE DEF t
  <1>4. \A k \in DOMAIN t : k = 1 \/ (k - 1 \in DOMAIN s /\ t[k] = s[k - 1])
    BY <1>3
  <1>5. RestOf(f) = <<>>
    BY DEF RestOf
  <1>6. Moved(s, t, 1)
    BY <1>3, <1>4, <1>5 DEF Moved
  <1>7. FnsOK(t)
    BY <1>3, <1>4 DEF FnsOK
  <1>8. IsList(t)
    BY <1>3 DEF IsList
  <1> QED BY <1>6, <1>7, <1>8 DEF SameRests, t

LEMMA SamePopped ==
    ASSUME NEW s, IsList(s), FnsOK(s), s # <<>>, RestOf(Head(s)) = <<>>
    PROVE  SameRests(s, Tail(s))
  <1> DEFINE t == Tail(s)
  <1>1. PICK S : s \in Seq(S)
    BY DEF IsList
  <1>2. /\ t \in Seq(S) /\ DOMAIN t = 1 .. Len(s) - 1 /\ Len(s) \in Nat /\ DOMAIN s = 1 .. Len(s)
        /\ Head(s) = s[1] /\ \A k \in DOMAIN t : t[k] = s[k + 1]
    BY <1>1
  <1> HIDE DEF t
  <1>3. \A k \in DOMAIN s : k = 1 \/ (k + -1 \in DOMAIN t /\ t[k + -1] = s[k])
    BY <1>2
  <1>4. \A k \in DOMAIN t : k - -1 \in DOMAIN s /\ t[k] = s[k - -1]
    BY <1>2
  <1>5. Moved(s, t, -1)
    BY <1>2, <1>3, <1>4 DEF Moved
  <1>6. FnsOK(t)
    BY <1>2, <1>4 DEF FnsOK
  <1>7. IsList(t)
    BY <1>2 DEF IsList
  <1> QED BY <1>5, <1>6, <1>7 DEF SameRests, t

\* Calls that are changed one by one, each with the functions that it had.
LEMMA SameEach ==
    ASSUME NEW s, IsList(s), FnsOK(s), NEW t, IsList(t), DOMAIN t = DOMAIN s,
           \A k \in DOMAIN s : /\ RestOf(t[k]) = RestOf(s[k])
                               /\ t[k].call = "ready" => "rest" \in DOMAIN t[k] /\ t[k].rest \in Seq(ReadyFns)
    PROVE  SameRests(s, t)
  <1>1. \A k \in DOMAIN s : k + 0 = k /\ k - 0 = k
    BY ListIndexed
  <1>2. Moved(s, t, 0)
    BY <1>1 DEF Moved
  <1> QED BY <1>2 DEF SameRests, FnsOK

\* The call on top becomes one with the same functions.
LEMMA SameReplaced ==
    ASSUME NEW s, IsList(s), FnsOK(s), s # <<>>, NEW f, RestOf(f) = RestOf(Head(s)),
           f.call = "ready" => "rest" \in DOMAIN f /\ f.rest \in Seq(ReadyFns)
    PROVE  SameRests(s, <<f>> \o Tail(s))
  <1> DEFINE t == <<f>> \o Tail(s)
  <1>1. PICK S : s \in Seq(S)
    BY DEF IsList
  <1>2. Tail(s) \in Seq(S \cup {f}) /\ <<f>> \in Seq(S \cup {f})
    BY <1>1
  <1>3. /\ t \in Seq(S \cup {f}) /\ DOMAIN t = DOMAIN s
        /\ Head(s) = s[1] /\ t[1] = f /\ \A k \in DOMAIN s : k = 1 \/ t[k] = s[k]
    BY <1>1, <1>2
  <1> HIDE DEF t
  <1>4. ASSUME NEW k \in DOMAIN s
        PROVE  /\ RestOf(t[k]) = RestOf(s[k])
               /\ t[k].call = "ready" => "rest" \in DOMAIN t[k] /\ t[k].rest \in Seq(ReadyFns)
    BY <1>3 DEF FnsOK
  <1>5. IsList(t)
    BY <1>3 DEF IsList
  <1>6. SameRests(s, t)
    BY <1>3, <1>4, <1>5, SameEach
  <1> QED BY <1>6 DEF t

\* Functions that wait where they waited are served as before.
LEMMA StillServed ==
    ASSUME ReadyInv, SameRests(stack, stack'), UNCHANGED readyVars, threw => threw'
    PROVE  ReadyInv'
  <1>1. PICK d \in Int : Moved(stack, stack', d)
    BY DEF SameRests
  <1>2. IsList(stack') /\ FnsOK(stack')
    BY DEF SameRests
  <1>3. \A k \in DOMAIN stack' : k \in Int
    BY <1>2, ListIndexed
  <1>4. UNCHANGED <<document, isReady, readyList, asked, calls>>
    BY DEF readyVars
  <1>5. \A k \in DOMAIN stack' : RestOf(stack'[k]) # <<>> =>
            k - d \in DOMAIN stack /\ RestOf(stack[k - d]) = RestOf(stack'[k])
    BY <1>1 DEF Moved
  <1>6. \A k \in DOMAIN stack : RestOf(stack[k]) # <<>> =>
            k + d \in DOMAIN stack' /\ RestOf(stack'[k + d]) = RestOf(stack[k])
    BY <1>1 DEF Moved
  <1>7. \A k \in DOMAIN stack' : \A i \in DOMAIN RestOf(stack'[k]) : RestOf(stack'[k]) # <<>>
    <2>1. DOMAIN <<>> = {}
      OBVIOUS
    <2> QED BY <2>1
  <1>8. RestsWait'
    <2> SUFFICES ASSUME NEW k \in DOMAIN stack', NEW i \in DOMAIN RestOf(stack'[k])
                 PROVE  /\ calls[RestOf(stack'[k])[i]] = 0 /\ asked[RestOf(stack'[k])[i]] # "never"
                        /\ \A l \in DOMAIN stack' : \A j \in DOMAIN RestOf(stack'[l]) :
                               RestOf(stack'[k])[i] = RestOf(stack'[l])[j] => k = l /\ i = j
      BY <1>4 DEF RestsWait
    <2>1. k - d \in DOMAIN stack /\ RestOf(stack[k - d]) = RestOf(stack'[k])
      BY <1>5, <1>7
    <2>2. ASSUME NEW l \in DOMAIN stack', NEW j \in DOMAIN RestOf(stack'[l]),
                 RestOf(stack'[k])[i] = RestOf(stack'[l])[j]
          PROVE  k = l /\ i = j
      <3>1. l - d \in DOMAIN stack /\ RestOf(stack[l - d]) = RestOf(stack'[l])
        BY <1>5, <1>7
      <3>2. k - d = l - d /\ i = j
        BY <2>1, <2>2, <3>1 DEF ReadyInv, RestsWait
      <3> QED BY <1>3, <3>2
    <2>3. calls[RestOf(stack'[k])[i]] = 0 /\ asked[RestOf(stack'[k])[i]] # "never"
      BY <2>1 DEF ReadyInv, RestsWait
    <2> QED BY <2>2, <2>3
  <1>9. ListWaits' /\ (\A f : InReadyList(f)' <=> InReadyList(f))
    BY <1>4 DEF ReadyInv, ListWaits, InReadyList
  <1>10. ASSUME NEW f, InCall(f) PROVE InCall(f)'
    <2>1. PICK k \in DOMAIN stack : \E i \in DOMAIN RestOf(stack[k]) : RestOf(stack[k])[i] = f
      BY <1>10 DEF InCall
    <2>2. RestOf(stack[k]) # <<>>
      <3>1. DOMAIN <<>> = {}
        OBVIOUS
      <3> QED BY <2>1, <3>1
    <2>3. k + d \in DOMAIN stack' /\ RestOf(stack'[k + d]) = RestOf(stack[k])
      BY <1>6, <2>2
    <2> QED BY <2>1, <2>3 DEF InCall
  <1>11. ~isReady => \A k \in DOMAIN stack' : RestOf(stack'[k]) = <<>>
    BY <1>5 DEF ReadyInv
  <1> HIDE DEF SameRests
  <1> QED BY <1>2, <1>4, <1>8, <1>9, <1>10, <1>11 DEF ReadyInv

\* When one of them throws, the others are not called.
LEMMA ThrownServed ==
    ASSUME ReadyInv, threw', UNCHANGED readyVars, \A k \in DOMAIN stack' : stack'[k].call # "ready"
    PROVE  ReadyInv'
  <1>1. UNCHANGED <<document, isReady, readyList, asked, calls>>
    BY DEF readyVars
  <1>2. \A k \in DOMAIN stack' : RestOf(stack'[k]) = <<>>
    BY DEF RestOf
  <1>3. RestsWait' /\ FnsOK(stack')
    <2>1. DOMAIN <<>> = {}
      OBVIOUS
    <2> QED BY <1>2, <2>1 DEF RestsWait, FnsOK
  <1>4. ListWaits'
    BY <1>1 DEF ReadyInv, ListWaits
  <1> QED BY <1>1, <1>2, <1>3, <1>4 DEF ReadyInv

\* A call in which functions wait is the new top.
LEMMA RestsPushed ==
    ASSUME IsList(stack), FnsOK(stack), NEW fns \in Seq(ReadyFns), stack' = Push(ReadyFrame(fns))
    PROVE  /\ FnsOK(stack')
           /\ 1 \in DOMAIN stack' /\ RestOf(stack'[1]) = fns
           /\ \A k \in DOMAIN stack' : k # 1 => k - 1 \in DOMAIN stack /\ stack'[k] = stack[k - 1]
           /\ \A k \in DOMAIN stack : k + 1 \in DOMAIN stack' /\ stack'[k + 1] = stack[k]
           /\ \A k \in DOMAIN stack' : k \in Nat
  <1> DEFINE f == ReadyFrame(fns)
  <1>1. PICK S : stack \in Seq(S)
    BY DEF IsList
  <1>2. stack \in Seq(S \cup {f}) /\ <<f>> \in Seq(S \cup {f}) /\ stack' = <<f>> \o stack
    BY <1>1 DEF Push
  <1>3. f.call = "ready" /\ "rest" \in DOMAIN f /\ f.rest = fns
    BY DEF ReadyFrame
  <1> HIDE DEF f
  <1>4. /\ DOMAIN stack' = 1 .. Len(stack) + 1 /\ Len(stack) \in Nat /\ DOMAIN stack = 1 .. Len(stack)
        /\ stack'[1] = f /\ \A k \in 1 .. Len(stack) : stack'[k + 1] = stack[k]
    BY <1>2
  <1>5. \A k \in DOMAIN stack' : k # 1 => k - 1 \in DOMAIN stack /\ stack'[k] = stack[k - 1]
    BY <1>4
  <1>6. FnsOK(stack')
    BY <1>3, <1>4, <1>5 DEF FnsOK
  <1> QED BY <1>3, <1>4, <1>5, <1>6 DEF RestOf

LEMMA AskServed ==
    ASSUME ReadyInv, IsList(stack), NEW f \in ReadyFns, AskReady(f)
    PROVE  ReadyInv'
  <1>1. /\ asked[f] = "never" /\ calls[f] = 0 /\ UNCHANGED <<threw, document, isReady, calls>>
        /\ asked' = [asked EXCEPT ![f] = IF isReady \/ document # "loaded" THEN "inTime" ELSE "late"]
    BY DEF AskReady, ReadyInv
  <1>2. /\ asked' \in [ReadyFns -> {"never", "inTime", "late"}] /\ asked'[f] # "never"
        /\ \A g \in ReadyFns : g # f => asked'[g] = asked[g]
        /\ ~isReady /\ document = "loaded" => asked'[f] = "late"
    BY <1>1 DEF ReadyInv
  <1>3. ~InReadyList(f) /\ ~InCall(f)
    BY <1>1 DEF ReadyInv, ListWaits, RestsWait, InReadyList, InCall
  <1>4. \A g \in ReadyFns : asked'[g] = "never" => calls[g] = 0
    BY <1>1, <1>2 DEF ReadyInv
  <1>5. \A k \in DOMAIN stack : \A i \in DOMAIN RestOf(stack[k]) : RestOf(stack[k])[i] \in ReadyFns
    <2> SUFFICES ASSUME NEW k \in DOMAIN stack, NEW i \in DOMAIN RestOf(stack[k])
                 PROVE  RestOf(stack[k])[i] \in ReadyFns
      OBVIOUS
    <2>1. DOMAIN <<>> = {}
      OBVIOUS
    <2>2. RestOf(stack[k]) \in Seq(ReadyFns)
      BY <2>1 DEF RestOf, ReadyInv, FnsOK
    <2> QED BY <2>2
  <1>6. CASE isReady
    <2>1. stack' = Push(ReadyFrame(<<f>>)) /\ readyList' = readyList /\ <<f>> \in Seq(ReadyFns)
      BY <1>6 DEF AskReady
    <2>2. /\ FnsOK(stack')
          /\ 1 \in DOMAIN stack' /\ RestOf(stack'[1]) = <<f>>
          /\ \A k \in DOMAIN stack' : k # 1 => k - 1 \in DOMAIN stack /\ stack'[k] = stack[k - 1]
          /\ \A k \in DOMAIN stack : k + 1 \in DOMAIN stack' /\ stack'[k + 1] = stack[k]
          /\ \A k \in DOMAIN stack' : k \in Nat
      BY <2>1, RestsPushed DEF ReadyInv
    <2>3. \A i \in DOMAIN <<f>> : i = 1 /\ <<f>>[i] = f
      OBVIOUS
    <2>4. RestsWait'
      <3> SUFFICES ASSUME NEW k \in DOMAIN stack', NEW i \in DOMAIN RestOf(stack'[k])
                   PROVE  /\ calls'[RestOf(stack'[k])[i]] = 0 /\ asked'[RestOf(stack'[k])[i]] # "never"
                          /\ \A l \in DOMAIN stack' : \A j \in DOMAIN RestOf(stack'[l]) :
                                 RestOf(stack'[k])[i] = RestOf(stack'[l])[j] => k = l /\ i = j
        BY DEF RestsWait
      <3>1. CASE k = 1
        <4>1. i = 1 /\ RestOf(stack'[k])[i] = f
          BY <2>2, <2>3, <3>1
        <4>2. ASSUME NEW l \in DOMAIN stack', NEW j \in DOMAIN RestOf(stack'[l]), f = RestOf(stack'[l])[j]
              PROVE  l = 1 /\ j = 1
          <5>1. l = 1
            BY <1>3, <2>2, <4>2 DEF InCall
          <5> QED BY <2>2, <2>3, <5>1
        <4> QED BY <1>1, <1>2, <3>1, <4>1, <4>2
      <3>2. CASE k # 1
        <4>1. k - 1 \in DOMAIN stack /\ stack'[k] = stack[k - 1]
          BY <2>2, <3>2
        <4>2. /\ calls[RestOf(stack'[k])[i]] = 0 /\ asked[RestOf(stack'[k])[i]] # "never"
              /\ RestOf(stack'[k])[i] # f /\ RestOf(stack'[k])[i] \in ReadyFns
          BY <1>3, <1>5, <4>1 DEF ReadyInv, RestsWait, InCall
        <4>3. ASSUME NEW l \in DOMAIN stack', NEW j \in DOMAIN RestOf(stack'[l]),
                     RestOf(stack'[k])[i] = RestOf(stack'[l])[j]
              PROVE  k = l /\ i = j
          <5>1. l # 1
            BY <2>2, <2>3, <4>2, <4>3
          <5>2. l - 1 \in DOMAIN stack /\ stack'[l] = stack[l - 1]
            BY <2>2, <5>1
          <5>3. k - 1 = l - 1 /\ i = j
            BY <4>1, <4>3, <5>2 DEF ReadyInv, RestsWait
          <5> QED BY <2>2, <5>3
        <4> QED BY <1>1, <1>2, <4>2, <4>3
      <3> QED BY <3>1, <3>2
    <2>5. readyList' = <<>> /\ ListWaits'
      <3>1. readyList' = <<>> /\ DOMAIN <<>> = {} /\ <<>> \in Seq(ReadyFns)
        BY <1>6, <2>1 DEF ReadyInv
      <3> QED BY <3>1 DEF ListWaits
    <2>6. InCall(f)' /\ \A g : InCall(g) => InCall(g)'
      <3>1. InCall(f)'
        BY <2>2, <2>3 DEF InCall
      <3> QED BY <2>2, <3>1 DEF InCall
    <2>7. threw \/ \A g \in ReadyFns : asked'[g] = "never" \/ calls[g] = 1 \/ InCall(g)'
      <3>1. \A g : ~InReadyList(g)
        BY <2>1, <2>5 DEF InReadyList
      <3> QED BY <1>2, <2>6, <3>1 DEF ReadyInv
    <2> QED BY <1>1, <1>2, <1>4, <1>6, <2>2, <2>4, <2>5, <2>7 DEF ReadyInv
  <1>7. CASE ~isReady
    <2>1. readyList' = Append(readyList, f) /\ stack' = stack /\ readyList \in Seq(ReadyFns)
      BY <1>7 DEF AskReady, ReadyInv, ListWaits
    <2>2. /\ readyList' \in Seq(ReadyFns) /\ DOMAIN readyList' = DOMAIN readyList \cup {Len(readyList) + 1}
          /\ Len(readyList) + 1 \notin DOMAIN readyList
          /\ readyList'[Len(readyList) + 1] = f /\ \A i \in DOMAIN readyList : readyList'[i] = readyList[i]
      BY <2>1
    <2>3. \A i \in DOMAIN readyList : readyList[i] \in ReadyFns /\ readyList[i] # f
      BY <1>3, <2>1 DEF InReadyList
    <2>4. ListWaits'
      <3>1. \A i \in DOMAIN readyList' : calls[readyList'[i]] = 0 /\ asked'[readyList'[i]] # "never"
        BY <1>1, <1>2, <2>2, <2>3 DEF ReadyInv, ListWaits
      <3>2. \A i, j \in DOMAIN readyList' : readyList'[i] = readyList'[j] => i = j
        BY <2>2, <2>3 DEF ReadyInv, ListWaits
      <3> QED BY <1>1, <2>2, <3>1, <3>2 DEF ListWaits
    <2>5. RestsWait' /\ (\A g : InCall(g)' <=> InCall(g))
      <3>1. \A k \in DOMAIN stack : RestOf(stack[k]) = <<>>
        BY <1>7 DEF ReadyInv
      <3>2. DOMAIN <<>> = {}
        OBVIOUS
      <3> QED BY <2>1, <3>1, <3>2 DEF RestsWait, InCall
    <2>6. InReadyList(f)' /\ \A g : InReadyList(g) => InReadyList(g)'
      BY <2>2 DEF InReadyList
    <2>7. threw \/ \A g \in ReadyFns : asked'[g] = "never" \/ calls[g] = 1 \/ InReadyList(g)' \/ InCall(g)'
      BY <1>2, <2>5, <2>6 DEF ReadyInv
    <2> QED BY <1>1, <1>2, <1>4, <1>7, <2>1, <2>4, <2>5, <2>7 DEF ReadyInv
  <1> QED BY <1>6, <1>7

\* The list is called when the document is there: what waited in it waits in the call.
LEMMA DocumentServed ==
    ASSUME ReadyInv, IsList(stack), DocumentGoesOn
    PROVE  ReadyInv'
  <1>1. UNCHANGED <<threw, asked, calls>> /\ Ready
    BY DEF DocumentGoesOn
  <1>2. CASE ReadyBound /\ ~isReady
    <2>1. isReady' = TRUE /\ readyList' = <<>> /\ stack' = Push(ReadyFrame(readyList)) /\ readyList \in Seq(ReadyFns)
      BY <1>1, <1>2 DEF Ready, ReadyInv, ListWaits
    <2>2. /\ FnsOK(stack')
          /\ 1 \in DOMAIN stack' /\ RestOf(stack'[1]) = readyList
          /\ \A k \in DOMAIN stack' : k # 1 => k - 1 \in DOMAIN stack /\ stack'[k] = stack[k - 1]
      BY <2>1, RestsPushed DEF ReadyInv
    <2>3. DOMAIN <<>> = {} /\ <<>> \in Seq(ReadyFns)
      OBVIOUS
    <2>4. \A k \in DOMAIN stack' : k # 1 => DOMAIN RestOf(stack'[k]) = {}
      BY <1>2, <2>2, <2>3 DEF ReadyInv
    <2>5. RestsWait'
      <3> SUFFICES ASSUME NEW k \in DOMAIN stack', NEW i \in DOMAIN RestOf(stack'[k])
                   PROVE  /\ calls[RestOf(stack'[k])[i]] = 0 /\ asked[RestOf(stack'[k])[i]] # "never"
                          /\ \A l \in DOMAIN stack' : \A j \in DOMAIN RestOf(stack'[l]) :
                                 RestOf(stack'[k])[i] = RestOf(stack'[l])[j] => k = l /\ i = j
        BY <1>1 DEF RestsWait
      <3>1. k = 1 /\ \A l \in DOMAIN stack' : \A j \in DOMAIN RestOf(stack'[l]) : l = 1
        BY <2>4
      <3> QED BY <2>2, <3>1 DEF ReadyInv, ListWaits
    <2>6. ListWaits'
      BY <2>1, <2>3 DEF ListWaits
    <2>7. \A g : InReadyList(g) => InCall(g)'
      BY <2>2 DEF InReadyList, InCall
    <2>8. \A g : ~InCall(g)
      BY <1>2, <2>3 DEF ReadyInv, InCall
    <2>9. threw \/ \A g \in ReadyFns : asked[g] = "never" \/ calls[g] = 1 \/ InCall(g)'
      BY <2>7, <2>8 DEF ReadyInv
    <2> QED BY <1>1, <2>1, <2>2, <2>5, <2>6, <2>9 DEF ReadyInv
  <1>3. CASE ~(ReadyBound /\ ~isReady)
    <2>1. UNCHANGED <<isReady, readyList, stack>>
      BY <1>1, <1>3 DEF Ready
    <2>2. ~isReady => \A f \in ReadyFns : asked[f] = "never"
      BY <1>3 DEF ReadyBound
    <2>3. RestsWait' /\ ListWaits' /\ \A g : (InReadyList(g)' <=> InReadyList(g)) /\ (InCall(g)' <=> InCall(g))
      BY <1>1, <2>1 DEF ReadyInv, RestsWait, ListWaits, InReadyList, InCall
    <2> QED BY <1>1, <2>1, <2>2, <2>3 DEF ReadyInv
  <1> QED BY <1>2, <1>3

\* The first that waits in the call on top is called.
LEMMA CallServed ==
    ASSUME ReadyInv, IsList(stack), CallReady
    PROVE  ReadyInv'
  <1>1. /\ ~Idle /\ Top.call = "ready" /\ stack # <<>> /\ Top = Head(stack)
        /\ UNCHANGED <<threw, document, isReady, readyList, asked>>
    BY DEF CallReady, TopIs, Idle, Top
  <1>2. PICK S : stack \in Seq(S)
    BY DEF IsList
  <1>3. /\ 1 \in DOMAIN stack /\ Top = stack[1] /\ DOMAIN stack = 1 .. Len(stack) /\ Len(stack) \in Nat
    BY <1>1, <1>2
  <1>4. "rest" \in DOMAIN Top /\ Top.rest \in Seq(ReadyFns) /\ RestOf(Top) = Top.rest
    BY <1>1, <1>3 DEF ReadyInv, FnsOK, RestOf
  <1>5. CASE Top.rest = <<>>
    <2>1. stack' = Tail(stack) /\ calls' = calls
      BY <1>5 DEF CallReady, Pop
    <2>2. SameRests(stack, stack')
      BY <1>1, <1>4, <1>5, <2>1, SamePopped DEF ReadyInv
    <2> QED BY <1>1, <2>1, <2>2, StillServed DEF readyVars
  <1>6. CASE Top.rest # <<>>
    <2> DEFINE f == Head(Top.rest)
               g == [Top EXCEPT !.paused = TRUE, !.rest = Tail(@)]
    <2>1. calls' = [calls EXCEPT ![f] = @ + 1] /\ stack' = <<g>> \o Tail(stack)
      BY <1>6 DEF CallReady, Replace
    <2>2. "rest" \in DOMAIN g /\ g.rest = Tail(Top.rest) /\ g.call = "ready"
      BY <1>1, <1>4
    <2>3. /\ f \in ReadyFns /\ Tail(Top.rest) \in Seq(ReadyFns)
          /\ f = Top.rest[1] /\ 1 \in DOMAIN Top.rest
          /\ \A i \in DOMAIN Tail(Top.rest) : i \in Nat \ {0} /\ i + 1 \in DOMAIN Top.rest /\ Tail(Top.rest)[i] = Top.rest[i + 1]
          /\ \A i \in DOMAIN Top.rest : i = 1 \/ (i - 1 \in DOMAIN Tail(Top.rest) /\ Tail(Top.rest)[i - 1] = Top.rest[i])
      BY <1>4, <1>6
    <2> HIDE DEF f, g
    <2>4. Tail(stack) \in Seq(S \cup {g}) /\ <<g>> \in Seq(S \cup {g})
      BY <1>1, <1>2
    <2>5. /\ stack' \in Seq(S \cup {g}) /\ DOMAIN stack' = DOMAIN stack
          /\ stack'[1] = g /\ \A k \in DOMAIN stack : k = 1 \/ stack'[k] = stack[k]
      BY <1>2, <1>3, <2>1, <2>4
    <2>6. FnsOK(stack')
      BY <2>2, <2>3, <2>5 DEF ReadyInv, FnsOK
    <2>7. RestOf(stack'[1]) = Tail(Top.rest) /\ RestOf(stack[1]) = Top.rest
      BY <1>3, <1>4, <2>2, <2>5 DEF RestOf
    <2>8. calls[f] = 0 /\ asked[f] # "never" /\ isReady
      <3>1. DOMAIN <<>> = {}
        OBVIOUS
      <3> QED BY <1>3, <2>3, <2>7, <3>1 DEF ReadyInv, RestsWait
    <2>9. calls' \in [ReadyFns -> 0 .. 1] /\ calls'[f] = 1 /\ \A h : h # f => calls'[h] = calls[h]
      BY <2>1, <2>3, <2>8 DEF ReadyInv
    \* What waits now waited before, and is not the one that is called.
    <2>10. ASSUME NEW k \in DOMAIN stack', NEW i \in DOMAIN RestOf(stack'[k])
           PROVE  \E m \in DOMAIN RestOf(stack[k]) :
                     /\ m = (IF k = 1 THEN i + 1 ELSE i) /\ RestOf(stack'[k])[i] = RestOf(stack[k])[m]
                     /\ RestOf(stack'[k])[i] # f
      <3>1. CASE k = 1
        <4>1. i + 1 \in DOMAIN RestOf(stack[1]) /\ RestOf(stack'[1])[i] = RestOf(stack[1])[i + 1] /\ i \in Nat \ {0}
          BY <2>3, <2>7, <3>1
        <4>2. RestOf(stack[1])[i + 1] # RestOf(stack[1])[1]
          <5>1. i + 1 # 1
            BY <4>1
          <5> QED BY <1>3, <2>3, <2>7, <4>1, <5>1 DEF ReadyInv, RestsWait
        <4> QED BY <2>3, <2>7, <3>1, <4>1, <4>2
      <3>2. CASE k # 1
        <4>1. stack'[k] = stack[k] /\ k \in DOMAIN stack
          BY <2>5, <3>2
        <4>2. RestOf(stack[k])[i] # RestOf(stack[1])[1]
          BY <1>3, <2>3, <2>7, <3>2, <4>1 DEF ReadyInv, RestsWait
        <4> QED BY <2>3, <2>7, <3>2, <4>1, <4>2
      <3> QED BY <3>1, <3>2
    <2>11. RestsWait'
      <3> SUFFICES ASSUME NEW k \in DOMAIN stack', NEW i \in DOMAIN RestOf(stack'[k])
                   PROVE  /\ calls'[RestOf(stack'[k])[i]] = 0 /\ asked[RestOf(stack'[k])[i]] # "never"
                          /\ \A l \in DOMAIN stack' : \A j \in DOMAIN RestOf(stack'[l]) :
                                 RestOf(stack'[k])[i] = RestOf(stack'[l])[j] => k = l /\ i = j
        BY <1>1 DEF RestsWait
      <3>1. PICK m \in DOMAIN RestOf(stack[k]) :
                     /\ m = (IF k = 1 THEN i + 1 ELSE i) /\ RestOf(stack'[k])[i] = RestOf(stack[k])[m]
                     /\ RestOf(stack'[k])[i] # f
        BY <2>10
      <3>2. calls[RestOf(stack'[k])[i]] = 0 /\ asked[RestOf(stack'[k])[i]] # "never"
        BY <2>5, <3>1 DEF ReadyInv, RestsWait
      <3>3. ASSUME NEW l \in DOMAIN stack', NEW j \in DOMAIN RestOf(stack'[l]),
                   RestOf(stack'[k])[i] = RestOf(stack'[l])[j]
            PROVE  k = l /\ i = j
        <4>1. PICK o \in DOMAIN RestOf(stack[l]) :
                     /\ o = (IF l = 1 THEN j + 1 ELSE j) /\ RestOf(stack'[l])[j] = RestOf(stack[l])[o]
          BY <2>10
        <4>2. k = l /\ m = o
          <5>1. RestOf(stack[k])[m] = RestOf(stack[l])[o] /\ k \in DOMAIN stack /\ l \in DOMAIN stack
            BY <2>5, <3>1, <3>3, <4>1
          <5> QED BY <5>1 DEF ReadyInv, RestsWait
        <4>3. k = 1 => i \in Nat /\ j \in Nat
          BY <2>3, <2>7, <4>2
        <4> QED BY <3>1, <4>1, <4>2, <4>3
      <3> QED BY <2>9, <3>1, <3>2, <3>3
    <2>12. ListWaits' /\ readyList' = <<>>
      <3>1. DOMAIN <<>> = {} /\ readyList' = <<>> /\ <<>> \in Seq(ReadyFns)
        BY <1>1, <2>8 DEF ReadyInv
      <3> QED BY <3>1 DEF ListWaits
    <2>13. ASSUME NEW h, InCall(h), h # f PROVE InCall(h)'
      <3>1. PICK k \in DOMAIN stack : \E i \in DOMAIN RestOf(stack[k]) : RestOf(stack[k])[i] = h
        BY <2>13 DEF InCall
      <3>2. PICK i \in DOMAIN RestOf(stack[k]) : RestOf(stack[k])[i] = h
        BY <3>1
      <3>3. CASE k = 1
        <4>1. i - 1 \in DOMAIN RestOf(stack'[1]) /\ RestOf(stack'[1])[i - 1] = h
          BY <2>3, <2>7, <2>13, <3>2, <3>3
        <4> QED BY <1>3, <2>5, <4>1 DEF InCall
      <3>4. CASE k # 1
        <4>1. k \in DOMAIN stack' /\ stack'[k] = stack[k]
          BY <2>5, <3>4
        <4> QED BY <3>2, <4>1 DEF InCall
      <3> QED BY <3>3, <3>4
    <2>14. threw \/ \A h \in ReadyFns : asked[h] = "never" \/ calls'[h] = 1 \/ InCall(h)'
      <3>1. \A h : ~InReadyList(h)
        <4>1. DOMAIN <<>> = {}
          OBVIOUS
        <4> QED BY <1>1, <2>12, <4>1 DEF InReadyList
      <3> QED BY <2>9, <2>13, <3>1 DEF ReadyInv
    <2>15. \A h \in ReadyFns : asked[h] = "never" => calls'[h] = 0
      BY <2>8, <2>9 DEF ReadyInv
    <2> QED BY <1>1, <2>6, <2>8, <2>9, <2>11, <2>12, <2>14, <2>15 DEF ReadyInv
  <1> QED BY <1>5, <1>6

\* The other calls: what is thrown away or added has no function waiting in it.
LEMMA WaitingIsList == \A s, n : Waiting(s, n) => IsList(s)
  BY DEF Waiting, IsList

LEMMA TopReplaced ==
    ASSUME FxInv, FnsOK(stack), ~Idle, Top.call # "ready", NEW f, f.call # "ready"
    PROVE  SameRests(stack, Replace(f)) /\ SameRests(stack, Pop)
  <1>1. IsList(stack) /\ stack # <<>> /\ Top = Head(stack)
    BY WaitingIsList DEF FxInv, Idle, Top
  <1>2. RestOf(f) = RestOf(Head(stack)) /\ RestOf(Head(stack)) = <<>>
    BY <1>1 DEF RestOf
  <1> QED BY <1>1, <1>2, SameReplaced, SamePopped DEF Replace, Pop

LEMMA BegunRests ==
    ASSUME IsList(stack), NEW waits, SameRests(stack, waits), NEW a, NEW anim, NEW entry, NEW running,
           Begin(a, anim, entry, running, waits)
    PROVE  SameRests(stack, stack')
  <1>1. stack' = waits \/ stack' = <<Completing(a)>> \o waits
    BY DEF Begin
  <1>2. SameRests(waits, <<Completing(a)>> \o waits)
    <2>1. Completing(a).call # "ready"
      BY DEF Completing
    <2> QED BY <2>1, SamePushed DEF SameRests
  <1> QED BY <1>1, <1>2, SameThrough

LEMMA DequeuedRests ==
    ASSUME IsList(stack), NEW waits, SameRests(stack, waits), NEW e, NEW q, NEW running,
           Dequeue(e, q, running, waits)
    PROVE  SameRests(stack, stack')
  <1>1. \/ stack' = waits
        \/ \E a, anim, entry : Begin(a, anim, entry, running, waits)
    BY DEF Dequeue
  <1> QED BY <1>1, BegunRests

LEMMA EffectRests ==
    ASSUME FxInv, FnsOK(stack), NEW e, EffectAct(e)
    PROVE  SameRests(stack, stack')
  <1>1. IsList(stack) /\ SameRests(stack, stack)
    BY WaitingIsList, SameAsItself DEF FxInv
  <1>2. CASE \E kind \in Effect : ShowOrHide(e, kind)
    BY <1>1, <1>2 DEF ShowOrHide
  <1>3. CASE \E kind \in Effect : Animate(e, kind)
    <2>1. \/ stack' = stack
          \/ \E a, anim, entry : Begin(a, anim, entry, timers, stack)
      BY <1>3 DEF Animate
    <2> QED BY <1>1, <2>1, BegunRests
  <1>4. CASE \E clear, gotoEnd \in BOOLEAN : Stop(e, clear, gotoEnd)
    <2>1. \/ stack' = <<Loop("stop", Len(timers), e)>> \o stack
          \/ \E q, running : Dequeue(e, q, running, stack)
      BY <1>4 DEF Stop, Push
    <2>2. Loop("stop", Len(timers), e).call # "ready"
      BY DEF Loop
    <2> QED BY <1>1, <2>1, <2>2, SamePushed, DequeuedRests
  <1> QED BY <1>2, <1>3, <1>4 DEF EffectAct

\* The loops over timers and the completes.
LEMMA LoopRests ==
    ASSUME FxInv, FnsOK(stack), ~Idle, Top.call # "ready"
    PROVE  /\ SameRests(stack, Replace([Top EXCEPT !.waits = TRUE]))
           /\ SameRests(stack, Replace([Top EXCEPT !.waits = FALSE]))
           /\ SameRests(stack, Replace([Top EXCEPT !.i = @ + 1]))
           /\ SameRests(stack, Replace([Top EXCEPT !.i = @ - 1]))
           /\ SameRests(stack, Replace([Top EXCEPT !.waits = FALSE, !.i = @ - 1]))
           /\ SameRests(stack, Replace([Top EXCEPT !.paused = TRUE]))
           /\ SameRests(stack, Pop)
  <1>1. "call" \in DOMAIN Top
    BY WaitingTop DEF FxInv, Idle, Top, FrameOK
  <1>2. /\ [Top EXCEPT !.waits = TRUE].call # "ready" /\ [Top EXCEPT !.waits = FALSE].call # "ready"
        /\ [Top EXCEPT !.i = @ + 1].call # "ready" /\ [Top EXCEPT !.i = @ - 1].call # "ready"
        /\ [Top EXCEPT !.waits = FALSE, !.i = @ - 1].call # "ready"
        /\ [Top EXCEPT !.paused = TRUE].call # "ready"
    BY <1>1
  <1> QED BY <1>2, TopReplaced

LEMMA LastStepRests ==
    ASSUME FxInv, FnsOK(stack), ~Idle, Top.call # "ready", NEW t, LastStep(t)
    PROVE  SameRests(stack, stack')
  <1> DEFINE loop == Replace([Top EXCEPT !.waits = TRUE])
             f == Completing(t.anim)
  <1>1. stack' = loop \/ stack' = <<f>> \o loop
    BY DEF LastStep
  <1>2. SameRests(stack, loop) /\ IsList(stack)
    BY LoopRests, WaitingIsList DEF FxInv
  <1>3. f.call # "ready"
    BY DEF Completing
  <1> HIDE DEF loop, f
  <1>4. SameRests(loop, <<f>> \o loop)
    BY <1>2, <1>3, SamePushed DEF SameRests
  <1> QED BY <1>1, <1>2, <1>4, SameThrough

LEMMA EffectStepRests ==
    ASSUME FxInv, FnsOK(stack), EffectStep
    PROVE  \/ SameRests(stack, stack') /\ (threw => threw')
           \/ threw' /\ stack' = Unwound /\ ~Idle
  <1>1. IsList(stack)
    BY WaitingIsList DEF FxInv
  <1>2. CASE Complete
    <2>1. ~Idle /\ Top.call # "ready" /\ threw' = threw
          /\ \E e : Dequeue(e, Queue(e), timers, Replace([Top EXCEPT !.paused = TRUE]))
      BY <1>2 DEF Complete, TopIs
    <2>2. SameRests(stack, Replace([Top EXCEPT !.paused = TRUE]))
      BY <2>1, LoopRests
    <2> QED BY <1>1, <2>1, <2>2, DequeuedRests
  <1>3. CASE CompleteReturns \/ TickDrops \/ TickEnds \/ StopDrops
    <2>1. ~Idle /\ Top.call # "ready" /\ threw' = threw
      BY <1>3 DEF CompleteReturns, TickDrops, TickEnds, StopDrops, TopIs
    <2>2. stack' \in {Pop, Replace([Top EXCEPT !.waits = FALSE]), Replace([Top EXCEPT !.waits = FALSE, !.i = @ - 1])}
      BY <1>3 DEF CompleteReturns, TickDrops, TickEnds, StopDrops
    <2> QED BY <2>1, <2>2, LoopRests
  <1>4. CASE Tick
    <2>1. stack' = <<Loop("tick", 1, None)>> \o stack /\ Loop("tick", 1, None).call # "ready" /\ threw' = threw
      BY <1>4 DEF Tick, Push, Loop
    <2> QED BY <1>1, <2>1, SamePushed
  <1>5. CASE TickStep \/ StopStep
    <2>1. ~Idle /\ Top.call # "ready"
      BY <1>5 DEF TickStep, StopStep, TopIs
    <2>2. \/ \E t : LastStep(t)
          \/ stack' = Replace([Top EXCEPT !.i = @ + 1]) /\ threw' = threw
          \/ stack' = Replace([Top EXCEPT !.i = @ - 1]) /\ threw' = threw
      BY <1>5 DEF TickStep, StopStep
    <2>3. \A t : LastStep(t) => threw' = threw
      BY DEF LastStep
    <2> QED BY <2>1, <2>2, <2>3, LoopRests, LastStepRests
  <1>6. CASE StopEnds
    <2>1. ~Idle /\ Top.call # "ready" /\ threw' = (threw \/ Top.i # 0)
          /\ stack' = IF Top.i = 0 THEN Pop ELSE Unwound
      BY <1>6 DEF StopEnds, TopIs
    <2> QED BY <2>1, LoopRests
  <1> QED BY <1>2, <1>3, <1>4, <1>5, <1>6 DEF EffectStep

\* Handlers that are taken away, and the calls of handlers.
LEMMA SkippedRests ==
    ASSUME NEW s, NEW n, Waiting(s, n), FnsOK(s), NEW e, NEW ts, NEW hs, NEW gone
    PROVE  SameRests(s, Skipping(s, e, ts, hs, gone))
  <1> DEFINE t == Skipping(s, e, ts, hs, gone)
  <1>1. DOMAIN t = DOMAIN s
    BY DEF Skipping
  <1>2. IsList(s) /\ IsList(t)
    BY WaitingIsList, WaitingSkips
  <1>3. PICK S : s \in Seq(S) /\ \A f \in S : FrameOK(f, n)
    BY DEF Waiting
  <1>4. ASSUME NEW k \in DOMAIN s
        PROVE  t[k] = s[k] \/ (t[k].call # "ready" /\ s[k].call # "ready")
    <2>1. CASE s[k].call = "event"
      <3>1. FrameOK(s[k], n)
        BY <1>3
      <3> QED BY <2>1, <3>1 DEF Skipping, FrameOK
    <2>2. CASE s[k].call # "event"
      BY <2>2 DEF Skipping
    <2> QED BY <2>1, <2>2
  <1> HIDE DEF t
  <1>5. SameRests(s, t)
    BY <1>1, <1>2, <1>4, SameEach DEF RestOf, FnsOK
  <1> QED BY <1>5 DEF t

LEMMA AllSkippedRests ==
    ASSUME FxInv, FnsOK(stack), NEW e, RemoveAllHandlers(e)
    PROVE  SameRests(stack, stack')
  <1>1. stack' = [k \in DOMAIN stack |->
                    IF stack[k].call = "event" /\ Head(stack[k].path) = e
                      THEN [stack[k] EXCEPT !.due = {}, !.over = TRUE] ELSE stack[k]]
    BY DEF RemoveAllHandlers
  <1>2. PICK S : stack \in Seq(S) /\ \A f \in S : FrameOK(f, Len(anims))
    BY DEF FxInv, Waiting
  <1>3. ASSUME NEW k \in DOMAIN stack
        PROVE  stack'[k] = stack[k] \/ (stack'[k].call # "ready" /\ stack[k].call # "ready")
    <2>1. "call" \in DOMAIN stack[k]
      BY <1>2 DEF FrameOK
    <2> QED BY <1>1, <2>1
  <1>4. DOMAIN stack' = DOMAIN stack /\ IsList(stack) /\ IsList(stack')
    <2> DEFINE F(k) == IF stack[k].call = "event" /\ Head(stack[k].path) = e
                         THEN [stack[k] EXCEPT !.due = {}, !.over = TRUE] ELSE stack[k]
               U == {F(k) : k \in 1 .. Len(stack)}
    <2>1. stack' = [k \in DOMAIN stack |-> F(k)]
      BY <1>1
    <2> HIDE DEF F
    <2>4. DOMAIN stack = 1 .. Len(stack) /\ Len(stack) \in Nat
      BY <1>2
    <2>2. stack' \in [1 .. Len(stack) -> U]
      BY <2>1, <2>4
    <2> HIDE DEF U
    <2>3. stack' \in Seq(U)
      BY <2>2, <2>4
    <2> QED BY <1>1, <1>2, <2>3 DEF IsList
  <1> QED BY <1>3, <1>4, SameEach DEF RestOf, FnsOK

LEMMA HandlerRests ==
    ASSUME FxInv, FnsOK(stack), NEW e, NEW type, NEW h, NEW stops, NEW atOnce,
           \/ Trigger(e, type) \/ BrowserEvent(e, type) \/ Handle \/ CallHandler(h) \/ CallOne(e, h)
           \/ EventMovesOn \/ HandlerReturns(stops, atOnce)
    PROVE  SameRests(stack, stack')
  <1>1. IsList(stack)
    BY WaitingIsList DEF FxInv
  <1>2. \A path, ty, native : EventFrame(path, ty, native).call # "ready"
    BY DEF EventFrame
  <1>3. CASE Trigger(e, type) \/ BrowserEvent(e, type)
    BY <1>1, <1>2, <1>3, SamePushed DEF Trigger, BrowserEvent, Push
  <1>4. CASE ~(Trigger(e, type) \/ BrowserEvent(e, type))
    <2>1. ~Idle /\ Top.call = "event" /\ Top.call # "ready"
      BY <1>4 DEF Handle, CallHandler, CallOne, CallOnce, EventMovesOn, HandlerReturns, TopIs
    <2>2. "call" \in DOMAIN Top
      BY <2>1, WaitingTop DEF FxInv, Idle, Top, FrameOK
    <2>3. Calling(h).call # "ready" /\ FrameOK(Calling(h), Len(anims))
      <3>1. Calling(h).call = "event" /\ "call" \in DOMAIN Calling(h)
        BY <2>1, <2>2 DEF Calling
      <3> QED BY <3>1 DEF FrameOK
    <2>4. CASE Handle
      <3>1. PICK hs : stack' = Replace([Top EXCEPT !.begun = TRUE, !.due = hs, !.over = hs = {}])
        BY <2>4 DEF Handle
      <3>2. [Top EXCEPT !.begun = TRUE, !.due = hs, !.over = hs = {}].call # "ready"
        BY <2>1, <2>2
      <3> QED BY <2>1, <3>1, <3>2, TopReplaced
    <2>5. CASE CallHandler(h)
      <3>1. stack' = Replace(Calling(h))
        BY <2>5 DEF CallHandler
      <3> QED BY <2>1, <2>3, <3>1, TopReplaced
    <2>6. CASE CallOne(e, h)
      <3>1. PICK gone : stack' = Skipping(Replace(Calling(h)), e, <<Top.type>>, {h}, gone)
        BY <2>6 DEF CallOne, RemoveHandlers
      <3>2. SameRests(stack, Replace(Calling(h)))
        BY <2>1, <2>3, TopReplaced
      <3>3. Waiting(Replace(Calling(h)), Len(anims))
        BY <2>1, <2>3, TopGoesOn DEF FxInv
      <3>4. SameRests(Replace(Calling(h)), stack')
        BY <3>1, <3>2, <3>3, SkippedRests DEF SameRests
      <3> QED BY <1>1, <3>2, <3>4, SameThrough
    <2>7. CASE EventMovesOn
      <3>1. stack' = Pop \/ stack' = Replace(EventFrame(NextPath, Top.type, Top.native))
        BY <2>7 DEF EventMovesOn
      <3> QED BY <1>2, <2>1, <3>1, TopReplaced
    <2>8. CASE HandlerReturns(stops, atOnce)
      <3> DEFINE f == [Top EXCEPT !.paused = FALSE, !.stopped = @ \/ stops \/ atOnce,
                                  !.due = IF atOnce THEN {} ELSE @, !.over = @ \/ atOnce]
      <3>1. stack' = Replace(f)
        BY <2>8 DEF HandlerReturns
      <3>2. f.call # "ready"
        BY <2>1, <2>2
      <3> HIDE DEF f
      <3> QED BY <2>1, <3>1, <3>2, TopReplaced
    <2> QED BY <1>4, <2>4, <2>5, <2>6, <2>7, <2>8
  <1> QED BY <1>3, <1>4

LEMMA ReturnRests ==
    ASSUME FxInv, FnsOK(stack), ReadyReturns
    PROVE  SameRests(stack, stack')
  <1> DEFINE f == [Top EXCEPT !.paused = FALSE]
  <1>1. ~Idle /\ Top.call = "ready" /\ stack' = Replace(f)
    BY DEF ReadyReturns, TopIs
  <1>2. IsList(stack) /\ stack # <<>> /\ Top = Head(stack) /\ "call" \in DOMAIN Top
    BY <1>1, WaitingIsList, WaitingTop DEF FxInv, Idle, Top, FrameOK
  <1>3. "rest" \in DOMAIN Top /\ Top.rest \in Seq(ReadyFns)
    <2>1. PICK S : stack \in Seq(S)
      BY <1>2 DEF IsList
    <2>2. 1 \in DOMAIN stack /\ Top = stack[1]
      BY <1>2, <2>1
    <2> QED BY <1>1, <2>2 DEF FnsOK
  <1>4. f.call = "ready" /\ "rest" \in DOMAIN f /\ f.rest = Top.rest
    BY <1>1, <1>2, <1>3
  <1> HIDE DEF f
  <1>5. RestOf(f) = RestOf(Head(stack))
    BY <1>1, <1>2, <1>4 DEF RestOf
  <1> QED BY <1>1, <1>2, <1>3, <1>4, <1>5, SameReplaced DEF Replace

\* The invariant of ready, through every step.
LEMMA NextReady ==
    ASSUME IInv, ReadyInv, [Next]_vars
    PROVE  ReadyInv'
  <1>1. FxInv /\ FnsOK(stack) /\ IsList(stack)
    BY WaitingIsList DEF IInv, FxInv, ReadyInv
  <1> DEFINE Keeps == SameRests(stack, stack') /\ UNCHANGED readyVars /\ (threw => threw')
  <1>2. Keeps => ReadyInv'
    BY StillServed
  <1>3. stack' = stack => SameRests(stack, stack')
    BY <1>1, SameAsItself
  <1>4. stack' = Unwound /\ ~Idle => \A k \in DOMAIN stack' : stack'[k].call # "ready"
    <2> SUFFICES ASSUME stack' = Unwound, ~Idle, NEW k \in DOMAIN stack'
                 PROVE  stack'[k].call # "ready"
      OBVIOUS
    <2> DEFINE f == stack[Len(stack)]
               g == [f EXCEPT !.paused = FALSE, !.due = {}, !.over = TRUE]
    <2>1. f.call = "event" /\ f.native
      <3>1. DOMAIN <<>> = {}
        OBVIOUS
      <3> QED BY <3>1 DEF Unwound
    <2>2. stack' = <<g>>
      BY <2>1 DEF Unwound
    <2>3. "call" \in DOMAIN f
      <3>1. PICK S : stack \in Seq(S) /\ \A x \in S : FrameOK(x, Len(anims))
        BY <1>1 DEF FxInv, Waiting
      <3>2. Len(stack) \in DOMAIN stack
        BY <3>1 DEF Idle
      <3> QED BY <3>1, <3>2 DEF FrameOK
    <2>4. g.call = "event"
      BY <2>1, <2>3
    <2> HIDE DEF f, g
    <2> QED BY <2>2, <2>4
  <1>5. CASE UNCHANGED vars
    BY <1>2, <1>3, <1>5 DEF vars, eventVars
  <1>6. CASE \E e \in Elems : Use(e)
    <2>1. PICK e \in Elems : Use(e)
      BY <1>6
    <2>2. CASE EventAct(e)
      <3>1. PICK b \in Bindable : \/ \E h \in Handlers, kind \in Kinds : Bind(e, b[2], h, kind)
                                  \/ Trigger(e, b[2])
        BY <2>2 DEF EventAct
      <3>2. CASE \E h \in Handlers, kind \in Kinds : Bind(e, b[2], h, kind)
        BY <1>2, <1>3, <3>2 DEF Bind
      <3>3. CASE Trigger(e, b[2])
        <4>1. SameRests(stack, stack')
          BY <1>1, <3>3, HandlerRests
        <4> QED BY <1>2, <3>3, <4>1 DEF Trigger, eventVars
      <3> QED BY <3>1, <3>2, <3>3
    <2>3. CASE \E ts, hs : Unbind(e, ts, hs)
      <3>1. PICK ts, hs : Unbind(e, ts, hs)
        BY <2>3
      <3>2. \E gone : stack' = Skipping(stack, e, ts, hs, gone)
        BY <3>1 DEF Unbind, RemoveHandlers
      <3>3. SameRests(stack, stack')
        BY <1>1, <3>2, SkippedRests DEF FxInv
      <3> QED BY <1>2, <3>1, <3>3 DEF Unbind
    <2>4. CASE UnbindAll(e)
      <3>1. SameRests(stack, stack')
        BY <1>1, <2>4, AllSkippedRests DEF UnbindAll
      <3> QED BY <1>2, <2>4, <3>1 DEF UnbindAll
    <2>5. CASE EffectAct(e) /\ UNCHANGED eventVars
      <3>1. SameRests(stack, stack')
        BY <1>1, <2>5, EffectRests
      <3>2. threw' = threw
        BY <2>5 DEF EffectAct, ShowOrHide, Animate, Stop
      <3> QED BY <1>2, <2>5, <3>1, <3>2 DEF eventVars
    <2> QED BY <2>1, <2>2, <2>3, <2>4, <2>5 DEF Use
  <1>7. CASE \E e \in Removable : Remove(e)
    <2>1. PICK e : Remove(e)
      BY <1>7
    <2>2. SameRests(stack, stack')
      BY <1>1, <2>1, AllSkippedRests DEF Remove
    <2> QED BY <1>2, <2>1, <2>2 DEF Remove
  <1>8. CASE \E f \in ReadyFns : AskReady(f)
    BY <1>1, <1>8, AskServed
  <1>9. CASE Throw
    <2>1. threw' /\ UNCHANGED readyVars /\ stack' = Unwound /\ ~Idle
      BY <1>9 DEF Throw, eventVars
    <2> QED BY <1>4, <2>1, ThrownServed
  <1>10. CASE EventStep
    <2>1. CASE DocumentGoesOn \/ CallReady
      BY <1>1, <2>1, DocumentServed, CallServed
    <2>2. CASE ReadyReturns
      <3>1. SameRests(stack, stack') /\ UNCHANGED readyVars /\ threw' = threw
        BY <1>1, <2>2, ReturnRests DEF ReadyReturns, eventVars
      <3> QED BY <1>2, <3>1
    <2>3. CASE \E e, type, h, stops, atOnce : \/ BrowserEvent(e, type) \/ Handle \/ CallHandler(h) \/ CallOne(e, h)
                                              \/ EventMovesOn \/ HandlerReturns(stops, atOnce)
      <3>1. SameRests(stack, stack')
        BY <1>1, <2>3, HandlerRests
      <3>2. UNCHANGED readyVars /\ threw' = threw
        BY <2>3 DEF BrowserEvent, Handle, CallHandler, CallOne, EventMovesOn, HandlerReturns, eventVars
      <3> QED BY <1>2, <3>1, <3>2
    <2> QED BY <1>10, <2>1, <2>2, <2>3 DEF EventStep
  <1>11. CASE EffectStep /\ UNCHANGED eventVars
    <2>1. UNCHANGED readyVars
      BY <1>11 DEF eventVars
    <2>2. \/ SameRests(stack, stack') /\ (threw => threw')
          \/ threw' /\ stack' = Unwound /\ ~Idle
      BY <1>1, <1>11, EffectStepRests
    <2> QED BY <1>2, <1>4, <2>1, <2>2, ThrownServed
  <1> QED BY <1>5, <1>6, <1>7, <1>8, <1>9, <1>10, <1>11 DEF Next, Act, Step

LEMMA InitReady == Init => ReadyInv
  <1> SUFFICES ASSUME Init PROVE ReadyInv
    OBVIOUS
  <1>1. DOMAIN <<>> = {} /\ <<>> \in Seq(ReadyFns)
    OBVIOUS
  <1>2. stack = <<>> /\ readyList = <<>> /\ isReady = FALSE /\ document = "loading"
        /\ asked = [f \in ReadyFns |-> "never"] /\ calls = [f \in ReadyFns |-> 0]
    BY DEF Init, EventsInit
  <1>3. FnsOK(stack) /\ ListWaits /\ RestsWait
    BY <1>1, <1>2 DEF FnsOK, ListWaits, RestsWait
  <1> QED BY <1>1, <1>2, <1>3 DEF ReadyInv

-----------------------------------------------------------------------------
(* The calls of effects: completes and loops, by their distance from the bottom, *)
(* which does not change when calls are added and taken off above them.         *)

FxCalls == {"complete", "tick", "stop"}
FromBottom(s, d) == s[Len(s) + 1 - d]
FxDepths(s) == {d \in 1 .. Len(s) : FromBottom(s, d).call \in FxCalls}
Fx(s) == [d \in FxDepths(s) |-> FromBottom(s, d)]
IsLoop(f) == f.call \in {"tick", "stop"}

LEMMA FxPushed ==
    ASSUME NEW s, IsList(s), NEW f
    PROVE  /\ IsList(<<f>> \o s) /\ Len(<<f>> \o s) = Len(s) + 1
           /\ Head(<<f>> \o s) = f /\ Tail(<<f>> \o s) = s /\ <<f>> \o s # <<>>
           /\ f.call \notin FxCalls => Fx(<<f>> \o s) = Fx(s)
           /\ f.call \in FxCalls =>
                /\ DOMAIN Fx(<<f>> \o s) = DOMAIN Fx(s) \cup {Len(s) + 1}
                /\ Fx(<<f>> \o s)[Len(s) + 1] = f
           /\ \A k \in DOMAIN Fx(s) : k \in 1 .. Len(s) /\ Fx(<<f>> \o s)[k] = Fx(s)[k]
  <1> DEFINE t == <<f>> \o s
  <1>1. PICK S : s \in Seq(S)
    BY DEF IsList
  <1>2. s \in Seq(S \cup {f}) /\ <<f>> \in Seq(S \cup {f})
    BY <1>1
  <1>3. /\ t \in Seq(S \cup {f}) /\ Len(t) = Len(s) + 1 /\ Len(s) \in Nat
        /\ t[1] = f /\ \A k \in 1 .. Len(s) : t[k + 1] = s[k]
        /\ Head(t) = f /\ Tail(t) = s /\ t # <<>>
    BY <1>2
  <1> HIDE DEF t
  <1>4. FromBottom(t, Len(s) + 1) = f
    BY <1>3 DEF FromBottom
  <1>5. ASSUME NEW d \in 1 .. Len(s) PROVE FromBottom(t, d) = FromBottom(s, d)
    <2>1. Len(s) + 1 - d \in 1 .. Len(s) /\ Len(t) + 1 - d = (Len(s) + 1 - d) + 1
      BY <1>3
    <2> QED BY <1>3, <2>1 DEF FromBottom
  <1>6. 1 .. Len(t) = 1 .. Len(s) \cup {Len(s) + 1}
    BY <1>3
  <1>7. FxDepths(t) = IF f.call \in FxCalls THEN FxDepths(s) \cup {Len(s) + 1} ELSE FxDepths(s)
    <2>1. \A d : d \in FxDepths(t) <=> d \in 1 .. Len(t) /\ FromBottom(t, d).call \in FxCalls
      BY DEF FxDepths
    <2>2. \A d : d \in FxDepths(s) <=> d \in 1 .. Len(s) /\ FromBottom(s, d).call \in FxCalls
      BY DEF FxDepths
    <2>3. \A d : d \in FxDepths(t) <=> d \in FxDepths(s) \/ (d = Len(s) + 1 /\ f.call \in FxCalls)
      BY <1>4, <1>5, <1>6, <2>1, <2>2
    <2>4. \A d : d \in FxDepths(t) <=> d \in IF f.call \in FxCalls THEN FxDepths(s) \cup {Len(s) + 1} ELSE FxDepths(s)
      BY <2>3
    <2> QED BY <2>4
  <1>8. \A d \in FxDepths(s) : d \in 1 .. Len(s)
    BY DEF FxDepths
  <1>9. \A d \in FxDepths(s) : Fx(t)[d] = Fx(s)[d]
    BY <1>5, <1>7, <1>8 DEF Fx
  <1>10. f.call \notin FxCalls => Fx(t) = Fx(s)
    BY <1>5, <1>7, <1>8 DEF Fx
  <1>11. f.call \in FxCalls => Fx(t)[Len(s) + 1] = f
    BY <1>4, <1>7 DEF Fx
  <1>12. DOMAIN Fx(t) = FxDepths(t) /\ DOMAIN Fx(s) = FxDepths(s)
    BY DEF Fx
  <1> QED BY <1>3, <1>7, <1>8, <1>9, <1>10, <1>11, <1>12 DEF IsList, t

LEMMA FxPopped ==
    ASSUME NEW s, IsList(s), s # <<>>
    PROVE  /\ IsList(Tail(s)) /\ Len(Tail(s)) = Len(s) - 1 /\ Len(s) \in Nat \ {0}
           /\ s = <<Head(s)>> \o Tail(s)
           /\ Head(s).call \notin FxCalls => Fx(Tail(s)) = Fx(s)
           /\ Head(s).call \in FxCalls => /\ Len(s) \in DOMAIN Fx(s) /\ Fx(s)[Len(s)] = Head(s)
                                          /\ DOMAIN Fx(Tail(s)) = DOMAIN Fx(s) \ {Len(s)}
           /\ \A k \in DOMAIN Fx(Tail(s)) : k \in DOMAIN Fx(s) /\ k # Len(s) /\ Fx(Tail(s))[k] = Fx(s)[k]
  <1> DEFINE f == Head(s)
             r == Tail(s)
  <1>1. PICK S : s \in Seq(S)
    BY DEF IsList
  <1>2. r \in Seq(S) /\ Len(r) = Len(s) - 1 /\ Len(s) \in Nat \ {0} /\ Len(r) \in Nat
    BY <1>1
  <1>3. s = <<f>> \o r
    BY <1>1
  <1>4. IsList(r) /\ Len(s) = Len(r) + 1
    BY <1>2 DEF IsList
  <1> HIDE DEF f, r
  <1>5. /\ f.call \notin FxCalls => Fx(<<f>> \o r) = Fx(r)
        /\ f.call \in FxCalls => /\ DOMAIN Fx(<<f>> \o r) = DOMAIN Fx(r) \cup {Len(r) + 1}
                                 /\ Fx(<<f>> \o r)[Len(r) + 1] = f
        /\ \A k \in DOMAIN Fx(r) : k \in 1 .. Len(r) /\ Fx(<<f>> \o r)[k] = Fx(r)[k]
    BY <1>4, FxPushed
  <1>6. \A k \in DOMAIN Fx(r) : k \in DOMAIN Fx(s) /\ k < Len(s) /\ k # Len(s)
    BY <1>2, <1>3, <1>5
  <1> QED BY <1>2, <1>3, <1>4, <1>5, <1>6 DEF f, r

LEMMA FxEach ==
    ASSUME NEW s, IsList(s), NEW t, IsList(t), DOMAIN t = DOMAIN s,
           \A k \in DOMAIN s : t[k] = s[k] \/ (t[k].call \notin FxCalls /\ s[k].call \notin FxCalls)
    PROVE  Fx(t) = Fx(s) /\ Len(t) = Len(s)
  <1>1. Len(s) \in Nat /\ DOMAIN s = 1 .. Len(s) /\ Len(t) \in Nat /\ DOMAIN t = 1 .. Len(t)
    BY ListIndexed
  <1>2. Len(t) = Len(s)
    BY <1>1
  <1>3. ASSUME NEW d \in 1 .. Len(s)
        PROVE  \/ FromBottom(t, d) = FromBottom(s, d)
               \/ FromBottom(t, d).call \notin FxCalls /\ FromBottom(s, d).call \notin FxCalls
    <2>1. Len(s) + 1 - d \in DOMAIN s
      BY <1>1
    <2> QED BY <1>2, <2>1 DEF FromBottom
  <1>4. FxDepths(t) = FxDepths(s)
    BY <1>2, <1>3 DEF FxDepths
  <1>5. \A d \in FxDepths(s) : FromBottom(t, d) = FromBottom(s, d)
    BY <1>3 DEF FxDepths
  <1>6. Fx(t) = Fx(s)
    BY <1>4, <1>5 DEF Fx
  <1> QED BY <1>2, <1>6

\* The top becomes another call.
LEMMA FxReplaced ==
    ASSUME NEW s, IsList(s), s # <<>>, NEW f
    PROVE  /\ IsList(<<f>> \o Tail(s)) /\ Len(<<f>> \o Tail(s)) = Len(s)
           /\ Head(<<f>> \o Tail(s)) = f /\ <<f>> \o Tail(s) # <<>>
           /\ f.call \notin FxCalls /\ Head(s).call \notin FxCalls => Fx(<<f>> \o Tail(s)) = Fx(s)
           /\ f.call \in FxCalls /\ Head(s).call \in FxCalls =>
                /\ DOMAIN Fx(<<f>> \o Tail(s)) = DOMAIN Fx(s)
                /\ Len(s) \in DOMAIN Fx(s) /\ Fx(<<f>> \o Tail(s))[Len(s)] = f /\ Fx(s)[Len(s)] = Head(s)
                /\ \A k \in DOMAIN Fx(s) : k # Len(s) => Fx(<<f>> \o Tail(s))[k] = Fx(s)[k]
  <1> DEFINE r == Tail(s)
             t == <<f>> \o r
  <1>1. /\ IsList(r) /\ Len(r) = Len(s) - 1 /\ Len(s) \in Nat \ {0}
        /\ Head(s).call \notin FxCalls => Fx(r) = Fx(s)
        /\ Head(s).call \in FxCalls => /\ Len(s) \in DOMAIN Fx(s) /\ Fx(s)[Len(s)] = Head(s)
                                       /\ DOMAIN Fx(r) = DOMAIN Fx(s) \ {Len(s)}
        /\ \A k \in DOMAIN Fx(r) : Fx(r)[k] = Fx(s)[k]
    BY FxPopped
  <1> HIDE DEF r
  <1>2. /\ IsList(t) /\ Len(t) = Len(r) + 1 /\ Head(t) = f /\ t # <<>>
        /\ f.call \notin FxCalls => Fx(t) = Fx(r)
        /\ f.call \in FxCalls => DOMAIN Fx(t) = DOMAIN Fx(r) \cup {Len(r) + 1} /\ Fx(t)[Len(r) + 1] = f
        /\ \A k \in DOMAIN Fx(r) : Fx(t)[k] = Fx(r)[k]
    BY <1>1, FxPushed
  <1> HIDE DEF t
  <1>3. Len(t) = Len(s) /\ Len(r) + 1 = Len(s)
    BY <1>1, <1>2
  <1> QED BY <1>1, <1>2, <1>3 DEF t, r

-----------------------------------------------------------------------------
(* Such calls, their loop and the timer it waits to drop.                    *)

\* At most one loop, and an animation that has just ended is on top.
CallsRight(s) ==
    /\ \A j, k \in DOMAIN Fx(s) : IsLoop(Fx(s)[j]) /\ IsLoop(Fx(s)[k]) => j = k
    /\ \A k \in DOMAIN Fx(s) : IsLoop(Fx(s)[k]) => Fx(s)[k] \in LoopFrames
    /\ \A k \in DOMAIN Fx(s) : Fx(s)[k].call = "tick" => Fx(s)[k].i >= 1
    /\ \A k \in DOMAIN Fx(s) : Fx(s)[k].call = "complete" /\ ~Fx(s)[k].paused => k = Len(s)
AllPaused(s) == \A k \in DOMAIN Fx(s) : Fx(s)[k].call = "complete" => Fx(s)[k].paused
NoLoop(s) == \A k \in DOMAIN Fx(s) : ~IsLoop(Fx(s)[k])

\* The timer that a loop waits to drop.
Dropping(s) == {Fx(s)[k].i : k \in {k \in DOMAIN Fx(s) : IsLoop(Fx(s)[k]) /\ Fx(s)[k].waits}}

LEMMA DroppingIs ==
    ASSUME NEW s
    PROVE  \A i : i \in Dropping(s) <=>
               \E k \in DOMAIN Fx(s) : IsLoop(Fx(s)[k]) /\ Fx(s)[k].waits /\ Fx(s)[k].i = i
  BY DEF Dropping

LEMMA NoLoopDrops == ASSUME NEW s, NoLoop(s) PROVE Dropping(s) = {}
  BY DroppingIs DEF NoLoop

LEMMA TopSettled ==
    ASSUME NEW s, IsList(s), CallsRight(s), s # <<>> => (Head(s).call = "complete" => Head(s).paused)
    PROVE  AllPaused(s)
  <1> SUFFICES ASSUME NEW k \in DOMAIN Fx(s), Fx(s)[k].call = "complete", ~Fx(s)[k].paused PROVE FALSE
    BY DEF AllPaused
  <1>1. k = Len(s) /\ k \in 1 .. Len(s) /\ Fx(s)[k] = FromBottom(s, k)
    BY DEF CallsRight, Fx, FxDepths
  <1>2. s # <<>> /\ Head(s) = s[1] /\ Len(s) \in Nat /\ Len(s) + 1 - Len(s) = 1
    BY <1>1 DEF IsList
  <1>3. Fx(s)[k] = Head(s)
    BY <1>1, <1>2 DEF FromBottom
  <1> QED BY <1>2, <1>3

\* Calls of others come and go.
LEMMA SameCalls ==
    ASSUME NEW s, NEW t, Fx(t) = Fx(s), CallsRight(s), AllPaused(s)
    PROVE  CallsRight(t) /\ AllPaused(t) /\ Dropping(t) = Dropping(s) /\ (NoLoop(s) => NoLoop(t))
  BY DEF CallsRight, AllPaused, Dropping, NoLoop

LEMMA CompletePushed ==
    ASSUME NEW s, IsList(s), CallsRight(s), AllPaused(s), NEW a
    PROVE  CallsRight(<<Completing(a)>> \o s) /\ Dropping(<<Completing(a)>> \o s) = Dropping(s)
  <1> DEFINE f == Completing(a)
             t == <<f>> \o s
  <1>1. f.call = "complete" /\ ~IsLoop(f) /\ f.call \in FxCalls
    BY DEF Completing, IsLoop, FxCalls
  <1>2. /\ DOMAIN Fx(t) = DOMAIN Fx(s) \cup {Len(s) + 1} /\ Fx(t)[Len(s) + 1] = f /\ Len(t) = Len(s) + 1
        /\ \A k \in DOMAIN Fx(s) : Fx(t)[k] = Fx(s)[k]
    BY <1>1, FxPushed
  <1> HIDE DEF f, t
  <1>3. \A k \in DOMAIN Fx(t) : (k \in DOMAIN Fx(s) /\ Fx(t)[k] = Fx(s)[k]) \/ (k = Len(t) /\ Fx(t)[k] = f)
    BY <1>2
  <1>4. CallsRight(t)
    <2>1. \A j, k \in DOMAIN Fx(t) : IsLoop(Fx(t)[j]) /\ IsLoop(Fx(t)[k]) => j = k
      BY <1>1, <1>3 DEF CallsRight
    <2>2. \A k \in DOMAIN Fx(t) : IsLoop(Fx(t)[k]) => Fx(t)[k] \in LoopFrames
      BY <1>1, <1>3 DEF CallsRight
    <2>3. \A k \in DOMAIN Fx(t) : Fx(t)[k].call = "tick" => Fx(t)[k].i >= 1
      BY <1>1, <1>3 DEF CallsRight
    <2>4. \A k \in DOMAIN Fx(t) : Fx(t)[k].call = "complete" /\ ~Fx(t)[k].paused => k = Len(t)
      BY <1>3 DEF AllPaused
    <2> QED BY <2>1, <2>2, <2>3, <2>4 DEF CallsRight
  <1>5. Dropping(t) = Dropping(s)
    <2>1. \A i : i \in Dropping(t) <=> i \in Dropping(s)
      BY <1>1, <1>2, <1>3, DroppingIs
    <2> QED BY <2>1
  <1> QED BY <1>4, <1>5 DEF f, t

LEMMA LoopPushed ==
    ASSUME NEW s, IsList(s), CallsRight(s), AllPaused(s), NoLoop(s), NEW f \in LoopFrames, ~f.waits,
           f.call = "tick" => f.i >= 1
    PROVE  CallsRight(<<f>> \o s) /\ Dropping(<<f>> \o s) = {} /\ Dropping(s) = {} /\ AllPaused(<<f>> \o s)
  <1> DEFINE t == <<f>> \o s
  <1>1. f.call # "complete" /\ f.call \in FxCalls
    BY DEF LoopFrames, FxCalls
  <1>2. /\ DOMAIN Fx(t) = DOMAIN Fx(s) \cup {Len(s) + 1} /\ Fx(t)[Len(s) + 1] = f /\ Len(t) = Len(s) + 1
        /\ \A k \in DOMAIN Fx(s) : Fx(t)[k] = Fx(s)[k]
    BY <1>1, FxPushed
  <1> HIDE DEF t
  <1>3. \A k \in DOMAIN Fx(t) : (k \in DOMAIN Fx(s) /\ Fx(t)[k] = Fx(s)[k]) \/ (k = Len(t) /\ Fx(t)[k] = f)
    BY <1>2
  <1>4. CallsRight(t) /\ AllPaused(t)
    <2>1. \A j, k \in DOMAIN Fx(t) : IsLoop(Fx(t)[j]) /\ IsLoop(Fx(t)[k]) => j = k
      BY <1>3 DEF NoLoop
    <2>2. \A k \in DOMAIN Fx(t) : IsLoop(Fx(t)[k]) => Fx(t)[k] \in LoopFrames
      BY <1>3 DEF CallsRight
    <2>3. \A k \in DOMAIN Fx(t) : Fx(t)[k].call = "tick" => Fx(t)[k].i >= 1
      BY <1>3 DEF CallsRight
    <2>4. \A k \in DOMAIN Fx(t) : Fx(t)[k].call = "complete" => Fx(t)[k].paused
      BY <1>1, <1>3 DEF AllPaused
    <2> QED BY <2>1, <2>2, <2>3, <2>4 DEF CallsRight, AllPaused
  <1>5. Dropping(t) = {} /\ Dropping(s) = {}
    <2>1. \A i : i \notin Dropping(t)
      BY <1>3, DroppingIs DEF NoLoop
    <2> QED BY <2>1, NoLoopDrops
  <1> QED BY <1>4, <1>5 DEF t

\* The loop on top goes on.
LEMMA LoopReplaced ==
    ASSUME NEW s, IsList(s), s # <<>>, CallsRight(s), IsLoop(Head(s)), NEW g \in LoopFrames,
           g.call = "tick" => g.i >= 1
    PROVE  /\ CallsRight(<<g>> \o Tail(s)) /\ AllPaused(<<g>> \o Tail(s))
           /\ Dropping(<<g>> \o Tail(s)) = IF g.waits THEN {g.i} ELSE {}
           /\ Dropping(s) = IF Head(s).waits THEN {Head(s).i} ELSE {}
           /\ Head(s) \in LoopFrames /\ (Head(s).call = "tick" => Head(s).i >= 1)
  <1> DEFINE t == <<g>> \o Tail(s)
             f == Head(s)
             n == Len(s)
  <1>1. g.call # "complete" /\ g.call \in FxCalls /\ f.call \in FxCalls /\ f.call # "complete" /\ IsLoop(g)
    BY DEF LoopFrames, FxCalls, IsLoop
  <1>2. /\ DOMAIN Fx(t) = DOMAIN Fx(s) /\ n \in DOMAIN Fx(s) /\ Fx(t)[n] = g /\ Fx(s)[n] = f /\ Len(t) = n
        /\ \A k \in DOMAIN Fx(s) : k # n => Fx(t)[k] = Fx(s)[k]
    BY <1>1, FxReplaced
  <1> HIDE DEF t, f, n
  <1>3. \A k \in DOMAIN Fx(s) : k # n => ~IsLoop(Fx(s)[k])
    BY <1>2 DEF CallsRight, f
  <1>4. AllPaused(s)
    BY <1>1, TopSettled DEF f
  <1>5. CallsRight(t)
    <2>1. \A j, k \in DOMAIN Fx(t) : IsLoop(Fx(t)[j]) /\ IsLoop(Fx(t)[k]) => j = k
      BY <1>2, <1>3
    <2>2. \A k \in DOMAIN Fx(t) : IsLoop(Fx(t)[k]) => Fx(t)[k] \in LoopFrames
      BY <1>2 DEF CallsRight
    <2>3. \A k \in DOMAIN Fx(t) : Fx(t)[k].call = "tick" => Fx(t)[k].i >= 1
      BY <1>2 DEF CallsRight
    <2>4. \A k \in DOMAIN Fx(t) : Fx(t)[k].call = "complete" /\ ~Fx(t)[k].paused => k = Len(t)
      BY <1>2 DEF CallsRight, n
    <2> QED BY <2>1, <2>2, <2>3, <2>4 DEF CallsRight
  <1>6. AllPaused(t)
    BY <1>1, <1>2, <1>4 DEF AllPaused
  <1>7. \A i : i \in Dropping(t) <=> g.waits /\ i = g.i
    BY <1>1, <1>2, <1>3, DroppingIs
  <1>8. \A i : i \in Dropping(s) <=> f.waits /\ i = f.i
    BY <1>2, <1>3, DroppingIs DEF f
  <1>9. f \in LoopFrames /\ (f.call = "tick" => f.i >= 1)
    BY <1>2 DEF CallsRight, f
  <1>10. Dropping(t) = (IF g.waits THEN {g.i} ELSE {}) /\ Dropping(s) = (IF f.waits THEN {f.i} ELSE {})
    <2>1. \A i : i \in Dropping(t) <=> i \in IF g.waits THEN {g.i} ELSE {}
      BY <1>7
    <2>2. \A i : i \in Dropping(s) <=> i \in IF f.waits THEN {f.i} ELSE {}
      BY <1>8
    <2> QED BY <2>1, <2>2
  <1> QED BY <1>5, <1>6, <1>9, <1>10 DEF t, f

\* The complete on top has dequeued.
LEMMA CompleteReplaced ==
    ASSUME NEW s, IsList(s), s # <<>>, CallsRight(s), Head(s).call = "complete",
           NEW g, g.call = "complete", g.paused
    PROVE  /\ CallsRight(<<g>> \o Tail(s)) /\ AllPaused(<<g>> \o Tail(s))
           /\ Dropping(<<g>> \o Tail(s)) = Dropping(s)
  <1> DEFINE t == <<g>> \o Tail(s)
             f == Head(s)
             n == Len(s)
  <1>1. g.call \in FxCalls /\ f.call \in FxCalls /\ ~IsLoop(g) /\ ~IsLoop(f)
    BY DEF FxCalls, IsLoop
  <1>2. /\ DOMAIN Fx(t) = DOMAIN Fx(s) /\ n \in DOMAIN Fx(s) /\ Fx(t)[n] = g /\ Fx(s)[n] = f /\ Len(t) = n
        /\ \A k \in DOMAIN Fx(s) : k # n => Fx(t)[k] = Fx(s)[k]
    BY <1>1, FxReplaced
  <1> HIDE DEF t, f, n
  <1>3. AllPaused(t)
    BY <1>2 DEF CallsRight, AllPaused, n
  <1>4. CallsRight(t)
    <2>1. \A j, k \in DOMAIN Fx(t) : IsLoop(Fx(t)[j]) /\ IsLoop(Fx(t)[k]) => j = k
      BY <1>1, <1>2 DEF CallsRight
    <2>2. \A k \in DOMAIN Fx(t) : IsLoop(Fx(t)[k]) => Fx(t)[k] \in LoopFrames
      BY <1>1, <1>2 DEF CallsRight
    <2>3. \A k \in DOMAIN Fx(t) : Fx(t)[k].call = "tick" => Fx(t)[k].i >= 1
      BY <1>1, <1>2 DEF CallsRight
    <2>4. \A k \in DOMAIN Fx(t) : Fx(t)[k].call = "complete" /\ ~Fx(t)[k].paused => k = Len(t)
      BY <1>3 DEF AllPaused
    <2> QED BY <2>1, <2>2, <2>3, <2>4 DEF CallsRight
  <1>5. Dropping(t) = Dropping(s)
    <2>1. \A i : i \in Dropping(t) <=> i \in Dropping(s)
      BY <1>1, <1>2, DroppingIs
    <2> QED BY <2>1
  <1> QED BY <1>3, <1>4, <1>5 DEF t

\* The call on top is over.
LEMMA TopPopped ==
    ASSUME NEW s, IsList(s), s # <<>>, CallsRight(s), IsLoop(Head(s)) => ~Head(s).waits
    PROVE  /\ CallsRight(Tail(s)) /\ AllPaused(Tail(s)) /\ Dropping(Tail(s)) = Dropping(s)
  <1> DEFINE t == Tail(s)
             f == Head(s)
             n == Len(s)
  <1>1. /\ f.call \notin FxCalls => Fx(t) = Fx(s)
        /\ f.call \in FxCalls => DOMAIN Fx(t) = DOMAIN Fx(s) \ {n} /\ Fx(s)[n] = f
        /\ \A k \in DOMAIN Fx(t) : k \in DOMAIN Fx(s) /\ k # n /\ Fx(t)[k] = Fx(s)[k]
    BY FxPopped
  <1>2. ~IsLoop(f) \/ f.call \in FxCalls
    BY DEF IsLoop, FxCalls
  <1> HIDE DEF t, f, n
  <1>3. AllPaused(t)
    BY <1>1 DEF CallsRight, AllPaused, n
  <1>4. CallsRight(t)
    <2>1. \A j, k \in DOMAIN Fx(t) : IsLoop(Fx(t)[j]) /\ IsLoop(Fx(t)[k]) => j = k
      BY <1>1 DEF CallsRight
    <2>2. \A k \in DOMAIN Fx(t) : IsLoop(Fx(t)[k]) => Fx(t)[k] \in LoopFrames
      BY <1>1 DEF CallsRight
    <2>3. \A k \in DOMAIN Fx(t) : Fx(t)[k].call = "tick" => Fx(t)[k].i >= 1
      BY <1>1 DEF CallsRight
    <2>4. \A k \in DOMAIN Fx(t) : Fx(t)[k].call = "complete" /\ ~Fx(t)[k].paused => k = Len(t)
      BY <1>3 DEF AllPaused
    <2> QED BY <2>1, <2>2, <2>3, <2>4 DEF CallsRight
  <1>5. Dropping(t) = Dropping(s)
    <2>1. \A i : i \in Dropping(t) <=> i \in Dropping(s)
      <3>1. CASE f.call \in FxCalls
        <4>1. \A k \in DOMAIN Fx(s) : k \in DOMAIN Fx(t) \/ Fx(s)[k] = f
          BY <1>1, <3>1
        <4> QED BY <1>1, <4>1, DroppingIs DEF f
      <3>2. CASE f.call \notin FxCalls
        BY <1>1, <3>2, DroppingIs
      <3> QED BY <3>1, <3>2
    <2> QED BY <2>1
  <1> QED BY <1>3, <1>4, <1>5 DEF t

LEMMA NothingRuns ==
    ASSUME IsList(stack), ~TimersRun
    PROVE  NoLoop(stack)
  <1>1. Len(stack) \in Nat /\ DOMAIN stack = 1 .. Len(stack)
    BY ListIndexed
  <1>2. ASSUME NEW k \in DOMAIN Fx(stack) PROVE ~IsLoop(Fx(stack)[k])
    <2>1. k \in 1 .. Len(stack) /\ Fx(stack)[k] = stack[Len(stack) + 1 - k]
      BY DEF Fx, FxDepths, FromBottom
    <2>2. Len(stack) + 1 - k \in DOMAIN stack
      BY <1>1, <2>1
    <2> QED BY <2>1, <2>2 DEF TimersRun, IsLoop
  <1> QED BY <1>2 DEF NoLoop

-----------------------------------------------------------------------------
(* The timers that are live: all but the one that a loop waits to drop.         *)

LiveOf(ts, ds) == {ts[i] : i \in DOMAIN ts \ ds}
NoTwo(ts, ds) == \A i, j \in DOMAIN ts \ ds : ts[i] = ts[j] => i = j
NewTimers(a) == [p \in 1 .. Properties |-> [anim |-> a, prop |-> p]]

LEMMA LiveIs ==
    ASSUME NEW ts, NEW ds
    PROVE  \A t : t \in LiveOf(ts, ds) <=> \E i \in DOMAIN ts : i \notin ds /\ t = ts[i]
  BY DEF LiveOf

LEMMA Joined ==
    ASSUME NEW S, NEW s \in Seq(S), NEW t \in Seq(S)
    PROVE  /\ s \o t \in Seq(S) /\ Len(s \o t) = Len(s) + Len(t) /\ Len(s) \in Nat
           /\ \A i \in 1 .. Len(s) : (s \o t)[i] = s[i]
           /\ \A i \in 1 .. Len(t) : (s \o t)[Len(s) + i] = t[i]
  <1>1. s \o t \in Seq(S) /\ Len(s \o t) = Len(s) + Len(t) /\ Len(s) \in Nat
    OBVIOUS
  <1>2. \A i \in 1 .. Len(s) : (s \o t)[i] = s[i]
    OBVIOUS
  <1>3. \A i \in 1 .. Len(t) : (s \o t)[Len(s) + i] = t[i]
    OBVIOUS
  <1> QED BY <1>1, <1>2, <1>3

\* The timers of an animation that begins.
LEMMA TimersAdded ==
    ASSUME NEW ts \in Seq(Timers), NEW ds, ds \subseteq DOMAIN ts, NEW a \in Nat, NoTwo(ts, ds),
           \A t \in LiveOf(ts, ds) : t.anim # a
    PROVE  /\ ts \o NewTimers(a) \in Seq(Timers) /\ ds \subseteq DOMAIN (ts \o NewTimers(a))
           /\ NoTwo(ts \o NewTimers(a), ds)
           /\ \A t : t \in LiveOf(ts \o NewTimers(a), ds) <=>
                 t \in LiveOf(ts, ds) \/ \E p \in 1 .. Properties : t = [anim |-> a, prop |-> p]
           /\ \A i \in DOMAIN (ts \o NewTimers(a)) :
                 \/ i \in DOMAIN ts /\ (ts \o NewTimers(a))[i] = ts[i]
                 \/ (ts \o NewTimers(a))[i].anim = a
  <1> DEFINE f == NewTimers(a)
             new == ts \o f
             n == Len(ts)
  <1>1. Properties \in Nat /\ \A p \in 1 .. Properties : [anim |-> a, prop |-> p] \in Timers
    BY PropertiesAssumption DEF Timers
  <1>2. f \in Seq(Timers) /\ Len(f) = Properties /\ \A p \in 1 .. Properties : f[p] = [anim |-> a, prop |-> p]
    BY <1>1 DEF NewTimers
  <1> HIDE DEF f
  <1>3. /\ new \in Seq(Timers) /\ Len(new) = n + Properties /\ n \in Nat
        /\ DOMAIN new = 1 .. n + Properties /\ DOMAIN ts = 1 .. n
        /\ \A i \in 1 .. n : new[i] = ts[i]
        /\ \A p \in 1 .. Properties : new[n + p] = f[p]
    <2>1. new \in Seq(Timers) /\ Len(new) = n + Properties /\ n \in Nat
      BY <1>2, Joined
    <2>2. DOMAIN new = 1 .. n + Properties /\ DOMAIN ts = 1 .. n
      BY <2>1
    <2>3. \A i \in 1 .. n : new[i] = ts[i]
      BY <1>2, Joined
    <2>4. \A p \in 1 .. Properties : new[n + p] = f[p]
      BY <1>2, Joined
    <2> QED BY <2>1, <2>2, <2>3, <2>4
  <1> HIDE DEF new, n
  <1>4. \A i \in DOMAIN new : i \in DOMAIN ts \/ \E p \in 1 .. Properties : i = n + p /\ new[i] = [anim |-> a, prop |-> p]
    <2> TAKE i \in DOMAIN new
    <2>1. i \in 1 .. n \/ i - n \in 1 .. Properties
      BY <1>1, <1>3
    <2>2. i = n + (i - n)
      BY <1>3
    <2> QED BY <1>2, <1>3, <2>1, <2>2
  <1>5. \A p \in 1 .. Properties : n + p \in DOMAIN new /\ n + p \notin DOMAIN ts
    BY <1>1, <1>3
  <1>6. \A t : t \in LiveOf(new, ds) <=> t \in LiveOf(ts, ds) \/ \E p \in 1 .. Properties : t = [anim |-> a, prop |-> p]
    <2> TAKE t
    <2>1. ASSUME t \in LiveOf(new, ds), t \notin LiveOf(ts, ds) PROVE \E p \in 1 .. Properties : t = [anim |-> a, prop |-> p]
      BY <1>3, <1>4, <2>1, LiveIs
    <2>2. ASSUME t \in LiveOf(ts, ds) PROVE t \in LiveOf(new, ds)
      <3>1. PICK i \in DOMAIN ts : i \notin ds /\ t = ts[i]
        BY <2>2, LiveIs
      <3>2. i \in DOMAIN new /\ new[i] = ts[i]
        BY <1>1, <1>3, <3>1
      <3> QED BY <3>1, <3>2, LiveIs
    <2>3. ASSUME NEW p \in 1 .. Properties, t = [anim |-> a, prop |-> p] PROVE t \in LiveOf(new, ds)
      <3>1. n + p \in DOMAIN new /\ n + p \notin ds /\ new[n + p] = t
        BY <1>2, <1>3, <1>5, <2>3
      <3> QED BY <3>1, LiveIs
    <2> QED BY <2>1, <2>2, <2>3
  <1>7. NoTwo(new, ds)
    <2> SUFFICES ASSUME NEW i \in DOMAIN new \ ds, NEW j \in DOMAIN new \ ds, new[i] = new[j] PROVE i = j
      BY DEF NoTwo
    <2>1. \A k \in DOMAIN ts \ ds : ts[k].anim # a
      BY LiveIs
    <2>2. CASE i \in DOMAIN ts /\ j \in DOMAIN ts
      BY <1>3, <2>2 DEF NoTwo
    <2>3. CASE i \notin DOMAIN ts /\ j \notin DOMAIN ts
      <3>1. PICK p \in 1 .. Properties : i = n + p /\ new[i] = [anim |-> a, prop |-> p]
        BY <1>4, <2>3
      <3>2. PICK q \in 1 .. Properties : j = n + q /\ new[j] = [anim |-> a, prop |-> q]
        BY <1>4, <2>3
      <3> QED BY <3>1, <3>2
    <2>4. CASE i \in DOMAIN ts /\ j \notin DOMAIN ts
      <3>1. new[j].anim = a /\ new[i] = ts[i]
        BY <1>3, <1>4, <2>4
      <3> QED BY <2>1, <2>4, <3>1
    <2>5. CASE i \notin DOMAIN ts /\ j \in DOMAIN ts
      <3>1. new[i].anim = a /\ new[j] = ts[j]
        BY <1>3, <1>4, <2>5
      <3> QED BY <2>1, <2>5, <3>1
    <2> QED BY <2>2, <2>3, <2>4, <2>5
  <1>8. DOMAIN ts \subseteq DOMAIN new
    BY <1>1, <1>3
  <1>9. \A i \in DOMAIN new : (i \in DOMAIN ts /\ new[i] = ts[i]) \/ new[i].anim = a
    BY <1>3, <1>4
  <1> QED BY <1>3, <1>6, <1>7, <1>8, <1>9 DEF new, f

\* A timer that has made its last step is live no more.
LEMMA TimerWaits ==
    ASSUME NEW ts, NEW i \in DOMAIN ts, NoTwo(ts, {})
    PROVE  /\ NoTwo(ts, {i})
           /\ \A t : t \in LiveOf(ts, {i}) <=> t \in LiveOf(ts, {}) /\ t # ts[i]
  BY LiveIs DEF NoTwo

\* Dropping it changes nothing else.
LEMMA TimerDropped ==
    ASSUME NEW i \in DOMAIN timers, timers \in Seq(Timers), NoTwo(timers, {i})
    PROVE  /\ Spliced(i) \in Seq(Timers) /\ NoTwo(Spliced(i), {})
           /\ \A t : t \in LiveOf(Spliced(i), {}) <=> t \in LiveOf(timers, {i})
           /\ \A k \in DOMAIN Spliced(i) : \E j \in DOMAIN timers :
                 j # i /\ Spliced(i)[k] = timers[j] /\ (j < i => k = j)
  <1> DEFINE new == Spliced(i)
             n == Len(timers)
             At(k) == IF k < i THEN k ELSE k + 1
  <1>1. DOMAIN timers = 1 .. n /\ n \in Nat /\ i \in 1 .. n /\ i <= Len(timers)
    OBVIOUS
  <1>2. new = [k \in 1 .. n - 1 |-> timers[At(k)]]
    BY <1>1 DEF Spliced
  <1>3. \A k \in 1 .. n - 1 : At(k) \in 1 .. n /\ At(k) # i /\ (At(k) < i => k = At(k))
    BY <1>1
  <1>4. \A j \in 1 .. n : j # i => \E k \in 1 .. n - 1 : At(k) = j
    <2> TAKE j \in 1 .. n
    <2> HAVE j # i
    <2>1. CASE j < i
      <3>1. j \in 1 .. n - 1 /\ At(j) = j
        BY <1>1, <2>1
      <3> QED BY <3>1
    <2>2. CASE ~(j < i)
      <3>1. j - 1 \in 1 .. n - 1 /\ At(j - 1) = j
        BY <1>1, <2>2
      <3> QED BY <3>1
    <2> QED BY <2>1, <2>2
  <1>5. \A k, l \in 1 .. n - 1 : At(k) = At(l) => k = l
    BY <1>1
  <1> HIDE DEF At
  <1>6. new \in Seq(Timers) /\ DOMAIN new = 1 .. n - 1 /\ \A k \in 1 .. n - 1 : new[k] = timers[At(k)]
    <2>1. n - 1 \in Nat /\ \A k \in 1 .. n - 1 : timers[At(k)] \in Timers
      BY <1>1, <1>3
    <2> QED BY <1>2, <2>1
  <1> HIDE DEF new
  <1>7. \A t : t \in LiveOf(new, {}) <=> t \in LiveOf(timers, {i})
    <2>1. \A t : t \in LiveOf(new, {}) <=> \E k \in 1 .. n - 1 : t = timers[At(k)]
      BY <1>6, LiveIs
    <2>2. \A t : t \in LiveOf(timers, {i}) <=> \E j \in 1 .. n : j # i /\ t = timers[j]
      BY <1>1, LiveIs
    <2> QED BY <1>3, <1>4, <2>1, <2>2
  <1>8. NoTwo(new, {})
    <2> SUFFICES ASSUME NEW k \in 1 .. n - 1, NEW l \in 1 .. n - 1, new[k] = new[l] PROVE k = l
      BY <1>6 DEF NoTwo
    <2>1. At(k) \in DOMAIN timers \ {i} /\ At(l) \in DOMAIN timers \ {i} /\ timers[At(k)] = timers[At(l)]
      BY <1>1, <1>3, <1>6
    <2> QED BY <1>5, <2>1 DEF NoTwo
  <1>9. \A k \in DOMAIN new : \E j \in DOMAIN timers : j # i /\ new[k] = timers[j] /\ (j < i => k = j)
    BY <1>1, <1>3, <1>6
  <1> QED BY <1>6, <1>7, <1>8, <1>9 DEF new

\* The numbers of S, counted: each has a place, and each place a number.
LEMMA Counted ==
    ASSUME NEW n \in Nat, NEW S \in SUBSET (1 .. n)
    PROVE  /\ Cardinality(S) \in Nat
           /\ \A i \in S : Cardinality(S \cap (1 .. i)) \in 1 .. Cardinality(S)
           /\ \A i, j \in S : Cardinality(S \cap (1 .. i)) = Cardinality(S \cap (1 .. j)) => i = j
           /\ \A k \in 1 .. Cardinality(S) : \E i \in S : Cardinality(S \cap (1 .. i)) = k
  <1> DEFINE N == Cardinality(S)
             U(i) == S \cap (1 .. i)
             r == [i \in S |-> Cardinality(U(i))]
  <1>1. IsFiniteSet(S) /\ N \in Nat
    <2>1. IsFiniteSet(1 .. n)
      BY FS_Interval
    <2>2. IsFiniteSet(S)
      BY <2>1, FS_Subset
    <2> QED BY <2>2, FS_CardinalityType
  <1>2. \A i \in S : i \in 1 .. n /\ i \in U(i) /\ U(i) \subseteq S
    OBVIOUS
  <1>3. \A i, j \in S : i < j => U(i) \subseteq U(j) /\ j \notin U(i)
    OBVIOUS
  <1> HIDE DEF N, U
  <1>4. \A i \in S : IsFiniteSet(U(i)) /\ Cardinality(U(i)) \in Nat /\ Cardinality(U(i)) <= N
    <2> TAKE i \in S
    <2>1. U(i) \in SUBSET S
      BY <1>2
    <2>2. IsFiniteSet(U(i)) /\ Cardinality(U(i)) <= N
      BY <1>1, <2>1, FS_Subset DEF N
    <2> QED BY <2>2, FS_CardinalityType
  <1>5. \A i \in S : Cardinality(U(i)) \in 1 .. N
    <2> TAKE i \in S
    <2>1. U(i) # {}
      BY <1>2
    <2>2. Cardinality(U(i)) # 0
      BY <1>4, <2>1, FS_EmptySet
    <2> QED BY <1>1, <1>4, <2>2
  <1>6. \A i, j \in S : i < j => Cardinality(U(i)) # Cardinality(U(j))
    <2> SUFFICES ASSUME NEW i \in S, NEW j \in S, i < j, Cardinality(U(i)) = Cardinality(U(j)) PROVE FALSE
      OBVIOUS
    <2>1. U(i) \in SUBSET U(j) /\ j \notin U(i) /\ j \in U(j)
      BY <1>2, <1>3
    <2>2. U(j) = U(i)
      BY <1>4, <2>1, FS_Subset
    <2> QED BY <2>1, <2>2
  <1>7. \A i, j \in S : Cardinality(U(i)) = Cardinality(U(j)) => i = j
    <2> SUFFICES ASSUME NEW i \in S, NEW j \in S, Cardinality(U(i)) = Cardinality(U(j)), i # j PROVE FALSE
      OBVIOUS
    <2>1. i < j \/ j < i
      OBVIOUS
    <2> QED BY <1>6, <2>1
  <1>8. \A k \in 1 .. N : \E i \in S : Cardinality(U(i)) = k
    <2>1. r \in [S -> 1 .. N] /\ \A i \in S : r[i] = Cardinality(U(i))
      BY <1>5
    <2> HIDE DEF r
    <2>2. \A i, j \in S : r[i] = r[j] => i = j
      BY <1>7, <2>1
    <2>3. r \in Injection(S, 1 .. N)
      BY <2>1, <2>2 DEF Injection, IsInjective
    <2>4. IsFiniteSet(1 .. N) /\ Cardinality(1 .. N) = N
      BY <1>1, FS_Interval
    <2>5. r \in Surjection(S, 1 .. N)
      BY <2>3, <2>4, FS_Injection DEF N
    <2>6. \A k \in 1 .. N : \E i \in S : r[i] = k
      BY <2>5 DEF Surjection
    <2> QED BY <2>1, <2>6
  <1> QED BY <1>1, <1>5, <1>7, <1>8 DEF N, U

\* What stop leaves of the timers.
LEMMA OthersAre ==
    ASSUME NEW e, timers \in Seq(Timers)
    PROVE  /\ OtherTimers(e) \in Seq(Timers)
           /\ \A k \in DOMAIN OtherTimers(e) : \E i \in DOMAIN timers : OtherTimers(e)[k] = timers[i]
           /\ NoTwo(timers, {}) => NoTwo(OtherTimers(e), {})
           /\ \A t : t \in LiveOf(OtherTimers(e), {}) <=> t \in LiveOf(timers, {}) /\ anims[t.anim].elem # e
           /\ OtherTimers(e) # <<>> => timers # <<>>
  <1> DEFINE S == {i \in DOMAIN timers : anims[timers[i].anim].elem # e}
             N == Cardinality(S)
             At(k) == CHOOSE i \in S : Cardinality(S \cap (1 .. i)) = k
             new == OtherTimers(e)
  <1>1. Len(timers) \in Nat /\ S \in SUBSET (1 .. Len(timers)) /\ DOMAIN timers = 1 .. Len(timers)
    OBVIOUS
  <1>2. new = [k \in 1 .. N |-> timers[At(k)]]
    BY DEF OtherTimers
  <1>3. \A i : i \in S <=> i \in DOMAIN timers /\ anims[timers[i].anim].elem # e
    OBVIOUS
  <1> HIDE DEF S, new
  <1>4. /\ N \in Nat
        /\ \A i \in S : Cardinality(S \cap (1 .. i)) \in 1 .. N
        /\ \A i, j \in S : Cardinality(S \cap (1 .. i)) = Cardinality(S \cap (1 .. j)) => i = j
        /\ \A k \in 1 .. N : \E i \in S : Cardinality(S \cap (1 .. i)) = k
    BY <1>1, Counted
  <1>5. \A k \in 1 .. N : At(k) \in S /\ Cardinality(S \cap (1 .. At(k))) = k
    BY <1>4
  <1>6. \A i \in S : \E k \in 1 .. N : At(k) = i
    BY <1>4, <1>5
  <1> HIDE DEF N, At
  <1>7. new \in Seq(Timers) /\ DOMAIN new = 1 .. N /\ \A k \in 1 .. N : new[k] = timers[At(k)]
    <2>1. ASSUME NEW k \in 1 .. N PROVE timers[At(k)] \in Timers
      <3>1. At(k) \in DOMAIN timers
        BY <1>3, <1>5
      <3> QED BY <3>1
    <2> QED BY <1>2, <1>4, <2>1
  <1>a. \A k \in DOMAIN new : \E i \in DOMAIN timers : new[k] = timers[i]
    BY <1>3, <1>5, <1>7
  <1>8. NoTwo(timers, {}) => NoTwo(new, {})
    <2> SUFFICES ASSUME NoTwo(timers, {}), NEW k \in 1 .. N, NEW l \in 1 .. N, new[k] = new[l] PROVE k = l
      BY <1>7 DEF NoTwo
    <2>1. At(k) \in DOMAIN timers /\ At(l) \in DOMAIN timers /\ timers[At(k)] = timers[At(l)]
      BY <1>3, <1>5, <1>7
    <2>2. At(k) = At(l)
      BY <2>1 DEF NoTwo
    <2> QED BY <1>5, <2>2
  <1>9. \A t : t \in LiveOf(new, {}) <=> t \in LiveOf(timers, {}) /\ anims[t.anim].elem # e
    <2>0. \A ts, t : t \in LiveOf(ts, {}) <=> \E i \in DOMAIN ts : t = ts[i]
      BY LiveIs
    <2>1. \A t : t \in LiveOf(new, {}) <=> \E k \in 1 .. N : t = timers[At(k)]
      <3>1. \A t : t \in LiveOf(new, {}) <=> \E k \in 1 .. N : t = new[k]
        <4>1. DOMAIN new = 1 .. N
          BY <1>7
        <4>2. \A t : t \in LiveOf(new, {}) <=> \E i \in DOMAIN new : t = new[i]
          BY <2>0
        <4> QED BY <4>1, <4>2
      <3> QED BY <1>7, <3>1
    <2>2. \A t : t \in LiveOf(timers, {}) <=> \E i \in DOMAIN timers : t = timers[i]
      BY <2>0
    <2>3. \A t : t \in LiveOf(new, {}) <=> \E i \in S : t = timers[i]
      BY <1>5, <1>6, <2>1
    <2> QED BY <1>3, <2>2, <2>3
  <1>10. new # <<>> => timers # <<>>
    <2> SUFFICES ASSUME new # <<>>, timers = <<>> PROVE FALSE
      OBVIOUS
    <2>1. N # 0
      <3>1. N = 0 => DOMAIN new = {}
        BY <1>7
      <3> QED BY <1>7, <3>1
    <2>2. 1 \in 1 .. N
      BY <1>4, <2>1
    <2>3. At(1) \in DOMAIN timers
      BY <1>3, <1>5, <2>2
    <2> QED BY <1>1, <2>3
  <1> QED BY <1>7, <1>a, <1>8, <1>9, <1>10 DEF new

-----------------------------------------------------------------------------
(* What holds of the effects, as long as no callback stops a loop over timers   *)
(* and nothing throws.                                                          *)

Live == LiveOf(timers, Dropping(stack))
\* The timers ts of the animations as, without those that are dropped.
TimersOf(ts, ds, as) ==
    /\ ts \in Seq(Timers) /\ \A i \in DOMAIN ts : ts[i].anim \in 1 .. Len(as)
    /\ ds \subseteq DOMAIN ts /\ NoTwo(ts, ds)
    /\ \A t \in LiveOf(ts, ds) : t.prop \in as[t.anim].left
IntervalFor(ts) ==
    /\ intervals \in Nat /\ timerLive \in BOOLEAN
    /\ timerLive \/ ts # <<>> => intervals > 0
TimersRight == TimersOf(timers, Dropping(stack), anims) /\ IntervalFor(timers)

\* The animation a has a timer for every property that it still changes.
Moving(a) == anims[a].left # {} /\ \A p \in anims[a].left : [anim |-> a, prop |-> p] \in Live
\* The last timer of an animation of x has ended, or it had nothing to do.
Ending(x) == TopIs("complete") /\ ~Top.paused /\ anims[Top.anim].elem = x
\* stop has emptied the queue of x, and forces the last step of its timers.
Finishing(x) ==
    /\ TopIs("stop") /\ Top.elem = x /\ Queue(x) = <<>> /\ wanted[x] = "any"
    /\ \A i \in DOMAIN timers \ Dropping(stack) : anims[timers[i].anim].elem = x => i <= Top.i

QueueRight(x) ==
    /\ \A i, j \in DOMAIN Queue(x) : i < j => Queue(x)[i] < Queue(x)[j]
    /\ \A j \in DOMAIN Queue(x) : j > 1 =>
          anims[Queue(x)[j]].left = 1 .. Properties /\ \A t \in Live : t.anim # Queue(x)[j]
    /\ Queue(x) # <<>> => Ending(x) \/ Moving(Queue(x)[1])
LastOf(q) == q[Len(q)]
ShownRight(x) ==
    /\ \A t \in Live : anims[t.anim].elem = x =>
          (Queue(x) # <<>> /\ t.anim = Queue(x)[1]) \/ Finishing(x)
    /\ \A t, u \in Live : anims[t.anim].elem = x /\ anims[u.anim].elem = x => t.anim = u.anim
    /\ Ending(x) => /\ \A t \in Live : anims[t.anim].elem # x
                    /\ Queue(x) # <<>> => Top.anim = Queue(x)[1]
    /\ wanted[x] # "any" =>
          /\ Queue(x) = <<>> => visible[x] = (wanted[x] = "show")
          /\ Queue(x) # <<>> => anims[LastOf(Queue(x))].kind = wanted[x]
          /\ Len(Queue(x)) = 1 => visible[x] = (~Ending(x) \/ anims[Queue(x)[1]].kind = "show")
ElementRight(x) == QueueRight(x) /\ (x \notin removed => ShownRight(x))

FxRight == CallsRight(stack) /\ TimersRight /\ \A x \in Animated : ElementRight(x)
FxTyped == visible \in [Animated -> BOOLEAN] /\ wanted \in [Animated -> Effect \cup {"any"}]
MovesInv == ~cut /\ ~threw => FxTyped /\ FxRight

\* What is seen of x is what it was, is not to be known, or it is seen while an animation runs.
SeenAsBefore(x) == \/ visible'[x] = visible[x] \/ x \in removed \/ wanted[x] = "any"
                   \/ Queue(x) # <<>> /\ visible'[x] = TRUE
NoTimers(x) == \A t \in Live : anims[t.anim].elem # x
\* Nothing of x changes.
Untouched(x) ==
    /\ QueueOf(cache'[x]) = QueueOf(cache[x]) /\ wanted'[x] = wanted[x] /\ SeenAsBefore(x)
    /\ \A b \in 1 .. Len(anims) : anims[b].elem = x => anims'[b] = anims[b]
    /\ \A t : t \in Live' /\ anims'[t.anim].elem = x <=> t \in Live /\ anims[t.anim].elem = x
    /\ ~Ending(x) /\ ~Ending(x)' /\ (Finishing(x) => Finishing(x)' \/ NoTimers(x))

LEMMA OthersKeep ==
    ASSUME FxInv, NEW x \in Animated, Untouched(x), ElementRight(x), x \in removed => x \in removed'
    PROVE  ElementRight(x)'
  <1>0. PICK q : q = Queue(x)
    OBVIOUS
  <1>1. QueueOf(cache'[x]) = q /\ q \in Seq(Nat) /\ x \in Elems
    BY <1>0, QueueTyped, ElementsAssumption DEF Untouched, Queue
  <1>2. \A i \in DOMAIN q : q[i] \in 1 .. Len(anims) /\ anims[q[i]].elem = x /\ anims'[q[i]] = anims[q[i]]
    BY <1>0, <1>1 DEF FxInv, QueuesOwn, Untouched
  <1>3. /\ wanted'[x] = wanted[x] /\ SeenAsBefore(x)
        /\ ~Ending(x) /\ ~Ending(x)' /\ (Finishing(x) => Finishing(x)' \/ NoTimers(x))
    BY DEF Untouched
  <1>4. \A t : t \in Live' /\ anims'[t.anim].elem = x <=> t \in Live /\ anims[t.anim].elem = x
    BY DEF Untouched
  <1>5. q # <<>> => 1 \in DOMAIN q /\ Len(q) \in DOMAIN q
    BY <1>1
  <1>6. Queue(x)' = q
    BY <1>1 DEF Queue
  <1>7. QueueRight(x)'
    <2>1. \A i, j \in DOMAIN q : i < j => q[i] < q[j]
      BY <1>0 DEF ElementRight, QueueRight
    <2>2. ASSUME NEW j \in DOMAIN q, j > 1
          PROVE  anims'[q[j]].left = 1 .. Properties /\ \A t \in Live' : t.anim # q[j]
      <3>1. anims[q[j]].left = 1 .. Properties /\ \A t \in Live : t.anim # q[j]
        BY <1>0, <2>2 DEF ElementRight, QueueRight
      <3> QED BY <1>2, <1>4, <3>1
    <2>3. ASSUME q # <<>> PROVE Moving(q[1])'
      <3>1. Moving(q[1])
        BY <1>0, <1>3, <2>3 DEF ElementRight, QueueRight
      <3>2. ASSUME NEW p \in anims[q[1]].left PROVE [anim |-> q[1], prop |-> p] \in Live'
        <4> DEFINE t == [anim |-> q[1], prop |-> p]
        <4>1. t \in Live /\ t.anim = q[1]
          BY <3>1 DEF Moving
        <4> HIDE DEF t
        <4>2. t \in Live'
          BY <1>2, <1>4, <1>5, <2>3, <4>1
        <4> QED BY <4>2 DEF t
      <3> QED BY <1>2, <1>5, <2>3, <3>1, <3>2 DEF Moving
    <2> QED BY <1>6, <2>1, <2>2, <2>3 DEF QueueRight
  <1>8. ASSUME x \notin removed' PROVE ShownRight(x)'
    <2>0. ShownRight(x)
      BY <1>8 DEF ElementRight
    <2>1. \A t \in Live' : anims'[t.anim].elem = x => (q # <<>> /\ t.anim = q[1]) \/ Finishing(x)'
      BY <1>0, <1>3, <1>4, <2>0 DEF ShownRight, NoTimers
    <2>2. \A t, u \in Live' : anims'[t.anim].elem = x /\ anims'[u.anim].elem = x => t.anim = u.anim
      BY <1>4, <2>0 DEF ShownRight
    <2>3. ASSUME wanted'[x] # "any"
          PROVE  /\ q = <<>> => visible'[x] = (wanted'[x] = "show")
                 /\ q # <<>> => anims'[LastOf(q)].kind = wanted'[x]
                 /\ Len(q) = 1 => visible'[x] = (~Ending(x)' \/ anims'[q[1]].kind = "show")
      <3>1. /\ q = <<>> => visible[x] = (wanted[x] = "show")
            /\ q # <<>> => anims[LastOf(q)].kind = wanted[x]
            /\ Len(q) = 1 => visible[x] = (~Ending(x) \/ anims[q[1]].kind = "show")
        BY <1>0, <1>3, <2>0, <2>3 DEF ShownRight
      <3>2. Len(q) = 1 => visible[x] = TRUE
        BY <1>3, <3>1
      <3>3. q # <<>> => anims'[LastOf(q)] = anims[LastOf(q)]
        BY <1>2, <1>5 DEF LastOf
      <3>4. \/ visible'[x] = visible[x]
            \/ q # <<>> /\ visible'[x] = TRUE
        BY <1>0, <1>3, <1>8, <2>3 DEF SeenAsBefore
      <3> QED BY <1>3, <3>1, <3>2, <3>3, <3>4
    <2> QED BY <1>3, <1>6, <2>1, <2>2, <2>3 DEF ShownRight
  <1> QED BY <1>7, <1>8 DEF ElementRight

\* No animation ends while every complete has dequeued.
LEMMA PausedEndNone ==
    ASSUME NEW s, IsList(s), AllPaused(s)
    PROVE  ~(s # <<>> /\ Head(s).call = "complete" /\ ~Head(s).paused)
  <1> SUFFICES ASSUME s # <<>>, Head(s).call = "complete", ~Head(s).paused PROVE FALSE
    OBVIOUS
  <1>1. Head(s).call \in FxCalls
    BY DEF FxCalls
  <1>2. Len(s) \in DOMAIN Fx(s) /\ Fx(s)[Len(s)] = Head(s)
    BY <1>1, FxPopped
  <1> QED BY <1>2 DEF AllPaused
LEMMA NoneEnds == ASSUME IsList(stack), AllPaused(stack) PROVE \A x : ~Ending(x)
  BY PausedEndNone DEF Ending, TopIs, Idle, Top
LEMMA NoneEndsNext == ASSUME IsList(stack'), AllPaused(stack') PROVE \A x : ~Ending(x)'
  BY PausedEndNone DEF Ending, TopIs, Idle, Top

-----------------------------------------------------------------------------
(* What the invariant says of the stack and of one element.                  *)

Quiet == AllPaused(stack) /\ ~TopIs("stop") /\ ~TopIs("tick")

LEMMA StackIsList == ASSUME FxInv PROVE IsList(stack)
  BY WaitingIsList DEF FxInv

LEMMA TopLoops ==
    ASSUME FxInv, CallsRight(stack), ~Idle, IsLoop(Top)
    PROVE  /\ Top \in LoopFrames /\ AllPaused(stack) /\ (Top.call = "tick" => Top.i >= 1)
           /\ Dropping(stack) = IF Top.waits THEN {Top.i} ELSE {}
  <1>1. IsList(stack) /\ stack # <<>> /\ Head(stack) = Top
    BY StackIsList DEF Idle, Top
  <1>2. Top.call \in FxCalls /\ Top.call # "complete"
    BY DEF IsLoop, FxCalls
  <1>3. Top \in LoopFrames /\ (Top.call = "tick" => Top.i >= 1)
    <2>1. Len(stack) \in DOMAIN Fx(stack) /\ Fx(stack)[Len(stack)] = Top
      BY <1>1, <1>2, FxPopped
    <2> QED BY <2>1 DEF CallsRight
  <1>4. /\ AllPaused(stack)
        /\ Dropping(stack) = IF Top.waits THEN {Top.i} ELSE {}
    BY <1>1, <1>2, <1>3, LoopReplaced, TopSettled
  <1> QED BY <1>3, <1>4

\* When the page runs, no animation is about to end.
LEMMA PageQuiet ==
    ASSUME FxInv, CallsRight(stack), PageRuns
    PROVE  Quiet
  <1>1. CASE Idle
    <2>1. AllPaused(stack)
      BY <1>1, StackIsList, TopSettled DEF Idle
    <2> QED BY <1>1, <2>1 DEF Quiet, TopIs
  <1>2. CASE ~Idle
    <2>1. Top.paused
      BY <1>2 DEF PageRuns
    <2>2. AllPaused(stack)
      BY <1>2, <2>1, StackIsList, TopSettled DEF Idle, Top
    <2>3. ~IsLoop(Top)
      <3> SUFFICES ASSUME IsLoop(Top) PROVE FALSE
        OBVIOUS
      <3>1. Top \in LoopFrames
        BY <1>2, TopLoops
      <3> QED BY <2>1, <3>1 DEF LoopFrames
    <2> QED BY <2>2, <2>3 DEF Quiet, TopIs, IsLoop
  <1> QED BY <1>1, <1>2

\* What others do: queues stay, or go with what is removed.
LEMMA EffectsStay ==
    ASSUME FxInv, FxRight, Quiet, IsList(stack'), Fx(stack') = Fx(stack), UNCHANGED fxVars,
           removed \subseteq removed',
           \A x \in Elems : \/ QueueOf(cache'[x]) = QueueOf(cache[x])
                            \/ QueueOf(cache'[x]) = <<>> /\ x \in removed'
    PROVE  FxRight'
  <1>1. /\ CallsRight(stack') /\ AllPaused(stack') /\ Dropping(stack') = Dropping(stack)
        /\ \A x : ~Ending(x) /\ ~Ending(x)'
    BY SameCalls, StackIsList, NoneEnds, NoneEndsNext DEF FxRight, Quiet
  <1>2. /\ visible' = visible /\ anims' = anims /\ timers' = timers /\ intervals' = intervals
        /\ timerLive' = timerLive /\ wanted' = wanted
    BY DEF fxVars, timerVars
  <1>3. Live' = Live
    BY <1>1, <1>2 DEF Live
  <1>4. TimersRight'
    BY <1>1, <1>2 DEF FxRight, TimersRight, IntervalFor
  <1>5. ASSUME NEW x \in Animated PROVE ElementRight(x)'
    <2>1. x \in Elems /\ ElementRight(x)
      BY ElementsAssumption DEF FxRight
    <2>2. CASE QueueOf(cache'[x]) = QueueOf(cache[x])
      <3>1. Untouched(x)
        BY <1>1, <1>2, <1>3, <2>2 DEF Untouched, SeenAsBefore, Finishing, Quiet
      <3> QED BY <2>1, <3>1, OthersKeep
    <2>3. CASE QueueOf(cache'[x]) = <<>> /\ x \in removed'
      <3>1. Queue(x)' = <<>> /\ DOMAIN <<>> = {}
        BY <2>3 DEF Queue
      <3>2. QueueRight(x)'
        BY <3>1 DEF QueueRight
      <3> QED BY <2>3, <3>2 DEF ElementRight
    <2> QED BY <2>1, <2>2, <2>3
  <1> QED BY <1>1, <1>4, <1>5 DEF FxRight

CallsOK(s) == IsList(s) /\ CallsRight(s) /\ AllPaused(s)
\* The queue q of e, of animations that have not made a step, in the order they were made.
Lined(q, e, as) ==
    /\ q \in Seq(Nat)
    /\ \A j \in DOMAIN q : q[j] \in 1 .. Len(as) /\ as[q[j]].elem = e /\ as[q[j]].left = 1 .. Properties
    /\ \A i, j \in DOMAIN q : i < j => q[i] < q[j]
\* No timer in R is of an animation in q, nor of e.
Apart(R, q, e, as) ==
    \A t \in R : /\ \A j \in DOMAIN q : t.anim # q[j]
                 /\ e \notin removed => as[t.anim].elem # e
\* What was right of e is right afterwards, with the timers R and some of e.
Acted(e, R) ==
    /\ CallsRight(stack') /\ TimersRight' /\ ElementRight(e)' /\ visible' \in [Animated -> BOOLEAN]
    /\ \A x \in Animated : x # e => visible'[x] = visible[x] /\ ~Ending(x)'
    /\ \A t \in R : t \in Live'
    /\ \A t \in Live' : t \in R \/ anims'[t.anim].elem = e

\* An animation of e begins, or is complete at once; it is the first of the queue.
LEMMA BeginsRight ==
    ASSUME NEW e \in Animated, NEW q, q # <<>>, QueueOf(cache'[e]) = q, Lined(q, e, anims'),
           NEW anim, anim = anims'[q[1]], anim.kind \in Effect,
           NEW waits, CallsOK(waits),
           NEW running, TimersOf(running, Dropping(waits), anims'), IntervalFor(running),
           Apart(LiveOf(running, Dropping(waits)), q, e, anims'),
           removed' = removed, FxTyped,
           e \notin removed /\ wanted'[e] # "any" => anims'[LastOf(q)].kind = wanted'[e],
           NEW entry, Begin(q[1], anim, entry, running, waits)
    PROVE  Acted(e, LiveOf(running, Dropping(waits)))
  <1> DEFINE a == q[1]
             D == Dropping(waits)
             R == LiveOf(running, D)
  <1>0. /\ q \in Seq(Nat) /\ a \in Nat /\ 1 \in DOMAIN q /\ \A j \in DOMAIN q : j > 1 => q[j] # a
        /\ Properties \in Nat /\ 1 \in 1 .. Properties /\ a \in 1 .. Len(anims')
        /\ anim.elem = e /\ anim.left = 1 .. Properties
    <2>0. q \in Seq(Nat)
      BY DEF Lined
    <2>1. 1 \in DOMAIN q /\ \A j \in DOMAIN q : q[j] \in Nat
      BY <2>0
    <2>2. Properties \in Nat /\ 1 \in 1 .. Properties
      BY PropertiesAssumption
    <2>3. \A j \in DOMAIN q : j > 1 => q[1] < q[j]
      BY <2>1 DEF Lined
    <2>4. \A j \in DOMAIN q : j > 1 => q[j] # a
      BY <2>1, <2>3
    <2>5. a \in 1 .. Len(anims') /\ anim.elem = e /\ anim.left = 1 .. Properties
      BY <2>1 DEF Lined
    <2> QED BY <2>0, <2>1, <2>2, <2>4, <2>5
  <1>1. Queue(e)' = q
    BY DEF Queue
  <1>4. \A t \in R : /\ t.prop \in anims'[t.anim].left /\ \A j \in DOMAIN q : t.anim # q[j]
                     /\ e \notin removed => anims'[t.anim].elem # e
    BY DEF Apart, TimersOf
  <1>5. /\ running \in Seq(Timers) /\ \A i \in DOMAIN running : running[i].anim \in 1 .. Len(anims')
        /\ D \subseteq DOMAIN running /\ NoTwo(running, D)
        /\ intervals \in Nat /\ timerLive \in BOOLEAN /\ (running # <<>> => intervals > 0)
    BY DEF TimersOf, IntervalFor
  <1>6. visible \in [Animated -> BOOLEAN] /\ IsList(waits) /\ CallsRight(waits) /\ AllPaused(waits)
    BY DEF FxTyped, CallsOK
  <1>7. /\ \A i, j \in DOMAIN q : i < j => q[i] < q[j]
        /\ \A j \in DOMAIN q : anims'[q[j]].left = 1 .. Properties
    BY DEF Lined
  <1> HIDE DEF a, D, R
  <1>2. CASE Hidden(e) = (anim.kind = "hide")
    <2>1. /\ stack' = <<Completing(a)>> \o waits /\ timers' = running
          /\ visible' = visible /\ intervals' = intervals /\ timerLive' = timerLive
      BY <1>0, <1>2 DEF Begin, a
    <2>2. CallsRight(stack') /\ Dropping(stack') = D
      BY <1>6, <2>1, CompletePushed DEF D
    <2>3. stack' # <<>> /\ Head(stack') = Completing(a)
      BY <1>6, <2>1, FxPushed
    <2>4. Live' = R
      BY <2>1, <2>2 DEF Live, R
    <2>5. TimersRight'
      BY <2>1, <2>2 DEF TimersRight, IntervalFor, D
    <2>6. Top' = Completing(a) /\ TopIs("complete")' /\ Top'.anim = a /\ ~Top'.paused
      BY <2>3 DEF Top, TopIs, Idle, Completing
    <2>7. Ending(e)' /\ \A x \in Animated : x # e => ~Ending(x)'
      BY <1>0, <2>6 DEF Ending, a
    <2>8. QueueRight(e)'
      BY <1>1, <1>4, <1>7, <2>4, <2>7 DEF QueueRight
    <2>9. ASSUME e \notin removed' PROVE ShownRight(e)'
      <3>1. \A t \in Live' : anims'[t.anim].elem # e
        BY <1>4, <2>4, <2>9
      <3>2. Top'.anim = q[1]
        BY <2>6 DEF a
      <3>3. visible'[e] = (anim.kind = "show")
        BY <1>2, <1>6, <2>1, <2>9 DEF Hidden, Effect
      <3>4. Len(q) = 1 => LastOf(q) = q[1]
        BY DEF LastOf
      <3> QED BY <1>1, <2>7, <2>9, <3>1, <3>2, <3>3 DEF ShownRight
    <2>10. ElementRight(e)'
      BY <2>8, <2>9 DEF ElementRight
    <2> QED BY <1>6, <2>1, <2>2, <2>4, <2>5, <2>7, <2>10 DEF Acted, R, D
  <1>3. CASE Hidden(e) # (anim.kind = "hide")
    <2>1. /\ stack' = waits /\ timers' = running \o NewTimers(a)
          /\ visible' = [visible EXCEPT ![e] = TRUE]
          /\ IF running = <<>> THEN intervals' = intervals + 1 /\ timerLive' = TRUE
                               ELSE UNCHANGED <<intervals, timerLive>>
      BY <1>0, <1>3 DEF Begin, a, StartTimers, ShowFirst, NewTimers
    <2>2. CallsRight(stack') /\ Dropping(stack') = D /\ \A x : ~Ending(x)'
      BY <1>6, <2>1, NoneEndsNext DEF D
    <2>3. \A t \in R : t.anim # a
      BY <1>0, <1>4 DEF a
    <2>4. /\ timers' \in Seq(Timers) /\ D \subseteq DOMAIN timers' /\ NoTwo(timers', D)
          /\ \A t : t \in LiveOf(timers', D) <=>
                t \in R \/ \E p \in 1 .. Properties : t = [anim |-> a, prop |-> p]
          /\ \A i \in DOMAIN timers' :
                \/ i \in DOMAIN running /\ timers'[i] = running[i]
                \/ timers'[i].anim = a
      <3>1. D \subseteq DOMAIN running /\ NoTwo(running, D) /\ \A t \in LiveOf(running, D) : t.anim # a
        BY <1>5, <2>3 DEF R
      <3>2. a \in Nat
        BY <1>0
      <3> DEFINE new == running \o NewTimers(a)
      <3>3. /\ new \in Seq(Timers) /\ D \subseteq DOMAIN new /\ NoTwo(new, D)
            /\ \A t : t \in LiveOf(new, D) <=>
                  t \in LiveOf(running, D) \/ \E p \in 1 .. Properties : t = [anim |-> a, prop |-> p]
            /\ \A i \in DOMAIN new : \/ i \in DOMAIN running /\ new[i] = running[i]
                                    \/ new[i].anim = a
        BY <1>5, <3>1, <3>2, TimersAdded
      <3>4. timers' = new
        BY <2>1
      <3> HIDE DEF new
      <3> QED BY <3>3, <3>4 DEF R
    <2>5. \A t : t \in Live' <=> t \in R \/ \E p \in 1 .. Properties : t = [anim |-> a, prop |-> p]
      BY <2>2, <2>4 DEF Live
    <2>6. \A t \in Live' : t.prop \in anims'[t.anim].left
      <3> TAKE t \in Live'
      <3>1. CASE t \in R
        BY <1>4, <3>1
      <3>2. CASE \E p \in 1 .. Properties : t = [anim |-> a, prop |-> p]
        <4>1. t.anim = a /\ t.prop \in 1 .. Properties
          BY <3>2
        <4>2. anims'[a].left = 1 .. Properties
          BY <1>0 DEF a
        <4> QED BY <4>1, <4>2
      <3> QED BY <2>5, <3>1, <3>2
    <2>7. intervals' \in Nat /\ timerLive' \in BOOLEAN /\ intervals' > 0
      <3>1. CASE running = <<>>
        <4>1. intervals' = intervals + 1 /\ timerLive' = TRUE
          BY <2>1, <3>1
        <4> QED BY <1>5, <4>1
      <3>2. CASE running # <<>>
        <4>1. intervals' = intervals /\ timerLive' = timerLive
          BY <2>1, <3>2
        <4> QED BY <1>5, <3>2, <4>1
      <3> QED BY <3>1, <3>2
    <2>8. \A i \in DOMAIN timers' : timers'[i].anim \in 1 .. Len(anims')
      BY <1>0, <1>5, <2>4
    <2>9. TimersRight'
      <3>1. TimersOf(timers', D, anims')
        BY <2>2, <2>4, <2>6, <2>8 DEF TimersOf, Live
      <3>2. IntervalFor(timers)'
        BY <2>7 DEF IntervalFor
      <3> QED BY <2>2, <3>1, <3>2 DEF TimersRight
    <2>10. Moving(q[1])'
      <3>1. \A p \in 1 .. Properties : [anim |-> q[1], prop |-> p] \in Live'
        BY <2>5 DEF a
      <3>2. anims'[q[1]].left = 1 .. Properties
        BY <1>0
      <3> QED BY <1>0, <3>1, <3>2 DEF Moving
    <2>11. \A t \in Live' : t \in R \/ t.anim = a
      BY <2>5
    <2>12. QueueRight(e)'
      <3>1. \A j \in DOMAIN q : j > 1 => \A t \in Live' : t.anim # q[j]
        BY <1>0, <1>4, <2>11
      <3> QED BY <1>1, <1>7, <2>10, <3>1 DEF QueueRight
    <2>13. ASSUME e \notin removed' PROVE ShownRight(e)'
      <3>1. \A t \in Live' : anims'[t.anim].elem = e => t.anim = q[1]
        BY <1>4, <2>11, <2>13 DEF a
      <3>2. visible'[e] = TRUE
        BY <1>6, <2>1
      <3> QED BY <1>1, <2>2, <2>13, <3>1, <3>2 DEF ShownRight
    <2>14. ElementRight(e)'
      BY <2>12, <2>13 DEF ElementRight
    <2>15. visible' \in [Animated -> BOOLEAN] /\ \A x \in Animated : x # e => visible'[x] = visible[x]
      BY <1>6, <2>1
    <2>16. \A t \in Live' : t \in R \/ anims'[t.anim].elem = e
      BY <1>0, <2>11 DEF a
    <2> QED BY <2>2, <2>5, <2>9, <2>14, <2>15, <2>16 DEF Acted, R, D
  <1> QED BY <1>2, <1>3

-----------------------------------------------------------------------------
(* An element's queue moves to its next animation, or becomes empty.         *)

RestOfQueue(q) == IF q = <<>> THEN <<>> ELSE Tail(q)

LEMMA RestIs ==
    ASSUME NEW q \in Seq(Nat)
    PROVE  /\ RestOfQueue(q) \in Seq(Nat)
           /\ q # <<>> /\ RestOfQueue(q) = <<>> => Len(q) = 1 /\ LastOf(q) = q[1]
           /\ RestOfQueue(q) # <<>> =>
                /\ q # <<>> /\ RestOfQueue(q) = Tail(q) /\ LastOf(RestOfQueue(q)) = LastOf(q)
                /\ 1 \in DOMAIN RestOfQueue(q)
                /\ \A j \in DOMAIN RestOfQueue(q) : /\ j + 1 \in DOMAIN q /\ j \in Nat /\ j + 1 > 1
                                                    /\ RestOfQueue(q)[j] = q[j + 1]
  <1>1. CASE q = <<>>
    BY <1>1 DEF RestOfQueue
  <1>2. CASE q # <<>>
    <2>0. Tail(q) \in Seq(Nat)
      BY <1>2
    <2>1. PICK r \in Seq(Nat) : r = Tail(q)
      BY <2>0
    <2>2. /\ Len(r) \in Nat /\ Len(q) = Len(r) + 1 /\ DOMAIN r = 1 .. Len(r) /\ DOMAIN q = 1 .. Len(q)
          /\ \A j \in DOMAIN r : r[j] = q[j + 1]
      <3>1. Len(q) \in Nat /\ DOMAIN q = 1 .. Len(q) /\ Len(r) \in Nat /\ DOMAIN r = 1 .. Len(r)
        BY <2>1
      <3>2. Len(Tail(q)) = Len(q) - 1 /\ \A j \in 1 .. Len(q) - 1 : Tail(q)[j] = q[j + 1]
        BY <1>2
      <3> QED BY <2>1, <3>1, <3>2
    <2>3. RestOfQueue(q) = r
      BY <1>2, <2>1 DEF RestOfQueue
    <2>4. r = <<>> => Len(r) = 0
      OBVIOUS
    <2>5. r # <<>> => Len(r) # 0
      OBVIOUS
    <2>6. r = <<>> => Len(q) = 1 /\ LastOf(q) = q[1]
      BY <2>2, <2>4 DEF LastOf
    <2>7. r # <<>> => LastOf(r) = LastOf(q) /\ 1 \in DOMAIN r
      BY <2>2, <2>5 DEF LastOf
    <2>8. \A j \in DOMAIN r : j + 1 \in DOMAIN q /\ j \in Nat /\ j + 1 > 1
      BY <2>2
    <2> QED BY <1>2, <2>1, <2>2, <2>3, <2>6, <2>7, <2>8
  <1> QED BY <1>1, <1>2

\* The timers R are left, and none is of e.
LeavesOthers(e, R) == \A t \in R : t \in Live /\ (e \notin removed => anims[t.anim].elem # e)
\* What was asked of e is open, or is what was asked before.
AskedBefore(e, q) ==
    e \notin removed /\ wanted'[e] # "any" =>
        wanted'[e] = wanted[e] /\ (Queue(e) = <<>> \/ (q = Queue(e) /\ Ending(e)))

\* A queue's first is over, or all are, and the next begins.
LEMMA DequeuesRight ==
    ASSUME FxInv, FxRight, FxTyped, NEW e \in Animated, NEW q, q = <<>> \/ q = Queue(e),
           QueueOf(cache'[e]) = RestOfQueue(q), anims' = anims, removed' = removed,
           NEW waits, CallsOK(waits),
           NEW running, TimersOf(running, Dropping(waits), anims), running # <<>> => timers # <<>>,
           LeavesOthers(e, LiveOf(running, Dropping(waits))), AskedBefore(e, q),
           Dequeue(e, q, running, waits)
    PROVE  Acted(e, LiveOf(running, Dropping(waits)))
  <1>0. PICK R : R = LiveOf(running, Dropping(waits))
    OBVIOUS
  <1>1. PICK rest : rest = RestOfQueue(q)
    OBVIOUS
  <1>2. q \in Seq(Nat) /\ e \in Elems /\ anims \in Seq(Anims)
    <2>1. e \in Elems /\ anims \in Seq(Anims)
      BY ElementsAssumption DEF FxInv
    <2>2. Queue(e) \in Seq(Nat)
      BY <2>1, QueueTyped
    <2> QED BY <2>1, <2>2, EmptyMaps
  <1>3. /\ rest \in Seq(Nat)
        /\ q # <<>> /\ rest = <<>> => Len(q) = 1 /\ LastOf(q) = q[1]
        /\ rest # <<>> =>
                /\ q # <<>> /\ rest = Tail(q) /\ LastOf(rest) = LastOf(q) /\ 1 \in DOMAIN rest
                /\ \A j \in DOMAIN rest : j + 1 \in DOMAIN q /\ j \in Nat /\ j + 1 > 1 /\ rest[j] = q[j + 1]
    BY <1>1, <1>2, RestIs
  <1>4. ElementRight(e) /\ TimersRight /\ IntervalFor(timers) /\ IntervalFor(running)
    BY DEF FxRight, TimersRight, IntervalFor
  <1>5. CASE rest = <<>>
    <2>1. /\ stack' = waits /\ timers' = running /\ visible' = visible
          /\ intervals' = intervals /\ timerLive' = timerLive
      BY <1>1, <1>5 DEF Dequeue, RestOfQueue
    <2>2. CallsRight(stack') /\ Dropping(stack') = Dropping(waits) /\ \A x : ~Ending(x)'
      BY <2>1, NoneEndsNext DEF CallsOK
    <2>3. Live' = R
      BY <1>0, <2>1, <2>2 DEF Live
    <2>4. TimersRight'
      BY <1>4, <2>1, <2>2 DEF TimersRight, IntervalFor
    <2>5. Queue(e)' = <<>> /\ DOMAIN <<>> = {} /\ Len(<<>>) # 1
      BY <1>1, <1>5 DEF Queue
    <2>6. QueueRight(e)'
      BY <2>5 DEF QueueRight
    <2>7. ASSUME e \notin removed' PROVE ShownRight(e)'
      <3>1. \A t \in Live' : anims'[t.anim].elem # e
        BY <1>0, <2>3, <2>7 DEF LeavesOthers
      <3>2. ASSUME wanted'[e] # "any" PROVE visible'[e] = (wanted'[e] = "show")
        <4>1. ShownRight(e) /\ wanted'[e] = wanted[e] /\ (Queue(e) = <<>> \/ (q = Queue(e) /\ Ending(e)))
          BY <1>4, <2>7, <3>2 DEF ElementRight, AskedBefore
        <4>2. CASE Queue(e) = <<>>
          BY <2>1, <3>2, <4>1, <4>2 DEF ShownRight
        <4>3. CASE Queue(e) # <<>>
          <5>1. q = Queue(e) /\ Ending(e) /\ Len(q) = 1 /\ LastOf(q) = q[1]
            BY <1>3, <1>5, <4>1, <4>3
          <5>3. visible[e] = (anims[q[1]].kind = "show")
            BY <3>2, <4>1, <5>1 DEF ShownRight
          <5>4. anims[q[1]].kind = wanted[e]
            BY <3>2, <4>1, <4>3, <5>1 DEF ShownRight
          <5> QED BY <2>1, <4>1, <5>3, <5>4
        <4> QED BY <4>2, <4>3
      <3> QED BY <2>2, <2>5, <3>1, <3>2 DEF ShownRight
    <2>8. ElementRight(e)'
      BY <2>6, <2>7 DEF ElementRight
    <2>9. Acted(e, R)
      BY <2>1, <2>2, <2>3, <2>4, <2>8 DEF Acted, FxTyped
    <2> QED BY <1>0, <2>9
  <1>6. CASE rest # <<>>
    <2>1. q = Queue(e)
      BY <1>3, <1>6
    <2>2. Lined(rest, e, anims')
      <3>1. \A j \in DOMAIN q : q[j] \in 1 .. Len(anims) /\ anims[q[j]].elem = e
        BY <1>2, <2>1 DEF FxInv, QueuesOwn
      <3>2. /\ \A i, j \in DOMAIN q : i < j => q[i] < q[j]
            /\ \A j \in DOMAIN q : j > 1 => anims[q[j]].left = 1 .. Properties
        BY <1>4, <2>1 DEF ElementRight, QueueRight
      <3>3. \A i, j \in DOMAIN rest : i < j => rest[i] < rest[j]
        <4> SUFFICES ASSUME NEW i \in DOMAIN rest, NEW j \in DOMAIN rest, i < j PROVE rest[i] < rest[j]
          OBVIOUS
        <4>1. i + 1 \in DOMAIN q /\ j + 1 \in DOMAIN q /\ i \in Nat /\ j \in Nat /\ rest[i] = q[i + 1] /\ rest[j] = q[j + 1]
          BY <1>3, <1>6
        <4>2. i + 1 < j + 1
          BY <4>1
        <4> QED BY <3>2, <4>1, <4>2
      <3>4. \A j \in DOMAIN rest : rest[j] \in 1 .. Len(anims) /\ anims[rest[j]].elem = e /\ anims[rest[j]].left = 1 .. Properties
        BY <1>3, <1>6, <3>1, <3>2
      <3> QED BY <1>3, <3>3, <3>4 DEF Lined
    <2>3. Apart(R, rest, e, anims')
      <3>1. \A j \in DOMAIN q : j > 1 => \A t \in Live : t.anim # q[j]
        BY <1>4, <2>1 DEF ElementRight, QueueRight
      <3>2. \A j \in DOMAIN rest : \A t \in Live : t.anim # rest[j]
        BY <1>3, <1>6, <3>1
      <3> QED BY <1>0, <3>2 DEF Apart, LeavesOthers
    <2>4. PICK anim : anim = anims[rest[1]]
      OBVIOUS
    <2>5. anim = anims'[rest[1]] /\ anim.kind \in Effect
      <3>1. rest[1] \in 1 .. Len(anims)
        BY <1>3, <1>6, <2>2 DEF Lined
      <3>2. anim \in Anims
        BY <1>2, <2>4, <3>1
      <3> QED BY <2>4, <3>2 DEF Anims
    <2>6. \E entry : Begin(rest[1], anim, entry, running, waits)
      BY <1>1, <1>6, <2>4 DEF Dequeue, RestOfQueue
    <2>7. PICK entry : Begin(rest[1], anim, entry, running, waits)
      BY <2>6
    <2>8. e \notin removed /\ wanted'[e] # "any" => anims'[LastOf(rest)].kind = wanted'[e]
      <3>1. Queue(e) # <<>> /\ LastOf(rest) = LastOf(Queue(e))
        BY <1>3, <1>6, <2>1
      <3> QED BY <1>4, <3>1 DEF ElementRight, ShownRight, AskedBefore
    <2>9. QueueOf(cache'[e]) = rest /\ TimersOf(running, Dropping(waits), anims')
      BY <1>1
    <2> QED BY <1>0, <1>4, <1>6, <2>2, <2>3, <2>5, <2>7, <2>8, <2>9, BeginsRight
  <1> QED BY <1>5, <1>6

\* The other elements, when only e is acted on.
LEMMA OneElement ==
    ASSUME FxInv, FxRight, NEW e, NEW R, Acted(e, R), removed' = removed, e \in Animated,
           \A x \in Animated : x # e => /\ QueueOf(cache'[x]) = QueueOf(cache[x]) /\ wanted'[x] = wanted[x]
                                        /\ ~Ending(x) /\ (Finishing(x) => Finishing(x)'),
           \A b \in 1 .. Len(anims) : /\ anims'[b].elem = anims[b].elem
                                      /\ anims[b].elem # e => anims'[b] = anims[b],
           \A i \in DOMAIN timers : timers[i].anim \in 1 .. Len(anims),
           \A t \in R : t \in Live,
           \A t \in Live : t \in R \/ anims[t.anim].elem = e
    PROVE  FxRight'
  <1>1. \A t \in Live : t.anim \in 1 .. Len(anims)
    BY LiveIs DEF Live
  <1>2. ASSUME NEW x \in Animated, x # e PROVE ElementRight(x)'
    <2>1. \A t : t \in Live' /\ anims'[t.anim].elem = x <=> t \in Live /\ anims[t.anim].elem = x
      <3> TAKE t
      <3>1. ASSUME t \in Live', anims'[t.anim].elem = x PROVE t \in Live /\ anims[t.anim].elem = x
        <4>1. t \in R
          BY <1>2, <3>1 DEF Acted
        <4> QED BY <1>1, <3>1, <4>1
      <3>2. ASSUME t \in Live, anims[t.anim].elem = x PROVE t \in Live' /\ anims'[t.anim].elem = x
        <4>1. t \in R
          BY <1>2, <3>2
        <4> QED BY <1>1, <3>2, <4>1 DEF Acted
      <3> QED BY <3>1, <3>2
    <2>2. Untouched(x)
      BY <1>2, <2>1 DEF Untouched, SeenAsBefore, Acted
    <2>3. ElementRight(x)
      BY DEF FxRight
    <2> QED BY <2>2, <2>3, OthersKeep
  <1> QED BY <1>2 DEF FxRight, Acted

-----------------------------------------------------------------------------
(* The steps that leave the elements as they are.                            *)

\* Nothing of any element changes but what is seen of it while an animation runs; a loop
\* goes on, or ends with no timer that it was to force.
LEMMA LoopsStep ==
    ASSUME FxInv, FxRight, FxTyped, UNCHANGED <<cache, removed, anims, wanted>>,
           visible' \in [Animated -> BOOLEAN], \A x \in Animated : SeenAsBefore(x),
           CallsRight(stack'), TimersRight', \A t : t \in Live' <=> t \in Live,
           \A x \in Animated : /\ ~Ending(x) /\ ~Ending(x)'
                               /\ Finishing(x) => Finishing(x)' \/ NoTimers(x)
    PROVE  FxRight' /\ FxTyped'
  <1>1. ASSUME NEW x \in Animated PROVE ElementRight(x)'
    <2>1. Untouched(x)
      BY DEF Untouched
    <2>2. ElementRight(x)
      BY DEF FxRight
    <2> QED BY <2>1, <2>2, OthersKeep
  <1> QED BY <1>1 DEF FxRight, FxTyped

LEMMA LoopsOn ==
    ASSUME FxInv, FxRight, FxTyped, UNCHANGED <<cache, removed, visible, anims, wanted>>,
           CallsRight(stack'), TimersRight', \A t : t \in Live' <=> t \in Live,
           \A x \in Animated : /\ ~Ending(x) /\ ~Ending(x)'
                               /\ Finishing(x) => Finishing(x)' \/ NoTimers(x)
    PROVE  FxRight' /\ FxTyped'
  <1>1. visible' \in [Animated -> BOOLEAN]
    BY DEF FxTyped
  <1>2. \A x \in Animated : SeenAsBefore(x)
    BY DEF SeenAsBefore
  <1> QED BY <1>1, <1>2, LoopsStep

LEMMA ShowsRight ==
    ASSUME FxInv, FxRight, FxTyped, NEW e \in Animated, NEW kind \in Effect, ShowOrHide(e, kind)
    PROVE  FxRight' /\ FxTyped'
  <1>1. Quiet /\ IsList(stack) /\ e \in Elems /\ CallsRight(stack)
    BY PageQuiet, StackIsList, ElementsAssumption DEF FxRight, ShowOrHide
  <1>2. \A x : ~Ending(x)
    BY <1>1, NoneEnds DEF Quiet
  <1>3. \A x \in Elems : QueueOf(cache'[x]) = QueueOf(cache[x])
    BY <1>1, Shows DEF Requeued, Queue
  <1>4. /\ stack' = stack /\ anims' = anims /\ timers' = timers /\ intervals' = intervals
        /\ timerLive' = timerLive /\ removed' = removed
        /\ visible' = [visible EXCEPT ![e] = kind = "show"]
        /\ wanted' = [wanted EXCEPT ![e] = IF Queue(e) = <<>> THEN kind ELSE "any"]
    BY DEF ShowOrHide, timerVars
  <1>5. Live' = Live /\ \A x : ~Ending(x)'
    BY <1>2, <1>4 DEF Live, Ending, TopIs, Idle, Top
  <1>6. TimersRight' /\ CallsRight(stack')
    BY <1>4 DEF FxRight, TimersRight, IntervalFor
  <1>7. PICK q : q = Queue(e)
    OBVIOUS
  <1>8. Queue(e)' = q /\ ElementRight(e)
    BY <1>1, <1>3, <1>7 DEF Queue, FxRight
  <1>9. QueueRight(e)'
    BY <1>2, <1>4, <1>5, <1>7, <1>8 DEF ElementRight, QueueRight, Moving
  <1>10. FxTyped'
    BY <1>4 DEF FxTyped, Effect
  <1>11. ASSUME e \notin removed' PROVE ShownRight(e)'
    <2>1. \A t \in Live : anims[t.anim].elem = e => q # <<>> /\ t.anim = q[1]
      BY <1>1, <1>4, <1>7, <1>8, <1>11 DEF ElementRight, ShownRight, Finishing, Quiet
    <2>2. ASSUME wanted'[e] # "any" PROVE q = <<>> /\ visible'[e] = (wanted'[e] = "show")
      BY <1>4, <1>7, <2>2 DEF FxTyped
    <2>3. Len(<<>>) # 1
      OBVIOUS
    <2> QED BY <1>4, <1>5, <1>8, <2>1, <2>2, <2>3 DEF ShownRight
  <1>12. Acted(e, Live)
    BY <1>4, <1>5, <1>6, <1>9, <1>10, <1>11 DEF Acted, ElementRight, FxTyped
  <1>13. FxRight'
    <2>1. \A x \in Animated : x # e => /\ QueueOf(cache'[x]) = QueueOf(cache[x]) /\ wanted'[x] = wanted[x]
                                       /\ ~Ending(x) /\ (Finishing(x) => Finishing(x)')
      BY <1>1, <1>2, <1>3, <1>4, ElementsAssumption DEF Finishing, Quiet, FxTyped
    <2>2. \A i \in DOMAIN timers : timers[i].anim \in 1 .. Len(anims)
      BY DEF FxRight, TimersRight, TimersOf
    <2> QED BY <1>4, <1>12, <2>1, <2>2, OneElement
  <1> QED BY <1>10, <1>13

-----------------------------------------------------------------------------
(* What the page asks of the effects.                                        *)

\* Nothing is forced or ends while the page runs.
LEMMA PageSettled ==
    ASSUME FxInv, FxRight, PageRuns
    PROVE  /\ Quiet /\ CallsOK(stack) /\ IsList(stack) /\ CallsRight(stack)
           /\ \A x : ~Ending(x) /\ ~Finishing(x)
           /\ \A t \in Live : t.anim \in 1 .. Len(anims)
           /\ TimersOf(timers, Dropping(stack), anims) /\ IntervalFor(timers)
  <1>1. Quiet /\ IsList(stack) /\ CallsRight(stack) /\ TimersRight
    BY PageQuiet, StackIsList DEF FxRight
  <1>2. \A x : ~Ending(x)
    BY <1>1, NoneEnds DEF Quiet
  <1>3. TimersOf(timers, Dropping(stack), anims) /\ IntervalFor(timers)
    BY <1>1 DEF TimersRight
  <1>4. \A t \in Live : t.anim \in 1 .. Len(anims)
    BY <1>3, LiveIs DEF Live, TimersOf
  <1> QED BY <1>1, <1>2, <1>3, <1>4 DEF CallsOK, Quiet, Finishing

LEMMA AnimatesRight ==
    ASSUME FxInv, FxRight, FxTyped, NEW e \in Animated, NEW kind \in Effect, Animate(e, kind)
    PROVE  FxRight' /\ FxTyped'
  <1>1. /\ Quiet /\ CallsOK(stack) /\ IsList(stack) /\ CallsRight(stack)
        /\ \A x : ~Ending(x) /\ ~Finishing(x)
        /\ \A t \in Live : t.anim \in 1 .. Len(anims)
        /\ TimersOf(timers, Dropping(stack), anims) /\ IntervalFor(timers)
    BY PageSettled DEF Animate
  <1>2. PICK n : n = Len(anims) + 1
    OBVIOUS
  <1>3. PICK anim : anim = [elem |-> e, kind |-> kind, left |-> 1 .. Properties]
    OBVIOUS
  <1>4. PICK q : q = Queue(e)
    OBVIOUS
  <1>5. /\ anims \in Seq(Anims) /\ anim \in Anims /\ e \in Elems /\ q \in Seq(Nat) /\ ElementRight(e)
        /\ \A j \in DOMAIN q : q[j] \in 1 .. Len(anims) /\ anims[q[j]].elem = e
        /\ anim.elem = e /\ anim.kind = kind /\ anim.left = 1 .. Properties
    <2>1. anim.elem = e /\ anim.kind = kind /\ anim.left = 1 .. Properties
      BY <1>3
    <2>2. anim \in Anims
      BY <1>3 DEF Anims
    <2>3. anims \in Seq(Anims) /\ e \in Elems /\ ElementRight(e)
      BY ElementsAssumption DEF FxInv, FxRight
    <2>4. \A j \in DOMAIN q : q[j] \in 1 .. Len(anims) /\ anims[q[j]].elem = e
      BY <1>4, <2>3 DEF FxInv, QueuesOwn
    <2>5. q \in Seq(Nat)
      BY <1>4, <2>3, QueueTyped
    <2> QED BY <2>1, <2>2, <2>3, <2>4, <2>5
  <1>6. /\ anims' = Append(anims, anim) /\ Len(anims) \in Nat /\ n \in Nat /\ Len(anims') = n /\ n > Len(anims)
        /\ anims'[n] = anim /\ \A b \in 1 .. Len(anims) : anims'[b] = anims[b]
    <2>1. anims' = Append(anims, anim)
      BY <1>3 DEF Animate
    <2> QED BY <1>2, <1>5, <2>1
  <1>7. /\ wanted' = [wanted EXCEPT ![e] = kind] /\ removed' = removed
        /\ IF q = <<>>
             THEN Begin(n, anim, Queued(e, n), timers, stack)
             ELSE stack' = stack /\ visible' = visible /\ timers' = timers
                  /\ intervals' = intervals /\ timerLive' = timerLive
    BY <1>2, <1>3, <1>4 DEF Animate, timerVars
  <1>8. \A x \in Elems : QueueOf(cache'[x]) = IF x = e THEN Append(q, n) ELSE QueueOf(cache[x])
    BY <1>2, <1>4, Animates DEF Requeued
  <1>9. wanted \in [Animated -> Effect \cup {"any"}] /\ visible \in [Animated -> BOOLEAN]
    BY DEF FxTyped
  <1>10. TimersOf(timers, Dropping(stack), anims')
    <2>1. \A t \in LiveOf(timers, Dropping(stack)) : t.anim \in 1 .. Len(anims)
      BY <1>1 DEF Live
    <2>2. 1 .. Len(anims) \subseteq 1 .. Len(anims')
      BY <1>6
    <2> QED BY <1>1, <1>6, <2>1, <2>2 DEF TimersOf
  <1>11. Acted(e, Live)
    <2>1. CASE q = <<>>
      <3>1. PICK p : p = <<n>>
        OBVIOUS
      <3>2. p # <<>> /\ p[1] = n /\ DOMAIN p = {1} /\ p \in Seq(Nat) /\ LastOf(p) = n
        BY <1>6, <3>1 DEF LastOf
      <3>3. QueueOf(cache'[e]) = p
        BY <1>5, <1>8, <2>1, <3>1
      <3>4. Lined(p, e, anims')
        BY <1>5, <1>6, <3>2 DEF Lined
      <3>5. Apart(LiveOf(timers, Dropping(stack)), p, e, anims')
        <4>1. \A t \in Live : t.anim # n
          BY <1>1, <1>6
        <4>2. ASSUME e \notin removed, NEW t \in Live PROVE anims'[t.anim].elem # e
          <5>1. anims[t.anim].elem # e
            BY <1>1, <1>4, <1>5, <2>1, <4>2 DEF ElementRight, ShownRight
          <5> QED BY <1>1, <1>6, <5>1
        <4> QED BY <3>2, <4>1, <4>2 DEF Apart, Live
      <3>6. Begin(p[1], anim, Queued(e, n), timers, stack) /\ anim = anims'[p[1]] /\ anim.kind \in Effect
        BY <1>5, <1>6, <1>7, <2>1, <3>2
      <3>7. e \notin removed /\ wanted'[e] # "any" => anims'[LastOf(p)].kind = wanted'[e]
        BY <1>5, <1>6, <1>7, <1>9, <3>2
      <3>8. Acted(e, LiveOf(timers, Dropping(stack)))
        BY <1>1, <1>7, <1>10, <3>2, <3>3, <3>4, <3>5, <3>6, <3>7, BeginsRight
      <3> QED BY <3>8 DEF Live
    <2>2. CASE q # <<>>
      <3>1. /\ stack' = stack /\ visible' = visible /\ timers' = timers
            /\ intervals' = intervals /\ timerLive' = timerLive
        BY <1>7, <2>2
      <3>2. Live' = Live /\ TimersRight' /\ CallsRight(stack') /\ \A x \in Animated : ~Ending(x)'
        <4>1. Live' = Live /\ CallsRight(stack')
          BY <1>1, <3>1 DEF Live
        <4>2. TimersRight'
          BY <1>1, <1>10, <3>1 DEF TimersRight, IntervalFor
        <4>3. IsList(stack') /\ AllPaused(stack')
          BY <1>1, <3>1 DEF CallsOK
        <4> QED BY <4>1, <4>2, <4>3, NoneEndsNext
      <3>3. PICK p : p = Append(q, n)
        OBVIOUS
      <3>4. /\ p \in Seq(Nat) /\ Len(q) \in Nat \ {0} /\ Len(p) = Len(q) + 1 /\ p[Len(p)] = n /\ p # <<>>
            /\ DOMAIN p = DOMAIN q \cup {Len(p)} /\ DOMAIN q = 1 .. Len(q)
            /\ \A j \in DOMAIN q : p[j] = q[j]
        <4>1. q \in Seq(Nat) /\ n \in Nat /\ q # <<>> /\ p = Append(q, n)
          BY <1>5, <1>6, <2>2, <3>3
        <4> QED BY <4>1
      <3>5. Queue(e)' = p
        BY <1>5, <1>8, <3>3 DEF Queue
      <3>6. \A j \in DOMAIN p : j \in DOMAIN q \/ (j = Len(p) /\ p[j] = n)
        BY <3>4
      <3>7. p[1] = q[1] /\ 1 \in DOMAIN q /\ Len(p) # 1
        BY <3>4
      <3>8. QueueRight(e)'
        <4>0. QueueRight(e)
          BY <1>5 DEF ElementRight
        <4>1. ASSUME NEW i \in DOMAIN p, NEW j \in DOMAIN p, i < j PROVE p[i] < p[j]
          <5>1. CASE j \in DOMAIN q
            <6>1. i \in DOMAIN q
              BY <3>4, <4>1, <5>1
            <6> QED BY <1>4, <3>4, <4>0, <4>1, <5>1, <6>1 DEF QueueRight
          <5>2. CASE j = Len(p)
            <6>1. i \in DOMAIN q
              BY <3>4, <4>1, <5>2
            <6>2. q[i] \in 1 .. Len(anims)
              BY <1>5, <6>1
            <6> QED BY <1>6, <3>4, <5>2, <6>1, <6>2
          <5> QED BY <3>6, <4>1, <5>1, <5>2
        <4>2. ASSUME NEW j \in DOMAIN p, j > 1
              PROVE  anims'[p[j]].left = 1 .. Properties /\ \A t \in Live' : t.anim # p[j]
          <5>1. CASE j \in DOMAIN q
            <6>1. anims[q[j]].left = 1 .. Properties /\ \A t \in Live : t.anim # q[j]
              BY <1>4, <4>0, <4>2, <5>1 DEF QueueRight
            <6> QED BY <1>5, <1>6, <3>2, <3>4, <5>1, <6>1
          <5>2. CASE p[j] = n
            BY <1>1, <1>5, <1>6, <3>2, <5>2
          <5> QED BY <3>6, <4>2, <5>1, <5>2
        <4>3. Moving(q[1])
          BY <1>1, <1>4, <2>2, <4>0 DEF QueueRight
        <4>4. anims'[p[1]] = anims[q[1]]
          BY <1>5, <1>6, <3>7
        <4>5. Moving(p[1])'
          BY <3>2, <3>7, <4>3, <4>4 DEF Moving
        <4> QED BY <3>5, <4>1, <4>2, <4>5 DEF QueueRight
      <3>9. ASSUME e \notin removed' PROVE ShownRight(e)'
        <4>1. ShownRight(e)
          BY <1>5, <1>7, <3>9 DEF ElementRight
        <4>2. \A t \in Live : anims'[t.anim] = anims[t.anim]
          BY <1>1, <1>6
        <4>3. \A t \in Live : anims'[t.anim].elem = e => t.anim = p[1]
          BY <1>1, <1>4, <3>7, <4>1, <4>2 DEF ShownRight
        <4>4. anims'[LastOf(p)].kind = wanted'[e]
          BY <1>5, <1>6, <1>7, <1>9, <3>4 DEF LastOf
        <4> QED BY <3>2, <3>4, <3>5, <3>7, <4>3, <4>4 DEF ShownRight
      <3>10. ElementRight(e)'
        BY <3>8, <3>9 DEF ElementRight
      <3> QED BY <1>9, <3>1, <3>2, <3>10 DEF Acted
    <2> QED BY <2>1, <2>2
  <1>12. FxRight'
    <2>1. \A x \in Animated : x # e => /\ QueueOf(cache'[x]) = QueueOf(cache[x]) /\ wanted'[x] = wanted[x]
                                       /\ ~Ending(x) /\ (Finishing(x) => Finishing(x)')
      BY <1>1, <1>7, <1>8, <1>9, ElementsAssumption
    <2>2. \A i \in DOMAIN timers : timers[i].anim \in 1 .. Len(anims)
      BY <1>1 DEF TimersOf
    <2>3. \A b \in 1 .. Len(anims) : /\ anims'[b].elem = anims[b].elem
                                     /\ anims[b].elem # e => anims'[b] = anims[b]
      BY <1>6
    <2> QED BY <1>7, <1>11, <2>1, <2>2, <2>3, OneElement
  <1>13. FxTyped'
    <2>1. visible' \in [Animated -> BOOLEAN]
      BY <1>11 DEF Acted
    <2> QED BY <1>7, <1>9, <2>1 DEF FxTyped
  <1> QED BY <1>12, <1>13

LEMMA StopsRight ==
    ASSUME FxInv, FxRight, FxTyped, ~cut', NEW e \in Animated, NEW clear \in BOOLEAN, NEW gotoEnd \in BOOLEAN,
           Stop(e, clear, gotoEnd)
    PROVE  FxRight' /\ FxTyped'
  <1>1. /\ Quiet /\ CallsOK(stack) /\ IsList(stack) /\ CallsRight(stack) /\ AllPaused(stack)
        /\ \A x : ~Ending(x) /\ ~Finishing(x)
        /\ \A t \in Live : t.anim \in 1 .. Len(anims)
        /\ TimersOf(timers, Dropping(stack), anims) /\ IntervalFor(timers)
    BY PageSettled DEF Stop, Quiet
  <1>2. NoLoop(stack) /\ Dropping(stack) = {}
    <2>1. ~TimersRun
      BY DEF Stop
    <2> QED BY <1>1, <2>1, NothingRuns, NoLoopDrops
  <1>3. PICK q : q = IF clear THEN <<>> ELSE Queue(e)
    OBVIOUS
  <1>4. /\ e \in Elems /\ ElementRight(e) /\ anims' = anims /\ removed' = removed
        /\ wanted' = IF Queue(e) = <<>> \/ (gotoEnd /\ ~clear) THEN wanted
                     ELSE [wanted EXCEPT ![e] = "any"]
        /\ wanted \in [Animated -> Effect \cup {"any"}] /\ visible \in [Animated -> BOOLEAN]
    BY ElementsAssumption DEF Stop, FxRight, FxTyped
  <1>5. \A x \in Elems : QueueOf(cache'[x]) = IF x = e THEN Stopped(q, gotoEnd) ELSE QueueOf(cache[x])
    BY <1>3, <1>4, Stops DEF Requeued
  <1>6. wanted' \in [Animated -> Effect \cup {"any"}] /\ \A x \in Animated : x # e => wanted'[x] = wanted[x]
    <2>1. wanted' = wanted \/ wanted' = [wanted EXCEPT ![e] = "any"]
      BY <1>4
    <2> QED BY <1>4, <2>1
  <1>7. CASE gotoEnd
    <2>1. PICK f : f = Loop("stop", Len(timers), e)
      OBVIOUS
    <2>2. /\ stack' = <<f>> \o stack /\ visible' = visible /\ timers' = timers
          /\ intervals' = intervals /\ timerLive' = timerLive
      BY <1>7, <2>1 DEF Stop, Push, timerVars
    <2>3. timers \in Seq(Timers)
      BY <1>1 DEF TimersOf
    <2>4. f \in LoopFrames /\ ~f.waits /\ f.call = "stop" /\ f.i = Len(timers) /\ f.elem = e
      <3>1. Len(timers) \in Nat
        BY <2>3
      <3> QED BY <2>1, <3>1 DEF Loop, LoopFrames
    <2>5. /\ CallsRight(stack') /\ Dropping(stack') = {} /\ AllPaused(stack') /\ IsList(stack')
          /\ stack' # <<>> /\ Head(stack') = f
      <3>1. f.call = "tick" => f.i >= 1
        BY <2>4
      <3>2. CallsRight(<<f>> \o stack) /\ Dropping(<<f>> \o stack) = {} /\ AllPaused(<<f>> \o stack)
        BY <1>1, <1>2, <2>4, <3>1, LoopPushed
      <3>3. IsList(<<f>> \o stack) /\ <<f>> \o stack # <<>> /\ Head(<<f>> \o stack) = f
        BY <1>1, FxPushed
      <3> QED BY <2>2, <3>2, <3>3
    <2>6. Live' = Live /\ TimersRight' /\ \A x : ~Ending(x)'
      <3>1. Live' = Live
        BY <1>2, <2>2, <2>5 DEF Live
      <3>2. TimersRight'
        BY <1>1, <1>2, <1>4, <2>2, <2>5 DEF TimersRight, IntervalFor
      <3> QED BY <2>5, <3>1, <3>2, NoneEndsNext
    <2>7. ASSUME NEW x \in Animated PROVE ElementRight(x)'
      <3>1. CASE QueueOf(cache'[x]) = QueueOf(cache[x]) /\ wanted'[x] = wanted[x]
        <4>1. Untouched(x)
          BY <1>1, <1>4, <2>2, <2>6, <3>1 DEF Untouched, SeenAsBefore
        <4>2. ElementRight(x) /\ (x \in removed => x \in removed')
          BY <1>4 DEF FxRight
        <4> QED BY <4>1, <4>2, OthersKeep
      <3>2. CASE x = e /\ clear /\ Queue(e) # <<>>
        <4>1. Queue(e)' = <<>> /\ wanted'[e] = "any" /\ DOMAIN <<>> = {}
          BY <1>3, <1>4, <1>5, <1>7, <3>2 DEF Queue, Stopped
        <4>2. QueueRight(e)'
          BY <4>1 DEF QueueRight
        <4>3. ASSUME e \notin removed' PROVE ShownRight(e)'
          <5>1. TopIs("stop")' /\ Top'.elem = e /\ Top'.i = Len(timers')
            BY <2>2, <2>4, <2>5 DEF TopIs, Idle, Top
          <5>2. \A i \in DOMAIN timers' : i <= Top'.i
            BY <2>2, <2>3, <5>1
          <5>3. Finishing(e)'
            BY <4>1, <5>1, <5>2 DEF Finishing
          <5>4. \A t, u \in Live : anims[t.anim].elem = e /\ anims[u.anim].elem = e => t.anim = u.anim
            BY <1>4, <4>3 DEF ElementRight, ShownRight
          <5> QED BY <1>4, <2>6, <4>1, <5>3, <5>4 DEF ShownRight
        <4> QED BY <3>2, <4>2, <4>3 DEF ElementRight
      <3>3. x \in Elems
        BY ElementsAssumption
      <3>4. CASE x = e /\ ~(clear /\ Queue(e) # <<>>)
        <4>1. Stopped(q, gotoEnd) = Queue(e) /\ wanted' = wanted
          BY <1>3, <1>4, <1>7, <3>4 DEF Stopped
        <4> QED BY <1>5, <3>1, <3>3, <3>4, <4>1 DEF Queue
      <3>5. CASE x # e
        BY <1>5, <1>6, <3>1, <3>3, <3>5
      <3> QED BY <3>2, <3>4, <3>5
    <2> QED BY <1>4, <1>6, <2>2, <2>5, <2>6, <2>7 DEF FxRight, FxTyped
  <1>8. CASE ~gotoEnd
    <2>1. PICK running : running = OtherTimers(e)
      OBVIOUS
    <2>2. PICK R : R = LiveOf(running, {})
      OBVIOUS
    <2>3. Dequeue(e, q, running, stack)
      BY <1>3, <1>8, <2>1 DEF Stop
    <2>4. /\ running \in Seq(Timers) /\ NoTwo(running, {}) /\ (running # <<>> => timers # <<>>)
          /\ \A t : t \in R <=> t \in Live /\ anims[t.anim].elem # e
      <3>1. timers \in Seq(Timers) /\ NoTwo(timers, {})
        BY <1>1, <1>2 DEF TimersOf
      <3>2. Live = LiveOf(timers, {})
        BY <1>2 DEF Live
      <3> QED BY <2>1, <2>2, <3>1, <3>2, OthersAre
    <2>5. TimersOf(running, {}, anims)
      <3>1. \A i \in DOMAIN running : running[i] \in R
        BY <2>2, LiveIs
      <3>2. \A i \in DOMAIN running : running[i].anim \in 1 .. Len(anims)
        BY <1>1, <2>4, <3>1
      <3>3. \A t \in R : t.prop \in anims[t.anim].left
        BY <1>1, <2>4 DEF TimersOf, Live
      <3> QED BY <2>2, <2>4, <3>2, <3>3 DEF TimersOf
    <2>6. QueueOf(cache'[e]) = RestOfQueue(q) /\ (q = <<>> \/ q = Queue(e))
      BY <1>3, <1>4, <1>5, <1>8 DEF Stopped, RestOfQueue
    <2>7. LeavesOthers(e, R)
      BY <2>4 DEF LeavesOthers
    <2>8. AskedBefore(e, q)
      <3>1. wanted'[e] # "any" => Queue(e) = <<>> /\ wanted' = wanted
        BY <1>4, <1>8
      <3> QED BY <3>1 DEF AskedBefore
    <2>9. Acted(e, R)
      <3>1. R = LiveOf(running, Dropping(stack)) /\ TimersOf(running, Dropping(stack), anims)
        BY <1>2, <2>2, <2>5
      <3> QED BY <1>1, <1>4, <2>3, <2>4, <2>6, <2>7, <2>8, <3>1, DequeuesRight
    <2>10. FxRight'
      <3>1. \A x \in Animated : x # e => /\ QueueOf(cache'[x]) = QueueOf(cache[x]) /\ wanted'[x] = wanted[x]
                                         /\ ~Ending(x) /\ (Finishing(x) => Finishing(x)')
        BY <1>1, <1>5, <1>6, ElementsAssumption
      <3>2. \A i \in DOMAIN timers : timers[i].anim \in 1 .. Len(anims)
        BY <1>1 DEF TimersOf
      <3> QED BY <1>4, <2>4, <2>9, <3>1, <3>2, OneElement
    <2>11. visible' \in [Animated -> BOOLEAN]
      BY <2>9 DEF Acted
    <2> QED BY <1>6, <2>10, <2>11 DEF FxTyped
  <1> QED BY <1>7, <1>8

-----------------------------------------------------------------------------
(* The steps of the effects, once they are asked.                            *)

LEMMA CompletesRight ==
    ASSUME FxInv, FxRight, FxTyped, Complete
    PROVE  FxRight' /\ FxTyped'
  <1>1. /\ stack # <<>> /\ Head(stack) = Top /\ Top.call = "complete" /\ ~Top.paused
        /\ IsList(stack) /\ CallsRight(stack) /\ FrameOK(Top, Len(anims)) /\ anims \in Seq(Anims)
        /\ anims' = anims /\ removed' = removed /\ wanted' = wanted
    BY StackIsList, WaitingTop DEF Complete, TopIs, Idle, Top, FxInv, FxRight
  <1>2. Top \in [call : {"complete"}, paused : BOOLEAN, anim : 1 .. Len(anims)]
    BY <1>1 DEF FrameOK
  <1>3. PICK g : g = [Top EXCEPT !.paused = TRUE]
    OBVIOUS
  <1>4. g.call = "complete" /\ g.paused
    BY <1>2, <1>3
  <1>5. PICK waits : waits = Replace(g)
    OBVIOUS
  <1>6. CallsOK(waits) /\ Dropping(waits) = Dropping(stack)
    <2>1. CallsRight(<<g>> \o Tail(stack)) /\ AllPaused(<<g>> \o Tail(stack))
          /\ Dropping(<<g>> \o Tail(stack)) = Dropping(stack)
      BY <1>1, <1>4, CompleteReplaced
    <2>2. IsList(<<g>> \o Tail(stack))
      BY <1>1, FxReplaced
    <2> QED BY <1>5, <2>1, <2>2 DEF CallsOK, Replace
  <1>7. PICK e : e = anims[Top.anim].elem
    OBVIOUS
  <1>8. e \in Animated /\ e \in Elems
    <2>1. anims[Top.anim] \in Anims
      BY <1>1, <1>2
    <2> QED BY <1>7, <2>1, ElementsAssumption DEF Anims
  <1>9. PICK q : q = Queue(e)
    OBVIOUS
  <1>10. Dequeue(e, q, timers, waits)
    BY <1>3, <1>5, <1>7, <1>9 DEF Complete
  <1>11. \A x \in Elems : QueueOf(cache'[x]) = IF x = e THEN RestOfQueue(q) ELSE QueueOf(cache[x])
    <2>1. Requeued(e, RestOfQueue(q))
      BY <1>7, <1>9, Completes DEF RestOfQueue
    <2> QED BY <2>1 DEF Requeued
  <1>12. /\ Ending(e) /\ ElementRight(e) /\ \A x : x # e => ~Ending(x)
         /\ \A x : ~Finishing(x)
    BY <1>1, <1>7, <1>8 DEF Ending, Finishing, TopIs, Idle, FxRight
  <1>13. TimersOf(timers, Dropping(waits), anims) /\ Live = LiveOf(timers, Dropping(waits))
    BY <1>6 DEF FxRight, TimersRight, Live
  <1>14. LeavesOthers(e, Live)
    BY <1>12 DEF LeavesOthers, ElementRight, ShownRight
  <1>15. AskedBefore(e, q)
    BY <1>1, <1>9, <1>12 DEF AskedBefore
  <1>16. Acted(e, LiveOf(timers, Dropping(waits)))
    <2>1. LeavesOthers(e, LiveOf(timers, Dropping(waits)))
      BY <1>13, <1>14
    <2>2. q = <<>> \/ q = Queue(e)
      BY <1>9
    <2> QED BY <1>1, <1>6, <1>8, <1>10, <1>11, <1>13, <1>15, <2>1, <2>2, DequeuesRight
  <1>17. Acted(e, Live)
    BY <1>13, <1>16
  <1>18. FxRight'
    <2>1. \A x \in Animated : x # e => /\ QueueOf(cache'[x]) = QueueOf(cache[x]) /\ wanted'[x] = wanted[x]
                                       /\ ~Ending(x) /\ (Finishing(x) => Finishing(x)')
      BY <1>1, <1>11, <1>12, ElementsAssumption
    <2>2. \A i \in DOMAIN timers : timers[i].anim \in 1 .. Len(anims)
      BY <1>13 DEF TimersOf
    <2> QED BY <1>1, <1>8, <1>17, <2>1, <2>2, OneElement
  <1>19. FxTyped'
    BY <1>1, <1>17 DEF Acted, FxTyped
  <1> QED BY <1>18, <1>19

LEMMA ReturnsRight ==
    ASSUME FxInv, FxRight, FxTyped, CompleteReturns
    PROVE  FxRight' /\ FxTyped'
  <1>1. /\ stack # <<>> /\ Head(stack) = Top /\ Top.call = "complete" /\ Top.paused
        /\ IsList(stack) /\ CallsRight(stack) /\ stack' = Tail(stack)
        /\ UNCHANGED <<cache, removed, visible, anims, wanted, timers, intervals, timerLive>>
    BY StackIsList DEF CompleteReturns, TopIs, Idle, Top, Pop, FxRight, fxVars, timerVars
  <1>2. CallsRight(stack') /\ AllPaused(stack') /\ Dropping(stack') = Dropping(stack)
    BY <1>1, TopPopped DEF IsLoop
  <1>3. IsList(stack')
    BY <1>1, FxPopped
  <1>4. TimersRight' /\ Live' = Live
    BY <1>1, <1>2 DEF FxRight, TimersRight, IntervalFor, Live
  <1>5. \A x : ~Ending(x) /\ ~Ending(x)' /\ ~Finishing(x)
    BY <1>1, <1>2, <1>3, NoneEndsNext DEF Ending, Finishing, TopIs, Idle
  <1> QED BY <1>1, <1>2, <1>4, <1>5, LoopsOn

LEMMA TicksRight ==
    ASSUME FxInv, FxRight, FxTyped, Tick
    PROVE  FxRight' /\ FxTyped'
  <1>1. PICK f : f = Loop("tick", 1, None)
    OBVIOUS
  <1>2. /\ stack = <<>> /\ stack' = <<f>> \o stack /\ IsList(stack) /\ CallsRight(stack)
        /\ UNCHANGED <<cache, removed, visible, anims, wanted, timers, intervals, timerLive>>
    BY <1>1, StackIsList DEF Tick, Idle, Push, FxRight, fxVars, timerVars
  <1>3. f \in LoopFrames /\ ~f.waits /\ (f.call = "tick" => f.i >= 1)
    BY <1>1 DEF Loop, LoopFrames
  <1>4. NoLoop(stack) /\ AllPaused(stack)
    <2>1. DOMAIN Fx(<<>>) = {}
      BY DEF Fx, FxDepths
    <2> QED BY <1>2, <2>1 DEF NoLoop, AllPaused
  <1>5. CallsRight(stack') /\ AllPaused(stack') /\ Dropping(stack') = Dropping(stack)
    BY <1>2, <1>3, <1>4, LoopPushed
  <1>6. IsList(stack')
    BY <1>2, FxPushed
  <1>7. TimersRight' /\ Live' = Live
    BY <1>2, <1>5 DEF FxRight, TimersRight, IntervalFor, Live
  <1>8. \A x : ~Ending(x) /\ ~Ending(x)' /\ ~Finishing(x)
    BY <1>2, <1>5, <1>6, NoneEndsNext DEF Ending, Finishing, TopIs, Idle
  <1> QED BY <1>2, <1>5, <1>7, <1>8, LoopsOn

\* A loop is on top, and becomes the call g.
Goes(g) ==
    /\ stack # <<>> /\ IsLoop(Top) /\ stack' = Replace(g)
    /\ g \in LoopFrames /\ (g.call = "tick" => g.i >= 1)
    /\ g.call = Top.call /\ g.elem = Top.elem
LEMMA LoopGoes ==
    ASSUME FxInv, FxRight, NEW g, Goes(g)
    PROVE  /\ CallsRight(stack') /\ AllPaused(stack') /\ IsList(stack')
           /\ Dropping(stack') = IF g.waits THEN {g.i} ELSE {}
           /\ Dropping(stack) = IF Top.waits THEN {Top.i} ELSE {}
           /\ Top \in LoopFrames /\ AllPaused(stack)
           /\ \A x : ~Ending(x) /\ ~Ending(x)'
           /\ stack' # <<>> /\ Top' = g
  <1>1. IsList(stack) /\ CallsRight(stack) /\ stack # <<>> /\ Top = Head(stack) /\ stack' = <<g>> \o Tail(stack)
    BY StackIsList DEF FxRight, Goes, Top, Replace
  <1>2. /\ CallsRight(stack') /\ AllPaused(stack')
        /\ Dropping(stack') = IF g.waits THEN {g.i} ELSE {}
        /\ Dropping(stack) = IF Top.waits THEN {Top.i} ELSE {}
    BY <1>1, LoopReplaced DEF Goes
  <1>3. Top \in LoopFrames /\ AllPaused(stack)
    BY <1>1, TopLoops DEF Goes, Idle
  <1>4. IsList(stack') /\ stack' # <<>> /\ Head(stack') = g
    BY <1>1, FxReplaced
  <1>5. \A x : ~Ending(x) /\ ~Ending(x)'
    BY <1>1, <1>2, <1>3, <1>4, NoneEnds, NoneEndsNext
  <1> QED BY <1>2, <1>3, <1>4, <1>5 DEF Top

\* It goes on to another timer.
LEMMA LoopSkips ==
    ASSUME FxInv, FxRight, FxTyped, NEW g, Goes(g), ~Top.waits, ~g.waits,
           UNCHANGED <<cache, removed, anims, timers, intervals, timerLive, wanted>>,
           visible' \in [Animated -> BOOLEAN], \A x \in Animated : SeenAsBefore(x),
           TopIs("stop") => \A i \in DOMAIN timers :
                                anims[timers[i].anim].elem = Top.elem /\ i <= Top.i => i <= g.i
    PROVE  FxRight' /\ FxTyped'
  <1>1. /\ CallsRight(stack') /\ Dropping(stack') = {} /\ Dropping(stack) = {}
        /\ \A x : ~Ending(x) /\ ~Ending(x)'
        /\ stack' # <<>> /\ Top' = g /\ stack # <<>>
    BY LoopGoes DEF Goes
  <1>2. TimersRight' /\ Live' = Live
    BY <1>1 DEF FxRight, TimersRight, IntervalFor, Live
  <1>3. ASSUME NEW x \in Animated, Finishing(x) PROVE Finishing(x)'
    <2>1. /\ TopIs("stop") /\ Top.elem = x /\ Queue(x) = <<>> /\ wanted[x] = "any"
          /\ \A i \in DOMAIN timers : anims[timers[i].anim].elem = x => i <= Top.i
      BY <1>1, <1>3 DEF Finishing
    <2>2. TopIs("stop")' /\ Top'.elem = x
      BY <1>1, <2>1 DEF TopIs, Idle, Goes
    <2>3. \A i \in DOMAIN timers' : anims'[timers'[i].anim].elem = x => i <= Top'.i
      BY <1>1, <2>1
    <2>4. Queue(x)' = <<>> /\ wanted'[x] = "any"
      BY <2>1 DEF Queue
    <2> QED BY <2>2, <2>3, <2>4 DEF Finishing
  <1> QED BY <1>1, <1>2, <1>3, LoopsStep

\* The timer that it waited for is dropped.
LEMMA LoopDrops ==
    ASSUME FxInv, FxRight, FxTyped, NEW g, Goes(g), Top.waits, ~g.waits,
           UNCHANGED <<cache, removed, visible, anims, wanted, intervals, timerLive>>,
           timers' = Spliced(Top.i), TopIs("stop") => g.i = Top.i - 1
    PROVE  FxRight' /\ FxTyped'
  <1>0. PICK i : i = Top.i
    OBVIOUS
  <1>1. /\ CallsRight(stack') /\ Dropping(stack') = {} /\ Dropping(stack) = {i}
        /\ \A x : ~Ending(x) /\ ~Ending(x)'
        /\ stack' # <<>> /\ Top' = g /\ stack # <<>>
    BY <1>0, LoopGoes DEF Goes
  <1>2. TimersOf(timers, {i}, anims) /\ IntervalFor(timers) /\ Live = LiveOf(timers, {i})
    BY <1>1 DEF FxRight, TimersRight, Live
  <1>3. i \in DOMAIN timers /\ timers \in Seq(Timers) /\ NoTwo(timers, {i})
    BY <1>2 DEF TimersOf
  <1>4. /\ timers' \in Seq(Timers) /\ NoTwo(timers', {})
        /\ \A t : t \in LiveOf(timers', {}) <=> t \in Live
        /\ \A k \in DOMAIN timers' : \E j \in DOMAIN timers :
              j # i /\ timers'[k] = timers[j] /\ (j < i => k = j)
    BY <1>0, <1>2, <1>3, TimerDropped
  <1>5. \A t : t \in Live' <=> t \in Live
    BY <1>1, <1>4 DEF Live
  <1>6. TimersRight'
    <2>1. \A k \in DOMAIN timers' : timers'[k].anim \in 1 .. Len(anims)
      BY <1>2, <1>4 DEF TimersOf
    <2>2. \A t \in LiveOf(timers', {}) : t.prop \in anims[t.anim].left
      BY <1>2, <1>4 DEF TimersOf
    <2>3. TimersOf(timers', {}, anims)
      BY <1>4, <2>1, <2>2 DEF TimersOf
    <2>4. timers # <<>>
      BY <1>3
    <2>5. IntervalFor(timers)'
      BY <1>2, <2>4 DEF IntervalFor
    <2> QED BY <1>1, <2>3, <2>5 DEF TimersRight
  <1>7. ASSUME NEW x \in Animated, Finishing(x) PROVE Finishing(x)'
    <2>1. /\ TopIs("stop") /\ Top.elem = x /\ Queue(x) = <<>> /\ wanted[x] = "any"
          /\ \A j \in DOMAIN timers \ {i} : anims[timers[j].anim].elem = x => j <= i
      BY <1>0, <1>1, <1>7 DEF Finishing
    <2>2. TopIs("stop")' /\ Top'.elem = x /\ Top'.i = i - 1
      BY <1>0, <1>1, <2>1 DEF TopIs, Idle, Goes
    <2>3. ASSUME NEW k \in DOMAIN timers', anims'[timers'[k].anim].elem = x PROVE k <= Top'.i
      <3>1. PICK j \in DOMAIN timers : j # i /\ timers'[k] = timers[j] /\ (j < i => k = j)
        BY <1>4
      <3>2. j <= i /\ j \in Nat /\ i \in Nat
        BY <1>3, <2>1, <2>3, <3>1
      <3> QED BY <2>2, <3>1, <3>2
    <2>4. Queue(x)' = <<>> /\ wanted'[x] = "any"
      BY <2>1 DEF Queue
    <2> QED BY <2>2, <2>3, <2>4 DEF Finishing
  <1> QED BY <1>1, <1>5, <1>6, <1>7, LoopsOn

\* The loop ends.
LEMMA LoopEnds ==
    ASSUME FxInv, FxRight, FxTyped, stack # <<>>, IsLoop(Top), ~Top.waits, stack' = Pop,
           UNCHANGED <<cache, removed, visible, anims, wanted, timers>>, IntervalFor(timers)',
           TopIs("stop") => Top.i = 0
    PROVE  FxRight' /\ FxTyped'
  <1>1. /\ stack # <<>> /\ Head(stack) = Top /\ IsList(stack) /\ CallsRight(stack) /\ stack' = Tail(stack)
    BY StackIsList DEF FxRight, Pop, Top
  <1>2. CallsRight(stack') /\ AllPaused(stack') /\ Dropping(stack') = Dropping(stack)
    BY <1>1, TopPopped
  <1>3. IsList(stack')
    <2>1. IsList(Tail(stack))
      BY <1>1, FxPopped
    <2> QED BY <1>1, <2>1
  <1>4. AllPaused(stack) /\ Dropping(stack) = {}
    BY <1>1, TopLoops DEF Idle
  <1>5. TimersRight' /\ Live' = Live
    BY <1>1, <1>2 DEF FxRight, TimersRight, Live
  <1>6. \A x : ~Ending(x) /\ ~Ending(x)'
    BY <1>1, <1>2, <1>3, <1>4, NoneEnds, NoneEndsNext
  <1>7. ASSUME NEW x \in Animated, Finishing(x) PROVE NoTimers(x)
    <2>1. \A i \in DOMAIN timers : anims[timers[i].anim].elem = x => i <= 0
      BY <1>4, <1>7 DEF Finishing
    <2>2. \A i \in DOMAIN timers : i \in Nat \ {0}
      <3>1. timers \in Seq(Timers)
        BY DEF FxRight, TimersRight, TimersOf
      <3> QED BY <3>1
    <2>3. \A i \in DOMAIN timers : anims[timers[i].anim].elem # x
      BY <2>1, <2>2
    <2> QED BY <2>3, LiveIs DEF NoTimers, Live
  <1> QED BY <1>2, <1>5, <1>6, <1>7, LoopsOn

LEMMA LastStepRight ==
    ASSUME FxInv, FxRight, FxTyped, stack # <<>>, IsLoop(Top), ~Top.waits, Top.i \in DOMAIN timers,
           LastStep(timers[Top.i]), TopIs("stop") => anims[timers[Top.i].anim].elem = Top.elem
    PROVE  FxRight' /\ FxTyped'
  <1>1. PICK i : i = Top.i
    OBVIOUS
  <1>2. PICK t0 : t0 = timers[i]
    OBVIOUS
  <1>3. PICK a : a = t0.anim
    OBVIOUS
  <1>4. PICK e : e = anims[a].elem
    OBVIOUS
  <1>5. PICK left : left = anims[a].left \ {t0.prop}
    OBVIOUS
  <1>6. PICK g : g = [Top EXCEPT !.waits = TRUE]
    OBVIOUS
  <1>7. PICK R : R = LiveOf(timers, {i})
    OBVIOUS
  <1>8. /\ Top = Head(stack) /\ IsList(stack) /\ CallsRight(stack) /\ Top \in LoopFrames /\ AllPaused(stack)
        /\ (Top.call = "tick" => Top.i >= 1) /\ Dropping(stack) = {} /\ \A x : ~Ending(x)
    BY StackIsList, TopLoops, NoneEnds DEF FxRight, Top, Idle
  <1>9. g \in LoopFrames /\ g.waits /\ g.i = i /\ g.call = Top.call /\ g.elem = Top.elem /\ IsLoop(g)
    BY <1>1, <1>6, <1>8 DEF LoopFrames, IsLoop
  <1>10. PICK loop : loop = Replace(g)
    OBVIOUS
  <1>11. /\ CallsRight(loop) /\ AllPaused(loop) /\ Dropping(loop) = {i} /\ IsList(loop)
         /\ loop # <<>> /\ Head(loop) = g
    <2>1. g.call = "tick" => g.i >= 1
      BY <1>1, <1>8, <1>9
    <2>2. /\ CallsRight(<<g>> \o Tail(stack)) /\ AllPaused(<<g>> \o Tail(stack))
          /\ Dropping(<<g>> \o Tail(stack)) = {i}
      BY <1>8, <1>9, <2>1, LoopReplaced
    <2>3. IsList(<<g>> \o Tail(stack)) /\ <<g>> \o Tail(stack) # <<>> /\ Head(<<g>> \o Tail(stack)) = g
      BY <1>8, FxReplaced
    <2> QED BY <1>10, <2>2, <2>3 DEF Replace
  <1>12. /\ TimersOf(timers, {}, anims) /\ IntervalFor(timers) /\ Live = LiveOf(timers, {})
         /\ i \in DOMAIN timers /\ timers \in Seq(Timers) /\ anims \in Seq(Anims)
    BY <1>1, <1>8 DEF FxRight, TimersRight, TimersOf, Live, FxInv
  <1>13. /\ t0 \in Live /\ t0 \in Timers /\ a \in 1 .. Len(anims) /\ a \in DOMAIN anims /\ t0.prop \in anims[a].left
         /\ \A t \in Live : t \in Timers /\ t.anim \in 1 .. Len(anims) /\ t.prop \in anims[t.anim].left
    <2>1. \A t \in Live : t \in Timers /\ t.anim \in 1 .. Len(anims)
      BY <1>12, LiveIs DEF TimersOf
    <2>2. t0 \in Live
      BY <1>2, <1>12, LiveIs
    <2>3. \A t \in Live : t.prop \in anims[t.anim].left
      BY <1>12 DEF TimersOf
    <2> QED BY <1>3, <1>12, <2>1, <2>2, <2>3
  <1>14. anims[a] \in Anims /\ e \in Animated /\ e \in Elems /\ anims[a].kind \in Effect
    <2>1. anims[a] \in Anims
      BY <1>12, <1>13
    <2> QED BY <1>4, <2>1, ElementsAssumption DEF Anims
  <1>15. /\ anims' = [anims EXCEPT ![a].left = left]
         /\ stack' = IF left = {} THEN <<Completing(a)>> \o loop ELSE loop
         /\ IF left = {} /\ anims[a].kind = "hide"
              THEN visible' = [visible EXCEPT ![e] = FALSE]
              ELSE visible' \in {visible, [visible EXCEPT ![e] = TRUE]}
         /\ UNCHANGED <<removed, timers, intervals, timerLive, wanted>>
    <2>1. \A shown \in Stepped(e) : [shown EXCEPT ![e] = FALSE] = [visible EXCEPT ![e] = FALSE]
      BY <1>14 DEF Stepped, FxTyped
    <2>2. LastStep(t0) /\ anims[t0.anim].elem = e
      BY <1>1, <1>2, <1>3, <1>4
    <2> QED BY <1>3, <1>5, <1>6, <1>10, <2>1, <2>2 DEF LastStep, Stepped, timerVars
  <1>16. /\ Len(anims') = Len(anims) /\ anims'[a].left = left /\ anims'[a].elem = e
         /\ \A b \in 1 .. Len(anims) : /\ b # a => anims'[b] = anims[b]
                                       /\ anims'[b].elem = anims[b].elem /\ anims'[b].kind = anims[b].kind
    <2>1. anims' = [anims EXCEPT ![a] = [anims[a] EXCEPT !.left = left]]
      BY <1>15
    <2>2. /\ [anims[a] EXCEPT !.left = left].left = left /\ [anims[a] EXCEPT !.left = left].elem = anims[a].elem
          /\ [anims[a] EXCEPT !.left = left].kind = anims[a].kind
      BY <1>14 DEF Anims
    <2>3. Len(anims') = Len(anims)
      BY <1>12, <2>1
    <2>4. anims'[a] = [anims[a] EXCEPT !.left = left] /\ \A b \in 1 .. Len(anims) : b # a => anims'[b] = anims[b]
      BY <1>12, <1>13, <2>1
    <2> QED BY <1>4, <2>2, <2>3, <2>4
  <1>17. CallsRight(stack') /\ Dropping(stack') = {i} /\ IsList(stack') /\ stack' # <<>>
    <2>1. CASE left = {}
      <3>1. CallsRight(<<Completing(a)>> \o loop) /\ Dropping(<<Completing(a)>> \o loop) = Dropping(loop)
        BY <1>11, CompletePushed
      <3>2. IsList(<<Completing(a)>> \o loop) /\ <<Completing(a)>> \o loop # <<>>
        BY <1>11, FxPushed
      <3> QED BY <1>11, <1>15, <2>1, <3>1, <3>2
    <2>2. CASE left # {}
      BY <1>11, <1>15, <2>2
    <2> QED BY <2>1, <2>2
  <1>18. /\ left = {} => Ending(e)' /\ Top'.anim = a
         /\ left # {} => Top' = g
         /\ \A x : Ending(x)' => x = e /\ left = {}
    <2>1. CASE left = {}
      <3>1. Head(stack') = Completing(a)
        BY <1>11, <1>15, <2>1, FxPushed
      <3>2. Top' = Completing(a)
        BY <3>1 DEF Top
      <3>3. Top'.call = "complete" /\ ~Top'.paused /\ Top'.anim = a
        BY <3>2 DEF Completing
      <3> QED BY <1>16, <1>17, <2>1, <3>3 DEF Ending, TopIs, Idle
    <2>2. CASE left # {}
      <3>1. Top' = g
        BY <1>11, <1>15, <2>2 DEF Top
      <3>2. Top'.call # "complete"
        BY <1>9, <3>1 DEF IsLoop
      <3> QED BY <2>2, <3>1, <3>2 DEF Ending, TopIs
    <2> QED BY <2>1, <2>2
  <1>19. /\ NoTwo(timers, {i}) /\ Live' = R /\ \A t : t \in R <=> t \in Live /\ t # t0
    <2>1. NoTwo(timers, {})
      BY <1>12 DEF TimersOf
    <2>2. Live' = LiveOf(timers, {i})
      BY <1>15, <1>17 DEF Live
    <2> QED BY <1>2, <1>7, <1>12, <2>1, <2>2, TimerWaits
  <1>20. \A t \in R : t.prop \in anims'[t.anim].left
    <2> TAKE t \in R
    <2>1. t \in Timers /\ t0 \in Timers /\ t # t0 /\ t.anim \in 1 .. Len(anims) /\ t.prop \in anims[t.anim].left
      BY <1>13, <1>19
    <2>2. CASE t.anim = a
      <3>1. t.prop # t0.prop
        BY <1>3, <2>1, <2>2 DEF Timers
      <3> QED BY <1>5, <1>16, <2>1, <2>2, <3>1
    <2>3. CASE t.anim # a
      BY <1>16, <2>1, <2>3
    <2> QED BY <2>2, <2>3
  <1>21. TimersRight'
    <2>1. TimersOf(timers, {i}, anims')
      BY <1>7, <1>12, <1>16, <1>19, <1>20 DEF TimersOf
    <2> QED BY <1>12, <1>15, <1>17, <2>1 DEF TimersRight, IntervalFor
  <1>22. PICK q : q = Queue(e)
    OBVIOUS
  <1>23. \A x \in Elems : QueueOf(cache'[x]) = QueueOf(cache[x])
    <2>1. ~Idle /\ Top.call # "complete"
      BY DEF Idle, IsLoop
    <2>2. Requeued(e, Queue(e))
      BY <1>1, <1>2, <1>3, <1>4, <2>1, LastSteps
    <2> QED BY <2>2 DEF Requeued, Queue
  <1>24. /\ Queue(e)' = q /\ ElementRight(e) /\ q \in Seq(Nat)
         /\ \A j \in DOMAIN q : q[j] \in 1 .. Len(anims)
    BY <1>14, <1>22, <1>23, QueueTyped DEF FxRight, Queue, FxInv, QueuesOwn
  <1>25. q # <<>> => 1 \in DOMAIN q /\ Len(q) \in DOMAIN q
    BY <1>24
  <1>26. QueueRight(e)'
    <2>0. QueueRight(e)
      BY <1>24 DEF ElementRight
    <2>1. \A j, k \in DOMAIN q : j < k => q[j] < q[k]
      BY <1>22, <2>0 DEF QueueRight
    <2>2. ASSUME NEW j \in DOMAIN q, j > 1
          PROVE  anims'[q[j]].left = 1 .. Properties /\ \A t \in Live' : t.anim # q[j]
      <3>1. anims[q[j]].left = 1 .. Properties /\ \A t \in Live : t.anim # q[j]
        BY <1>22, <2>0, <2>2 DEF QueueRight
      <3>2. q[j] # a
        BY <1>3, <1>13, <3>1
      <3> QED BY <1>16, <1>19, <1>24, <3>1, <3>2
    <2>3. ASSUME q # <<>> PROVE Ending(e)' \/ Moving(q[1])'
      <3>1. Moving(q[1])
        BY <1>8, <1>22, <2>0, <2>3 DEF QueueRight
      <3>2. CASE q[1] = a
        <4>1. CASE left = {}
          BY <1>18, <4>1
        <4>2. CASE left # {}
          <5>1. ASSUME NEW p \in left PROVE [anim |-> a, prop |-> p] \in Live'
            <6>1. PICK t : t = [anim |-> a, prop |-> p]
              OBVIOUS
            <6>2. t \in Live /\ t.prop = p
              BY <1>5, <3>1, <3>2, <5>1, <6>1 DEF Moving
            <6>3. t # t0
              BY <1>5, <5>1, <6>2
            <6> QED BY <1>19, <6>1, <6>2, <6>3
          <5> QED BY <1>16, <3>2, <4>2, <5>1 DEF Moving
        <4> QED BY <4>1, <4>2
      <3>3. CASE q[1] # a
        <4>1. anims'[q[1]] = anims[q[1]]
          BY <1>16, <1>24, <1>25, <2>3, <3>3
        <4>2. ASSUME NEW p \in anims[q[1]].left PROVE [anim |-> q[1], prop |-> p] \in Live'
          <5>1. PICK t : t = [anim |-> q[1], prop |-> p]
            OBVIOUS
          <5>2. t \in Live /\ t.anim = q[1]
            BY <3>1, <5>1 DEF Moving
          <5>3. t # t0
            BY <1>3, <3>3, <5>2
          <5> QED BY <1>19, <5>1, <5>2, <5>3
        <4> QED BY <3>1, <4>1, <4>2 DEF Moving
      <3> QED BY <3>2, <3>3
    <2> QED BY <1>24, <2>1, <2>2, <2>3 DEF QueueRight
  <1>27. ASSUME e \notin removed' PROVE ShownRight(e)'
    <2>0. ShownRight(e) /\ anims[t0.anim].elem = e
      BY <1>3, <1>4, <1>15, <1>24, <1>27 DEF ElementRight
    <2>1. \A t \in Live' : anims'[t.anim].elem = e => t \in Live /\ anims[t.anim].elem = e /\ t.anim = a
      <3>1. \A t, u \in Live : anims[t.anim].elem = e /\ anims[u.anim].elem = e => t.anim = u.anim
        BY <2>0 DEF ShownRight
      <3> QED BY <1>3, <1>13, <1>16, <1>19, <2>0, <3>1
    <2>2. left = {} => \A t \in Live' : anims'[t.anim].elem # e
      <3>1. left = {} => \A t \in Live' : t.anim # a
        BY <1>16, <1>19, <1>20
      <3> QED BY <2>1, <3>1
    <2>3. (q # <<>> /\ a = q[1]) \/ Finishing(e)
      BY <1>3, <1>13, <1>22, <2>0 DEF ShownRight
    <2>4. ASSUME NEW t \in Live', anims'[t.anim].elem = e PROVE (q # <<>> /\ t.anim = q[1]) \/ Finishing(e)'
      <3>1. left # {}
        BY <2>2, <2>4
      <3>2. t.anim = a
        BY <2>1, <2>4
      <3>3. ASSUME Finishing(e) PROVE Finishing(e)'
        <4>1. TopIs("stop")' /\ Top'.elem = e /\ Top'.i = Top.i
          BY <1>1, <1>9, <1>17, <1>18, <3>1, <3>3 DEF Finishing, TopIs, Idle
        <4>2. \A j \in DOMAIN timers : anims[timers[j].anim].elem = e => j <= Top.i
          BY <1>8, <3>3 DEF Finishing
        <4>3. \A j \in DOMAIN timers : anims'[timers[j].anim].elem = anims[timers[j].anim].elem
          BY <1>12, <1>16 DEF TimersOf
        <4>4. Queue(e)' = <<>> /\ wanted'[e] = "any"
          BY <1>15, <1>22, <1>24, <3>3 DEF Finishing
        <4> QED BY <1>15, <4>1, <4>2, <4>3, <4>4 DEF Finishing
      <3> QED BY <2>3, <3>2, <3>3
    <2>5. Ending(e)' => /\ \A t \in Live' : anims'[t.anim].elem # e
                        /\ q # <<>> => Top'.anim = q[1]
      <3>1. Finishing(e) => q = <<>>
        BY <1>22 DEF Finishing
      <3> QED BY <1>18, <2>2, <2>3, <3>1
    <2>6. ASSUME wanted'[e] # "any"
          PROVE  /\ q = <<>> => visible'[e] = (wanted'[e] = "show")
                 /\ q # <<>> => anims'[LastOf(q)].kind = wanted'[e]
                 /\ Len(q) = 1 => visible'[e] = (~Ending(e)' \/ anims'[q[1]].kind = "show")
      <3>1. q # <<>> /\ a = q[1] /\ wanted[e] # "any"
        BY <1>15, <2>3, <2>6 DEF Finishing
      <3>2. anims[LastOf(q)].kind = wanted[e] /\ (Len(q) = 1 => visible[e] = TRUE)
        BY <1>8, <1>22, <2>0, <3>1 DEF ShownRight
      <3>3. anims'[LastOf(q)].kind = wanted'[e]
        BY <1>15, <1>16, <1>24, <1>25, <3>1, <3>2 DEF LastOf
      <3>4. anims'[q[1]].kind = anims[a].kind
        BY <1>13, <1>16, <3>1
      <3>5. ASSUME Len(q) = 1 PROVE visible'[e] = (~Ending(e)' \/ anims[a].kind = "show")
        <4>0. visible \in [Animated -> BOOLEAN]
          BY DEF FxTyped
        <4>1. CASE left = {}
          <5>1. CASE anims[a].kind = "hide"
            BY <1>14, <1>15, <1>18, <4>0, <4>1, <5>1
          <5>2. CASE anims[a].kind = "show"
            BY <1>14, <1>15, <1>18, <3>2, <3>5, <4>0, <4>1, <5>2
          <5> QED BY <1>14, <5>1, <5>2 DEF Effect
        <4>2. CASE left # {}
          <5>1. ~Ending(e)' /\ visible[e] = TRUE
            BY <1>18, <3>2, <3>5, <4>2
          <5>2. visible'[e] = TRUE
            BY <1>14, <1>15, <4>0, <4>2, <5>1
          <5> QED BY <5>1, <5>2
        <4> QED BY <4>1, <4>2
      <3> QED BY <3>1, <3>3, <3>4, <3>5
    <2>7. \A t, u \in Live' : anims'[t.anim].elem = e /\ anims'[u.anim].elem = e => t.anim = u.anim
      BY <2>1
    <2> QED BY <1>24, <2>4, <2>5, <2>6, <2>7 DEF ShownRight
  <1>28. ElementRight(e)'
    BY <1>26, <1>27 DEF ElementRight
  <1>29. visible' \in [Animated -> BOOLEAN] /\ \A x \in Animated : x # e => visible'[x] = visible[x]
    <2>1. visible' \in {visible, [visible EXCEPT ![e] = TRUE], [visible EXCEPT ![e] = FALSE]}
      BY <1>15
    <2> QED BY <2>1 DEF FxTyped
  <1>30. Acted(e, R)
    BY <1>17, <1>18, <1>19, <1>21, <1>28, <1>29 DEF Acted
  <1>31. FxRight'
    <2>1. \A x \in Animated : x # e => ~Finishing(x)
      BY <1>1, <1>2, <1>3, <1>4 DEF Finishing
    <2>2. \A x \in Animated : x # e => /\ QueueOf(cache'[x]) = QueueOf(cache[x]) /\ wanted'[x] = wanted[x]
                                       /\ ~Ending(x) /\ (Finishing(x) => Finishing(x)')
      BY <1>8, <1>15, <1>23, <2>1, ElementsAssumption
    <2>3. \A b \in 1 .. Len(anims) : /\ anims'[b].elem = anims[b].elem
                                     /\ anims[b].elem # e => anims'[b] = anims[b]
      BY <1>4, <1>16
    <2>4. \A k \in DOMAIN timers : timers[k].anim \in 1 .. Len(anims)
      BY <1>12 DEF TimersOf
    <2>5. /\ \A t \in R : t \in Live
          /\ \A t \in Live : t \in R \/ anims[t.anim].elem = e
      BY <1>3, <1>4, <1>19
    <2> QED BY <1>14, <1>15, <1>30, <2>2, <2>3, <2>4, <2>5, OneElement
  <1>32. FxTyped'
    BY <1>15, <1>29 DEF FxTyped
  <1> QED BY <1>31, <1>32

-----------------------------------------------------------------------------
(* Each step of the effects keeps the invariant.                             *)

\* Each step of the effects.
LEMMA EffectActsRight ==
    ASSUME FxInv, FxRight, FxTyped, ~cut', NEW e, EffectAct(e)
    PROVE  FxRight' /\ FxTyped'
  BY ShowsRight, AnimatesRight, StopsRight DEF EffectAct

LEMMA LoopOnTop ==
    ASSUME FxInv, FxRight, TopIs("tick") \/ TopIs("stop")
    PROVE  /\ stack # <<>> /\ IsLoop(Top) /\ Top \in LoopFrames /\ (Top.call = "tick" => Top.i >= 1)
           /\ Top.i \in Nat /\ Top.waits \in BOOLEAN
  <1>1. stack # <<>> /\ IsLoop(Top) /\ ~Idle /\ CallsRight(stack)
    BY DEF TopIs, Idle, IsLoop, FxRight
  <1>2. Top \in LoopFrames /\ (Top.call = "tick" => Top.i >= 1)
    BY <1>1, TopLoops
  <1> QED BY <1>1, <1>2 DEF LoopFrames

LEMMA TimerStepsRight ==
    ASSUME FxInv, FxRight, FxTyped, TickStep \/ StopStep
    PROVE  FxRight' /\ FxTyped'
  <1>1. TopIs("tick") \/ TopIs("stop")
    BY DEF TickStep, StopStep
  <1>2. /\ stack # <<>> /\ IsLoop(Top) /\ Top \in LoopFrames /\ (Top.call = "tick" => Top.i >= 1)
        /\ Top.i \in Nat /\ ~Top.waits
    BY <1>1, LoopOnTop DEF TickStep, StopStep
  <1>3. timers \in Seq(Timers) /\ DOMAIN timers = 1 .. Len(timers) /\ Len(timers) \in Nat
    <2>1. timers \in Seq(Timers)
      BY DEF FxRight, TimersRight, TimersOf
    <2> QED BY <2>1
  <1>4. Top.i \in DOMAIN timers
    BY <1>2, <1>3 DEF TickStep, StopStep, TopIs
  <1>5. CASE LastStep(timers[Top.i]) /\ (TopIs("stop") => anims[timers[Top.i].anim].elem = Top.elem)
    BY <1>2, <1>4, <1>5, LastStepRight
  <1>6. CASE TickStep /\ ~LastStep(timers[Top.i])
    <2>1. PICK g : g = [Top EXCEPT !.i = @ + 1]
      OBVIOUS
    <2>2. /\ stack' = Replace(g) /\ Top.call = "tick"
          /\ visible' \in Stepped(anims[timers[Top.i].anim].elem)
          /\ UNCHANGED <<cache, removed, anims, timers, intervals, timerLive, wanted>>
      BY <1>6, <2>1 DEF TickStep, TopIs, timerVars
    <2>3. Goes(g) /\ ~g.waits
      <3>0. Top.i + 1 \in Nat /\ Top.i + 1 >= 1
        BY <1>2
      <3>1. /\ g \in LoopFrames /\ g.i = Top.i + 1 /\ g.call = Top.call /\ g.elem = Top.elem /\ ~g.waits
        BY <1>2, <2>1, <2>2, <3>0 DEF LoopFrames
      <3> QED BY <1>2, <2>2, <3>0, <3>1 DEF Goes
    <2>4. ~TopIs("stop")
      BY <2>2 DEF TopIs
    <2>5. visible' \in [Animated -> BOOLEAN]
      BY <2>2 DEF Stepped, FxTyped
    <2>6. ASSUME NEW x \in Animated PROVE SeenAsBefore(x)
      <3>1. CASE x # anims[timers[Top.i].anim].elem
        BY <2>2, <3>1 DEF Stepped, FxTyped, SeenAsBefore
      <3>2. CASE x = anims[timers[Top.i].anim].elem /\ x \notin removed
        <4>1. ShownRight(x)
          BY <3>2 DEF FxRight, ElementRight
        <4>2. timers[Top.i] \in Live
          <5>1. Dropping(stack) = {}
            BY <1>2, <2>3, LoopGoes
          <5> QED BY <1>3, <1>4, <5>1, LiveIs DEF Live
        <4>3. Queue(x) # <<>>
          BY <2>4, <3>2, <4>1, <4>2 DEF ShownRight, Finishing
        <4>4. visible'[x] \in {visible[x], TRUE}
          BY <2>2, <3>2 DEF Stepped, FxTyped
        <4> QED BY <4>3, <4>4 DEF SeenAsBefore
      <3> QED BY <3>1, <3>2 DEF SeenAsBefore
    <2> QED BY <1>2, <2>2, <2>3, <2>4, <2>5, <2>6, LoopSkips
  <1>7. CASE StopStep /\ anims[timers[Top.i].anim].elem # Top.elem
    <2>1. PICK g : g = [Top EXCEPT !.i = @ - 1]
      OBVIOUS
    <2>2. /\ stack' = Replace(g) /\ Top.call = "stop"
          /\ UNCHANGED <<cache, removed, fxVars>>
      BY <1>7, <2>1 DEF StopStep, TopIs
    <2>3. Goes(g) /\ ~g.waits /\ g.i = Top.i - 1
      <3>1. Top.i - 1 \in Nat
        BY <1>3, <1>4
      <3>2. /\ g \in LoopFrames /\ g.call = Top.call /\ g.call = "stop" /\ g.elem = Top.elem /\ ~g.waits /\ g.i = Top.i - 1
        BY <1>2, <2>1, <2>2, <3>1 DEF LoopFrames
      <3> QED BY <1>2, <2>2, <3>2 DEF Goes
    <2>4. \A i \in DOMAIN timers : anims[timers[i].anim].elem = Top.elem /\ i <= Top.i => i <= g.i
      BY <1>2, <1>3, <1>7, <2>3
    <2>5. UNCHANGED <<cache, removed, anims, timers, intervals, timerLive, wanted>> /\ visible' = visible
      BY <2>2 DEF fxVars, timerVars
    <2>6. visible' \in [Animated -> BOOLEAN] /\ \A x \in Animated : SeenAsBefore(x)
      BY <2>5 DEF FxTyped, SeenAsBefore
    <2> QED BY <1>2, <2>2, <2>3, <2>4, <2>5, <2>6, LoopSkips
  <1>8. TopIs("tick") => ~TopIs("stop")
    BY DEF TopIs
  <1> QED BY <1>5, <1>6, <1>7, <1>8 DEF TickStep, StopStep

LEMMA DropsRight ==
    ASSUME FxInv, FxRight, FxTyped, TickDrops \/ StopDrops
    PROVE  FxRight' /\ FxTyped'
  <1>1. TopIs("tick") \/ TopIs("stop")
    BY DEF TickDrops, StopDrops
  <1>2. /\ stack # <<>> /\ IsLoop(Top) /\ Top \in LoopFrames /\ (Top.call = "tick" => Top.i >= 1)
        /\ Top.i \in Nat /\ Top.waits
        /\ UNCHANGED <<cache, removed, visible, anims, wanted, intervals, timerLive>>
        /\ timers' = Spliced(Top.i)
    BY <1>1, LoopOnTop DEF TickDrops, StopDrops
  <1>3. Top.i \in Nat \ {0}
    <2>1. Dropping(stack) = {Top.i}
      BY <1>2, TopLoops DEF FxRight, Idle
    <2>2. Top.i \in DOMAIN timers /\ timers \in Seq(Timers)
      BY <2>1 DEF FxRight, TimersRight, TimersOf
    <2> QED BY <2>2
  <1>4. CASE TickDrops
    <2>1. PICK g : g = [Top EXCEPT !.waits = FALSE]
      OBVIOUS
    <2>2. stack' = Replace(g) /\ Top.call = "tick"
      BY <1>4, <2>1 DEF TickDrops, TopIs
    <2>3. Goes(g) /\ ~g.waits
      <3>1. /\ g \in LoopFrames /\ g.i >= 1 /\ g.call = Top.call /\ g.elem = Top.elem /\ ~g.waits
        BY <1>2, <2>1, <2>2 DEF LoopFrames
      <3> QED BY <1>2, <2>2, <3>1 DEF Goes
    <2>4. ~TopIs("stop")
      BY <2>2 DEF TopIs
    <2> QED BY <1>2, <2>3, <2>4, LoopDrops
  <1>5. CASE StopDrops
    <2>1. PICK g : g = [Top EXCEPT !.waits = FALSE, !.i = @ - 1]
      OBVIOUS
    <2>2. stack' = Replace(g) /\ Top.call = "stop"
      BY <1>5, <2>1 DEF StopDrops, TopIs
    <2>3. Goes(g) /\ ~g.waits /\ g.i = Top.i - 1
      <3>1. Top.i - 1 \in Nat
        BY <1>3
      <3>2. /\ g \in LoopFrames /\ g.call = Top.call /\ g.call = "stop" /\ g.elem = Top.elem /\ ~g.waits /\ g.i = Top.i - 1
        BY <1>2, <2>1, <2>2, <3>1 DEF LoopFrames
      <3> QED BY <1>2, <2>2, <3>2 DEF Goes
    <2> QED BY <1>2, <2>3, LoopDrops
  <1> QED BY <1>4, <1>5

LEMMA EndsRight ==
    ASSUME FxInv, FxRight, FxTyped, ~threw', TickEnds \/ StopEnds
    PROVE  FxRight' /\ FxTyped'
  <1>1. TopIs("tick") \/ TopIs("stop")
    BY DEF TickEnds, StopEnds
  <1>2. stack # <<>> /\ IsLoop(Top) /\ ~Top.waits /\ IntervalFor(timers)
    BY <1>1, LoopOnTop DEF TickEnds, StopEnds, FxRight, TimersRight
  <1>3. CASE TickEnds
    <2>1. /\ stack' = Pop /\ UNCHANGED <<cache, removed, visible, anims, wanted, timers>> /\ ~TopIs("stop")
      BY <1>3 DEF TickEnds, TopIs
    <2>2. IntervalFor(timers)'
      <3>1. CASE timers = <<>> /\ timerLive
        <4>1. intervals' = intervals - 1 /\ timerLive' = FALSE
          BY <1>3, <3>1 DEF TickEnds
        <4>2. intervals \in Nat /\ intervals > 0
          BY <1>2, <3>1 DEF IntervalFor
        <4>3. intervals - 1 \in Nat /\ timers' = <<>>
          BY <2>1, <3>1, <4>2
        <4> QED BY <4>1, <4>3 DEF IntervalFor
      <3>2. CASE ~(timers = <<>> /\ timerLive)
        <4>1. intervals' = intervals /\ timerLive' = timerLive
          BY <1>3, <3>2 DEF TickEnds
        <4> QED BY <1>2, <2>1, <4>1 DEF IntervalFor
      <3> QED BY <3>1, <3>2
    <2> QED BY <1>2, <2>1, <2>2, LoopEnds
  <1>4. CASE StopEnds
    <2>1. Top.i = 0 /\ stack' = Pop
      BY <1>4 DEF StopEnds
    <2>2. UNCHANGED <<cache, removed, visible, anims, wanted, timers, intervals, timerLive>>
      BY <1>4 DEF StopEnds, fxVars, timerVars
    <2>3. IntervalFor(timers)'
      BY <1>2, <2>2 DEF IntervalFor
    <2> QED BY <1>2, <2>1, <2>2, <2>3, LoopEnds
  <1> QED BY <1>3, <1>4

LEMMA EffectStepsRight ==
    ASSUME FxInv, FxRight, FxTyped, ~threw', EffectStep
    PROVE  FxRight' /\ FxTyped'
  <1>1. CASE Complete
    BY <1>1, CompletesRight
  <1>2. CASE CompleteReturns
    BY <1>2, ReturnsRight
  <1>3. CASE Tick
    BY <1>3, TicksRight
  <1>4. CASE TickStep \/ StopStep
    BY <1>4, TimerStepsRight
  <1>5. CASE TickDrops \/ StopDrops
    BY <1>5, DropsRight
  <1>6. CASE TickEnds \/ StopEnds
    BY <1>6, EndsRight
  <1> QED BY <1>1, <1>2, <1>3, <1>4, <1>5, <1>6 DEF EffectStep

-----------------------------------------------------------------------------
(* Events, ready and remove leave the calls of the effects as they are.         *)

SameFx(s, t) == IsList(t) /\ Fx(t) = Fx(s)
QueuesStand ==
    /\ removed \subseteq removed'
    /\ \A x \in Elems : \/ QueueOf(cache'[x]) = QueueOf(cache[x])
                        \/ QueueOf(cache'[x]) = <<>> /\ x \in removed'

LEMMA SkippedFx ==
    ASSUME NEW s, NEW n, Waiting(s, n), NEW e, NEW ts, NEW hs, NEW gone
    PROVE  SameFx(s, Skipping(s, e, ts, hs, gone))
  <1> DEFINE t == Skipping(s, e, ts, hs, gone)
  <1>1. DOMAIN t = DOMAIN s
    BY DEF Skipping
  <1>2. IsList(s) /\ IsList(t)
    BY WaitingIsList, WaitingSkips
  <1>3. PICK S : s \in Seq(S) /\ \A f \in S : FrameOK(f, n)
    BY DEF Waiting
  <1>4. ASSUME NEW k \in DOMAIN s
        PROVE  t[k] = s[k] \/ (t[k].call \notin FxCalls /\ s[k].call \notin FxCalls)
    <2>1. CASE s[k].call = "event"
      <3>1. FrameOK(s[k], n)
        BY <1>3
      <3>2. t[k] = s[k] \/ t[k].call = "event"
        BY <2>1, <3>1 DEF Skipping, FrameOK
      <3> QED BY <2>1, <3>2 DEF FxCalls
    <2>2. CASE s[k].call # "event"
      BY <2>2 DEF Skipping
    <2> QED BY <2>1, <2>2
  <1> HIDE DEF t
  <1>5. SameFx(s, t)
    BY <1>1, <1>2, <1>4, FxEach DEF SameFx
  <1> QED BY <1>5 DEF t

LEMMA AllSkippedFx ==
    ASSUME FxInv, NEW e, RemoveAllHandlers(e)
    PROVE  SameFx(stack, stack')
  <1> DEFINE F(k) == IF stack[k].call = "event" /\ Head(stack[k].path) = e
                       THEN [stack[k] EXCEPT !.due = {}, !.over = TRUE] ELSE stack[k]
             U == {F(k) : k \in 1 .. Len(stack)}
             t == [k \in DOMAIN stack |-> F(k)]
  <1>1. stack' = t
    BY DEF RemoveAllHandlers
  <1>2. PICK S : stack \in Seq(S) /\ \A f \in S : FrameOK(f, Len(anims))
    BY DEF FxInv, Waiting
  <1>3. ASSUME NEW k \in DOMAIN stack
        PROVE  F(k) = stack[k] \/ (F(k).call \notin FxCalls /\ stack[k].call \notin FxCalls)
    <2>1. "call" \in DOMAIN stack[k]
      BY <1>2 DEF FrameOK
    <2> QED BY <2>1 DEF FxCalls
  <1> HIDE DEF F
  <1>4. DOMAIN stack = 1 .. Len(stack) /\ Len(stack) \in Nat
    BY <1>2
  <1>5. t \in [1 .. Len(stack) -> U]
    BY <1>4
  <1>6. DOMAIN t = DOMAIN stack /\ \A k \in DOMAIN stack : t[k] = F(k)
    OBVIOUS
  <1> HIDE DEF U, t
  <1>7. t \in Seq(U)
    BY <1>4, <1>5
  <1>8. IsList(stack) /\ IsList(t)
    BY <1>2, <1>7 DEF IsList
  <1> QED BY <1>1, <1>3, <1>6, <1>8, FxEach DEF SameFx

LEMMA TopFx ==
    ASSUME FxInv, ~Idle, Top.call \notin FxCalls, NEW f, f.call \notin FxCalls
    PROVE  SameFx(stack, Replace(f)) /\ SameFx(stack, Pop) /\ "call" \in DOMAIN Top
  <1>1. IsList(stack) /\ stack # <<>> /\ Top = Head(stack)
    BY StackIsList DEF Idle, Top
  <1>2. IsList(<<f>> \o Tail(stack)) /\ Fx(<<f>> \o Tail(stack)) = Fx(stack)
    BY <1>1, FxReplaced
  <1>3. IsList(Tail(stack)) /\ Fx(Tail(stack)) = Fx(stack)
    BY <1>1, FxPopped
  <1>4. "call" \in DOMAIN Top
    BY WaitingTop DEF FxInv, Idle, Top, FrameOK
  <1> QED BY <1>2, <1>3, <1>4 DEF SameFx, Replace, Pop

LEMMA PushFx ==
    ASSUME FxInv, NEW f, f.call \notin FxCalls
    PROVE  SameFx(stack, Push(f)) /\ SameFx(stack, stack)
  <1>1. IsList(stack)
    BY StackIsList
  <1>2. IsList(<<f>> \o stack) /\ Fx(<<f>> \o stack) = Fx(stack)
    BY <1>1, FxPushed
  <1> QED BY <1>1, <1>2 DEF SameFx, Push

LEMMA HandlerFx ==
    ASSUME FxInv, NEW e, NEW type, NEW h, NEW stops, NEW atOnce,
           \/ Trigger(e, type) \/ BrowserEvent(e, type) \/ Handle \/ CallHandler(h) \/ CallOne(e, h)
           \/ EventMovesOn \/ HandlerReturns(stops, atOnce)
    PROVE  SameFx(stack, stack')
  <1>2. \A path, ty, native : EventFrame(path, ty, native).call \notin FxCalls
    BY DEF EventFrame, FxCalls
  <1>3. CASE Trigger(e, type) \/ BrowserEvent(e, type)
    BY <1>2, <1>3, PushFx DEF Trigger, BrowserEvent
  <1>4. CASE ~(Trigger(e, type) \/ BrowserEvent(e, type))
    <2>1. ~Idle /\ Top.call = "event" /\ Top.call \notin FxCalls
      BY <1>4 DEF Handle, CallHandler, CallOne, CallOnce, EventMovesOn, HandlerReturns, TopIs, FxCalls
    <2>2. "call" \in DOMAIN Top
      BY <2>1, WaitingTop DEF FxInv, Idle, Top, FrameOK
    <2>3. Calling(h).call \notin FxCalls /\ FrameOK(Calling(h), Len(anims))
      <3>1. Calling(h).call = "event" /\ "call" \in DOMAIN Calling(h)
        BY <2>1, <2>2 DEF Calling
      <3> QED BY <3>1 DEF FrameOK, FxCalls
    <2>4. CASE Handle
      <3>1. PICK hs : stack' = Replace([Top EXCEPT !.begun = TRUE, !.due = hs, !.over = hs = {}])
        BY <2>4 DEF Handle
      <3>2. [Top EXCEPT !.begun = TRUE, !.due = hs, !.over = hs = {}].call \notin FxCalls
        BY <2>1, <2>2
      <3> QED BY <2>1, <3>1, <3>2, TopFx
    <2>5. CASE CallHandler(h)
      <3>1. stack' = Replace(Calling(h))
        BY <2>5 DEF CallHandler
      <3> QED BY <2>1, <2>3, <3>1, TopFx
    <2>6. CASE CallOne(e, h)
      <3>1. PICK gone : stack' = Skipping(Replace(Calling(h)), e, <<Top.type>>, {h}, gone)
        BY <2>6 DEF CallOne, RemoveHandlers
      <3>2. SameFx(stack, Replace(Calling(h)))
        BY <2>1, <2>3, TopFx
      <3>3. Waiting(Replace(Calling(h)), Len(anims))
        BY <2>1, <2>3, TopGoesOn DEF FxInv
      <3>4. SameFx(Replace(Calling(h)), stack')
        BY <3>1, <3>3, SkippedFx
      <3> QED BY <3>2, <3>4 DEF SameFx
    <2>7. CASE EventMovesOn
      <3>1. stack' = Pop \/ stack' = Replace(EventFrame(NextPath, Top.type, Top.native))
        BY <2>7 DEF EventMovesOn
      <3> QED BY <1>2, <2>1, <3>1, TopFx
    <2>8. CASE HandlerReturns(stops, atOnce)
      <3> DEFINE f == [Top EXCEPT !.paused = FALSE, !.stopped = @ \/ stops \/ atOnce,
                                  !.due = IF atOnce THEN {} ELSE @, !.over = @ \/ atOnce]
      <3>1. stack' = Replace(f)
        BY <2>8 DEF HandlerReturns
      <3>2. f.call \notin FxCalls
        BY <2>1, <2>2
      <3> HIDE DEF f
      <3> QED BY <2>1, <3>1, <3>2, TopFx
    <2> QED BY <1>4, <2>4, <2>5, <2>6, <2>7, <2>8
  <1> QED BY <1>3, <1>4

LEMMA ReadyFx ==
    ASSUME FxInv, NEW f, AskReady(f) \/ DocumentGoesOn \/ CallReady \/ ReadyReturns
    PROVE  SameFx(stack, stack')
  <1>1. \A fns : ReadyFrame(fns).call \notin FxCalls
    BY DEF ReadyFrame, FxCalls
  <1>2. CASE AskReady(f) \/ DocumentGoesOn
    <2>1. stack' = stack \/ \E fns : stack' = Push(ReadyFrame(fns))
      BY <1>2 DEF AskReady, DocumentGoesOn, Ready
    <2> QED BY <1>1, <2>1, PushFx
  <1>3. CASE CallReady \/ ReadyReturns
    <2>1. ~Idle /\ Top.call = "ready" /\ Top.call \notin FxCalls
      BY <1>3 DEF CallReady, ReadyReturns, TopIs, FxCalls
    <2>2. "call" \in DOMAIN Top
      BY <2>1, WaitingTop DEF FxInv, Idle, Top, FrameOK
    <2>3. \/ stack' = Pop
          \/ stack' = Replace([Top EXCEPT !.paused = TRUE, !.rest = Tail(@)])
          \/ stack' = Replace([Top EXCEPT !.paused = FALSE])
      BY <1>3 DEF CallReady, ReadyReturns
    <2>4. /\ [Top EXCEPT !.paused = TRUE, !.rest = Tail(@)].call \notin FxCalls
          /\ [Top EXCEPT !.paused = FALSE].call \notin FxCalls
      BY <2>1, <2>2
    <2> QED BY <2>1, <2>3, <2>4, TopFx
  <1> QED BY <1>2, <1>3

\* One element's data changes, and its queue stays or goes with it.
LEMMA EntryStands ==
    ASSUME CacheOK, NEW e, NEW en, removed \subseteq removed',
           cache' = [cache EXCEPT ![e] = en],
           QueueOf(en) = QueueOf(cache[e]) \/ (QueueOf(en) = <<>> /\ e \in removed')
    PROVE  QueuesStand
  BY DEF CacheOK, QueuesStand
LEMMA CacheStands ==
    ASSUME removed \subseteq removed', cache' = cache
    PROVE  QueuesStand
  BY DEF QueuesStand

LEMMA BindStands ==
    ASSUME FxInv, NEW e \in Elems, NEW type, <<e, type>> \in Bindable, NEW h \in Handlers, NEW kind \in Kinds,
           Bind(e, type, h, kind)
    PROVE  QueuesStand /\ SameFx(stack, stack') /\ PageRuns
  <1> DEFINE evs == EventsOf(cache[e])
             new == Bound(evs, type, h, kind)
             en  == WithData(cache[e], "events", new)
  <1>1. EntryOK(cache[e]) /\ evs \in EventMaps /\ type \in Types /\ CacheOK
    <2>1. EntryOK(cache[e]) /\ CacheOK
      BY QueueTyped DEF FxInv
    <2>2. type \in Types
      BY DEF Types
    <2> QED BY <2>1, <2>2, ReadingTyped
  <1>2. OneMore(new, evs, type, h, kind)
    <2> HIDE DEF evs, en
    <2> QED BY <1>1, BoundReads
  <1>3. cache' = [cache EXCEPT ![e] = en] /\ stack' = stack /\ removed' = removed /\ PageRuns
    BY DEF Bind, FxInv, CacheOK
  <1>4. QueueOf(en) = QueueOf(cache[e])
    <2>1. new \in Typed("events") /\ "events" \in DataNames /\ "events" # "fxqueue"
      BY <1>2 DEF OneMore, Typed, DataNames
    <2> HIDE DEF new
    <2> QED BY <1>1, <2>1, WithReads
  <1> HIDE DEF en
  <1>5. QueuesStand
    BY <1>1, <1>3, <1>4, EntryStands
  <1> QED BY <1>3, <1>5, StackIsList DEF SameFx

LEMMA RemoveHandlersStands ==
    ASSUME FxInv, NEW e \in Elems, NEW ts, NEW hs, NEW frames, RemoveHandlers(e, ts, hs, frames), removed' = removed
    PROVE  QueuesStand
  <1> DEFINE en == Unbound(cache[e], ts, hs)
  <1>1. EntryOK(cache[e]) /\ CacheOK
    BY QueueTyped DEF FxInv
  <1>2. cache' = [cache EXCEPT ![e] = en]
    BY <1>1 DEF RemoveHandlers, CacheOK
  <1>3. QueueOf(en) = QueueOf(cache[e])
    BY <1>1, UnboundReads
  <1> HIDE DEF en
  <1> QED BY <1>1, <1>2, <1>3, EntryStands

LEMMA UnbindStands ==
    ASSUME FxInv, NEW e \in Elems, NEW ts, NEW hs, Unbind(e, ts, hs)
    PROVE  QueuesStand /\ SameFx(stack, stack') /\ PageRuns
  <1>1. RemoveHandlers(e, ts, hs, stack) /\ removed' = removed /\ PageRuns /\ Waiting(stack, Len(anims))
    BY DEF Unbind, FxInv
  <1>2. PICK gone : stack' = Skipping(stack, e, ts, hs, gone)
    BY <1>1 DEF RemoveHandlers
  <1> QED BY <1>1, <1>2, RemoveHandlersStands, SkippedFx

LEMMA UnbindAllStands ==
    ASSUME FxInv, NEW e \in Elems, UnbindAll(e)
    PROVE  QueuesStand /\ SameFx(stack, stack') /\ PageRuns
  <1> DEFINE en == IF EventsOf(cache[e]) = <<>> THEN Touched(cache[e])
                   ELSE WithoutData(cache[e], "events")
  <1>1. EntryOK(cache[e]) /\ CacheOK
    BY QueueTyped DEF FxInv
  <1>2. cache' = [cache EXCEPT ![e] = en] /\ RemoveAllHandlers(e) /\ removed' = removed /\ PageRuns
    BY <1>1 DEF UnbindAll, CacheOK
  <1>3. QueueOf(en) = QueueOf(cache[e])
    BY <1>1, TouchedReads, WithoutReads
  <1> HIDE DEF en
  <1>4. QueuesStand
    BY <1>1, <1>2, <1>3, EntryStands
  <1> QED BY <1>2, <1>4, AllSkippedFx

LEMMA RemoveStands ==
    ASSUME FxInv, NEW e \in Elems, Remove(e)
    PROVE  QueuesStand /\ SameFx(stack, stack') /\ PageRuns
  <1>1. CacheOK /\ QueueOf(None) = <<>>
    BY Reading DEF FxInv, EntryOK
  <1>2. /\ cache' = [cache EXCEPT ![e] = None] /\ RemoveAllHandlers(e)
        /\ removed' = removed \cup {e} /\ PageRuns
    BY DEF Remove
  <1>3. QueuesStand
    BY <1>1, <1>2, EntryStands
  <1> QED BY <1>2, <1>3, AllSkippedFx

LEMMA HandleStands ==
    ASSUME FxInv, Handle
    PROVE  QueuesStand
  <1>1. removed' = removed /\ CacheOK
    BY DEF Handle, FxInv
  <1> DEFINE e == Head(Top.path)
  <1>2. cache' = cache \/ cache' = [cache EXCEPT ![e] = Touched(cache[e])]
    BY <1>1 DEF Handle, CacheOK
  <1>3. \A x \in Elems : QueueOf(Touched(cache[x])) = QueueOf(cache[x])
    BY QueueTyped, TouchedReads
  <1> HIDE DEF e
  <1>4. \A x \in Elems : cache'[x] = cache[x] \/ cache'[x] = Touched(cache[x])
    BY <1>1, <1>2 DEF CacheOK
  <1> QED BY <1>1, <1>3, <1>4 DEF QueuesStand

\* An event or ready goes on, when no animation is about to end and no loop is on top.
LEMMA EventQuiet ==
    ASSUME FxInv, FxRight, Idle \/ TopIs("event") \/ TopIs("ready")
    PROVE  Quiet
  <1>1. ~TopIs("stop") /\ ~TopIs("tick") /\ ~TopIs("complete")
    BY DEF TopIs
  <1>2. AllPaused(stack)
    BY <1>1, StackIsList, TopSettled DEF FxRight, TopIs, Idle, Top
  <1> QED BY <1>1, <1>2 DEF Quiet

LEMMA AsideRight ==
    ASSUME FxInv, FxRight, FxTyped, Quiet, SameFx(stack, stack'), QueuesStand, UNCHANGED fxVars
    PROVE  FxRight' /\ FxTyped'
  <1>1. FxRight'
    BY EffectsStay DEF SameFx, QueuesStand
  <1>2. FxTyped'
    BY DEF FxTyped, fxVars
  <1> QED BY <1>1, <1>2

LEMMA EventStepsAside ==
    ASSUME FxInv, FxRight, EventStep
    PROVE  Quiet /\ SameFx(stack, stack') /\ QueuesStand
  <1>1. ASSUME NEW e, NEW type, NEW h, NEW stops, NEW atOnce,
               \/ BrowserEvent(e, type) \/ CallHandler(h) \/ EventMovesOn \/ HandlerReturns(stops, atOnce)
        PROVE  Quiet /\ SameFx(stack, stack') /\ QueuesStand
    <2>1. cache' = cache /\ removed' = removed /\ (Idle \/ TopIs("event"))
      BY <1>1 DEF BrowserEvent, CallHandler, EventMovesOn, HandlerReturns
    <2>2. SameFx(stack, stack')
      BY <1>1, HandlerFx
    <2> QED BY <2>1, <2>2, EventQuiet, CacheStands
  <1>2. CASE Handle
    <2>1. SameFx(stack, stack') /\ TopIs("event")
      BY <1>2, HandlerFx DEF Handle
    <2> QED BY <1>2, <2>1, EventQuiet, HandleStands
  <1>3. ASSUME NEW e \in Elems, NEW h, CallOne(e, h) PROVE Quiet /\ SameFx(stack, stack') /\ QueuesStand
    <2>1. TopIs("event") /\ RemoveHandlers(e, <<Top.type>>, {h}, Replace(Calling(h))) /\ removed' = removed
      BY <1>3 DEF CallOne, CallOnce
    <2>2. SameFx(stack, stack')
      BY <1>3, HandlerFx
    <2> QED BY <2>1, <2>2, EventQuiet, RemoveHandlersStands
  <1>4. CASE DocumentGoesOn \/ CallReady \/ ReadyReturns
    <2>1. cache' = cache /\ removed' = removed /\ (Idle \/ TopIs("ready"))
      BY <1>4 DEF DocumentGoesOn, CallReady, ReadyReturns
    <2>2. SameFx(stack, stack')
      BY <1>4, ReadyFx
    <2> QED BY <2>1, <2>2, EventQuiet, CacheStands
  <1> QED BY <1>1, <1>2, <1>3, <1>4 DEF EventStep

-----------------------------------------------------------------------------
(* Each step of the page and of the browser does.                            *)

\* What the page asks of the events.
LEMMA UsesAside ==
    ASSUME FxInv, FxRight, NEW e \in Elems, Use(e)
    PROVE  \/ EffectAct(e)
           \/ Quiet /\ SameFx(stack, stack') /\ QueuesStand /\ UNCHANGED fxVars
  <1>1. CASE EventAct(e) /\ UNCHANGED fxVars
    <2>1. PICK b \in Bindable : /\ b[1] = e
                                /\ \/ \E h \in Handlers, kind \in Kinds : Bind(e, b[2], h, kind)
                                   \/ Trigger(e, b[2])
      BY <1>1 DEF EventAct
    <2>2. b = <<e, b[2]>>
      BY <1>1, <2>1, ElementsAssumption
    <2>3. CASE \E h \in Handlers, kind \in Kinds : Bind(e, b[2], h, kind)
      BY <1>1, <2>2, <2>3, BindStands, PageQuiet DEF FxRight
    <2>4. CASE Trigger(e, b[2])
      <3>1. cache' = cache /\ removed' = removed /\ PageRuns
        BY <2>4 DEF Trigger
      <3>2. SameFx(stack, stack')
        BY <2>4, HandlerFx
      <3> QED BY <1>1, <3>1, <3>2, CacheStands, PageQuiet DEF FxRight
    <2> QED BY <2>1, <2>3, <2>4
  <1>2. CASE (\E u \in Unbindings : u[1] = e /\ \E hs \in {{h} : h \in Handlers} \cup {Handlers} :
                    Unbind(e, u[2], hs)) /\ UNCHANGED fxVars
    BY <1>2, UnbindStands, PageQuiet DEF FxRight
  <1>3. CASE UnbindAll(e) /\ UNCHANGED fxVars
    BY <1>3, UnbindAllStands, PageQuiet DEF FxRight
  <1> QED BY <1>1, <1>2, <1>3 DEF Use

\* What happened before a step is not forgotten.
LEMMA ThrowsStay == [Next]_vars => (threw => threw') /\ (cut => cut')
  <1> DEFINE Same == threw' = threw /\ cut' = cut
             Kept == (threw => threw') /\ (cut => cut')
  <1> SUFFICES ASSUME [Next]_vars PROVE Kept
    OBVIOUS
  <1>0. Same => Kept
    OBVIOUS
  <1>a. UNCHANGED fxVars => cut' = cut
    BY DEF fxVars
  <1>1. UNCHANGED vars => Same
    BY DEF vars, fxVars
  <1>2. ASSUME NEW e, NEW kind, ShowOrHide(e, kind) \/ Animate(e, kind) PROVE Same
    BY <1>2 DEF ShowOrHide, Animate
  <1>3. ASSUME NEW e, NEW clear, NEW gotoEnd, Stop(e, clear, gotoEnd) PROVE Kept
    <2>1. threw' = threw /\ cut' = (cut \/ TimersRun)
      BY <1>3 DEF Stop
    <2> QED BY <2>1
  <1>4. ASSUME NEW e, NEW type, NEW h, NEW kind, Bind(e, type, h, kind) \/ Trigger(e, type) PROVE threw' = threw
    BY <1>4 DEF Bind, Trigger, eventVars
  <1>5. ASSUME NEW e, NEW ts, NEW hs, Unbind(e, ts, hs) \/ UnbindAll(e) \/ Remove(e) PROVE threw' = threw
    BY <1>5 DEF Unbind, UnbindAll, Remove
  <1>6. ASSUME NEW f, AskReady(f) PROVE threw' = threw
    BY <1>6 DEF AskReady
  <1>7. EventStep => threw' = threw
    BY DEF EventStep, BrowserEvent, Handle, EventMovesOn, CallHandler, CallOne, HandlerReturns,
           DocumentGoesOn, CallReady, ReadyReturns
  <1>8. \A t : LastStep(t) => Same
    BY DEF LastStep
  <1>9. Complete \/ CompleteReturns \/ Tick \/ TickStep \/ TickDrops \/ TickEnds \/ StopStep \/ StopDrops => Same
    <2> HIDE DEF Same
    <2>1. TickStep \/ StopStep => Same
      <3>1. threw' = threw /\ cut' = cut => Same
        BY DEF Same
      <3>2. UNCHANGED <<cache, removed, threw, fxVars>> \/ UNCHANGED <<threw, cut>> => Same
        BY <1>a, <3>1
      <3> QED BY <1>8, <3>2 DEF TickStep, StopStep
    <2>2. Complete \/ TickDrops \/ TickEnds \/ StopDrops => threw' = threw /\ cut' = cut
      BY DEF Complete, TickDrops, TickEnds, StopDrops
    <2>3. CompleteReturns \/ Tick => threw' = threw /\ cut' = cut
      BY <1>a DEF CompleteReturns, Tick
    <2> QED BY <2>1, <2>2, <2>3 DEF Same
  <1>10. StopEnds => Kept
    <2> SUFFICES ASSUME StopEnds PROVE Kept
      OBVIOUS
    <2>1. threw' = (threw \/ Top.i # 0) /\ cut' = cut
      BY <1>a DEF StopEnds
    <2> QED BY <2>1
  <1>11. Throw => Kept
    <2> SUFFICES ASSUME Throw PROVE Kept
      OBVIOUS
    <2>1. threw' /\ cut' = cut
      BY <1>a DEF Throw
    <2> QED BY <2>1
  <1> HIDE DEF Same, Kept
  <1>12. threw' = threw /\ UNCHANGED fxVars => Kept
    BY <1>0, <1>a DEF Same
  <1>13. ASSUME NEW e, Use(e) PROVE Kept
    BY <1>0, <1>2, <1>3, <1>4, <1>5, <1>12, <1>13 DEF Use, EventAct, EffectAct
  <1>14. Act => Kept
    <2>1. (\E e \in Removable : Remove(e) /\ UNCHANGED <<fxVars, touched>>) => Kept
      BY <1>5, <1>12
    <2>2. (\E f \in ReadyFns : AskReady(f) /\ UNCHANGED <<fxVars, touched>>) => Kept
      BY <1>6, <1>12
    <2> QED BY <1>11, <1>13, <2>1, <2>2 DEF Act
  <1>15. Step => Kept
    BY <1>0, <1>7, <1>9, <1>10, <1>12 DEF Step, EffectStep
  <1> QED BY <1>0, <1>1, <1>14, <1>15 DEF Next

LEMMA NextMoves == IInv /\ MovesInv /\ [Next]_vars => MovesInv'
  <1> SUFFICES ASSUME IInv, MovesInv, [Next]_vars, ~cut', ~threw' PROVE FxTyped' /\ FxRight'
    BY DEF MovesInv
  <1>0. FxTyped /\ FxRight /\ FxInv
    BY ThrowsStay DEF MovesInv, IInv
  <1>1. CASE UNCHANGED vars
    <2>1. UNCHANGED fxVars /\ UNCHANGED <<cache, removed, stack>>
      BY <1>1 DEF vars
    <2>2. UNCHANGED <<visible, anims, timers, intervals, timerLive, wanted, cache, removed, stack>>
      BY <2>1 DEF fxVars, timerVars
    <2> QED BY <1>0, <2>2 DEF FxTyped, FxRight, CallsRight, TimersRight, TimersOf, IntervalFor, ElementRight,
                QueueRight, ShownRight, Ending, Moving, Finishing, Live, Queue, TopIs, Top, Idle
  <1>2. CASE \E e \in Elems : Use(e)
    <2>1. PICK e \in Elems : Use(e)
      BY <1>2
    <2>2. CASE EffectAct(e)
      BY <1>0, <2>2, EffectActsRight
    <2>3. CASE Quiet /\ SameFx(stack, stack') /\ QueuesStand /\ UNCHANGED fxVars
      BY <1>0, <2>3, AsideRight
    <2> QED BY <1>0, <2>1, <2>2, <2>3, UsesAside
  <1>3. CASE \E e \in Removable : Remove(e) /\ UNCHANGED fxVars
    <2>1. PICK e \in Removable : Remove(e) /\ UNCHANGED fxVars
      BY <1>3
    <2>2. QueuesStand /\ SameFx(stack, stack') /\ Quiet
      BY <1>0, <2>1, ElementsAssumption, RemoveStands, PageQuiet DEF FxRight
    <2> QED BY <1>0, <2>1, <2>2, AsideRight
  <1>4. CASE \E f \in ReadyFns : AskReady(f) /\ UNCHANGED fxVars
    <2>1. PICK f \in ReadyFns : AskReady(f) /\ UNCHANGED fxVars
      BY <1>4
    <2>2. cache' = cache /\ removed' = removed /\ PageRuns
      BY <2>1 DEF AskReady
    <2>3. QueuesStand /\ SameFx(stack, stack') /\ Quiet
      BY <1>0, <2>1, <2>2, ReadyFx, CacheStands, PageQuiet DEF FxRight
    <2> QED BY <1>0, <2>1, <2>3, AsideRight
  <1>5. ~Throw
    BY DEF Throw
  <1>6. CASE EventStep /\ UNCHANGED fxVars
    BY <1>0, <1>6, EventStepsAside, AsideRight
  <1>7. CASE EffectStep
    BY <1>0, <1>7, EffectStepsRight
  <1> QED BY <1>1, <1>2, <1>3, <1>4, <1>5, <1>6, <1>7 DEF Next, Act, Step

LEMMA InitMoves == Init => MovesInv
  <1> SUFFICES ASSUME Init PROVE FxTyped /\ FxRight
    BY DEF MovesInv
  <1>1. /\ stack = <<>> /\ anims = <<>> /\ timers = <<>> /\ intervals = 0 /\ timerLive = FALSE
        /\ visible = [e \in Animated |-> TRUE] /\ wanted = [e \in Animated |-> "show"]
        /\ cache = [e \in Elems |-> None]
    BY DEF Init, EffectsInit
  <1>2. FxTyped
    BY <1>1 DEF FxTyped, Effect
  <1>3. DOMAIN Fx(stack) = {} /\ Dropping(stack) = {} /\ CallsRight(stack)
    <2>1. DOMAIN Fx(stack) = {}
      BY <1>1 DEF Fx, FxDepths
    <2> QED BY <2>1, DroppingIs DEF CallsRight
  <1>4. Live = {}
    BY <1>1, <1>3 DEF Live, LiveOf
  <1>5. TimersRight
    <2>1. timers \in Seq(Timers) /\ DOMAIN timers = {}
      BY <1>1
    <2>2. TimersOf(timers, {}, anims)
      BY <1>3, <1>4, <2>1 DEF TimersOf, NoTwo, Live
    <2> QED BY <1>1, <1>3, <2>2 DEF TimersRight, IntervalFor
  <1>6. ASSUME NEW x \in Animated PROVE ElementRight(x)
    <2>1. Queue(x) = <<>> /\ DOMAIN <<>> = {} /\ Len(<<>>) # 1 /\ ~Ending(x)
      BY <1>1, Reading, ElementsAssumption DEF Queue, EntryOK, Ending, TopIs, Idle
    <2>2. visible[x] = TRUE /\ wanted[x] = "show"
      BY <1>1
    <2> QED BY <1>4, <2>1, <2>2 DEF ElementRight, QueueRight, ShownRight
  <1> QED BY <1>2, <1>3, <1>5, <1>6 DEF FxRight

-----------------------------------------------------------------------------
(* The types: what a call that waits, a timer and the interval can be, also      *)
(* after a callback stopped a loop or something threw.                           *)

\* An event is on an element, and a loop that has a timer to drop has come to one.
EventCalls == {f \in EventFrames : f.path # <<>>}
LoopCalls == {f \in LoopFrames : f.call = "tick" \/ f.waits => f.i # 0}
StackCalls == EventCalls \cup ReadyFrames \cup CompleteFrames \cup LoopCalls

TimersTyped(ts, n) == ts \in Seq(Timers) /\ \A i \in DOMAIN ts : ts[i].anim \in 1 .. n
IntervalTyped == intervals \in Nat /\ timerLive \in BOOLEAN /\ (timerLive => intervals > 0)
StackTyped == stack \in Seq(StackCalls)
TypeInv == StackTyped /\ TimersTyped(timers, Len(anims)) /\ IntervalTyped

\* A call's name tells its kind.
LEMMA CallKinds ==
    ASSUME NEW f \in StackCalls
    PROVE  /\ f.call = "event" => f \in EventCalls
           /\ f.call = "ready" => f \in ReadyFrames
           /\ f.call = "complete" => f \in CompleteFrames
           /\ f.call \in {"tick", "stop"} => f \in LoopCalls
  BY DEF StackCalls, EventCalls, LoopCalls, EventFrames, ReadyFrames, CompleteFrames, LoopFrames

\* Calls are added, taken off or replaced on top.
LEMMA StackGoesOn ==
    ASSUME StackTyped
    PROVE  /\ ~Idle => Top \in StackCalls /\ Pop \in Seq(StackCalls)
           /\ \A f \in StackCalls : /\ Push(f) \in Seq(StackCalls)
                                    /\ ~Idle => Replace(f) \in Seq(StackCalls)
  <1>1. stack # <<>> => Head(stack) \in StackCalls /\ Tail(stack) \in Seq(StackCalls)
    BY DEF StackTyped
  <1>2. \A f \in StackCalls, s \in Seq(StackCalls) : <<f>> \o s \in Seq(StackCalls)
    OBVIOUS
  <1> QED BY <1>1, <1>2 DEF StackTyped, Idle, Top, Pop, Push, Replace

\* The call of an event, and what changes of it.
LEMMA EventCallIs ==
    ASSUME NEW f
    PROVE  f \in EventCalls <=>
             /\ f = [call |-> "event", paused |-> f.paused, native |-> f.native, path |-> f.path,
                     type |-> f.type, due |-> f.due, seen |-> f.seen, begun |-> f.begun,
                     over |-> f.over, stopped |-> f.stopped]
             /\ f.paused \in BOOLEAN /\ f.native \in BOOLEAN /\ f.path \in Seq(Elems) /\ f.path # <<>>
             /\ f.type \in Types /\ f.due \in SUBSET Handlers /\ f.seen \in SUBSET Handlers
             /\ f.begun \in BOOLEAN /\ f.over \in BOOLEAN /\ f.stopped \in BOOLEAN
  BY DEF EventCalls, EventFrames

LEMMA EventCallGoesOn ==
    ASSUME NEW f \in EventCalls, NEW hs \in SUBSET Handlers, NEW b \in BOOLEAN, NEW c \in BOOLEAN
    PROVE  /\ \A h \in Handlers :
                 [f EXCEPT !.paused = TRUE, !.due = f.due \ {h}, !.seen = f.seen \cup {h}] \in EventCalls
           /\ [f EXCEPT !.paused = FALSE, !.stopped = c, !.due = hs, !.over = b] \in EventCalls
           /\ [f EXCEPT !.begun = TRUE, !.due = hs, !.over = b] \in EventCalls
           /\ [f EXCEPT !.due = hs, !.over = b] \in EventCalls
           /\ [f EXCEPT !.paused = FALSE, !.due = hs, !.over = b] \in EventCalls
  BY DEF EventCalls, EventFrames

LEMMA EventCallBegins ==
    ASSUME NEW path \in Seq(Elems), path # <<>>, NEW type \in Types, NEW native \in BOOLEAN
    PROVE  EventFrame(path, type, native) \in EventCalls
  BY DEF EventFrame, EventCalls, EventFrames

\* The path of a browser's event.
LEMMA PathTyped ==
    ASSUME NEW e \in Elems
    PROVE  PathFrom(e) \in Seq(Elems) /\ PathFrom(e) # <<>> /\ (ParentOf(e) # None => ParentOf(e) \in Elems)
  <1> DEFINE path == Path[e]
             reached == {i \in DOMAIN path : \A j \in 1 .. i - 1 : path[j] \notin removed}
             n == Cardinality(reached)
  <1>1. path \in Seq(Elems) /\ path # <<>> /\ Len(path) \in Nat /\ DOMAIN path = 1 .. Len(path)
    BY PathAssumption
  <1>2. reached \subseteq 1 .. Len(path) /\ 1 \in reached
    <2>1. 1 \in DOMAIN path /\ 1 .. 1 - 1 = {}
      BY <1>1
    <2> QED BY <1>1, <2>1
  <1>3. n \in 1 .. Len(path)
    <2>1. IsFiniteSet(1 .. Len(path)) /\ Cardinality(1 .. Len(path)) = Len(path)
      BY <1>1, FS_Interval
    <2> HIDE DEF reached
    <2>2. IsFiniteSet(reached) /\ n <= Len(path) /\ n \in Nat
      BY <1>2, <2>1, FS_Subset, FS_CardinalityType
    <2>3. n # 0
      BY <1>2, <2>2, FS_EmptySet
    <2> QED BY <1>1, <2>2, <2>3
  <1> HIDE DEF path, n
  <1>4. \A i \in 1 .. n : path[i] \in Elems
    BY <1>1, <1>3
  <1>5. SubSeq(path, 1, n) \in Seq(Elems) /\ Len(SubSeq(path, 1, n)) = n
    BY <1>1, <1>3, <1>4
  <1>6. SubSeq(path, 1, n) # <<>>
    BY <1>1, <1>3, <1>5
  <1>7. PathFrom(e) = SubSeq(path, 1, n)
    BY DEF PathFrom, path, n
  <1>8. Len(path) # 1 => path[2] \in Elems
    BY <1>1
  <1> QED BY <1>5, <1>6, <1>7, <1>8 DEF ParentOf, path

\* The handlers that data has are functions that are bound.
LEMMA HandlersTyped ==
    ASSUME FxInv, NEW e \in Elems, NEW type
    PROVE  DOMAIN HandlersOf(EventsOf(cache[e]), type) \subseteq Handlers
  <1>1. EventsOf(cache[e]) \in EventMaps
    BY QueueTyped, ReadingTyped
  <1>2. \A t \in DOMAIN EventsOf(cache[e]) : EventsOf(cache[e])[t] \in HandlerMaps
    BY <1>1 DEF EventMaps
  <1>3. \A m \in HandlerMaps : DOMAIN m \subseteq Handlers
    BY DEF HandlerMaps
  <1>4. DOMAIN <<>> = {}
    OBVIOUS
  <1> QED BY <1>2, <1>3, <1>4 DEF HandlersOf

\* Loops over handlers that were deleted are calls of events as before.
LEMMA SkippedTyped ==
    ASSUME NEW s \in Seq(StackCalls), NEW e, NEW ts, NEW hs, NEW gone
    PROVE  Skipping(s, e, ts, hs, gone) \in Seq(StackCalls)
  <1> DEFINE t == Skipping(s, e, ts, hs, gone)
  <1>1. ASSUME NEW k \in DOMAIN s PROVE t[k] \in StackCalls
    <2> DEFINE f == s[k]
    <2>1. f \in StackCalls
      OBVIOUS
    <2>2. CASE f.call = "event" /\ Head(f.path) = e /\ \E i \in DOMAIN ts : ts[i] = f.type
      <3>1. PICK due, over : due = f.due \ hs /\ over = (f.over \/ f.type \in gone)
        OBVIOUS
      <3>2. t[k] = [f EXCEPT !.due = due, !.over = over]
        BY <2>2, <3>1 DEF Skipping
      <3> HIDE DEF f, t
      <3>3. f \in EventCalls
        BY <2>1, <2>2, CallKinds
      <3>4. due \in SUBSET Handlers /\ over \in BOOLEAN
        BY <3>1, <3>3, EventCallIs
      <3>5. t[k] \in EventCalls
        BY <3>2, <3>3, <3>4 DEF EventCalls, EventFrames
      <3> QED BY <3>5 DEF StackCalls
    <2>3. CASE ~(f.call = "event" /\ Head(f.path) = e /\ \E i \in DOMAIN ts : ts[i] = f.type)
      <3>1. t[k] = f
        BY <2>3 DEF Skipping
      <3> QED BY <2>1, <3>1
    <2> QED BY <2>2, <2>3
  <1>2. t \in [1 .. Len(s) -> StackCalls]
    <2>1. DOMAIN t = 1 .. Len(s) /\ t = [k \in 1 .. Len(s) |-> t[k]] /\ DOMAIN s = 1 .. Len(s)
      BY DEF Skipping
    <2> HIDE DEF t
    <2> QED BY <1>1, <2>1
  <1> HIDE DEF t
  <1>3. t \in Seq(StackCalls)
    BY <1>2
  <1> QED BY <1>3 DEF t

LEMMA AllSkippedTyped ==
    ASSUME StackTyped, NEW e, RemoveAllHandlers(e)
    PROVE  StackTyped'
  <1> DEFINE After(k) == IF stack[k].call = "event" /\ Head(stack[k].path) = e
                           THEN [stack[k] EXCEPT !.due = {}, !.over = TRUE] ELSE stack[k]
  <1>1. ASSUME NEW k \in DOMAIN stack PROVE After(k) \in StackCalls
    <2>1. stack[k] \in StackCalls
      BY DEF StackTyped
    <2>2. CASE stack[k].call = "event" /\ Head(stack[k].path) = e
      <3>1. stack[k] \in EventCalls
        BY <2>1, <2>2, CallKinds
      <3>2. [stack[k] EXCEPT !.due = {}, !.over = TRUE] \in EventCalls
        BY <3>1 DEF EventCalls, EventFrames
      <3> QED BY <2>2, <3>2 DEF StackCalls
    <2>3. CASE ~(stack[k].call = "event" /\ Head(stack[k].path) = e)
      BY <2>1, <2>3
    <2> QED BY <2>2, <2>3
  <1>2. stack' = [k \in DOMAIN stack |-> After(k)]
    BY Zenon DEF RemoveAllHandlers
  <1>a. DOMAIN stack = 1 .. Len(stack) /\ Len(stack) \in Nat
    BY DEF StackTyped
  <1> HIDE DEF After
  <1>3. stack' \in [1 .. Len(stack) -> StackCalls]
    BY <1>1, <1>2, <1>a
  <1> QED BY <1>a, <1>3 DEF StackTyped

\* The call of a handler on top.
LEMMA EventOnTop ==
    ASSUME StackTyped, TopIs("event")
    PROVE  /\ ~Idle /\ Top \in EventCalls /\ Head(Top.path) \in Elems
           /\ \A f \in EventCalls : Replace(f) \in Seq(StackCalls)
  <1>1. ~Idle /\ Top.call = "event" /\ Top \in StackCalls
    BY StackGoesOn DEF TopIs
  <1>2. Top \in EventCalls
    BY <1>1, CallKinds
  <1>3. Head(Top.path) \in Elems
    BY <1>2, EventCallIs
  <1> QED BY <1>1, <1>2, <1>3, StackGoesOn DEF StackCalls

LEMMA HandlingTyped ==
    ASSUME FxInv, StackTyped,
           \/ Handle \/ EventMovesOn
           \/ \E h \in Handlers : CallHandler(h) \/ \E e \in Elems : CallOne(e, h)
           \/ \E stops, atOnce \in BOOLEAN : HandlerReturns(stops, atOnce)
    PROVE  StackTyped'
  <1>0. TopIs("event")
    BY DEF Handle, CallHandler, HandlerReturns, EventMovesOn, CallOne, CallOnce
  <1>1. ~Idle /\ Top \in EventCalls /\ Head(Top.path) \in Elems
        /\ \A f \in EventCalls : Replace(f) \in Seq(StackCalls)
    BY <1>0, EventOnTop
  <1>2. \A h \in Handlers : Calling(h) \in EventCalls
    BY <1>1, EventCallGoesOn DEF Calling
  <1>3. CASE Handle
    <2>1. PICK hs : /\ hs \in {{}, DOMAIN HandlersOf(EventsOf(cache[Head(Top.path)]), Top.type)}
                    /\ stack' = Replace([Top EXCEPT !.begun = TRUE, !.due = hs, !.over = hs = {}])
      BY <1>3 DEF Handle
    <2>2. hs \in SUBSET Handlers
      BY <1>1, <2>1, HandlersTyped
    <2>3. PICK none \in BOOLEAN : none = (hs = {})
      OBVIOUS
    <2>4. stack' = Replace([Top EXCEPT !.begun = TRUE, !.due = hs, !.over = none])
      BY <2>1, <2>3
    <2> QED BY <1>1, <2>2, <2>4, EventCallGoesOn DEF StackTyped
  <1>4. CASE \E h \in Handlers : CallHandler(h)
    BY <1>1, <1>2, <1>4 DEF CallHandler, StackTyped
  <1>5. CASE \E h \in Handlers, e \in Elems : CallOne(e, h)
    <2>1. PICK h \in Handlers : \E e \in Elems : CallOne(e, h)
      BY <1>5
    <2>2. PICK e, ts, hs, gone : stack' = Skipping(Replace(Calling(h)), e, ts, hs, gone)
      BY <2>1 DEF CallOne, RemoveHandlers
    <2> QED BY <1>1, <1>2, <2>2, SkippedTyped DEF StackTyped
  <1>6. CASE \E stops, atOnce \in BOOLEAN : HandlerReturns(stops, atOnce)
    <2>0. PICK stops \in BOOLEAN, atOnce \in BOOLEAN : HandlerReturns(stops, atOnce)
      BY <1>6
    <2>1. PICK c, hs, b : /\ c = (Top.stopped \/ stops \/ atOnce) /\ b = (Top.over \/ atOnce)
                          /\ hs = IF atOnce THEN {} ELSE Top.due
      OBVIOUS
    <2>2. stack' = Replace([Top EXCEPT !.paused = FALSE, !.stopped = c, !.due = hs, !.over = b])
      BY <2>0, <2>1 DEF HandlerReturns
    <2>3. c \in BOOLEAN /\ b \in BOOLEAN /\ hs \in SUBSET Handlers
      BY <1>1, <2>1, EventCallIs
    <2> QED BY <1>1, <2>2, <2>3, EventCallGoesOn DEF StackTyped
  <1>7. CASE EventMovesOn
    <2>1. NextPath \in Seq(Elems)
      <3>1. Tail(Top.path) \in Seq(Elems)
        BY <1>1, EventCallIs
      <3>2. ParentOf(Head(Top.path)) # None => <<ParentOf(Head(Top.path))>> \in Seq(Elems)
        BY <1>1, PathTyped
      <3> QED BY <3>1, <3>2 DEF NextPath
    <2>2. NextPath # <<>> => EventFrame(NextPath, Top.type, Top.native) \in EventCalls
      BY <1>1, <2>1, EventCallIs, EventCallBegins
    <2> QED BY <1>1, <1>7, <2>2, StackGoesOn DEF EventMovesOn, StackTyped
  <1> QED BY <1>3, <1>4, <1>5, <1>6, <1>7

\* The functions of ready.
LEMMA ReadyCalls ==
    ASSUME NEW fns \in Seq(ReadyFns)
    PROVE  ReadyFrame(fns) \in StackCalls
  BY DEF ReadyFrame, ReadyFrames, StackCalls

LEMMA ReadyTyped ==
    ASSUME StackTyped, readyList \in Seq(ReadyFns),
           (\E f \in ReadyFns : AskReady(f)) \/ DocumentGoesOn \/ CallReady \/ ReadyReturns
    PROVE  StackTyped'
  <1>1. \A fns \in Seq(ReadyFns) : Push(ReadyFrame(fns)) \in Seq(StackCalls)
    BY ReadyCalls, StackGoesOn
  <1>2. CASE \E f \in ReadyFns : AskReady(f)
    <2>0. PICK f \in ReadyFns : AskReady(f)
      BY <1>2
    <2>1. <<f>> \in Seq(ReadyFns)
      OBVIOUS
    <2>2. Push(ReadyFrame(<<f>>)) \in Seq(StackCalls)
      BY <1>1, <2>1
    <2> QED BY <2>0, <2>2 DEF AskReady, StackTyped
  <1>3. CASE DocumentGoesOn
    BY <1>1, <1>3 DEF DocumentGoesOn, Ready, StackTyped
  <1>4. CASE CallReady \/ ReadyReturns
    <2>1. ~Idle /\ Top \in ReadyFrames
      BY <1>4, StackGoesOn, CallKinds DEF CallReady, ReadyReturns, TopIs
    <2>2. Top.rest \in Seq(ReadyFns)
      BY <2>1 DEF ReadyFrames
    <2>3. [Top EXCEPT !.paused = FALSE] \in ReadyFrames
      BY <2>1 DEF ReadyFrames
    <2>4. Top.rest # <<>> => [Top EXCEPT !.paused = TRUE, !.rest = Tail(Top.rest)] \in ReadyFrames
      <3>1. Top.rest # <<>> => Tail(Top.rest) \in Seq(ReadyFns)
        BY <2>2
      <3> QED BY <2>1, <3>1 DEF ReadyFrames
    <2>5. \A g \in ReadyFrames : Replace(g) \in Seq(StackCalls)
      BY <2>1, StackGoesOn DEF StackCalls
    <2> QED BY <1>4, <2>1, <2>3, <2>4, <2>5, StackGoesOn DEF CallReady, ReadyReturns, StackTyped
  <1> QED BY <1>2, <1>3, <1>4

\* What is thrown leaves at most the browser's call.
LEMMA UnwoundTyped ==
    ASSUME StackTyped, ~Idle
    PROVE  Unwound \in Seq(StackCalls)
  <1> DEFINE f == stack[Len(stack)]
  <1>1. f \in StackCalls
    BY DEF StackTyped, Idle
  <1>2. f.call = "event" => [f EXCEPT !.paused = FALSE, !.due = {}, !.over = TRUE] \in StackCalls
    <2> HIDE DEF f
    <2>1. f.call = "event" => f \in EventCalls
      BY <1>1, CallKinds
    <2>2. f \in EventCalls => [f EXCEPT !.paused = FALSE, !.due = {}, !.over = TRUE] \in EventCalls
      BY DEF EventCalls, EventFrames
    <2> QED BY <2>1, <2>2 DEF StackCalls
  <1> QED BY <1>2 DEF Unwound

-----------------------------------------------------------------------------
(* The timers, and the interval that runs them.                                 *)

\* A loop goes to the next timer, forwards or backwards, and waits at one only.
LEMMA LoopCallGoesOn ==
    ASSUME StackTyped, TopIs("tick") \/ TopIs("stop")
    PROVE  /\ ~Idle /\ Top \in LoopCalls
           /\ \A f \in LoopCalls : Replace(f) \in Seq(StackCalls)
           /\ Top.i # 0 => Replace([Top EXCEPT !.waits = TRUE]) \in Seq(StackCalls)
           /\ Replace([Top EXCEPT !.waits = FALSE]) \in Seq(StackCalls)
           /\ Replace([Top EXCEPT !.i = Top.i + 1]) \in Seq(StackCalls)
           /\ TopIs("stop") /\ ~Top.waits /\ Top.i # 0 => Replace([Top EXCEPT !.i = Top.i - 1]) \in Seq(StackCalls)
           /\ TopIs("stop") /\ Top.waits => Replace([Top EXCEPT !.waits = FALSE, !.i = Top.i - 1]) \in Seq(StackCalls)
  <1>1. ~Idle /\ Top \in LoopCalls
    BY StackGoesOn, CallKinds DEF TopIs
  <1>2. \A f \in LoopCalls : Replace(f) \in Seq(StackCalls)
    BY <1>1, StackGoesOn DEF StackCalls
  <1>3. /\ Top.i # 0 => [Top EXCEPT !.waits = TRUE] \in LoopCalls
        /\ [Top EXCEPT !.waits = FALSE] \in LoopCalls
    BY <1>1 DEF LoopCalls, LoopFrames
  <1>4. ASSUME NEW j \in Nat
        PROVE  /\ j # 0 \/ (Top.call = "stop" /\ ~Top.waits) => [Top EXCEPT !.i = j] \in LoopCalls
               /\ Top.call = "stop" => [Top EXCEPT !.waits = FALSE, !.i = j] \in LoopCalls
    BY <1>1 DEF LoopCalls, LoopFrames
  <1>5. Top.i \in Nat /\ (Top.waits => Top.i # 0)
    BY <1>1 DEF LoopCalls, LoopFrames
  <1>6. Top.i + 1 \in Nat \ {0} /\ (Top.i # 0 => Top.i - 1 \in Nat)
    BY <1>5
  <1> QED BY <1>1, <1>2, <1>3, <1>4, <1>5, <1>6 DEF TopIs

LEMMA TimersSpliced ==
    ASSUME NEW n, TimersTyped(timers, n), NEW i \in Nat, i # 0
    PROVE  TimersTyped(Spliced(i), n)
  <1> DEFINE m == Len(timers) - (IF i <= Len(timers) THEN 1 ELSE 0)
             ts == Spliced(i)
             At(k) == IF k < i THEN k ELSE k + 1
  <1>1. Len(timers) \in Nat /\ DOMAIN timers = 1 .. Len(timers) /\ \A k \in DOMAIN timers : timers[k] \in Timers
    BY DEF TimersTyped
  <1>2. m \in Nat
    BY <1>1
  <1>3. \A k \in 1 .. m : At(k) \in DOMAIN timers
    BY <1>1
  <1>4. ts = [k \in 1 .. m |-> timers[At(k)]]
    BY DEF Spliced
  <1> HIDE DEF m, ts, At
  <1>5. ts \in Seq(Timers) /\ DOMAIN ts = 1 .. m
    BY <1>1, <1>2, <1>3, <1>4
  <1>6. \A k \in DOMAIN ts : ts[k].anim \in 1 .. n
    BY <1>3, <1>4, <1>5 DEF TimersTyped
  <1> QED BY <1>5, <1>6 DEF TimersTyped, ts

LEMMA OthersTyped ==
    ASSUME NEW n, TimersTyped(timers, n), NEW e
    PROVE  TimersTyped(OtherTimers(e), n)
  BY OthersAre DEF TimersTyped

LEMMA TimersMore ==
    ASSUME NEW n \in Nat, NEW m \in Nat, n <= m, NEW ts, TimersTyped(ts, n)
    PROVE  TimersTyped(ts, m)
  <1>1. 1 .. n \subseteq 1 .. m
    OBVIOUS
  <1> QED BY <1>1 DEF TimersTyped

LEMMA BeginTyped ==
    ASSUME NEW n \in Nat, NEW a \in 1 .. n, NEW anim, NEW entry, NEW running, TimersTyped(running, n),
           NEW waits \in Seq(StackCalls), IntervalTyped, Begin(a, anim, entry, running, waits)
    PROVE  StackTyped' /\ TimersTyped(timers', n) /\ IntervalTyped'
  <1>1. CASE Hidden(anim.elem) = (anim.kind = "hide")
    <2>1. Completing(a) \in StackCalls
      BY DEF Completing, CompleteFrames, StackCalls
    <2>2. <<Completing(a)>> \o waits \in Seq(StackCalls)
      BY <2>1
    <2> QED BY <1>1, <2>2 DEF Begin, StackTyped, IntervalTyped
  <1>2. CASE Hidden(anim.elem) # (anim.kind = "hide")
    <2>1. StartTimers(a, running) /\ stack' = waits
      BY <1>2 DEF Begin
    <2>2. IntervalTyped'
      <3>1. \/ intervals' = intervals + 1 /\ timerLive' = TRUE
            \/ intervals' = intervals /\ timerLive' = timerLive
        BY <2>1 DEF StartTimers
      <3>2. intervals \in Nat /\ intervals + 1 \in Nat /\ intervals + 1 > 0
        BY DEF IntervalTyped
      <3>3. CASE intervals' = intervals + 1 /\ timerLive' = TRUE
        BY <3>2, <3>3 DEF IntervalTyped
      <3>4. CASE intervals' = intervals /\ timerLive' = timerLive
        BY <3>4 DEF IntervalTyped
      <3> QED BY <3>1, <3>3, <3>4
    <2> DEFINE new == [p \in 1 .. Properties |-> [anim |-> a, prop |-> p]]
    <2>3. new \in Seq(Timers) /\ DOMAIN new = 1 .. Properties /\ \A i \in DOMAIN new : new[i].anim = a
      <3>1. \A p \in 1 .. Properties : [anim |-> a, prop |-> p] \in Timers
        BY DEF Timers
      <3> QED BY <3>1, PropertiesAssumption
    <2>4. timers' = running \o new
      BY <2>1 DEF StartTimers
    <2> HIDE DEF new
    <2>5. timers' \in Seq(Timers)
      BY <2>3, <2>4 DEF TimersTyped
    <2>6. ASSUME NEW i \in DOMAIN timers' PROVE timers'[i].anim \in 1 .. n
      <3>1. \/ i \in DOMAIN running /\ timers'[i] = running[i]
            \/ i - Len(running) \in DOMAIN new /\ timers'[i] = new[i - Len(running)]
        <4>1. running \in Seq(Timers)
          BY DEF TimersTyped
        <4>2. /\ Len(timers') = Len(running) + Len(new) /\ Len(running) \in Nat
              /\ \A j \in 1 .. Len(running) : timers'[j] = running[j]
              /\ \A j \in 1 .. Len(new) : timers'[Len(running) + j] = new[j]
          BY <2>3, <2>4, <4>1, Joined
        <4>3. i \in 1 .. Len(running) + Len(new) /\ Len(new) \in Nat /\ DOMAIN new = 1 .. Len(new)
          BY <2>3, <2>5, <4>2
        <4>4. CASE i \in 1 .. Len(running)
          BY <4>1, <4>2, <4>4
        <4>5. CASE i \notin 1 .. Len(running)
          <5>1. i - Len(running) \in 1 .. Len(new) /\ i = Len(running) + (i - Len(running))
            BY <4>2, <4>3, <4>5
          <5> QED BY <4>2, <4>3, <5>1
        <4> QED BY <4>4, <4>5
      <3> QED BY <2>3, <3>1 DEF TimersTyped
    <2> QED BY <2>1, <2>2, <2>5, <2>6 DEF StackTyped, TimersTyped
  <1> QED BY <1>1, <1>2

\* The next in the queue is an animation that was made.
LEMMA DequeueTyped ==
    ASSUME FxInv, IntervalTyped, NEW e \in Elems, NEW q \in {<<>>, Queue(e)}, NEW running,
           TimersTyped(running, Len(anims)), NEW waits \in Seq(StackCalls), Dequeue(e, q, running, waits)
    PROVE  StackTyped' /\ TimersTyped(timers', Len(anims)) /\ IntervalTyped'
  <1> DEFINE rest == IF q = <<>> THEN <<>> ELSE Tail(q)
             entry == WithData(cache[e], "fxqueue", rest)
  <1>1. CASE rest = <<>>
    BY <1>1 DEF Dequeue, StackTyped, IntervalTyped
  <1>2. CASE rest # <<>>
    <2>1. Queue(e) \in Seq(Nat)
      BY QueueTyped
    <2>2. q # <<>> /\ q = Queue(e) /\ rest = Tail(q)
      BY <1>2
    <2>3. 2 \in DOMAIN q /\ rest[1] = q[2]
      BY <1>2, <2>1, <2>2
    <2>4. rest[1] \in 1 .. Len(anims) /\ Len(anims) \in Nat
      BY <2>2, <2>3 DEF FxInv, QueuesOwn
    <2>5. Begin(rest[1], anims[rest[1]], entry, running, waits)
      BY <1>2 DEF Dequeue
    <2> HIDE DEF rest, entry
    <2> QED BY <2>4, <2>5, BeginTyped
  <1> QED BY <1>1, <1>2

LEMMA EffectActTyped ==
    ASSUME FxInv, TypeInv, NEW e \in Elems, EffectAct(e)
    PROVE  TypeInv'
  <1>1. Len(anims) \in Nat /\ TimersTyped(timers, Len(anims)) /\ StackTyped /\ IntervalTyped
        /\ stack \in Seq(StackCalls) /\ e \in Animated
    BY DEF FxInv, TypeInv, StackTyped, EffectAct
  <1>2. CASE \E kind \in Effect : ShowOrHide(e, kind)
    BY <1>1, <1>2 DEF ShowOrHide, timerVars, TypeInv, StackTyped, IntervalTyped
  <1>3. CASE \E kind \in Effect : Animate(e, kind)
    <2>1. PICK kind \in Effect : Animate(e, kind)
      BY <1>3
    <2> DEFINE anim == [elem |-> e, kind |-> kind, left |-> 1 .. Properties]
               n == Len(anims) + 1
    <2>2. anims' = Append(anims, anim)
      BY <2>1 DEF Animate
    <2>3. Len(anims') = n /\ n \in Nat /\ Len(anims) <= n /\ n \in 1 .. n
      <3> HIDE DEF anim
      <3> QED BY <1>1, <2>2 DEF FxInv
    <2>4. \/ Begin(n, anim, Queued(e, n), timers, stack)
          \/ UNCHANGED <<stack, visible, timerVars>>
      BY <2>1 DEF Animate
    <2> HIDE DEF anim, n
    <2>5. TimersTyped(timers, n)
      BY <1>1, <2>3, TimersMore
    <2>6. CASE Begin(n, anim, Queued(e, n), timers, stack)
      BY <1>1, <2>3, <2>5, <2>6, BeginTyped DEF TypeInv
    <2>7. CASE UNCHANGED <<stack, visible, timerVars>>
      BY <1>1, <2>3, <2>5, <2>7 DEF TypeInv, StackTyped, IntervalTyped, timerVars
    <2> QED BY <2>4, <2>6, <2>7
  <1>4. CASE \E clear, gotoEnd \in BOOLEAN : Stop(e, clear, gotoEnd)
    <2>1. PICK clear \in BOOLEAN, gotoEnd \in BOOLEAN : Stop(e, clear, gotoEnd)
      BY <1>4
    <2>2. anims' = anims
      BY <2>1 DEF Stop
    <2>3. CASE gotoEnd
      <3>1. stack' = Push(Loop("stop", Len(timers), e)) /\ UNCHANGED timerVars
        BY <2>1, <2>3 DEF Stop
      <3>2. Len(timers) \in Nat
        BY <1>1 DEF TimersTyped
      <3>3. Loop("stop", Len(timers), e) \in StackCalls
        BY <1>1, <3>2 DEF Loop, LoopFrames, LoopCalls, StackCalls
      <3>4. stack' \in Seq(StackCalls)
        BY <1>1, <3>1, <3>3, StackGoesOn
      <3> QED BY <1>1, <2>2, <3>1, <3>4 DEF TypeInv, StackTyped, IntervalTyped, timerVars
    <2>4. CASE ~gotoEnd
      <3>1. PICK q \in {<<>>, Queue(e)} : Dequeue(e, q, OtherTimers(e), stack)
        BY <2>1, <2>4 DEF Stop
      <3> QED BY <1>1, <2>2, <3>1, OthersTyped, DequeueTyped DEF TypeInv
    <2> QED BY <2>3, <2>4
  <1> QED BY <1>2, <1>3, <1>4 DEF EffectAct

\* A loop that waits has come to a timer.
LEMMA LastStepTyped ==
    ASSUME FxInv, TypeInv, TopIs("tick") \/ TopIs("stop"), Top.i # 0, NEW t, LastStep(t)
    PROVE  TypeInv'
  <1>1. timers' = timers /\ intervals' = intervals /\ timerLive' = timerLive /\ t.anim \in DOMAIN anims
    BY DEF LastStep, timerVars
  <1>2. Len(anims') = Len(anims)
    BY <1>1 DEF LastStep, FxInv
  <1>3. Replace([Top EXCEPT !.waits = TRUE]) \in Seq(StackCalls)
    BY LoopCallGoesOn DEF TypeInv
  <1>4. Completing(t.anim) \in StackCalls
    <2>1. t.anim \in Nat
      BY <1>1 DEF FxInv
    <2> QED BY <2>1 DEF Completing, CompleteFrames, StackCalls
  <1>5. <<Completing(t.anim)>> \o Replace([Top EXCEPT !.waits = TRUE]) \in Seq(StackCalls)
    BY <1>3, <1>4
  <1>6. StackTyped'
    BY <1>3, <1>5 DEF LastStep, StackTyped
  <1> QED BY <1>1, <1>2, <1>6 DEF TypeInv, IntervalTyped

LEMMA LoopTyped ==
    ASSUME FxInv, TypeInv, TickStep \/ TickDrops \/ TickEnds \/ StopStep \/ StopDrops \/ StopEnds
    PROVE  TypeInv'
  <1>1. /\ Len(anims) \in Nat /\ TimersTyped(timers, Len(anims)) /\ StackTyped /\ IntervalTyped
        /\ Len(timers) \in Nat /\ DOMAIN timers = 1 .. Len(timers)
    BY DEF FxInv, TypeInv, TimersTyped
  <1>2. TopIs("tick") \/ TopIs("stop")
    BY DEF TickStep, TickDrops, TickEnds, StopStep, StopDrops, StopEnds
  <1>3. /\ ~Idle /\ Top.i \in Nat /\ (Top.call = "tick" \/ Top.waits => Top.i # 0)
        /\ Pop \in Seq(StackCalls)
    <2>1. ~Idle /\ Top \in LoopCalls
      BY <1>1, <1>2, LoopCallGoesOn
    <2> QED BY <1>1, <2>1, StackGoesOn DEF LoopCalls, LoopFrames
  \* Only the calls that wait change.
  <1>4. ASSUME UNCHANGED <<anims, timerVars>>, stack' \in Seq(StackCalls) PROVE TypeInv'
    BY <1>1, <1>4 DEF timerVars, TypeInv, StackTyped, IntervalTyped
  <1>5. CASE TickStep
    <2>1. Top.i # 0
      BY <1>3, <1>5 DEF TickStep, TopIs
    <2>2. CASE LastStep(timers[Top.i])
      BY <1>2, <2>1, <2>2, LastStepTyped
    <2>3. CASE stack' = Replace([Top EXCEPT !.i = Top.i + 1]) /\ UNCHANGED <<anims, timerVars>>
      BY <1>1, <1>2, <1>4, <2>3, LoopCallGoesOn
    <2> QED BY <1>5, <2>2, <2>3 DEF TickStep
  <1>6. CASE StopStep
    <2>1. Top.i # 0 /\ TopIs("stop") /\ ~Top.waits
      BY <1>1, <1>6 DEF StopStep
    <2>2. CASE LastStep(timers[Top.i])
      BY <1>2, <2>1, <2>2, LastStepTyped
    <2>3. CASE stack' = Replace([Top EXCEPT !.i = Top.i - 1]) /\ UNCHANGED <<anims, timerVars>>
      BY <1>1, <1>4, <2>1, <2>3, LoopCallGoesOn
    <2> QED BY <1>6, <2>2, <2>3 DEF StopStep, fxVars
  <1>7. CASE TickDrops \/ StopDrops
    <2>1. /\ timers' = Spliced(Top.i) /\ Top.waits /\ UNCHANGED <<anims, intervals, timerLive>>
      BY <1>7 DEF TickDrops, StopDrops
    <2>2. stack' \in Seq(StackCalls)
      BY <1>1, <1>2, <1>7, LoopCallGoesOn DEF TickDrops, StopDrops
    <2>3. TimersTyped(timers', Len(anims))
      BY <1>1, <1>3, <2>1, TimersSpliced
    <2> QED BY <1>1, <2>1, <2>2, <2>3 DEF TypeInv, StackTyped, IntervalTyped
  <1>8. CASE TickEnds
    <2>1. stack' = Pop /\ UNCHANGED <<anims, timers>>
          /\ \/ timerLive /\ intervals' = intervals - 1 /\ timerLive' = FALSE
             \/ UNCHANGED <<intervals, timerLive>>
      BY <1>8 DEF TickEnds
    <2>2. IntervalTyped'
      <3>1. CASE timerLive /\ intervals' = intervals - 1 /\ timerLive' = FALSE
        <4>1. intervals \in Nat /\ intervals > 0
          BY <1>1, <3>1 DEF IntervalTyped
        <4>2. intervals' \in Nat
          BY <3>1, <4>1
        <4> QED BY <3>1, <4>2 DEF IntervalTyped
      <3>2. CASE UNCHANGED <<intervals, timerLive>>
        BY <1>1, <3>2 DEF IntervalTyped
      <3> QED BY <2>1, <3>1, <3>2
    <2> QED BY <1>1, <1>3, <2>1, <2>2 DEF TypeInv, StackTyped
  <1>9. CASE StopEnds
    <2>1. UNCHANGED <<anims, timerVars>> /\ stack' \in {Pop, Unwound}
      BY <1>9 DEF StopEnds, fxVars
    <2> QED BY <1>1, <1>3, <1>4, <2>1, UnwoundTyped
  <1> QED BY <1>5, <1>6, <1>7, <1>8, <1>9

LEMMA EffectStepTyped ==
    ASSUME FxInv, TypeInv, EffectStep
    PROVE  TypeInv'
  <1>1. TimersTyped(timers, Len(anims)) /\ StackTyped /\ IntervalTyped
    BY DEF TypeInv
  <1>2. CASE Complete
    <2> DEFINE e == anims[Top.anim].elem
    <2>1. e \in Elems
      BY <1>2, Completes
    <2>2. ~Idle /\ Top \in CompleteFrames
      BY <1>1, <1>2, StackGoesOn, CallKinds DEF Complete, TopIs
    <2>3. [Top EXCEPT !.paused = TRUE] \in StackCalls
      BY <2>2 DEF CompleteFrames, StackCalls
    <2>4. Dequeue(e, Queue(e), timers, Replace([Top EXCEPT !.paused = TRUE])) /\ anims' = anims
      BY <1>2 DEF Complete
    <2>5. Replace([Top EXCEPT !.paused = TRUE]) \in Seq(StackCalls)
      BY <1>1, <2>2, <2>3, StackGoesOn
    <2> HIDE DEF e
    <2> QED BY <1>1, <2>1, <2>4, <2>5, DequeueTyped DEF TypeInv
  <1>3. CASE CompleteReturns
    <2>1. ~Idle /\ stack' = Pop /\ UNCHANGED fxVars
      BY <1>3 DEF CompleteReturns, TopIs
    <2> QED BY <1>1, <2>1, StackGoesOn DEF fxVars, timerVars, TypeInv, StackTyped, IntervalTyped
  <1>4. CASE Tick
    <2>1. Loop("tick", 1, None) \in StackCalls
      BY DEF Loop, LoopFrames, LoopCalls, StackCalls
    <2>2. stack' = Push(Loop("tick", 1, None)) /\ UNCHANGED fxVars
      BY <1>4 DEF Tick
    <2> QED BY <1>1, <2>1, <2>2, StackGoesOn DEF fxVars, timerVars, TypeInv, StackTyped, IntervalTyped
  <1> QED BY <1>2, <1>3, <1>4, LoopTyped DEF EffectStep

-----------------------------------------------------------------------------
(* Each step keeps the types.                                                   *)

\* Only the calls that wait change.
LEMMA StackOnly ==
    ASSUME TypeInv, UNCHANGED fxVars, StackTyped'
    PROVE  TypeInv'
  BY DEF fxVars, timerVars, TypeInv, IntervalTyped

LEMMA UseTyped ==
    ASSUME FxInv, TypeInv, NEW e \in Elems, Use(e)
    PROVE  TypeInv'
  <1>1. StackTyped /\ stack \in Seq(StackCalls)
    BY DEF TypeInv, StackTyped
  <1>2. CASE EventAct(e) /\ UNCHANGED fxVars
    <2>1. PICK b \in Bindable : \/ \E h \in Handlers, kind \in Kinds : Bind(e, b[2], h, kind)
                                \/ Trigger(e, b[2])
      BY <1>2 DEF EventAct
    <2>2. CASE \E h \in Handlers, kind \in Kinds : Bind(e, b[2], h, kind)
      BY <1>1, <1>2, <2>2, StackOnly DEF Bind, StackTyped
    <2>3. CASE Trigger(e, b[2])
      <3>1. b[2] \in Types /\ <<e>> \in Seq(Elems) /\ <<e>> # <<>>
        BY DEF Types
      <3>2. EventFrame(<<e>>, b[2], FALSE) \in StackCalls
        BY <3>1, EventCallBegins DEF StackCalls
      <3>3. stack' = Push(EventFrame(<<e>>, b[2], FALSE))
        BY <2>3 DEF Trigger
      <3> QED BY <1>1, <1>2, <3>2, <3>3, StackGoesOn, StackOnly DEF StackTyped
    <2> QED BY <2>1, <2>2, <2>3
  <1>3. CASE (\E ts, hs : Unbind(e, ts, hs)) /\ UNCHANGED fxVars
    <2>1. PICK ts, hs, gone : stack' = Skipping(stack, e, ts, hs, gone)
      BY <1>3 DEF Unbind, RemoveHandlers
    <2> QED BY <1>1, <1>3, <2>1, SkippedTyped, StackOnly DEF StackTyped
  <1>4. CASE UnbindAll(e) /\ UNCHANGED fxVars
    BY <1>1, <1>4, AllSkippedTyped, StackOnly DEF UnbindAll
  <1> QED BY <1>2, <1>3, <1>4, EffectActTyped DEF Use

LEMMA NextTyped == IInv /\ ReadyInv /\ TypeInv /\ [Next]_vars => TypeInv'
  <1> SUFFICES ASSUME IInv, ReadyInv, TypeInv, [Next]_vars PROVE TypeInv'
    OBVIOUS
  <1>1. FxInv /\ StackTyped /\ readyList \in Seq(ReadyFns)
    BY DEF IInv, TypeInv, ReadyInv, ListWaits
  <1>2. CASE UNCHANGED vars
    BY <1>1, <1>2, StackOnly DEF vars, StackTyped
  <1>3. CASE \E e \in Elems : Use(e)
    BY <1>1, <1>3, UseTyped
  <1>4. CASE \E e \in Removable : Remove(e) /\ UNCHANGED fxVars
    BY <1>1, <1>4, AllSkippedTyped, StackOnly DEF Remove
  <1>5. CASE \E f \in ReadyFns : AskReady(f) /\ UNCHANGED fxVars
    BY <1>1, <1>5, ReadyTyped, StackOnly
  <1>6. CASE Throw
    BY <1>1, <1>6, UnwoundTyped, StackOnly DEF Throw, StackTyped
  <1>7. CASE EventStep /\ UNCHANGED fxVars
    <2>1. CASE \E b \in Bindable : BrowserEvent(b[1], b[2])
      <3>1. PICK b \in Bindable : BrowserEvent(b[1], b[2])
        BY <2>1
      <3>2. b[1] \in Elems /\ b[2] \in Types
        BY ElementsAssumption
      <3>3. EventFrame(PathFrom(b[1]), b[2], TRUE) \in StackCalls
        BY <3>2, PathTyped, EventCallBegins DEF StackCalls
      <3>4. stack' = Push(EventFrame(PathFrom(b[1]), b[2], TRUE))
        BY <3>1 DEF BrowserEvent
      <3> QED BY <1>1, <1>7, <3>3, <3>4, StackGoesOn, StackOnly DEF StackTyped
    <2>2. CASE \E h \in Handlers : CallHandler(h) \/ \E e \in Elems : CallOne(e, h)
      BY <1>1, <1>7, <2>2, HandlingTyped, StackOnly
    <2>3. CASE Handle \/ EventMovesOn \/ \E stops, atOnce \in BOOLEAN : HandlerReturns(stops, atOnce)
      BY <1>1, <1>7, <2>3, HandlingTyped, StackOnly
    <2>4. CASE DocumentGoesOn \/ CallReady \/ ReadyReturns
      BY <1>1, <1>7, <2>4, ReadyTyped, StackOnly
    <2> QED BY <1>7, <2>1, <2>2, <2>3, <2>4 DEF EventStep
  <1>8. CASE EffectStep
    BY <1>1, <1>8, EffectStepTyped
  <1> QED BY <1>2, <1>3, <1>4, <1>5, <1>6, <1>7, <1>8 DEF Next, Act, Step

LEMMA InitTyped == Init => TypeInv
  <1> SUFFICES ASSUME Init PROVE TypeInv
    OBVIOUS
  <1>1. stack = <<>> /\ timers = <<>> /\ intervals = 0 /\ timerLive = FALSE
    BY DEF Init, EffectsInit
  <1>2. <<>> \in Seq(StackCalls) /\ <<>> \in Seq(Timers) /\ DOMAIN <<>> = {}
    OBVIOUS
  <1> QED BY <1>1, <1>2 DEF TypeInv, StackTyped, TimersTyped, IntervalTyped

-----------------------------------------------------------------------------
(* The theorems.                                                                *)

LEMMA InitIInv == Init => IInv
  <1> SUFFICES ASSUME Init PROVE IInv
    OBVIOUS
  <1> USE DEF Init, EventsInit, EffectsInit
  <1>1. EntryOK(None) /\ EventsOf(None) = <<>> /\ QueueOf(None) = <<>> /\ DOMAIN <<>> = {}
    BY Reading DEF EntryOK
  <1>2. CacheOK /\ \A e \in Elems : cache[e] = None
    BY DEF CacheOK
  <1>3. QueuesOwn /\ OnesOwed /\ ListenersMatch
    BY <1>1, <1>2 DEF QueuesOwn, Queue, OnesOwed, ListenersMatch
  <1>4. Waiting(stack, Len(anims))
    BY WaitingNone
  <1>5. anims \in Seq(Anims)
    OBVIOUS
  <1>6. owed \in [Bindable -> [Handlers -> Nat]] /\ listening \in [Elems -> SUBSET Types]
    OBVIOUS
  <1> QED BY <1>2, <1>3, <1>4, <1>5, <1>6 DEF IInv, FxInv, EventInv, RemovedIsForgotten

\* What has nothing and is not used again is forgotten.
LEMMA StaysForgotten ==
    ASSUME IInv, NEW X, Good(X), removed' = removed, touched \subseteq touched', X \cap removed \subseteq touched'
    PROVE  IInv'
  <1>1. ASSUME NEW e \in removed' \ touched'
        PROVE  listening'[e] = {} /\ EventsOf(cache'[e]) = <<>> /\ QueueOf(cache'[e]) = <<>>
    <2>1. e \in Elems \ X /\ EventsOf(cache[e]) = <<>> /\ QueueOf(cache[e]) = <<>>
      BY DEF IInv, RemovedIsForgotten, Queue
    <2>2. EventsOf(cache'[e]) = <<>> /\ QueueOf(cache'[e]) = <<>>
      BY <2>1 DEF Good, StaysBare
    <2>3. listening'[e] = DOMAIN EventsOf(cache'[e]) /\ DOMAIN <<>> = {}
      BY <2>1 DEF Good, EventInv, ListenersMatch
    <2> QED BY <2>2, <2>3
  <1>2. RemovedIsForgotten'
    BY <1>1 DEF RemovedIsForgotten, Queue
  <1> QED BY <1>2 DEF IInv, Good

LEMMA RemoveForgets ==
    ASSUME IInv, NEW e \in Elems, Good({}), removed' = removed \cup {e}, touched' = touched,
           EventsOf(cache'[e]) = <<>>, QueueOf(cache'[e]) = <<>>
    PROVE  IInv'
  <1>1. ASSUME NEW x \in removed' \ touched'
        PROVE  listening'[x] = {} /\ EventsOf(cache'[x]) = <<>> /\ QueueOf(cache'[x]) = <<>>
    <2>1. x \in Elems
      BY DEF IInv
    <2>2. x # e => EventsOf(cache[x]) = <<>> /\ QueueOf(cache[x]) = <<>>
      BY DEF IInv, RemovedIsForgotten, Queue
    <2>3. EventsOf(cache'[x]) = <<>> /\ QueueOf(cache'[x]) = <<>>
      BY <2>1, <2>2 DEF Good, StaysBare
    <2>4. listening'[x] = DOMAIN EventsOf(cache'[x]) /\ DOMAIN <<>> = {}
      BY <2>1 DEF Good, EventInv, ListenersMatch
    <2> QED BY <2>3, <2>4
  <1>2. RemovedIsForgotten'
    BY <1>1 DEF RemovedIsForgotten, Queue
  <1>3. removed' \subseteq Elems
    BY DEF IInv
  <1> QED BY <1>2, <1>3 DEF IInv, Good

LEMMA Uses ==
    ASSUME IInv, NEW e \in Elems, Use(e)
    PROVE  Good({e}) /\ removed' = removed
  <1> SUFFICES Good({e})
    BY DEF Use, EventAct, Bind, Trigger, Unbind, UnbindAll, EffectAct, ShowOrHide, Animate, Stop
  <1>1. CASE EventAct(e) /\ UNCHANGED fxVars
    <2>1. PICK b \in Bindable : /\ b[1] = e
                                /\ \/ \E h \in Handlers, kind \in Kinds : Bind(e, b[2], h, kind)
                                   \/ Trigger(e, b[2])
      BY <1>1 DEF EventAct
    <2>2. b = <<e, b[2]>> /\ anims' = anims
      BY <1>1, <2>1, ElementsAssumption DEF fxVars
    <2>3. CASE \E h \in Handlers, kind \in Kinds : Bind(e, b[2], h, kind)
      BY <2>2, <2>3, Binds
    <2>4. CASE Trigger(e, b[2])
      <3>1. Good({})
        BY <2>2, <2>4, Calls
      <3> QED BY <3>1 DEF Good, StaysBare
    <2> QED BY <2>1, <2>3, <2>4
  <1>2. CASE (\E u \in Unbindings : u[1] = e /\ \E hs \in {{h} : h \in Handlers} \cup {Handlers} :
                    Unbind(e, u[2], hs)) /\ UNCHANGED fxVars
    <2>1. anims' = anims
      BY <1>2 DEF fxVars
    <2> QED BY <1>2, <2>1, Unbinds
  <1>3. CASE UnbindAll(e) /\ UNCHANGED fxVars
    <2>1. anims' = anims
      BY <1>3 DEF fxVars
    <2> QED BY <1>3, <2>1, UnbindsAll
  <1>4. CASE EffectAct(e) /\ UNCHANGED eventVars
    <2>1. FxInv' /\ NoneBegun({e}) /\ EventInv
      BY <1>4, EffectActs DEF IInv
    <2> QED BY <1>4, <2>1, EventsStay
  <1> QED BY <1>1, <1>2, <1>3, <1>4 DEF Use

LEMMA NextIInv == IInv /\ [Next]_vars => IInv'
  <1> SUFFICES ASSUME IInv, [Next]_vars PROVE IInv'
    OBVIOUS
  <1>1. CASE UNCHANGED vars
    <2>1. FxInv /\ EventInv /\ UNCHANGED <<cache, stack, listening, owed, removed, touched>> /\ anims' = anims
      BY <1>1 DEF vars, eventVars, fxVars, IInv
    <2>2. Good({})
      BY <2>1, OnlyCalls DEF FxInv
    <2> QED BY <2>1, <2>2, StaysForgotten
  <1>2. CASE \E e \in Elems : Use(e) /\ touched' = IF e \in removed THEN touched \cup {e} ELSE touched
    <2>1. PICK e \in Elems : Use(e) /\ touched' = IF e \in removed THEN touched \cup {e} ELSE touched
      BY <1>2
    <2>2. Good({e}) /\ removed' = removed
      BY <2>1, Uses
    <2>3. touched \subseteq touched' /\ {e} \cap removed \subseteq touched'
      BY <2>1
    <2> QED BY <2>2, <2>3, StaysForgotten
  <1>3. CASE \E e \in Removable : Remove(e) /\ UNCHANGED <<fxVars, touched>>
    <2>1. PICK e \in Removable : Remove(e) /\ UNCHANGED <<fxVars, touched>>
      BY <1>3
    <2>2. e \in Elems /\ anims' = anims /\ touched' = touched
      BY <2>1, ElementsAssumption DEF fxVars
    <2>3. /\ Good({}) /\ removed' = removed \cup {e}
          /\ EventsOf(cache'[e]) = <<>> /\ QueueOf(cache'[e]) = <<>>
      BY <2>1, <2>2, RemovesElement
    <2> QED BY <2>2, <2>3, RemoveForgets
  <1>4. CASE \E f \in ReadyFns : AskReady(f) /\ UNCHANGED <<fxVars, touched>>
    <2>1. anims' = anims /\ touched' = touched /\ removed' = removed
      BY <1>4 DEF fxVars, AskReady
    <2>2. Good({})
      BY <1>4, <2>1, Readies
    <2> QED BY <2>1, <2>2, StaysForgotten
  <1>5. CASE Throw
    <2>1. /\ FxInv /\ EventInv /\ UNCHANGED <<cache, listening, owed, removed, touched>> /\ anims' = anims
          /\ stack' = Unwound /\ ~Idle
      BY <1>5 DEF Throw, eventVars, fxVars, IInv
    <2>2. Waiting(stack', Len(anims))
      BY <2>1, WaitingUnwound DEF FxInv, Idle
    <2>3. Good({})
      BY <2>1, <2>2, OnlyCalls
    <2> QED BY <2>1, <2>3, StaysForgotten
  <1>6. CASE EventStep /\ UNCHANGED fxVars /\ touched' = touched
    <2>1. anims' = anims
      BY <1>6 DEF fxVars
    <2>2. removed' = removed
      BY <1>6 DEF EventStep, BrowserEvent, Handle, EventMovesOn, CallHandler, CallOne, HandlerReturns,
                  DocumentGoesOn, CallReady, ReadyReturns
    <2>3. Good({})
      BY <1>6, <2>1, EventSteps
    <2> QED BY <1>6, <2>2, <2>3, StaysForgotten
  <1>7. CASE EffectStep /\ UNCHANGED eventVars /\ touched' = touched
    <2>1. FxInv' /\ NoneBegun({}) /\ EventInv
      BY <1>7, EffectSteps DEF IInv
    <2>2. removed' = removed
      BY <1>7 DEF EffectStep, Complete, CompleteReturns, Tick, TickStep, LastStep, TickDrops, TickEnds,
                  StopStep, StopDrops, StopEnds
    <2>3. Good({})
      BY <1>7, <2>1, EventsStay
    <2> QED BY <1>7, <2>2, <2>3, StaysForgotten
  <1> QED BY <1>1, <1>2, <1>3, <1>4, <1>5, <1>6, <1>7 DEF Next, Act, Step

LEMMA Invariant == Spec => []IInv
  BY InitIInv, NextIInv, PTL DEF Spec

\* An element has jQuery's listener for exactly the types of event that its data has an entry
\* of handlers for, an empty one too, which unbind of several types can leave.
THEOREM ListenersRight == Spec => []ListenersMatch
  <1>1. IInv => ListenersMatch
    BY DEF IInv, EventInv
  <1> QED BY <1>1, Invariant, PTL

\* A function bound with one is called at most once for each time it was bound.
THEOREM OnceOnly == Spec => []OneRunsOnce
  <1>1. IInv => OneRunsOnce
    BY DEF IInv, EventInv, OneRunsOnce
  <1> QED BY <1>1, Invariant, PTL

\* What is removed keeps nothing, and nothing begins on it, unless the page uses it again.
THEOREM Forgotten == Spec => []RemovedIsForgotten
  <1>1. IInv => RemovedIsForgotten
    BY DEF IInv
  <1> QED BY <1>1, Invariant, PTL

\* Every function given to ready is called at most once, and in the end exactly once if it
\* was given in time and none before it threw: whether the document becomes ready or ready
\* itself calls it, and whatever the functions called first do.
THEOREM Served == Spec => []ReadyServed
  <1>1. ReadyInv => ReadyServed
    <2> SUFFICES ASSUME ReadyInv PROVE ReadyServed
      OBVIOUS
    <2>1. \A f \in ReadyFns : calls[f] <= 1
      BY DEF ReadyInv
    <2>2. ASSUME Idle, document = "loaded", ~threw, NEW f \in ReadyFns, asked[f] = "inTime"
          PROVE  calls[f] = 1
      <3>1. DOMAIN <<>> = {}
        OBVIOUS
      <3>2. isReady /\ ~InReadyList(f)
        BY <2>2, <3>1 DEF ReadyInv, InReadyList
      <3>3. ~InCall(f)
        BY <2>2, <3>1 DEF Idle, InCall
      <3> QED BY <2>2, <3>2, <3>3 DEF ReadyInv
    <2> QED BY <2>1, <2>2 DEF ReadyServed
  <1> QED BY <1>1, Invariant, InitReady, NextReady, PTL DEF Spec

\* Between two pieces of code, the first of every queue has a timer and an interval runs,
\* until a callback stops a loop over the timers or something throws.
THEOREM QueuesMove == Spec => []QueueMoves
  <1>1. IInv /\ MovesInv => QueueMoves
    <2> SUFFICES ASSUME IInv, MovesInv, Idle, ~cut, ~threw, NEW e \in Animated, Queue(e) # <<>>
                 PROVE  intervals > 0 /\ \E i \in DOMAIN timers : timers[i].anim = Queue(e)[1]
      BY DEF QueueMoves
    <2>1. FxRight /\ QueueRight(e)
      BY DEF MovesInv, FxRight, ElementRight
    <2>2. PICK a : a = Queue(e)[1]
      OBVIOUS
    <2>3. Moving(a)
      BY <2>1, <2>2 DEF QueueRight, Ending, TopIs
    <2>4. PICK p : p \in anims[a].left
      BY <2>3 DEF Moving
    <2>5. PICK t : t = [anim |-> a, prop |-> p]
      OBVIOUS
    <2>6. t \in Live /\ t.anim = a
      BY <2>3, <2>4, <2>5 DEF Moving
    <2>7. PICK i \in DOMAIN timers : timers[i] = t
      BY <2>6, LiveIs DEF Live
    <2>8. timers # <<>>
      BY <2>7
    <2>9. intervals > 0
      BY <2>1, <2>8 DEF FxRight, TimersRight, IntervalFor
    <2> QED BY <2>2, <2>6, <2>7, <2>9
  <1> QED BY <1>1, Invariant, InitMoves, NextMoves, PTL DEF Spec

\* When its queue is done, an element is shown or hidden as was asked last.
THEOREM AskedLast == Spec => []LastEffectWins
  <1>1. MovesInv => LastEffectWins
    BY DEF MovesInv, FxRight, ElementRight, ShownRight, LastEffectWins
  <1> QED BY <1>1, Invariant, InitMoves, NextMoves, PTL DEF Spec

\* Data, calls, animations and timers are of their kinds, whatever happens: a queue has the
\* element's own animations, a timer is of an animation that was made, and timerId is not
\* taken for a live interval when none runs.
THEOREM TypesRight == Spec => []TypeOK
  <1>1. IInv /\ TypeInv => TypeOK
    <2> SUFFICES ASSUME IInv, TypeInv PROVE TypeOK
      OBVIOUS
    <2>1. ASSUME NEW e \in Elems
          PROVE  /\ cache[e] = None \/ DOMAIN cache[e] \subseteq DataNames
                 /\ EventsOf(cache[e]) \in EventMaps
                 /\ \A i \in DOMAIN Queue(e) : anims[Queue(e)[i]].elem = e
      <3>1. EntryOK(cache[e]) /\ FxInv
        BY QueueTyped DEF IInv
      <3>2. cache[e] = None \/ DOMAIN cache[e] \subseteq DataNames
        BY <3>1 DEF EntryOK, Entries
      <3> QED BY <3>1, <3>2, ReadingTyped DEF FxInv, QueuesOwn
    <2>2. ASSUME NEW k \in DOMAIN stack
          PROVE  \/ stack[k] \in EventFrames \cup ReadyFrames
                 \/ stack[k] \in CompleteFrames \cup LoopFrames
      <3>1. stack[k] \in StackCalls
        BY DEF TypeInv, StackTyped
      <3> QED BY <3>1 DEF StackCalls, EventCalls, LoopCalls
    <2>3. \A i \in DOMAIN anims : anims[i] \in Anims
      BY DEF IInv, FxInv
    <2>4. \A i \in DOMAIN timers : timers[i] \in Timers /\ timers[i].anim \in DOMAIN anims
      BY DEF IInv, FxInv, TypeInv, TimersTyped
    <2> QED BY <2>1, <2>2, <2>3, <2>4 DEF TypeOK, TypeInv, IntervalTyped
  <1>2. IInv /\ ReadyInv /\ [Next]_vars => ReadyInv'
    BY NextReady
  <1> QED BY <1>1, <1>2, Invariant, InitReady, InitTyped, NextTyped, PTL DEF Spec
=============================================================================
