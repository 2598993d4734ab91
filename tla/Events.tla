------------------------------- MODULE Events -------------------------------
(***************************************************************************)
(* jQuery.event: one native listener for each type of event on an element, *)
(* and behind it the handlers in the element's data.  And the functions    *)
(* that wait for the document to be ready.                                 *)
(***************************************************************************)
EXTENDS ElementData

CONSTANTS
    Path,           \* element -> itself, the element it is in, and so on outwards
    Handlers,       \* functions that are bound, each with its guid
    ReadyFns,       \* functions given to ready
    Bindable        \* bound: the pairs <<element, type>> that handlers are bound to

ASSUME PathAssumption ==
    \A e \in Elems : /\ Path[e] \in Seq(Elems) /\ Path[e] # <<>> /\ Head(Path[e]) = e
                     /\ Tail(Path[e]) # <<>> => Tail(Path[e]) = Path[Path[e][2]]

Types == {b[2] : b \in Bindable}
Kinds == {"plain", "one"}
HandlerMaps == UNION {[hs -> Kinds] : hs \in SUBSET Handlers}
EventMaps == UNION {[ts -> HandlerMaps] : ts \in SUBSET Types}

VARIABLES
    listening,      \* element -> the types it has jQuery's listener for
    document,       \* "loading", "parsed" (DOMContentLoaded), "loaded"
    isReady, readyList,
    owed,           \* history: calls that a handler bound with one may still get
    asked,          \* history: functions given to ready, and when the first was
    calls           \* history: how often each was called

readyVars == <<document, isReady, readyList, asked, calls>>
eventVars == <<listening, readyVars, owed>>

EventFrames == [call : {"event"}, paused : BOOLEAN, native : BOOLEAN, path : Seq(Elems),
                type : Types, due : SUBSET Handlers, seen : SUBSET Handlers,
                begun : BOOLEAN, over : BOOLEAN, stopped : BOOLEAN]
ReadyFrames == [call : {"ready"}, paused : BOOLEAN, rest : Seq(ReadyFns)]

EventsInit ==
    /\ listening = [e \in Elems |-> {}]
    /\ document = "loading" /\ isReady = FALSE /\ readyList = <<>>
    /\ asked = [f \in ReadyFns |-> "never"] /\ calls = [f \in ReadyFns |-> 0]
    /\ owed = [b \in Bindable |-> [h \in Handlers |-> 0]]

-----------------------------------------------------------------------------
(* add.                                                                         *)

EventsOf(entry) == IF Data(entry, "events") = None THEN <<>> ELSE entry["events"]
HandlersOf(evs, type) == IF type \in DOMAIN evs THEN evs[type] ELSE <<>>

Bound(evs, type, h, kind) ==
    [t \in DOMAIN evs \cup {type} |->
        IF t # type THEN evs[t]
        ELSE [g \in DOMAIN HandlersOf(evs, t) \cup {h} |->
                IF g = h THEN kind ELSE evs[t][g]]]

\* bind and one.  A function that is bound again takes its old place.
Bind(e, type, h, kind) ==
    /\ PageRuns
    /\ cache' = [cache EXCEPT ![e] =
                    WithData(@, "events", Bound(EventsOf(@), type, h, kind))]
    /\ listening' = [listening EXCEPT ![e] = @ \cup {type}]
    /\ owed' = [owed EXCEPT ![<<e, type>>][h] = IF kind = "one" THEN 1 ELSE 0]
    /\ UNCHANGED <<stack, threw, removed, readyVars>>

-----------------------------------------------------------------------------
(* remove: the handlers hs of the types in the list ts.                         *)

Emptied(evs, type, hs) == DOMAIN evs[type] \subseteq hs

\* A type is given up when it has no handler left; but after a type that has, `ret` keeps
\* the types that follow in the list, with no handlers.
GivenUp(evs, ts, hs) ==
    {ts[i] : i \in {i \in DOMAIN ts :
        ts[i] \in DOMAIN evs
        /\ \A j \in 1 .. i : ts[j] \in DOMAIN evs => Emptied(evs, ts[j], hs)}}

Unbound(entry, ts, hs) ==
    LET evs  == EventsOf(entry)
        left == [t \in DOMAIN evs \ GivenUp(evs, ts, hs) |->
                    IF \E i \in DOMAIN ts : ts[i] = t
                      THEN [h \in DOMAIN evs[t] \ hs |-> evs[t][h]] ELSE evs[t]]
    IN  IF evs = <<>> THEN Touched(entry)
        ELSE IF left = <<>> THEN WithoutData(entry, "events")
        ELSE WithData(entry, "events", left)

\* A loop over the handlers of a type does not come to those deleted meanwhile.
Skipping(frames, e, ts, hs, gone) ==
    [k \in DOMAIN frames |->
        LET f == frames[k] IN
        IF f.call = "event" /\ Head(f.path) = e /\ \E i \in DOMAIN ts : ts[i] = f.type
          THEN [f EXCEPT !.due = @ \ hs, !.over = @ \/ f.type \in gone]
          ELSE f]

RemoveHandlers(e, ts, hs, frames) ==
    LET gone == GivenUp(EventsOf(cache[e]), ts, hs) IN
    /\ cache' = [cache EXCEPT ![e] = Unbound(@, ts, hs)]
    /\ listening' = [listening EXCEPT ![e] = @ \ gone]
    /\ stack' = Skipping(frames, e, ts, hs, gone)

Unbind(e, ts, hs) ==
    /\ PageRuns
    /\ RemoveHandlers(e, ts, hs, stack)
    /\ UNCHANGED <<threw, removed, readyVars, owed>>

\* Without a list, every type is removed by a call of its own.
RemoveAllHandlers(e) ==
    /\ listening' = [listening EXCEPT ![e] = @ \ DOMAIN EventsOf(cache[e])]
    /\ stack' = [k \in DOMAIN stack |->
                    IF stack[k].call = "event" /\ Head(stack[k].path) = e
                      THEN [stack[k] EXCEPT !.due = {}, !.over = TRUE] ELSE stack[k]]

UnbindAll(e) ==
    /\ PageRuns
    /\ cache' = [cache EXCEPT ![e] = IF EventsOf(@) = <<>> THEN Touched(@)
                                     ELSE WithoutData(@, "events")]
    /\ RemoveAllHandlers(e)
    /\ UNCHANGED <<threw, removed, readyVars, owed>>

RemoveDataOnly(e) ==        \* variation: the listeners stay
    /\ PageRuns /\ e \notin removed
    /\ removed' = removed \cup {e}
    /\ cache' = [cache EXCEPT ![e] = None]
    /\ UNCHANGED <<stack, threw, listening, readyVars, owed>>

RemoveHandlersOnly(e) ==    \* variation: the rest of its data stays
    /\ PageRuns /\ e \notin removed
    /\ removed' = removed \cup {e}
    /\ RemoveAllHandlers(e)
    /\ cache' = [cache EXCEPT ![e] = WithoutData(@, "events")]
    /\ UNCHANGED <<threw, readyVars, owed>>

\* jQuery.fn.remove.
Remove(e) ==
    /\ PageRuns /\ e \notin removed
    /\ removed' = removed \cup {e}
    /\ RemoveAllHandlers(e)
    /\ cache' = [cache EXCEPT ![e] = None]
    /\ UNCHANGED <<threw, readyVars, owed>>

-----------------------------------------------------------------------------
(* trigger and handle.  An event of the browser has its path before the first   *)
(* handler runs; trigger looks for the parent after the handlers of a child.    *)

ParentOf(e) == IF e \in removed \/ Len(Path[e]) = 1 THEN None ELSE Path[e][2]

\* The path ends with an element that was removed.
PathFrom(e) ==
    LET reached == {i \in DOMAIN Path[e] : \A j \in 1 .. i - 1 : Path[e][j] \notin removed}
    IN  SubSeq(Path[e], 1, Cardinality(reached))

EventFrame(path, type, native) ==
    [call |-> "event", paused |-> FALSE, native |-> native, path |-> path, type |-> type,
     due |-> {}, seen |-> {}, begun |-> FALSE, over |-> FALSE, stopped |-> FALSE]

\* The native method that trigger calls makes an event that `triggered` keeps from handle.
Trigger(e, type) ==
    /\ PageRuns
    /\ stack' = Push(EventFrame(<<e>>, type, FALSE))
    /\ UNCHANGED <<cache, removed, threw, eventVars>>

BrowserEvent(e, type) ==
    /\ Idle
    /\ stack' = Push(EventFrame(PathFrom(e), type, TRUE))
    /\ UNCHANGED <<cache, removed, threw, eventVars>>

\* The handlers of one element: trigger asks its data for handle, an event its listeners.
Handle ==
    /\ TopIs("event") /\ ~Top.begun
    /\ LET e == Head(Top.path)
           called == IF Top.native THEN Top.type \in listening[e] ELSE EventsOf(cache[e]) # <<>>
           hs == IF called THEN DOMAIN HandlersOf(EventsOf(cache[e]), Top.type) ELSE {}
       IN  /\ stack' = Replace([Top EXCEPT !.begun = TRUE, !.due = hs, !.over = hs = {}])
           /\ cache' = IF called \/ ~Top.native
                         THEN [cache EXCEPT ![e] = Touched(@)] ELSE cache
    /\ UNCHANGED <<removed, threw, eventVars>>

\* A handler bound meanwhile may be called as well.
Callable == IF Top.over THEN {}
            ELSE DOMAIN HandlersOf(EventsOf(cache[Head(Top.path)]), Top.type) \ Top.seen
Calling(h) == [Top EXCEPT !.paused = TRUE, !.due = @ \ {h}, !.seen = @ \cup {h}]

CallHandler(h) ==
    /\ TopIs("event") /\ Top.begun /\ ~Top.paused /\ h \in Callable
    /\ cache[Head(Top.path)]["events"][Top.type][h] = "plain"
    /\ stack' = Replace(Calling(h))
    /\ UNCHANGED <<cache, removed, threw, eventVars>>

CallOnce(e, h) ==
    /\ TopIs("event") /\ Top.begun /\ ~Top.paused /\ e = Head(Top.path) /\ h \in Callable
    /\ cache[e]["events"][Top.type][h] = "one"
    /\ owed' = [owed EXCEPT ![<<e, Top.type>>][h] = @ - 1]

CallOneKept(e, h) ==        \* variation: it is still bound while the function runs
    /\ CallOnce(e, h)
    /\ stack' = Replace(Calling(h))
    /\ UNCHANGED <<cache, listening, threw, removed, readyVars>>

\* The function that one binds unbinds itself before it calls the page's.
CallOne(e, h) ==
    /\ CallOnce(e, h)
    /\ RemoveHandlers(e, <<Top.type>>, {h}, Replace(Calling(h)))
    /\ UNCHANGED <<threw, removed, readyVars>>

\* A handler that returns false stops the event, after the handlers of this element; it
\* may also stop it at once.
HandlerReturns(stops, atOnce) ==
    /\ TopIs("event") /\ Top.paused
    /\ stack' = Replace([Top EXCEPT !.paused = FALSE, !.stopped = @ \/ stops \/ atOnce,
                                    !.due = IF atOnce THEN {} ELSE @, !.over = @ \/ atOnce])
    /\ UNCHANGED <<cache, removed, threw, eventVars>>

NextPath == IF Top.stopped THEN <<>>
            ELSE IF Top.native THEN Tail(Top.path)
            ELSE IF ParentOf(Head(Top.path)) = None THEN <<>> ELSE <<ParentOf(Head(Top.path))>>
EventMovesOn ==
    /\ TopIs("event") /\ Top.begun /\ ~Top.paused /\ Top.due = {}
    /\ stack' = IF NextPath = <<>> THEN Pop
                ELSE Replace(EventFrame(NextPath, Top.type, Top.native))
    /\ UNCHANGED <<cache, removed, threw, eventVars>>

-----------------------------------------------------------------------------
(* ready.  The first call makes jQuery listen for the document.                 *)

ReadyBound == \E f \in ReadyFns : asked[f] # "never"
ReadyFrame(fns) == [call |-> "ready", paused |-> FALSE, rest |-> fns]

AskReady(f) ==
    /\ PageRuns /\ asked[f] = "never"
    /\ asked' = [asked EXCEPT ![f] = IF isReady \/ document # "loaded" THEN "inTime"
                                                                          ELSE "late"]
    /\ IF isReady THEN stack' = Push(ReadyFrame(<<f>>)) /\ UNCHANGED readyList
                  ELSE readyList' = Append(readyList, f) /\ UNCHANGED stack
    /\ UNCHANGED <<cache, threw, listening, removed, document, isReady, calls, owed>>

ReadyAgain ==               \* variation: isReady is not looked at
    IF ReadyBound
      THEN isReady' = TRUE /\ UNCHANGED readyList /\ stack' = Push(ReadyFrame(readyList))
      ELSE UNCHANGED <<isReady, readyList, stack>>

\* DOMContentLoaded, and load in case that it was missed: jQuery.ready.
Ready ==
    IF ReadyBound /\ ~isReady
      THEN isReady' = TRUE /\ readyList' = <<>> /\ stack' = Push(ReadyFrame(readyList))
      ELSE UNCHANGED <<isReady, readyList, stack>>

DocumentGoesOn ==
    /\ Idle /\ document # "loaded"
    /\ document' = IF document = "loading" THEN "parsed" ELSE "loaded"
    /\ Ready
    /\ UNCHANGED <<cache, threw, listening, removed, asked, calls, owed>>

CallReady ==
    /\ TopIs("ready") /\ ~Top.paused
    /\ IF Top.rest = <<>>
         THEN stack' = Pop /\ UNCHANGED calls
         ELSE /\ calls' = [calls EXCEPT ![Head(Top.rest)] = @ + 1]
              /\ stack' = Replace([Top EXCEPT !.paused = TRUE, !.rest = Tail(@)])
    /\ UNCHANGED <<cache, threw, listening, removed, document, isReady, readyList, asked, owed>>

ReadyReturns ==
    /\ TopIs("ready") /\ Top.paused
    /\ stack' = Replace([Top EXCEPT !.paused = FALSE])
    /\ UNCHANGED <<cache, removed, threw, eventVars>>

-----------------------------------------------------------------------------
EventAct(e) ==
    \E b \in Bindable :
        /\ b[1] = e
        /\ \/ \E h \in Handlers, kind \in Kinds : Bind(e, b[2], h, kind)
           \/ Trigger(e, b[2])
EventStep ==
    \/ \E b \in Bindable : BrowserEvent(b[1], b[2])
    \/ Handle \/ EventMovesOn
    \/ \E h \in Handlers : CallHandler(h) \/ \E e \in Elems : CallOne(e, h)
    \/ \E stops, atOnce \in BOOLEAN : HandlerReturns(stops, atOnce)
    \/ DocumentGoesOn \/ CallReady \/ ReadyReturns

-----------------------------------------------------------------------------
\* An element listens for the types that its data has an entry of handlers for, whatever was
\* bound, unbound or removed while its handlers ran; with no entry left it keeps no listener.
\* After unbind of several types an entry, and with it the listener, may be left without a
\* handler in it, against the comment of jquery-1.3.1.js:2448.
ListenersMatch == \A e \in Elems : listening[e] = DOMAIN EventsOf(cache[e])

\* A function bound with one is called at most once, when it triggers its own event too.
OneRunsOnce == \A b \in Bindable, h \in Handlers : owed[b][h] >= 0

\* In the end every function given to ready was called once, by DOMContentLoaded, load or
\* ready itself; unless it came after load, or one before it threw.
ReadyServed ==
    /\ \A f \in ReadyFns : calls[f] <= 1
    /\ Idle /\ document = "loaded" /\ ~threw =>
        \A f \in ReadyFns : asked[f] = "inTime" => calls[f] = 1
=============================================================================
