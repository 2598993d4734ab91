------------------------------ MODULE Effects ------------------------------
(***************************************************************************)
(* jQuery's effects: the queue of animations in an element's data, the     *)
(* timers that step them, one for each property, and the interval that     *)
(* runs the timers.  Durations are positive.                               *)
(***************************************************************************)
EXTENDS ElementData

CONSTANTS
    Animated,       \* elements with effects, none of them inside another
    Properties      \* number of properties that an animation changes

ASSUME PropertiesAssumption == Properties \in Nat \ {0}

VARIABLES
    visible,        \* display is not "none"
    anims,          \* the animations, in the order they were made
    timers,         \* jQuery.timers: the animation and property of each
    intervals,      \* number of intervals that run the timers
    timerLive,      \* timerId is one of them
    wanted,         \* history: what was last asked for, or "any" when that is open
    cut             \* history: stop was called while timers were being run

timerVars == <<timers, intervals, timerLive>>
fxVars == <<visible, anims, timerVars, wanted, cut>>

Effect == {"show", "hide"}
Anims == [elem : Animated, kind : Effect, left : SUBSET (1 .. Properties)]
Timers == [anim : Nat, prop : 1 .. Properties]
CompleteFrames == [call : {"complete"}, paused : BOOLEAN, anim : Nat]
LoopFrames == [call : {"tick", "stop"}, paused : {FALSE}, i : Nat, waits : BOOLEAN,
               elem : Animated \cup {None}]

EffectsInit ==
    /\ visible = [e \in Animated |-> TRUE]
    /\ anims = <<>> /\ timers = <<>> /\ intervals = 0 /\ timerLive = FALSE
    /\ wanted = [e \in Animated |-> "show"] /\ cut = FALSE

-----------------------------------------------------------------------------
(* show and hide, on the element's data and its display.                        *)

HideEntry(entry, seen) ==
    IF Data(entry, "olddisplay") # None THEN entry
    ELSE WithData(entry, "olddisplay", IF seen THEN "shown" ELSE "none")

\* What was hidden before it was first hidden gets the display of its tag.
ShowEntry(entry) ==
    IF Data(entry, "olddisplay") = "none" THEN WithData(entry, "olddisplay", "shown")
    ELSE Touched(entry)

\* :hidden, of its display.
Hidden(e) == ~visible[e]

QueueOf(entry) == IF Data(entry, "fxqueue") = None THEN <<>> ELSE entry["fxqueue"]
Queue(e) == QueueOf(cache[e])

\* show() and hide() without a duration do not wait for the queue.
ShowOrHide(e, kind) ==
    /\ PageRuns
    /\ visible' = [visible EXCEPT ![e] = kind = "show"]
    /\ cache' = [cache EXCEPT ![e] = IF kind = "show" THEN ShowEntry(@) ELSE HideEntry(@, visible[e])]
    /\ wanted' = [wanted EXCEPT ![e] = IF Queue(e) = <<>> THEN kind ELSE "any"]
    /\ UNCHANGED <<removed, stack, threw, anims, timerVars, cut>>

-----------------------------------------------------------------------------
(* queue, dequeue, animate.                                                     *)

Completing(a) == [call |-> "complete", paused |-> FALSE, anim |-> a]

\* custom, for each property: a timer of its own, and the first timer starts an interval.
StartTimers(a, running) ==
    /\ timers' = running \o [p \in 1 .. Properties |-> [anim |-> a, prop |-> p]]
    /\ IF running = <<>> THEN intervals' = intervals + 1 /\ timerLive' = TRUE
                         ELSE UNCHANGED <<intervals, timerLive>>

\* What is to be shown is shown first; what is to be hidden is hidden in the end.
ShowFirst(anim, entry) ==
    /\ cache' = [cache EXCEPT ![anim.elem] = IF anim.kind = "show" THEN ShowEntry(entry) ELSE entry]
    /\ visible' = [visible EXCEPT ![anim.elem] = TRUE]

\* An animation begins.  To show what is seen or hide what is not is complete at once.
Begin(a, anim, entry, running, calls) ==
    IF Hidden(anim.elem) = (anim.kind = "hide")
      THEN /\ cache' = [cache EXCEPT ![anim.elem] = entry]
           /\ stack' = <<Completing(a)>> \o calls
           /\ timers' = running
           /\ UNCHANGED <<visible, intervals, timerLive>>
      ELSE StartTimers(a, running) /\ ShowFirst(anim, entry) /\ stack' = calls

\* The data of an element that is given one more animation.
Queued(e, a) == WithData(cache[e], "fxqueue", Append(Queue(e), a))

AnimateAtOnce(e, kind) ==   \* variation: it does not wait for those before it
    LET anim == [elem |-> e, kind |-> kind, left |-> 1 .. Properties]
        n == Len(anims) + 1
    IN  /\ PageRuns
        /\ anims' = Append(anims, anim)
        /\ Begin(n, anim, Queued(e, n), timers, stack)
        /\ wanted' = [wanted EXCEPT ![e] = kind]
        /\ UNCHANGED <<removed, threw, cut>>

Animate(e, kind) ==
    LET anim == [elem |-> e, kind |-> kind, left |-> 1 .. Properties]
        n == Len(anims) + 1
    IN  /\ PageRuns
        /\ anims' = Append(anims, anim)
        /\ IF Queue(e) = <<>>
             THEN Begin(n, anim, Queued(e, n), timers, stack)
             ELSE /\ cache' = [cache EXCEPT ![e] = Queued(e, n)]
                  /\ UNCHANGED <<stack, visible, timerVars>>
        /\ wanted' = [wanted EXCEPT ![e] = kind]
        /\ UNCHANGED <<removed, threw, cut>>

\* dequeue of a queue q: its first is over, and the next begins.
Dequeue(e, q, running, calls) ==
    LET rest == IF q = <<>> THEN <<>> ELSE Tail(q)
        entry == WithData(cache[e], "fxqueue", rest)
    IN  IF rest = <<>>
          THEN /\ cache' = [cache EXCEPT ![e] = entry]
               /\ stack' = calls /\ timers' = running
               /\ UNCHANGED <<visible, intervals, timerLive>>
          ELSE Begin(rest[1], anims[rest[1]], entry, running, calls)

\* The complete of speed: dequeue, and then the function of the page.
Complete ==
    /\ TopIs("complete") /\ ~Top.paused
    /\ LET e == anims[Top.anim].elem
       IN  Dequeue(e, Queue(e), timers, Replace([Top EXCEPT !.paused = TRUE]))
    /\ UNCHANGED <<removed, threw, anims, wanted, cut>>

CompleteReturns ==
    /\ TopIs("complete") /\ Top.paused
    /\ stack' = Pop
    /\ UNCHANGED <<cache, removed, threw, fxVars>>

-----------------------------------------------------------------------------
(* The timers: a step, the interval's loop over them, and stop's.               *)

Loop(call, i, e) == [call |-> call, paused |-> FALSE, i |-> i, waits |-> FALSE, elem |-> e]
Spliced(i) == [k \in 1 .. Len(timers) - (IF i <= Len(timers) THEN 1 ELSE 0) |->
                  timers[IF k < i THEN k ELSE k + 1]]

\* A step of height or width shows the element again, as does the end of an animation with
\* one of them; which property is stepped is left open.
Stepped(e) == {visible, [visible EXCEPT ![e] = TRUE]}

\* The last step of a timer; the last timer of an animation hides what was to be hidden,
\* and completes.  The loop waits, and then drops the timer.
LastStep(t) ==
    LET anim == anims[t.anim]
        left == anim.left \ {t.prop}
        loop == Replace([Top EXCEPT !.waits = TRUE])
    IN  /\ t.anim \in DOMAIN anims
        /\ anims' = [anims EXCEPT ![t.anim].left = left]
        /\ stack' = IF left = {} THEN <<Completing(t.anim)>> \o loop ELSE loop
        /\ \E shown \in Stepped(anim.elem) :
             IF left = {} /\ anim.kind = "hide"
               THEN /\ visible' = [shown EXCEPT ![anim.elem] = FALSE]
                    /\ cache' = [cache EXCEPT ![anim.elem] = HideEntry(@, shown[anim.elem])]
               ELSE visible' = shown /\ cache' = cache
        /\ UNCHANGED <<removed, threw, timerVars, wanted, cut>>

Tick ==
    /\ Idle /\ intervals > 0
    /\ stack' = Push(Loop("tick", 1, None))
    /\ UNCHANGED <<cache, removed, threw, fxVars>>

TickStep ==
    /\ TopIs("tick") /\ ~Top.waits /\ Top.i <= Len(timers)
    /\ \/ LastStep(timers[Top.i])
       \/ /\ stack' = Replace([Top EXCEPT !.i = @ + 1])
          /\ visible' \in Stepped(anims[timers[Top.i].anim].elem)
          /\ UNCHANGED <<cache, removed, threw, anims, timerVars, wanted, cut>>

TickDrops ==
    /\ TopIs("tick") /\ Top.waits
    /\ timers' = Spliced(Top.i)
    /\ stack' = Replace([Top EXCEPT !.waits = FALSE])
    /\ UNCHANGED <<cache, removed, threw, visible, anims, intervals, timerLive, wanted, cut>>

TickEndsEarly ==            \* variation: the interval is cleared after any loop
    /\ TopIs("tick") /\ ~Top.waits /\ Top.i > Len(timers)
    /\ stack' = Pop
    /\ IF timerLive THEN intervals' = intervals - 1 /\ timerLive' = FALSE
                    ELSE UNCHANGED <<intervals, timerLive>>
    /\ UNCHANGED <<cache, removed, threw, visible, anims, timers, wanted, cut>>

TickForgets ==              \* variation: timerId is taken for a live one afterwards
    /\ TopIs("tick") /\ ~Top.waits /\ Top.i > Len(timers)
    /\ stack' = Pop
    /\ intervals' = IF timers = <<>> /\ timerLive THEN intervals - 1 ELSE intervals
    /\ UNCHANGED <<cache, removed, threw, visible, anims, timers, timerLive, wanted, cut>>

\* With no timer left, the interval that timerId names is cleared, whichever ran the loop.
TickEnds ==
    /\ TopIs("tick") /\ ~Top.waits /\ Top.i > Len(timers)
    /\ stack' = Pop
    /\ IF timers = <<>> /\ timerLive
         THEN intervals' = intervals - 1 /\ timerLive' = FALSE
         ELSE UNCHANGED <<intervals, timerLive>>
    /\ UNCHANGED <<cache, removed, threw, visible, anims, timers, wanted, cut>>

TimersRun == \E k \in DOMAIN stack : stack[k].call \in {"tick", "stop"}

\* The timers of the other elements, in their order.
OtherTimers(e) ==
    LET others == {i \in DOMAIN timers : anims[timers[i].anim].elem # e}
    IN  [k \in 1 .. Cardinality(others) |->
            timers[CHOOSE i \in others : Cardinality(others \cap (1 .. i)) = k]]

Stop(e, clear, gotoEnd) ==
    LET q == IF clear THEN <<>> ELSE Queue(e) IN
    /\ PageRuns
    /\ cut' = (cut \/ TimersRun)
    /\ IF gotoEnd
         THEN /\ cache' = IF clear THEN [cache EXCEPT ![e] = WithData(@, "fxqueue", <<>>)]
                                   ELSE cache
              /\ stack' = Push(Loop("stop", Len(timers), e))
              /\ UNCHANGED <<visible, timerVars>>
         ELSE Dequeue(e, q, OtherTimers(e), stack)
    /\ wanted' = IF Queue(e) = <<>> \/ (gotoEnd /\ ~clear) THEN wanted
                 ELSE [wanted EXCEPT ![e] = "any"]
    /\ UNCHANGED <<removed, threw, anims>>

\* stop(.., true) forces the last step, from the last timer to the first.
StopStep ==
    /\ TopIs("stop") /\ ~Top.waits /\ Top.i \in DOMAIN timers
    /\ IF anims[timers[Top.i].anim].elem = Top.elem
         THEN LastStep(timers[Top.i])
         ELSE /\ stack' = Replace([Top EXCEPT !.i = @ - 1])
              /\ UNCHANGED <<cache, removed, threw, fxVars>>

StopDrops ==
    /\ TopIs("stop") /\ Top.waits
    /\ timers' = Spliced(Top.i)
    /\ stack' = Replace([Top EXCEPT !.waits = FALSE, !.i = @ - 1])
    /\ UNCHANGED <<cache, removed, threw, visible, anims, intervals, timerLive, wanted, cut>>

\* It ends, or throws when a callback has dropped timers: `timers[i].elem` of undefined.
StopEnds ==
    /\ TopIs("stop") /\ ~Top.waits /\ Top.i \notin DOMAIN timers
    /\ threw' = (threw \/ Top.i # 0)
    /\ stack' = IF Top.i = 0 THEN Pop ELSE Unwound
    /\ UNCHANGED <<cache, removed, fxVars>>

-----------------------------------------------------------------------------
EffectAct(e) ==
    /\ e \in Animated
    /\ \/ \E kind \in Effect : ShowOrHide(e, kind) \/ Animate(e, kind)
       \/ \E clear, gotoEnd \in BOOLEAN : Stop(e, clear, gotoEnd)
EffectStep == \/ Complete \/ CompleteReturns
              \/ Tick \/ TickStep \/ TickDrops \/ TickEnds
              \/ StopStep \/ StopDrops \/ StopEnds

-----------------------------------------------------------------------------
\* Between two pieces of code, the first of every queue has a timer and an interval runs:
\* no queue stands still, however animations end, are stopped and start the next.  It
\* does when a callback calls stop while timers are run, and when one throws.
QueueMoves ==
    Idle /\ ~cut /\ ~threw =>
        \A e \in Animated : Queue(e) # <<>> =>
            intervals > 0 /\ \E i \in DOMAIN timers : timers[i].anim = Queue(e)[1]

\* When its queue is done, an element is shown or hidden as was asked last.
LastEffectWins ==
    Idle /\ ~cut /\ ~threw =>
        \A e \in Animated \ removed :
            Queue(e) = <<>> /\ wanted[e] # "any" => visible[e] = (wanted[e] = "show")
=============================================================================
