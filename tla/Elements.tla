------------------------------ MODULE Elements ------------------------------
(***************************************************************************)
(* Events and effects of the same elements.  Both keep what they know in   *)
(* the element's data, which remove takes away, and the functions of the   *)
(* page that either calls may use the other.                               *)
(***************************************************************************)
EXTENDS Events, Effects

CONSTANTS
    Unbindings,     \* bound: the <<element, list of types>> that handlers are removed from
    Removable,      \* bound: elements that are removed
    MaxActs         \* bound: calls of jQuery the page makes, and throws

DataNames == {"events", "fxqueue", "olddisplay"}
DataValues == EventMaps \cup Seq(Nat) \cup {"shown", "none"}

ASSUME ElementsAssumption ==
    Animated \cup Removable \subseteq Elems /\ Bindable \subseteq Elems \X Types
ASSUME NoneIsNoData ==
    None \notin DataValues /\ \A ns \in SUBSET DataNames : None \notin [ns -> DataValues]

VARIABLES
    touched,        \* history: removed elements that the page used again
    acts            \* history: calls and throws so far

vars == <<cache, removed, stack, threw, eventVars, fxVars, touched, acts>>

TypeOK ==
    /\ \A e \in Elems :
         /\ cache[e] = None \/ DOMAIN cache[e] \subseteq DataNames
         /\ EventsOf(cache[e]) \in EventMaps
         /\ \A i \in DOMAIN Queue(e) : anims[Queue(e)[i]].elem = e
    /\ \A k \in DOMAIN stack : \/ stack[k] \in EventFrames \cup ReadyFrames
                               \/ stack[k] \in CompleteFrames \cup LoopFrames
    /\ \A i \in DOMAIN anims : anims[i] \in Anims
    /\ \A i \in DOMAIN timers : timers[i] \in Timers /\ timers[i].anim \in DOMAIN anims
    /\ intervals \in Nat /\ timerLive \in BOOLEAN /\ (timerLive => intervals > 0)

Init ==
    /\ cache = [e \in Elems |-> None] /\ removed = {} /\ stack = <<>> /\ threw = FALSE
    /\ EventsInit /\ EffectsInit
    /\ touched = {} /\ acts = 0

-----------------------------------------------------------------------------
\* One call of jQuery by the page, about the element e.
Use(e) == \/ EventAct(e) /\ UNCHANGED fxVars
          \/ /\ \E u \in Unbindings : u[1] = e /\ \E hs \in {{h} : h \in Handlers} \cup {Handlers} :
                    Unbind(e, u[2], hs)
             /\ UNCHANGED fxVars
          \/ (\E u \in Unbindings : u[1] = e) /\ UnbindAll(e) /\ UNCHANGED fxVars
          \/ EffectAct(e) /\ UNCHANGED eventVars

Throw ==
    /\ ~Idle /\ PageRuns
    /\ threw' = TRUE /\ stack' = Unwound
    /\ UNCHANGED <<cache, removed, eventVars, fxVars, touched>>

Act ==
    /\ acts < MaxActs /\ acts' = acts + 1
    /\ \/ \E e \in Elems : Use(e) /\ touched' = IF e \in removed THEN touched \cup {e} ELSE touched
       \/ \E e \in Removable : Remove(e) /\ UNCHANGED <<fxVars, touched>>
       \/ \E f \in ReadyFns : AskReady(f) /\ UNCHANGED <<fxVars, touched>>
       \/ Throw

Step == /\ \/ EventStep /\ UNCHANGED fxVars
           \/ EffectStep /\ UNCHANGED eventVars
        /\ UNCHANGED <<touched, acts>>

Next == Act \/ Step
Spec == Init /\ [][Next]_vars

-----------------------------------------------------------------------------
\* An element that was removed, while its handlers run or while it moves, keeps no handler,
\* no listener and no queue, and what still ends on it begins nothing.
RemovedIsForgotten ==
    \A e \in removed \ touched :
        listening[e] = {} /\ EventsOf(cache[e]) = <<>> /\ Queue(e) = <<>>
=============================================================================
