---------------------------- MODULE ElementData ----------------------------
(***************************************************************************)
(* What jQuery's events and effects share: the cache of data per element,  *)
(* and the calls that wait for a function of the page to return.  A page   *)
(* runs one piece of code at a time, and a handler or a callback may do    *)
(* whatever other code of the page may do: bind, trigger, stop, remove.    *)
(***************************************************************************)
EXTENDS Integers, Sequences, FiniteSets

CONSTANTS
    Elems,      \* elements of the page
    None        \* no data

VARIABLES
    cache,      \* jQuery.cache: element -> None, or the data under each name it has
    removed,    \* elements taken out of the tree
    stack,      \* waiting calls, the innermost first
    threw       \* history: a function of the page, or jQuery itself, threw

-----------------------------------------------------------------------------
(* data and removeData, on one element's entry of the cache.                    *)

Data(entry, name) == IF entry # None /\ name \in DOMAIN entry THEN entry[name] ELSE None

\* Asking for data makes an entry too.
Touched(entry) == IF entry = None THEN <<>> ELSE entry

WithData(entry, name, value) ==
    [n \in DOMAIN Touched(entry) \cup {name} |->
        IF n = name THEN value ELSE entry[n]]

\* The entry goes with the last of its data.
WithoutData(entry, name) ==
    LET left == DOMAIN Touched(entry) \ {name}
    IN  IF left = {} THEN None ELSE [n \in left |-> entry[n]]

-----------------------------------------------------------------------------
(* Waiting calls.                                                               *)

Idle == stack = <<>>
Top == Head(stack)
TopIs(call) == ~Idle /\ Top.call = call
Push(frame) == <<frame>> \o stack
Replace(frame) == <<frame>> \o Tail(stack)
Pop == Tail(stack)

\* What is thrown ends every call, up to the browser's of a listener; the browser goes on
\* to the next listener.
Unwound ==
    LET first == stack[Len(stack)] IN
    IF first.call = "event" /\ first.native
      THEN <<[first EXCEPT !.paused = FALSE, !.due = {}, !.over = TRUE]>> ELSE <<>>

\* A function of the page runs: one that jQuery has called, or any other.
PageRuns == ~Idle => Top.paused
=============================================================================
