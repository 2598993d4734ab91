-------------------------------- MODULE Json --------------------------------
(***************************************************************************)
(* JSON.stringify and JSON.parse of login.js, whose page sends what it has *)
(* stringified.  What indents a text, and which replacer there is, is kept *)
(* in variables that all calls share; toJSON methods and replacers belong  *)
(* to the page and may stringify something themselves, or throw.           *)
(***************************************************************************)
EXTENDS Integers, Sequences

CONSTANTS
    Values,     \* bound: what is stringified
    Spaces,     \* bound: widths of the indentation, 0 without one
    Selected,   \* a replacer that is an array of keys
    Dropped,    \* keys for which the replacer, or the reviver, has undefined
    MaxCalls    \* bound: calls of stringify and parse

Undefined == [kind |-> "undefined"]
Null == [kind |-> "null"]
Containers == {"array", "object"}
Replacers == {"none", "keys", "function"}

VARIABLES
    gap, indent, rep,   \* gap and indent: their widths
    stack,      \* calls of str and walk, the innermost first
    result,     \* history: the last text, what was asked for, and what calls inside
                \* have changed of it
    parsed,     \* history: the last value that was revived, and what became of it
    calls

vars == <<gap, indent, rep, stack, result, parsed, calls>>

NoCall == [value |-> Undefined, rep |-> "", space |-> 0]

Init ==
    /\ gap = 0 /\ indent = 0 /\ rep = "none" /\ stack = <<>>
    /\ result = [asked |-> NoCall, mixed |-> {}, text |-> Undefined]
    /\ parsed = [from |-> Undefined, got |-> Undefined]
    /\ calls = 0

-----------------------------------------------------------------------------
Top == Head(stack)
At(place) == stack # <<>> /\ Top.at = place
PageRuns == stack # <<>> => Top.at \in {"toJSON", "replacer", "reviver"}
Replace(frame) == stack' = <<frame>> \o Tail(stack)

\* str(key, holder) and walk(holder, key), of holder[key]; `asked` in the outermost call.
StrFrame(key, value, mind, asked) ==
    [at |-> "start", key |-> key, value |-> value, mind |-> mind, i |-> 1, parts |-> <<>>,
     byKeys |-> FALSE, asked |-> asked, mixed |-> {}]
WalkFrame(key, value, root) ==
    [at |-> "walk", key |-> key, value |-> value, i |-> 1, parts |-> <<>>, root |-> root,
     mixed |-> {}]

-----------------------------------------------------------------------------
(* stringify.  A call inside another leaves its own gap, indent and rep behind.  *)

\* What a call changes for those it is inside of: which parts they take, when it has another
\* replacer; how they are laid out, when it has another indentation, or they are in the
\* midst of an indented container, whose gap it makes empty even if it wants the same.
Changed(r, s) == {c \in {"parts", "layout"} :
                    IF c = "parts" THEN r # rep ELSE s # indent \/ gap # 0}
Mixed(r, s) == [k \in DOMAIN stack |-> [stack[k] EXCEPT !.mixed = @ \cup Changed(r, s)]]

StringifyOn(v, r, s) ==     \* variation: gap is left as it is
    /\ PageRuns /\ calls < MaxCalls /\ calls' = calls + 1
    /\ gap' = gap /\ indent' = s /\ rep' = r
    /\ stack' = <<StrFrame("", v, gap, [value |-> v, rep |-> r, space |-> s])>> \o Mixed(r, s)
    /\ UNCHANGED <<result, parsed>>

Stringify(v, r, s) ==
    /\ PageRuns /\ calls < MaxCalls /\ calls' = calls + 1
    /\ gap' = 0 /\ indent' = s /\ rep' = r
    /\ stack' = <<StrFrame("", v, 0, [value |-> v, rep |-> r, space |-> s])>> \o Mixed(r, s)
    /\ UNCHANGED <<result, parsed>>

\* The replacer is a number: it is refused after it was stored.
StringifyRefused(s) ==
    /\ PageRuns /\ calls < MaxCalls /\ calls' = calls + 1
    /\ gap' = 0 /\ indent' = s /\ rep' = "number"
    /\ stack' = Mixed("number", s)
    /\ UNCHANGED <<result, parsed>>

-----------------------------------------------------------------------------
(* str.                                                                         *)

CallToJSON ==
    /\ At("start")
    /\ Replace([Top EXCEPT !.at = IF Top.value.kind = "custom" THEN "toJSON" ELSE "replace"])
    /\ UNCHANGED <<gap, indent, rep, result, parsed, calls>>

ToJSONReturns ==
    /\ At("toJSON")
    /\ Replace([Top EXCEPT !.at = "replace", !.value = @.to])
    /\ UNCHANGED <<gap, indent, rep, result, parsed, calls>>

CallReplacer ==
    /\ At("replace")
    /\ Replace([Top EXCEPT !.at = IF rep = "function" THEN "replacer" ELSE "value"])
    /\ UNCHANGED <<gap, indent, rep, result, parsed, calls>>

Replaced(key, value) == IF key \in Dropped THEN Undefined ELSE value
ReplacerReturns ==
    /\ At("replacer")
    /\ Replace([Top EXCEPT !.at = "value", !.value = Replaced(Top.key, @)])
    /\ UNCHANGED <<gap, indent, rep, result, parsed, calls>>

\* A text, or undefined, is returned to whoever called str: in an array undefined is null,
\* in an object the member is left out.
Return(text) ==
    IF Top.asked # NoCall
      THEN /\ result' = [asked |-> Top.asked, mixed |-> Top.mixed, text |-> text]
           /\ stack' = Tail(stack)
      ELSE LET holder == stack[2]
               part == [key |-> Top.key, val |-> IF text = Undefined THEN Null ELSE text]
           IN  /\ stack' = <<IF text = Undefined /\ holder.value.kind = "object" THEN holder
                             ELSE [holder EXCEPT !.parts = Append(@, part)]>>
                           \o SubSeq(stack, 3, Len(stack))
               /\ UNCHANGED result

Simple ==
    /\ At("value") /\ Top.value.kind \notin Containers
    /\ Return(IF Top.value.kind = "nonfinite" THEN Null ELSE Top.value)
    /\ UNCHANGED <<gap, indent, rep, parsed, calls>>

Open ==
    /\ At("value") /\ Top.value.kind \in Containers
    /\ gap' = gap + indent
    /\ Replace([Top EXCEPT !.at = "parts",
                           !.byKeys = Top.value.kind = "object" /\ rep = "keys"])
    /\ UNCHANGED <<indent, rep, result, parsed, calls>>

Count == IF Top.byKeys THEN Len(Selected) ELSE Len(Top.value.parts)
ValueOf(key) ==
    LET found == {i \in DOMAIN Top.value.parts : Top.value.parts[i].key = key}
    IN  IF found = {} THEN Undefined ELSE Top.value.parts[CHOOSE i \in found : TRUE].val

\* The keys are read from rep, whatever it is by now; of undefined they cannot be.
Member ==
    /\ At("parts") /\ Top.i <= Count
    /\ LET next == [Top EXCEPT !.i = @ + 1]
           child(key, value) == <<StrFrame(key, value, gap, NoCall), next>> \o Tail(stack)
       IN  stack' = IF ~Top.byKeys
                      THEN child(Top.value.parts[Top.i].key, Top.value.parts[Top.i].val)
                    ELSE CASE rep = "keys" -> child(Selected[Top.i], ValueOf(Selected[Top.i]))
                           [] rep = "none" -> <<>>
                           [] OTHER -> <<next>> \o Tail(stack)
    /\ UNCHANGED <<gap, indent, rep, result, parsed, calls>>

\* With a gap, each part has a line of its own; the last line is indented by mind.
Closed(frame) ==
    LET lines == gap > 0 /\ frame.parts # <<>>
    IN  [kind |-> frame.value.kind, parts |-> frame.parts,
         gap |-> IF lines THEN gap ELSE 0, mind |-> IF lines THEN frame.mind ELSE 0]
Close ==
    /\ At("parts") /\ Top.i > Count
    /\ Return(Closed(Top))
    /\ gap' = Top.mind
    /\ UNCHANGED <<indent, rep, parsed, calls>>

-----------------------------------------------------------------------------
(* parse.                                                                       *)

\* What the text means, the result of eval; a text that str has made passes the tests.
RECURSIVE Denotes(_)
Denotes(text) ==
    IF text.kind \notin Containers THEN text
    ELSE [kind |-> text.kind,
          parts |-> [i \in DOMAIN text.parts |->
                       [key |-> text.parts[i].key, val |-> Denotes(text.parts[i].val)]]]

\* With a reviver.  Without, parse returns the value and calls nobody.
Parse ==
    /\ PageRuns /\ calls < MaxCalls /\ calls' = calls + 1
    /\ result.text # Undefined
    /\ stack' = <<WalkFrame("", Denotes(result.text), TRUE)>> \o stack
    /\ UNCHANGED <<gap, indent, rep, result, parsed>>

Walk ==
    /\ At("walk")
    /\ IF Top.value.kind \in Containers /\ Top.i <= Len(Top.value.parts)
         THEN LET part == Top.value.parts[Top.i]
              IN  stack' = <<WalkFrame(part.key, part.val, FALSE), [Top EXCEPT !.i = @ + 1]>>
                           \o Tail(stack)
         ELSE Replace([Top EXCEPT !.at = "reviver"])
    /\ UNCHANGED <<gap, indent, rep, result, parsed, calls>>

\* What the walk has left of a value.
Walked(frame) == IF frame.value.kind \in Containers
                   THEN [frame.value EXCEPT !.parts = frame.parts] ELSE frame.value

KeptAll(holder, key, value) ==      \* variation: nothing is deleted
    [holder EXCEPT !.parts = Append(@, [key |-> key, val |-> value])]

\* The reviver returns: the member is set, or deleted, which leaves a hole in an array.
Kept(holder, key, value) ==
    IF value = Undefined /\ holder.value.kind = "object" THEN holder
    ELSE [holder EXCEPT !.parts = Append(@, [key |-> key, val |-> value])]

ReviverReturns ==
    /\ At("reviver")
    /\ LET value == Replaced(Top.key, Walked(Top)) IN
       IF Top.root
         THEN /\ parsed' = [from |-> Top.value, got |-> value]
              /\ stack' = Tail(stack)
         ELSE /\ stack' = <<Kept(stack[2], Top.key, value)>> \o SubSeq(stack, 3, Len(stack))
              /\ UNCHANGED parsed
    /\ UNCHANGED <<gap, indent, rep, result, calls>>

-----------------------------------------------------------------------------
\* A function of the page throws, and every call that waits for it ends.
Throw ==
    /\ PageRuns /\ stack # <<>>
    /\ stack' = <<>>
    /\ UNCHANGED <<gap, indent, rep, result, parsed, calls>>

Next ==
    \/ \E v \in Values, r \in Replacers, s \in Spaces : Stringify(v, r, s)
    \/ \E s \in Spaces : StringifyRefused(s)
    \/ CallToJSON \/ ToJSONReturns \/ CallReplacer \/ ReplacerReturns
    \/ Simple \/ Open \/ Member \/ Close
    \/ Parse \/ Walk \/ ReviverReturns
    \/ Throw
Spec == Init /\ [][Next]_vars

-----------------------------------------------------------------------------
\* The JSON value that a value stands for.
RECURSIVE Meaning(_, _, _)
Meaning(key, given, r) ==
    LET own == IF given.kind = "custom" THEN given.to ELSE given
        value == IF r = "function" THEN Replaced(key, own) ELSE own
        parts == [i \in DOMAIN value.parts |->
                    [key |-> value.parts[i].key,
                     val |-> Meaning(value.parts[i].key, value.parts[i].val, r)]]
        part(k) == SelectSeq(parts, LAMBDA p : p.key = k)
        defined(ps) == SelectSeq(ps, LAMBDA p : p.val # Undefined)
        chosen == IF r = "keys" THEN [k \in DOMAIN Selected |-> part(Selected[k])] ELSE <<>>
        joined[k \in 0 .. Len(chosen)] == IF k = 0 THEN <<>> ELSE joined[k - 1] \o chosen[k]
    IN  CASE value.kind = "array" ->
               [kind |-> "array",
                parts |-> [i \in DOMAIN parts |->
                             IF parts[i].val = Undefined THEN [parts[i] EXCEPT !.val = Null]
                                                         ELSE parts[i]]]
          [] value.kind = "object" ->
               [kind |-> "object",
                parts |-> defined(IF r = "keys" THEN joined[Len(chosen)] ELSE parts)]
          [] value.kind = "nonfinite" -> Null
          [] OTHER -> value

\* Each container is indented by its depth, or nothing is.
RECURSIVE Indented(_, _, _)
Indented(text, mind, space) ==
    text.kind \in Containers /\ text.parts # <<>> =>
        /\ text.gap = (IF space > 0 THEN mind + space ELSE 0) /\ text.mind = mind
        /\ \A i \in DOMAIN text.parts : Indented(text.parts[i].val, mind + space, space)

\* A text means the value it was made from, after calls that threw in the midst of another
\* as well, and with calls inside it that have no other replacer, whatever they are indented
\* by.  It is laid out as was asked for if no call inside it wants another indentation, and
\* none comes in the midst of an indented container: there one that wants the same spoils
\* it (login.js:406), against what login.js:117-125 says of space.
TextIsValue ==
    /\ "parts" \notin result.mixed =>
          Denotes(result.text) = Meaning("", result.asked.value, result.asked.rep)
    /\ "layout" \notin result.mixed => Indented(result.text, 0, result.asked.space)

RECURSIVE Pruned(_)
Pruned(value) ==
    IF value.kind \notin Containers THEN value
    ELSE LET ps == [i \in DOMAIN value.parts |->
                     [key |-> value.parts[i].key,
                      val |-> Replaced(value.parts[i].key, Pruned(value.parts[i].val))]]
         IN  [value EXCEPT !.parts = IF value.kind = "array" THEN ps
                                     ELSE SelectSeq(ps, LAMBDA p : p.val # Undefined)]

\* What parse gives back is what the text means without that for which the reviver has
\* undefined, at every depth, whatever is stringified meanwhile.
RevivedThroughout == parsed.got = Pruned(parsed.from)
=============================================================================
