-------------------------------- MODULE Ajax --------------------------------
(***************************************************************************)
(* jQuery.ajax, through which the pages of bigbird talk to the server.  A  *)
(* page runs one piece of code at a time.  What can go on is the innermost *)
(* call of ajax that waits for a callback to return: the head of `stack`.  *)
(* A callback, like any handler of the page, may make requests and abort   *)
(* them, and it may throw.  An answer is noticed by an interval that polls *)
(* the request.                                                            *)
(***************************************************************************)
EXTENDS Integers, Sequences, FiniteSets

CONSTANTS
    Reqs,        \* calls of ajax
    Settings,    \* the settings they are made with
    None,        \* not called yet
    MaxThrows,   \* bound: callbacks that throw
    MaxAborts    \* bound: calls of abort

(* How a request travels: asynchronously, with a timeout or without, or         *)
(* synchronously; as JSONP from the page's own host; or as a script element,    *)
(* which another host's script or JSONP is.                                     *)
Vias == {"async", "timed", "sync", "jsonp", "script"}

ASSUME SettingsAssumption == Settings \subseteq [via : Vias, global : BOOLEAN]
ASSUME NoneAssumption == None \notin Settings
ASSUME BoundsAssumption == {MaxThrows, MaxAborts} \subseteq Nat

VARIABLES
    setting,      \* s
    ready,        \* xhr.readyState: 0 aborted, 1 opened, 4 ok or bad, as the answer is
    ival,         \* the interval that polls runs
    timer,        \* the timeout has still to come
    requestDone,
    pending,      \* the script element has been added and not loaded
    active,       \* jQuery.active
    stack,        \* calls that wait for a callback, the innermost first
    told,         \* history: the callbacks of each request, and when it was aborted
    sendThrew, threw, aborts    \* history: send threw, a callback threw, aborts so far

reqVars == <<ready, ival, timer, requestDone, pending>>
histVars == <<told, sendThrew, threw, aborts>>
vars == <<setting, reqVars, active, stack, histVars>>

Places == {"before", "sendError", "answer", "complete", "jsonpAnswer", "jsonpComplete"}
Frames == [req : Reqs, at : Places, late : BOOLEAN]
Answers == {"ok", "bad"}
ReadyStates == {"none", "opened", "aborted"} \cup Answers
Events == {"success", "error", "complete", "abort"}

TypeOK ==
    /\ setting \in [Reqs -> Settings \cup {None}]
    /\ ready \in [Reqs -> ReadyStates]
    /\ ival \in [Reqs -> BOOLEAN] /\ timer \in [Reqs -> BOOLEAN]
    /\ requestDone \in [Reqs -> BOOLEAN] /\ pending \in [Reqs -> BOOLEAN]
    /\ active \in Int /\ stack \in Seq(Frames)
    /\ told \in [Reqs -> Seq(Events)]
    /\ sendThrew \subseteq Reqs /\ threw \subseteq Reqs /\ aborts \in Nat

Init ==
    /\ setting = [r \in Reqs |-> None] /\ ready = [r \in Reqs |-> "none"]
    /\ ival = [r \in Reqs |-> FALSE] /\ timer = [r \in Reqs |-> FALSE]
    /\ requestDone = [r \in Reqs |-> FALSE] /\ pending = [r \in Reqs |-> FALSE]
    /\ active = 0 /\ stack = <<>>
    /\ told = [r \in Reqs |-> <<>>]
    /\ sendThrew = {} /\ threw = {} /\ aborts = 0

-----------------------------------------------------------------------------
Begun(r) == setting[r] # None
Via(r) == setting[r].via

Frame(r, at) == [req |-> r, at |-> at, late |-> FALSE]
AnswerFrame(r, late) == [req |-> r, at |-> "answer", late |-> late]
CompleteFrame(r, late) == [req |-> r, at |-> "complete", late |-> late]
In(r, at) == stack # <<>> /\ Head(stack).req = r /\ Head(stack).at = at
NextPlace(f) == stack' = <<f>> \o Tail(stack)
Return == stack' = Tail(stack)
Idle == stack = <<>>

Tell(r, event) == told' = [told EXCEPT ![r] = Append(@, event)]
GiveBack(r) == active' = IF setting[r].global THEN active - 1 ELSE active

-----------------------------------------------------------------------------
(* The call.  "before" is all the code of others that runs before the request   *)
(* is sent: handlers of ajaxStart and ajaxSend, and beforeSend.                 *)

Begin(r, s) ==
    /\ ~Begun(r)
    /\ setting' = [setting EXCEPT ![r] = s]
    /\ active' = IF s.global THEN active + 1 ELSE active
    /\ ready' = [ready EXCEPT ![r] = IF s.via = "script" THEN "none" ELSE "opened"]
    /\ stack' = <<Frame(r, "before")>> \o stack
    /\ UNCHANGED <<ival, timer, requestDone, pending, histVars>>

AddScript(r) ==
    /\ In(r, "before") /\ Via(r) = "script"
    /\ pending' = [pending EXCEPT ![r] = TRUE]
    /\ Return
    /\ UNCHANGED <<setting, ready, ival, timer, requestDone, active, histVars>>

RefuseQuietly(r) ==     \* variation: the request is counted for good
    /\ In(r, "before") /\ Via(r) # "script"
    /\ ready' = [ready EXCEPT ![r] = "aborted"]
    /\ Return
    /\ UNCHANGED <<setting, active, ival, timer, requestDone, pending, histVars>>

\* beforeSend returned false.
Refuse(r) ==
    /\ In(r, "before") /\ Via(r) # "script"
    /\ GiveBack(r)
    /\ ready' = [ready EXCEPT ![r] = "aborted"]
    /\ Return
    /\ UNCHANGED <<setting, ival, timer, requestDone, pending, histVars>>

StartPolling(r) ==
    /\ ival' = [ival EXCEPT ![r] = Via(r) # "sync"]
    /\ timer' = [timer EXCEPT ![r] = Via(r) = "timed"]

Send(r) ==
    /\ In(r, "before") /\ Via(r) \notin {"script", "sync"} /\ ready[r] = "opened"
    /\ StartPolling(r) /\ Return
    /\ UNCHANGED <<setting, ready, requestDone, pending, active, histVars>>

\* send throws, as it does when the request was aborted, and handleError calls error.
SendThrows(r) ==
    /\ In(r, "before") /\ Via(r) # "script"
    /\ StartPolling(r)
    /\ \/ UNCHANGED ready
       \/ ready[r] = "opened" /\ ready' = [ready EXCEPT ![r] = "bad"]
    /\ sendThrew' = sendThrew \cup {r}
    /\ Tell(r, "error") /\ NextPlace(Frame(r, "sendError"))
    /\ UNCHANGED <<setting, requestDone, pending, active, threw, aborts>>

-----------------------------------------------------------------------------
(* onreadystatechange.                                                          *)

StopPolling(r) == ival' = [ival EXCEPT ![r] = FALSE]

\* The request is over, and its success or error is called; `late` after a timeout.
Answered(r, event, late, rest) ==
    /\ requestDone' = [requestDone EXCEPT ![r] = TRUE]
    /\ Tell(r, event)
    /\ stack' = <<AnswerFrame(r, late)>> \o rest

\* A failed check of the status or the data, and "not modified", end in error.
Outcome(r) == IF ready[r] = "ok" THEN "success" ELSE "error"

\* A synchronous request has its answer when send returns.
SendSync(r) ==
    /\ In(r, "before") /\ Via(r) = "sync" /\ ready[r] = "opened"
    /\ \E a \in Answers :
         /\ ready' = [ready EXCEPT ![r] = a]
         /\ Answered(r, IF a = "ok" THEN "success" ELSE "error", FALSE, Tail(stack))
    /\ UNCHANGED <<setting, ival, timer, pending, active, sendThrew, threw, aborts>>

AfterSendError(r) ==
    /\ In(r, "sendError")
    /\ IF Via(r) = "sync" /\ ready[r] = "bad"
         THEN Answered(r, "error", FALSE, Tail(stack))
         ELSE Return /\ UNCHANGED <<requestDone, told>>
    /\ UNCHANGED <<setting, ready, ival, timer, pending, active, sendThrew, threw, aborts>>

PollKeeps(r) ==         \* variation: the interval is not cleared
    /\ Idle /\ ival[r] /\ ready[r] = "aborted"
    /\ GiveBack(r)
    /\ UNCHANGED <<setting, ready, ival, timer, requestDone, pending, stack, histVars>>

PollAborted(r) ==
    /\ Idle /\ ival[r] /\ ready[r] = "aborted"
    /\ StopPolling(r) /\ GiveBack(r)
    /\ UNCHANGED <<setting, ready, timer, requestDone, pending, stack, histVars>>

PollDone(r) ==
    /\ Idle /\ ival[r] /\ ready[r] \in Answers
    /\ ~(Via(r) = "jsonp" /\ ready[r] = "ok")
    /\ StopPolling(r) /\ Answered(r, Outcome(r), FALSE, <<>>)
    /\ UNCHANGED <<setting, ready, timer, pending, active, sendThrew, threw, aborts>>

\* httpData evaluates the answer, a call of the function made for it.
PollJsonp(r) ==
    /\ Idle /\ ival[r] /\ Via(r) = "jsonp" /\ ready[r] = "ok"
    /\ StopPolling(r)
    /\ requestDone' = [requestDone EXCEPT ![r] = TRUE]
    /\ Tell(r, "success") /\ stack' = <<Frame(r, "jsonpAnswer")>>
    /\ UNCHANGED <<setting, ready, timer, pending, active, sendThrew, threw, aborts>>

TimeOutAgain(r) ==      \* variation: requestDone is not looked at
    /\ Idle /\ timer[r]
    /\ timer' = [timer EXCEPT ![r] = FALSE]
    /\ StopPolling(r) /\ Answered(r, "error", TRUE, <<>>)
    /\ UNCHANGED <<setting, ready, pending, active, sendThrew, threw, aborts>>

TimeOut(r) ==
    /\ Idle /\ timer[r]
    /\ timer' = [timer EXCEPT ![r] = FALSE]
    /\ CASE requestDone[r] -> UNCHANGED <<requestDone, ival, told, stack, active>>
         [] ~requestDone[r] /\ ready[r] = "aborted" ->
              /\ IF ival[r] THEN StopPolling(r) /\ GiveBack(r) ELSE UNCHANGED <<ival, active>>
              /\ UNCHANGED <<requestDone, told, stack>>
         [] OTHER -> StopPolling(r) /\ Answered(r, "error", TRUE, <<>>) /\ UNCHANGED active
    /\ UNCHANGED <<setting, ready, pending, sendThrew, threw, aborts>>

ScriptLoaded(r) ==
    /\ Idle /\ pending[r]
    /\ pending' = [pending EXCEPT ![r] = FALSE]
    /\ Answered(r, "success", FALSE, <<>>)
    /\ UNCHANGED <<setting, ready, ival, timer, active, sendThrew, threw, aborts>>

-----------------------------------------------------------------------------
(* success, error and complete have returned.                                   *)

AfterAnswer(r) ==
    /\ In(r, "answer")
    /\ Tell(r, "complete") /\ NextPlace(CompleteFrame(r, Head(stack).late))
    /\ UNCHANGED <<setting, reqVars, active, sendThrew, threw, aborts>>

AfterComplete(r) ==
    /\ In(r, "complete")
    /\ GiveBack(r) /\ Return
    /\ ready' = IF Head(stack).late THEN [ready EXCEPT ![r] = "aborted"] ELSE ready
    /\ UNCHANGED <<setting, ival, timer, requestDone, pending, histVars>>

\* The function made for JSONP calls success and complete; then ajax calls complete.
AfterJsonpAnswer(r) ==
    /\ In(r, "jsonpAnswer")
    /\ Tell(r, "complete") /\ NextPlace(Frame(r, "jsonpComplete"))
    /\ UNCHANGED <<setting, reqVars, active, sendThrew, threw, aborts>>

AfterJsonpComplete(r) ==
    /\ In(r, "jsonpComplete")
    /\ GiveBack(r)
    /\ Tell(r, "complete") /\ NextPlace(Frame(r, "complete"))
    /\ UNCHANGED <<setting, reqVars, sendThrew, threw, aborts>>

\* A callback throws, and the call that waits for it ends.  What an evaluated script
\* throws goes no further than the script.
Throw(r) ==
    /\ \E at \in Places : In(r, at)
    /\ Cardinality(threw) < MaxThrows
    /\ threw' = threw \cup {r}
    /\ IF Head(stack).at \in {"jsonpAnswer", "jsonpComplete"}
         THEN Tell(r, "complete") /\ NextPlace(Frame(r, "complete"))
         ELSE Return /\ UNCHANGED told
    /\ UNCHANGED <<setting, reqVars, active, sendThrew, aborts>>

-----------------------------------------------------------------------------
(* abort, which changes nothing once the request is done; and the server.       *)

Abort(r) ==
    /\ ready[r] \in {"opened"} \cup Answers /\ ~requestDone[r] /\ aborts < MaxAborts
    /\ ready' = [ready EXCEPT ![r] = "aborted"]
    /\ Tell(r, "abort") /\ aborts' = aborts + 1
    /\ UNCHANGED <<setting, ival, timer, requestDone, pending, active, stack, sendThrew, threw>>

Respond(r) ==
    /\ ready[r] = "opened" /\ ival[r] /\ r \notin sendThrew
    /\ \E a \in Answers : ready' = [ready EXCEPT ![r] = a]
    /\ UNCHANGED <<setting, ival, timer, requestDone, pending, active, stack, histVars>>

-----------------------------------------------------------------------------
Poll(r) == PollAborted(r) \/ PollDone(r) \/ PollJsonp(r)
Continue(r) == \/ AddScript(r) \/ Refuse(r) \/ Send(r) \/ SendThrows(r) \/ SendSync(r)
               \/ AfterSendError(r) \/ AfterAnswer(r) \/ AfterComplete(r)
               \/ AfterJsonpAnswer(r) \/ AfterJsonpComplete(r)
Step(r) == \/ \E s \in Settings : Begin(r, s)
           \/ Continue(r) \/ Throw(r)
           \/ Poll(r) \/ TimeOut(r) \/ ScriptLoaded(r)
           \/ Abort(r) \/ Respond(r)
Next == \E r \in Reqs : Step(r)

Spec == Init /\ [][Next]_vars

\* Callbacks return, intervals and timeouts come; nothing has to be requested, and the
\* server need not answer.
Fairness == \A r \in Reqs : WF_vars(Continue(r)) /\ WF_vars(Poll(r)) /\ WF_vars(TimeOut(r))
FairSpec == Spec /\ Fairness

-----------------------------------------------------------------------------
Waiting(r) == \E i \in DOMAIN stack : stack[i].req = r
UnderWay(r) == Waiting(r) \/ ival[r] \/ pending[r]

\* jQuery.active is what its comment says, the number of active queries, however requests
\* are nested, aborted, refused and timed out.  It is not once a callback has thrown, a
\* synchronous send has, or JSONP came from the page's own host.
Uncounted(r) == \/ r \in threw
                \/ r \in sendThrew /\ Via(r) = "sync"
                \/ Begun(r) /\ Via(r) = "jsonp"
ActiveCounts ==
    (\A r \in Reqs : ~Uncounted(r)) =>
        active = Cardinality({r \in Reqs : Begun(r) /\ setting[r].global /\ UnderWay(r)})

\* A request is answered once, by success or by error, complete follows, and after an
\* abort nothing does: poll, timeout, abort and callbacks in any order.
Stories == {<<>>, <<"success">>, <<"success", "complete">>,
            <<"error">>, <<"error", "complete">>, <<"abort">>}
OneAnswer ==
    \A r \in Reqs : told[r] \in Stories \/ r \in sendThrew \/ (Begun(r) /\ Via(r) = "jsonp")

\* A request that was answered, aborted, or has a timeout, is not polled for ever.
PollingEnds ==
    \A r \in Reqs : ival[r] /\ (ready[r] # "opened" \/ timer[r]) ~> ~ival[r]

-----------------------------------------------------------------------------
(* Inductive strengthening, for the proofs.                                     *)

Regular(r) == r \notin sendThrew /\ ~(Begun(r) /\ Via(r) = "jsonp")

\* What was told says how far a request is.
Answering == {<<"success">>, <<"error">>}
AnswerTold == Answering \cup {<<"success", "complete">>, <<"error", "complete">>}
ToldFits(r) ==
    IF requestDone[r] THEN told[r] \in AnswerTold
    ELSE told[r] = <<>> \/ (told[r] = <<"abort">> /\ ready[r] = "aborted")

\* Nothing that can still answer a request is left once it was answered.
NotYet(r) ==
    /\ ival[r] \/ pending[r] => ~requestDone[r]
    /\ ~(ival[r] /\ pending[r])
    /\ pending[r] => ready[r] = "none"
    /\ Begun(r) => (Via(r) = "script" <=> ready[r] = "none")
    /\ timer[r] => Via(r) = "timed"

\* There is nothing of a request before the call.
Untouched(r) == /\ ready[r] = "none" /\ told[r] = <<>>
                /\ ~ival[r] /\ ~timer[r] /\ ~requestDone[r] /\ ~pending[r]

\* Each request waits in one place, and the place fits what was told.
OneFrame == \A i, j \in DOMAIN stack : stack[i].req = stack[j].req => i = j
PlaceFits(f) ==
    /\ Begun(f.req)
    /\ Regular(f.req) =>
         /\ f.at \in {"before", "answer", "complete"}
         /\ f.at = "before" <=> ~requestDone[f.req]
         /\ f.at = "before" => ~pending[f.req] /\ ~timer[f.req] /\ ~ival[f.req]
         /\ f.at = "answer" => told[f.req] \in Answering
         /\ f.late => Via(f.req) = "timed"
FramesFit == \A i \in DOMAIN stack : PlaceFits(stack[i])
StoryInv == /\ OneFrame /\ FramesFit
            /\ \A r \in Reqs : Begun(r) \/ Untouched(r)
            /\ \A r \in Reqs : Regular(r) => ToldFits(r) /\ NotYet(r)

\* Where a counted request is, and so whether an answer, an abort or the end of complete
\* is the one that gives it back.
At(r, at) == \E i \in DOMAIN stack : stack[i].req = r /\ stack[i].at = at
Counted(r) ==
    /\ pending[r] => Via(r) = "script" /\ ~requestDone[r]
    /\ ival[r] => Via(r) \notin {"script", "sync"} /\ ~requestDone[r]
    /\ timer[r] => Via(r) = "timed" /\ (ival[r] \/ requestDone[r] \/ ready[r] = "aborted")
    /\ ~At(r, "jsonpAnswer") /\ ~At(r, "jsonpComplete")
    /\ At(r, "before") => ~pending[r] /\ ~ival[r] /\ ~timer[r] /\ ~requestDone[r]
    /\ At(r, "sendError") => ival[r]
    /\ At(r, "answer") \/ At(r, "complete") => requestDone[r]
CountInv == /\ \A r \in sendThrew : Begun(r)
            /\ \A r \in Reqs : Begun(r) /\ ~Uncounted(r) => Counted(r)
=============================================================================
