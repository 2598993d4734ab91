----------------------------- MODULE AjaxProofs -----------------------------
(***************************************************************************)
(* For any number of requests, with any settings, a request is answered at *)
(* most once, its callbacks are called in order, and the requests under    *)
(* way are counted.                                                        *)
(***************************************************************************)
EXTENDS Ajax, FiniteSetTheorems, TLAPS

\* Two things told.
LEMMA Appended == \A a \in Events, b \in Events : Append(<<a>>, b) = <<a, b>>
  <1> TAKE a \in Events, b \in Events
  <1> DEFINE s == Append(<<a>>, b)
  <1>1. <<a>> \in Seq(Events) /\ Len(<<a>>) = 1
    OBVIOUS
  <1>2. s \in Seq(Events) /\ Len(s) = 2 /\ s[1] = a /\ s[2] = b
    BY <1>1
  <1> HIDE DEF s
  <1>3. s = <<a, b>>
    BY <1>2
  <1> QED BY <1>3 DEF s

\* A sequence with one more element in front.
LEMMA InFront ==
    ASSUME NEW S, NEW s \in Seq(S), NEW f \in S
    PROVE  /\ <<f>> \o s \in Seq(S) /\ (<<f>> \o s)[1] = f
           /\ DOMAIN (<<f>> \o s) = 1 .. Len(s) + 1
           /\ \A i \in DOMAIN (<<f>> \o s) :
                i = 1 \/ (i # 1 /\ i - 1 \in DOMAIN s /\ (<<f>> \o s)[i] = s[i - 1])
  OBVIOUS

-----------------------------------------------------------------------------
(* Types.                                                                       *)

\* Setting a flag or the readyState of one request.
LEMMA TypedFlags ==
    ASSUME TypeOK, NEW r \in Reqs
    PROVE  /\ \A b \in BOOLEAN : /\ [ival EXCEPT ![r] = b] \in [Reqs -> BOOLEAN]
                                /\ [timer EXCEPT ![r] = b] \in [Reqs -> BOOLEAN]
                                /\ [requestDone EXCEPT ![r] = b] \in [Reqs -> BOOLEAN]
                                /\ [pending EXCEPT ![r] = b] \in [Reqs -> BOOLEAN]
           /\ \A a \in ReadyStates : [ready EXCEPT ![r] = a] \in [Reqs -> ReadyStates]
           /\ GiveBack(r) => active' \in Int
  BY DEF TypeOK, ReadyStates, GiveBack

\* Telling, and taking from the stack and putting there.
LEMMA TypedStack ==
    ASSUME TypeOK, NEW r \in Reqs
    PROVE  /\ \A e \in Events : [told EXCEPT ![r] = Append(@, e)] \in [Reqs -> Seq(Events)]
           /\ stack # <<>> => Tail(stack) \in Seq(Frames) /\ Head(stack) \in Frames
           /\ \A f \in Frames : <<f>> \o stack \in Seq(Frames) /\ <<f>> \in Seq(Frames)
           /\ \A f \in Frames : <<f>> \o <<>> \in Seq(Frames)
           /\ stack # <<>> => \A f \in Frames : <<f>> \o Tail(stack) \in Seq(Frames)
           /\ \A at \in Places : Frame(r, at) \in Frames
           /\ \A b \in BOOLEAN : AnswerFrame(r, b) \in Frames /\ CompleteFrame(r, b) \in Frames
  <1>1. told[r] \in Seq(Events) /\ stack \in Seq(Frames)
    BY DEF TypeOK
  <1>2. \A e \in Events : [told EXCEPT ![r] = Append(@, e)] \in [Reqs -> Seq(Events)]
    BY <1>1 DEF TypeOK
  <1>3. /\ stack # <<>> => Tail(stack) \in Seq(Frames) /\ Head(stack) \in Frames
        /\ \A f \in Frames : <<f>> \o stack \in Seq(Frames) /\ <<f>> \in Seq(Frames)
        /\ \A f \in Frames : <<f>> \o <<>> \in Seq(Frames)
        /\ stack # <<>> => \A f \in Frames : <<f>> \o Tail(stack) \in Seq(Frames)
    BY <1>1
  <1>4. /\ \A at \in Places : Frame(r, at) \in Frames
        /\ \A b \in BOOLEAN : AnswerFrame(r, b) \in Frames /\ CompleteFrame(r, b) \in Frames
    BY DEF Frame, AnswerFrame, CompleteFrame, Frames, Places
  <1> QED BY <1>2, <1>3, <1>4

\* An answer keeps the types.
LEMMA TypedAnswer ==
    ASSUME TypeOK, NEW r \in Reqs, NEW e \in Events, NEW late \in BOOLEAN,
           NEW rest \in Seq(Frames), Answered(r, e, late, rest)
    PROVE  /\ stack' \in Seq(Frames) /\ told' \in [Reqs -> Seq(Events)]
           /\ requestDone' \in [Reqs -> BOOLEAN]
  <1>1. <<AnswerFrame(r, late)>> \o rest \in Seq(Frames)
    <2>1. AnswerFrame(r, late) \in Frames
      BY TypedStack
    <2> QED BY <2>1
  <1>2. [told EXCEPT ![r] = Append(@, e)] \in [Reqs -> Seq(Events)]
    BY TypedStack
  <1>3. [requestDone EXCEPT ![r] = TRUE] \in [Reqs -> BOOLEAN]
    BY TypedFlags
  <1> QED BY <1>1, <1>2, <1>3 DEF Answered, Tell

\* No step breaks the types.
LEMMA TypeStep == TypeOK /\ [Next]_vars => TypeOK'
  <1> SUFFICES ASSUME TypeOK, [Next]_vars PROVE TypeOK'
    OBVIOUS
  <1> USE DEF Events, Answers, reqVars, histVars
  <1>1. CASE UNCHANGED vars
    BY <1>1 DEF TypeOK, vars
  <1>2. CASE Next
    <2>1. PICK r \in Reqs : Step(r)
      BY <1>2 DEF Next
    <2>2. CASE \E s \in Settings : Begin(r, s)
      <3>1. <<Frame(r, "before")>> \o stack \in Seq(Frames)
        BY TypedStack DEF Places
      <3>2. PICK s \in Settings : Begin(r, s)
        BY <2>2
      <3> QED BY <3>1, <3>2, TypedFlags DEF Begin, ReadyStates, TypeOK
    <2>3. CASE AddScript(r)
      BY <2>3, TypedFlags, TypedStack DEF AddScript, In, Return, TypeOK
    <2>4. CASE Refuse(r)
      BY <2>4, TypedFlags, TypedStack DEF Refuse, In, Return, ReadyStates, TypeOK
    <2>5. CASE Send(r)
      BY <2>5, TypedFlags, TypedStack DEF Send, StartPolling, In, Return, TypeOK
    <2>6. CASE SendThrows(r)
      <3>1. stack' \in Seq(Frames) /\ told' \in [Reqs -> Seq(Events)]
        BY <2>6, TypedStack DEF SendThrows, Tell, NextPlace, In, Places
      <3> QED BY <2>6, <3>1, TypedFlags DEF SendThrows, StartPolling, ReadyStates, TypeOK
    <2>7. CASE SendSync(r)
      <3>1. PICK a \in Answers :
              /\ ready' = [ready EXCEPT ![r] = a]
              /\ Answered(r, IF a = "ok" THEN "success" ELSE "error", FALSE, Tail(stack))
        BY <2>7 DEF SendSync
      <3>2. Tail(stack) \in Seq(Frames)
        BY <2>7, TypedStack DEF SendSync, In
      <3>3. (IF a = "ok" THEN "success" ELSE "error") \in Events
        OBVIOUS
      <3>4. /\ stack' \in Seq(Frames) /\ told' \in [Reqs -> Seq(Events)]
            /\ requestDone' \in [Reqs -> BOOLEAN]
        BY <3>1, <3>2, <3>3, TypedAnswer
      <3>5. ready' \in [Reqs -> ReadyStates]
        BY <3>1, TypedFlags DEF ReadyStates
      <3> QED BY <2>7, <3>4, <3>5 DEF SendSync, TypeOK
    <2>8. CASE AfterSendError(r)
      <3>1. Tail(stack) \in Seq(Frames)
        BY <2>8, TypedStack DEF AfterSendError, In
      <3>2. /\ stack' \in Seq(Frames) /\ told' \in [Reqs -> Seq(Events)]
            /\ requestDone' \in [Reqs -> BOOLEAN]
        <4>1. CASE Answered(r, "error", FALSE, Tail(stack))
          BY <3>1, <4>1, TypedAnswer
        <4>2. CASE Return /\ UNCHANGED <<requestDone, told>>
          BY <3>1, <4>2 DEF Return, TypeOK
        <4> QED BY <2>8, <4>1, <4>2 DEF AfterSendError
      <3> QED BY <2>8, <3>2 DEF AfterSendError, TypeOK
    <2>9. CASE AfterAnswer(r)
      <3>1. stack # <<>> /\ Head(stack) \in Frames /\ Head(stack).late \in BOOLEAN
        BY <2>9, TypedStack DEF AfterAnswer, In, Frames
      <3>2. stack' \in Seq(Frames) /\ told' \in [Reqs -> Seq(Events)]
        BY <3>1, <2>9, TypedStack DEF AfterAnswer, Tell, NextPlace
      <3> QED BY <2>9, <3>2 DEF AfterAnswer, TypeOK
    <2>10. CASE AfterComplete(r)
      BY <2>10, TypedFlags, TypedStack DEF AfterComplete, In, Return, ReadyStates, TypeOK
    <2>11. CASE AfterJsonpAnswer(r)
      <3>1. stack' \in Seq(Frames) /\ told' \in [Reqs -> Seq(Events)]
        BY <2>11, TypedStack DEF AfterJsonpAnswer, Tell, NextPlace, In, Places
      <3> QED BY <2>11, <3>1 DEF AfterJsonpAnswer, TypeOK
    <2>12. CASE AfterJsonpComplete(r)
      <3>1. stack' \in Seq(Frames) /\ told' \in [Reqs -> Seq(Events)]
        BY <2>12, TypedStack DEF AfterJsonpComplete, Tell, NextPlace, In, Places
      <3> QED BY <2>12, <3>1, TypedFlags DEF AfterJsonpComplete, TypeOK
    <2>13. CASE Throw(r)
      <3>1. stack' \in Seq(Frames) /\ told' \in [Reqs -> Seq(Events)]
        BY <2>13, TypedStack DEF Throw, In, Tell, NextPlace, Return, Places, TypeOK
      <3> QED BY <2>13, <3>1 DEF Throw, TypeOK
    <2>14. CASE PollAborted(r)
      BY <2>14, TypedFlags DEF PollAborted, StopPolling, TypeOK
    <2>15. CASE PollDone(r)
      <3>1. Outcome(r) \in Events /\ <<>> \in Seq(Frames)
        BY DEF Outcome
      <3>2. /\ stack' \in Seq(Frames) /\ told' \in [Reqs -> Seq(Events)]
            /\ requestDone' \in [Reqs -> BOOLEAN]
        BY <2>15, <3>1, TypedAnswer DEF PollDone
      <3> QED BY <2>15, <3>2, TypedFlags DEF PollDone, StopPolling, TypeOK
    <2>16. CASE PollJsonp(r)
      <3>1. stack' \in Seq(Frames) /\ told' \in [Reqs -> Seq(Events)]
        BY <2>16, TypedStack DEF PollJsonp, Tell, Places
      <3> QED BY <2>16, <3>1, TypedFlags DEF PollJsonp, StopPolling, TypeOK
    <2>17. CASE TimeOut(r)
      <3>1. <<>> \in Seq(Frames)
        OBVIOUS
      <3>2. CASE requestDone[r] \/ ready[r] = "aborted"
        <4>1. active' \in Int
          BY <2>17, <3>2, TypedFlags DEF TimeOut, TypeOK
        <4>2. ival' \in [Reqs -> BOOLEAN]
          <5>1. UNCHANGED ival \/ StopPolling(r)
            BY <2>17, <3>2 DEF TimeOut
          <5> QED BY <5>1, TypedFlags DEF StopPolling, TypeOK
        <4>3. timer' \in [Reqs -> BOOLEAN]
          BY <2>17, TypedFlags DEF TimeOut
        <4>4. UNCHANGED <<setting, ready, requestDone, pending, told, stack, sendThrew, threw, aborts>>
          BY <2>17, <3>2 DEF TimeOut
        <4> QED BY <4>1, <4>2, <4>3, <4>4 DEF TypeOK
      <3>3. CASE ~requestDone[r] /\ ready[r] # "aborted"
        <4>1. StopPolling(r) /\ Answered(r, "error", TRUE, <<>>) /\ UNCHANGED active
          BY <2>17, <3>3 DEF TimeOut
        <4>2. /\ stack' \in Seq(Frames) /\ told' \in [Reqs -> Seq(Events)]
              /\ requestDone' \in [Reqs -> BOOLEAN]
          BY <3>1, <4>1, TypedAnswer
        <4>3. ival' \in [Reqs -> BOOLEAN] /\ timer' \in [Reqs -> BOOLEAN]
          BY <2>17, <4>1, TypedFlags DEF TimeOut, StopPolling
        <4> QED BY <2>17, <4>1, <4>2, <4>3 DEF TimeOut, TypeOK
      <3> QED BY <3>2, <3>3
    <2>18. CASE ScriptLoaded(r)
      <3>1. <<>> \in Seq(Frames)
        OBVIOUS
      <3>2. /\ stack' \in Seq(Frames) /\ told' \in [Reqs -> Seq(Events)]
            /\ requestDone' \in [Reqs -> BOOLEAN]
        BY <2>18, <3>1, TypedAnswer DEF ScriptLoaded
      <3> QED BY <2>18, <3>2, TypedFlags DEF ScriptLoaded, TypeOK
    <2>19. CASE Abort(r)
      <3>1. told' \in [Reqs -> Seq(Events)]
        BY <2>19, TypedStack DEF Abort, Tell
      <3>2. ready' \in [Reqs -> ReadyStates]
        BY <2>19, TypedFlags DEF Abort, ReadyStates
      <3>3. aborts' \in Nat
        BY <2>19 DEF Abort, TypeOK
      <3> QED BY <2>19, <3>1, <3>2, <3>3 DEF Abort, TypeOK
    <2>20. CASE Respond(r)
      BY <2>20, TypedFlags DEF Respond, ReadyStates, TypeOK
    <2> QED BY <2>1, <2>2, <2>3, <2>4, <2>5, <2>6, <2>7, <2>8, <2>9, <2>10, <2>11, <2>12,
               <2>13, <2>14, <2>15, <2>16, <2>17, <2>18, <2>19, <2>20
               DEF Step, Continue, Poll
  <1> QED BY <1>1, <1>2

\* A readyState, the interval, the timeout and the stack of waiting calls are always one of
\* the values that the code of ajax gives them.
THEOREM TypeCorrect == Spec => []TypeOK
  <1>1. Init => TypeOK
    BY DEF Init, TypeOK, ReadyStates
  <1> QED BY <1>1, TypeStep, PTL DEF Spec

-----------------------------------------------------------------------------
(* The story of a request.                                                      *)

\* What a step of one request leaves of the others.
Same(q) ==
    /\ setting'[q] = setting[q] /\ ready'[q] = ready[q] /\ ival'[q] = ival[q]
    /\ timer'[q] = timer[q] /\ requestDone'[q] = requestDone[q] /\ pending'[q] = pending[q]
    /\ told'[q] = told[q] /\ (q \in sendThrew' <=> q \in sendThrew)
OnlyOf(r) ==
    \A j \in DOMAIN stack' : stack'[j].req = r \/ \E i \in DOMAIN stack : stack'[j] = stack[i]

\* The innermost call ends.
LEMMA Popped ==
    ASSUME TypeOK, OneFrame, stack # <<>>, Return
    PROVE  /\ OneFrame' /\ OnlyOf(Head(stack).req)
           /\ \A j \in DOMAIN stack' : stack'[j].req # Head(stack).req
  <1>1. stack \in Seq(Frames)
    BY DEF TypeOK
  <1>2. /\ Head(stack) = stack[1] /\ 1 \in DOMAIN stack
        /\ \A i \in DOMAIN Tail(stack) :
             i \in Nat /\ i # 0 /\ i + 1 \in DOMAIN stack /\ Tail(stack)[i] = stack[i + 1]
    BY <1>1
  <1>3. \A j \in DOMAIN stack' : j + 1 \in DOMAIN stack /\ stack'[j] = stack[j + 1]
    BY <1>2 DEF Return
  <1>4. \A j \in DOMAIN stack' : stack'[j].req # Head(stack).req
    <2> TAKE j \in DOMAIN stack'
    <2>1. j + 1 # 1 /\ j + 1 \in DOMAIN stack /\ stack'[j] = stack[j + 1]
      BY <1>2, <1>3 DEF Return
    <2> QED BY <2>1, <1>2 DEF OneFrame
  <1>5. OneFrame'
    <2> SUFFICES ASSUME NEW i \in DOMAIN stack', NEW j \in DOMAIN stack',
                        stack'[i].req = stack'[j].req
                 PROVE  i = j
      BY DEF OneFrame
    <2>1. i + 1 = j + 1
      BY <1>3 DEF OneFrame
    <2>2. i \in Nat /\ j \in Nat
      BY <1>2 DEF Return
    <2> QED BY <2>1, <2>2
  <1> QED BY <1>3, <1>4, <1>5 DEF OnlyOf

\* A call starts, innermost, for a request that waits nowhere.
LEMMA Pushed ==
    ASSUME TypeOK, OneFrame, NEW f \in Frames, stack' = <<f>> \o stack,
           \A i \in DOMAIN stack : stack[i].req # f.req
    PROVE  /\ OneFrame' /\ OnlyOf(f.req)
           /\ \A j \in DOMAIN stack' : stack'[j].req = f.req => stack'[j] = f
  <1>1. stack \in Seq(Frames)
    BY DEF TypeOK
  <1>2. /\ stack'[1] = f
        /\ \A j \in DOMAIN stack' :
             j \in Nat /\ (j # 1 => j - 1 \in DOMAIN stack /\ stack'[j] = stack[j - 1])
    BY <1>1, InFront
  <1>3. \A j \in DOMAIN stack' : j # 1 => stack'[j].req # f.req
    BY <1>2
  <1>4. OneFrame'
    <2> SUFFICES ASSUME NEW i \in DOMAIN stack', NEW j \in DOMAIN stack',
                        stack'[i].req = stack'[j].req
                 PROVE  i = j
      BY DEF OneFrame
    <2>1. CASE i = 1 \/ j = 1
      BY <2>1, <1>2, <1>3
    <2>2. CASE i # 1 /\ j # 1
      <3>1. i - 1 = j - 1
        BY <2>2, <1>2 DEF OneFrame
      <3> QED BY <3>1, <1>2
    <2> QED BY <2>1, <2>2
  <1>5. OnlyOf(f.req)
    BY <1>2 DEF OnlyOf
  <1>6. \A j \in DOMAIN stack' : stack'[j].req = f.req => stack'[j] = f
    BY <1>2, <1>3
  <1> QED BY <1>4, <1>5, <1>6

\* The innermost call goes on to the next callback of its request.
LEMMA Replaced ==
    ASSUME TypeOK, OneFrame, stack # <<>>, NEW f \in Frames, f.req = Head(stack).req,
           stack' = <<f>> \o Tail(stack)
    PROVE  /\ OneFrame' /\ OnlyOf(f.req)
           /\ \A j \in DOMAIN stack' : stack'[j].req = f.req => stack'[j] = f
  <1>1. stack \in Seq(Frames)
    BY DEF TypeOK
  <1>2. /\ Head(stack) = stack[1] /\ 1 \in DOMAIN stack
        /\ \A j \in DOMAIN (<<f>> \o Tail(stack)) :
             j \in Nat /\ (j # 1 => j \in DOMAIN stack /\ (<<f>> \o Tail(stack))[j] = stack[j])
        /\ (<<f>> \o Tail(stack))[1] = f
    BY <1>1
  <1>3. \A j \in DOMAIN stack' : j # 1 => j \in DOMAIN stack /\ stack'[j] = stack[j]
    BY <1>2
  <1>4. \A j \in DOMAIN stack' : j # 1 => stack'[j].req # f.req
    BY <1>2, <1>3 DEF OneFrame
  <1>5. OneFrame'
    <2> SUFFICES ASSUME NEW i \in DOMAIN stack', NEW j \in DOMAIN stack',
                        stack'[i].req = stack'[j].req
                 PROVE  i = j
      BY DEF OneFrame
    <2>1. CASE i = 1 \/ j = 1
      BY <2>1, <1>2, <1>4
    <2>2. CASE i # 1 /\ j # 1
      BY <2>2, <1>3 DEF OneFrame
    <2> QED BY <2>1, <2>2
  <1>6. OnlyOf(f.req)
    BY <1>2, <1>3 DEF OnlyOf
  <1> QED BY <1>2, <1>4, <1>5, <1>6

\* A stack that stays is one of these, too.
LEMMA Kept ==
    ASSUME OneFrame, UNCHANGED stack, NEW r
    PROVE  OneFrame' /\ OnlyOf(r)
  BY DEF OneFrame, OnlyOf

\* It is enough to look at the request that a step is of.
LEMMA Others ==
    ASSUME TypeOK, StoryInv, NEW r \in Reqs, TypeOK',
           \A q \in Reqs : q # r => Same(q),
           OneFrame', OnlyOf(r),
           \A j \in DOMAIN stack' : stack'[j].req = r => (PlaceFits(stack[j]))',
           Begun(r)', Regular(r)' => ToldFits(r)' /\ NotYet(r)'
    PROVE  StoryInv'
  <1>1. \A q \in Reqs : q # r => /\ Begun(q)' <=> Begun(q)
                                 /\ Via(q)' = Via(q)
                                 /\ Regular(q)' <=> Regular(q)
    BY DEF Same, Begun, Via, Regular
  <1>2. FramesFit'
    <2> SUFFICES ASSUME NEW j \in DOMAIN stack' PROVE (PlaceFits(stack[j]))'
      BY DEF FramesFit
    <2>1. CASE stack'[j].req # r
      <3>1. PICK i \in DOMAIN stack : stack'[j] = stack[i]
        BY <2>1 DEF OnlyOf
      <3>2. PlaceFits(stack[i]) /\ stack[i].req \in Reqs
        <4>1. stack[i] \in Frames
          BY DEF TypeOK
        <4> QED BY <4>1 DEF StoryInv, FramesFit, Frames
      <3>3. Same(stack[i].req)
        BY <2>1, <3>1, <3>2
      <3> QED BY <1>1, <2>1, <3>1, <3>2, <3>3 DEF PlaceFits, Same
    <2>2. CASE stack'[j].req = r
      BY <2>2
    <2> QED BY <2>1, <2>2
  <1>3. \A q \in Reqs : Regular(q)' => ToldFits(q)' /\ NotYet(q)'
    <2> SUFFICES ASSUME NEW q \in Reqs, Regular(q)' PROVE ToldFits(q)' /\ NotYet(q)'
      OBVIOUS
    <2>1. CASE q = r
      BY <2>1
    <2>2. CASE q # r
      <3>1. ToldFits(q) /\ NotYet(q) /\ Same(q)
        BY <1>1, <2>2 DEF StoryInv
      <3> QED BY <1>1, <2>2, <3>1 DEF ToldFits, NotYet, Same
    <2> QED BY <2>1, <2>2
  <1>4. \A q \in Reqs : Begun(q)' \/ Untouched(q)'
    <2> SUFFICES ASSUME NEW q \in Reqs, q # r PROVE Begun(q)' \/ Untouched(q)'
      OBVIOUS
    <2>1. Same(q) /\ (Begun(q) \/ Untouched(q))
      BY DEF StoryInv
    <2> QED BY <1>1, <2>1 DEF Untouched, Same
  <1> QED BY <1>2, <1>3, <1>4 DEF StoryInv

\* What the innermost call says of its request, and what idleness says.
LEMMA Innermost ==
    ASSUME TypeOK, StoryInv, NEW r \in Reqs, NEW at \in Places, In(r, at)
    PROVE  /\ stack # <<>> /\ Head(stack) \in Frames /\ PlaceFits(Head(stack))
           /\ Head(stack).req = r /\ Head(stack).at = at
  <1>1. stack \in Seq(Frames) /\ stack # <<>>
    BY DEF TypeOK, In
  <1>2. Head(stack) = stack[1] /\ 1 \in DOMAIN stack /\ Head(stack) \in Frames
    BY <1>1
  <1> QED BY <1>1, <1>2 DEF In, StoryInv, FramesFit

\* The waiting calls of a request that has not begun, or of an idle page, are none.
LEMMA NotWaiting ==
    ASSUME TypeOK, StoryInv, NEW r \in Reqs, ~Begun(r) \/ Idle
    PROVE  \A i \in DOMAIN stack : stack[i].req # r
  <1>1. Idle => DOMAIN stack = {}
    BY DEF Idle
  <1> QED BY <1>1 DEF StoryInv, FramesFit, PlaceFits

\* Whatever a step is of has begun.
LEMMA StepOfBegun ==
    ASSUME TypeOK, StoryInv, NEW r \in Reqs, Step(r)
    PROVE  (\E s \in Settings : Begin(r, s)) \/ (Begun(r) /\ UNCHANGED setting)
  <1>1. Begun(r) \/ Untouched(r)
    BY DEF StoryInv
  <1>2. \A at \in Places : In(r, at) => Begun(r)
    BY Innermost DEF PlaceFits
  <1>3. CASE Continue(r) \/ Throw(r)
    <2>1. Begun(r)
      BY <1>2, <1>3 DEF Continue, Throw, AddScript, Refuse, Send, SendThrows, SendSync,
         AfterSendError, AfterAnswer, AfterComplete, AfterJsonpAnswer, AfterJsonpComplete, Places
    <2>2. UNCHANGED setting
      BY <1>3 DEF Continue, Throw, AddScript, Refuse, Send, SendThrows, SendSync,
         AfterSendError, AfterAnswer, AfterComplete, AfterJsonpAnswer, AfterJsonpComplete
    <2> QED BY <2>1, <2>2
  <1>4. CASE Poll(r) \/ TimeOut(r) \/ ScriptLoaded(r)
    BY <1>1, <1>4 DEF Poll, PollAborted, PollDone, PollJsonp, TimeOut, ScriptLoaded, Untouched
  <1>5. CASE Abort(r) \/ Respond(r)
    BY <1>1, <1>5 DEF Abort, Respond, Untouched, Answers
  <1> QED BY <1>3, <1>4, <1>5 DEF Step

\* No step breaks the story.
LEMMA StoryStep == TypeOK /\ TypeOK' /\ StoryInv /\ [Next]_vars => StoryInv'
  <1> SUFFICES ASSUME TypeOK, TypeOK', StoryInv, [Next]_vars PROVE StoryInv'
    OBVIOUS
  <1>1. CASE UNCHANGED vars
    BY <1>1 DEF vars, reqVars, histVars, StoryInv, OneFrame, FramesFit, PlaceFits, Regular,
                Begun, Via, ToldFits, NotYet, Untouched
  <1>2. CASE Next
    <2>1. PICK r \in Reqs : Step(r)
      BY <1>2 DEF Next
    <2> DEFINE Fits == \A j \in DOMAIN stack' : stack'[j].req = r => (PlaceFits(stack[j]))'
               Tells == Regular(r)' => ToldFits(r)' /\ NotYet(r)'
               Rest == \A q \in Reqs : q # r => Same(q)
    <2>0. Begun(r)'
      <3>1. CASE \E s \in Settings : Begin(r, s)
        BY <3>1, NoneAssumption DEF Begun, Begin, TypeOK
      <3>2. CASE Begun(r) /\ UNCHANGED setting
        BY <3>2 DEF Begun
      <3> QED BY <2>1, <3>1, <3>2, StepOfBegun
    <2>2. SUFFICES Rest /\ OneFrame' /\ OnlyOf(r) /\ Fits /\ Tells
      BY <2>0, Others
    <2>3. StoryInv => OneFrame
      BY DEF StoryInv
    <2>4. Regular(r) => ToldFits(r) /\ NotYet(r)
      BY DEF StoryInv
    <2>5. CASE \E s \in Settings : Begin(r, s)
      <3>1. PICK s \in Settings : Begin(r, s)
        BY <2>5
      <3>2. \A i \in DOMAIN stack : stack[i].req # r
        BY <3>1, NotWaiting DEF Begin
      <3>3. Frame(r, "before") \in Frames
        BY TypedStack DEF Places
      <3>4. /\ OneFrame' /\ OnlyOf(r)
            /\ \A j \in DOMAIN stack' : stack'[j].req = r => stack'[j] = Frame(r, "before")
        BY <3>1, <3>2, <3>3, <2>3, Pushed DEF Begin, Frame
      <3>5. /\ setting'[r] = s /\ s # None
            /\ ready'[r] = IF s.via = "script" THEN "none" ELSE "opened"
            /\ UNCHANGED <<ival, timer, requestDone, pending, told, sendThrew>>
        BY <3>1, NoneAssumption DEF Begin, TypeOK, histVars
      <3>6. Rest
        BY <3>1, <3>5 DEF Begin, Same, TypeOK
      <3>7. Regular(r)' => /\ Regular(r) /\ told[r] = <<>> /\ ~requestDone[r]
                           /\ ~timer[r] /\ ~ival[r] /\ ~pending[r] /\ ready[r] = "none"
        BY <3>1, <3>5, <2>4 DEF Begin, Regular, Begun, Untouched, StoryInv
      <3>8. Fits
        BY <3>4, <3>5, <3>7 DEF PlaceFits, Begun, Regular, Frame
      <3>9. Tells
        BY <3>5, <3>7, <2>4 DEF ToldFits, NotYet, Begun, Via
      <3> QED BY <3>4, <3>6, <3>8, <3>9
    <2>6. CASE AddScript(r)
      <3>1. /\ In(r, "before") /\ stack # <<>> /\ Return
            /\ Head(stack).req = r /\ Head(stack).at = "before" /\ PlaceFits(Head(stack))
        BY <2>6, Innermost DEF AddScript, Places, In
      <3>2. /\ OneFrame' /\ OnlyOf(r)
            /\ \A j \in DOMAIN stack' : stack'[j].req # r
        BY <3>1, <2>3, Popped
      <3>3. Rest
        BY <2>6 DEF AddScript, Same, TypeOK, histVars
      <3>4. Tells
        BY <2>6, <3>1, <2>4 DEF AddScript, PlaceFits, ToldFits, NotYet, Regular, Begun, Via, TypeOK, histVars
      <3> QED BY <3>2, <3>3, <3>4
    <2>7. CASE Refuse(r)
      <3>1. /\ In(r, "before") /\ stack # <<>> /\ Return
            /\ Head(stack).req = r /\ Head(stack).at = "before" /\ PlaceFits(Head(stack))
        BY <2>7, Innermost DEF Refuse, Places, In
      <3>2. /\ OneFrame' /\ OnlyOf(r)
            /\ \A j \in DOMAIN stack' : stack'[j].req # r
        BY <3>1, <2>3, Popped
      <3>3. Rest
        BY <2>7 DEF Refuse, Same, TypeOK, histVars
      <3>4. Tells
        BY <2>7, <3>1, <2>4 DEF Refuse, PlaceFits, ToldFits, NotYet, Regular, Begun, Via, TypeOK, histVars
      <3> QED BY <3>2, <3>3, <3>4
    <2>8. CASE Send(r)
      <3>1. /\ In(r, "before") /\ stack # <<>> /\ Return
            /\ Head(stack).req = r /\ Head(stack).at = "before" /\ PlaceFits(Head(stack))
        BY <2>8, Innermost DEF Send, Places, In
      <3>2. /\ OneFrame' /\ OnlyOf(r)
            /\ \A j \in DOMAIN stack' : stack'[j].req # r
        BY <3>1, <2>3, Popped
      <3>3. Rest
        BY <2>8 DEF Send, Same, TypeOK, histVars, StartPolling
      <3>4. Tells
        BY <2>8, <3>1, <2>4 DEF Send, PlaceFits, ToldFits, NotYet, Regular, Begun, Via, TypeOK, histVars, StartPolling
      <3> QED BY <3>2, <3>3, <3>4
    <2>9. CASE SendThrows(r)
      <3> DEFINE f == Frame(r, "sendError")
      <3>1. /\ stack # <<>> /\ stack' = <<f>> \o Tail(stack) /\ Head(stack) \in Frames
            /\ Head(stack).req = r /\ Head(stack).at = "before" /\ PlaceFits(Head(stack))
        BY <2>9, Innermost DEF SendThrows, Places, NextPlace, Answered, In
      <3>2. f \in Frames /\ f.req = r
        BY <3>1, TypedStack DEF Frames, Places, Frame
      <3> HIDE DEF f
      <3>3. /\ OneFrame' /\ OnlyOf(r)
            /\ \A j \in DOMAIN stack' : stack'[j].req = r => stack'[j] = f
        BY <3>1, <3>2, <2>3, Replaced
      <3>4. Rest
        BY <2>9 DEF SendThrows, Same, TypeOK, Tell, Answered, StartPolling
      <3>5. ~Regular(r)' /\ Begun(r)'
        BY <2>9, <3>1 DEF SendThrows, PlaceFits, Regular, Begun
      <3>6. Fits
        BY <3>2, <3>3, <3>5 DEF PlaceFits
      <3> QED BY <3>3, <3>4, <3>5, <3>6
    <2>10. CASE SendSync(r)
      <3>1. PICK a \in Answers :
              /\ ready' = [ready EXCEPT ![r] = a]
              /\ Answered(r, IF a = "ok" THEN "success" ELSE "error", FALSE, Tail(stack))
        BY <2>10 DEF SendSync
      <3> DEFINE f == AnswerFrame(r, FALSE)
      <3>2. /\ stack # <<>> /\ stack' = <<f>> \o Tail(stack)
            /\ Head(stack).req = r /\ Head(stack).at = "before" /\ PlaceFits(Head(stack))
        BY <2>10, <3>1, Innermost DEF SendSync, Places, Answered, In
      <3>3. f \in Frames /\ f.req = r /\ f.at = "answer" /\ f.late = FALSE
        BY TypedStack DEF AnswerFrame
      <3> HIDE DEF f
      <3>4. /\ OneFrame' /\ OnlyOf(r)
            /\ \A j \in DOMAIN stack' : stack'[j].req = r => stack'[j] = f
        BY <3>2, <3>3, <2>3, Replaced
      <3>5. Rest
        BY <2>10, <3>1 DEF SendSync, Same, TypeOK, Tell, Answered
      <3>6. /\ Begun(r)' /\ setting'[r] = setting[r] /\ (Regular(r)' => Regular(r))
            /\ ready[r] = "opened" /\ ready'[r] # "none" /\ ready'[r] # "aborted"
            /\ UNCHANGED <<ival, timer, pending>> /\ requestDone'[r]
        BY <2>10, <3>1, <3>2 DEF SendSync, Answered, PlaceFits, Regular, Begun, Via, TypeOK, Answers
      <3>7. Regular(r)' => told'[r] \in Answering
        <4>1. Regular(r)' => told[r] = <<>>
          BY <3>2, <3>6, <2>4 DEF PlaceFits, ToldFits
        <4> QED BY <3>1, <4>1 DEF Answered, Tell, Answering, TypeOK
      <3>8. Fits
        BY <3>3, <3>4, <3>6, <3>7 DEF PlaceFits
      <3>9. Tells
        BY <3>2, <3>6, <3>7, <2>4 DEF PlaceFits, ToldFits, NotYet, AnswerTold, Begun, Via
      <3> QED BY <3>4, <3>5, <3>8, <3>9
    <2>11. CASE AfterSendError(r)
      <3>1. /\ stack # <<>> /\ Head(stack).req = r /\ Head(stack).at = "sendError"
            /\ PlaceFits(Head(stack))
        BY <2>11, Innermost DEF AfterSendError, Places
      <3>2. ~Regular(r)' /\ Begun(r)'
        BY <2>11, <3>1 DEF AfterSendError, PlaceFits, Regular, Begun, Via
      <3>3. Rest
        BY <2>11 DEF AfterSendError, Same, TypeOK, Tell, Answered
      <3>4. CASE Return
        BY <3>1, <3>2, <3>3, <3>4, <2>3, Popped
      <3>5. CASE Answered(r, "error", FALSE, Tail(stack))
        <4> DEFINE f == AnswerFrame(r, FALSE)
        <4>1. f \in Frames /\ f.req = r
          BY TypedStack DEF AnswerFrame
        <4>2. stack' = <<f>> \o Tail(stack)
          BY <3>5 DEF Answered
        <4> HIDE DEF f
        <4>3. /\ OneFrame' /\ OnlyOf(r)
              /\ \A j \in DOMAIN stack' : stack'[j].req = r => stack'[j] = f
          BY <3>1, <4>1, <4>2, <2>3, Replaced
        <4>4. Fits
          BY <3>2, <4>1, <4>3 DEF PlaceFits
        <4> QED BY <3>2, <3>3, <4>3, <4>4
      <3> QED BY <2>11, <3>4, <3>5 DEF AfterSendError
    <2>12. CASE PollAborted(r)
      <3>1. \A i \in DOMAIN stack : stack[i].req # r
        BY <2>12, NotWaiting DEF PollAborted
      <3>2. OneFrame' /\ OnlyOf(r) /\ Fits
        BY <2>12, <3>1, <2>3, Kept DEF PollAborted
      <3>3. Rest
        BY <2>12 DEF PollAborted, Same, TypeOK, histVars, StopPolling
      <3>4. Tells
        BY <2>12, <2>4 DEF PollAborted, ToldFits, NotYet, Regular, Begun, Via, TypeOK, histVars, StopPolling
      <3> QED BY <3>2, <3>3, <3>4
    <2>13. CASE PollDone(r)
      <3>1. Answered(r, Outcome(r), FALSE, <<>>) /\ stack = <<>>
        BY <2>13 DEF PollDone, Idle
      <3> DEFINE f == AnswerFrame(r, FALSE)
      <3>2. f \in Frames /\ f.req = r /\ f.at = "answer" /\ f.late = FALSE
        BY TypedStack DEF AnswerFrame
      <3>3. stack' = <<f>> \o stack
        BY <3>1 DEF Answered
      <3> HIDE DEF f
      <3>4. /\ OneFrame' /\ OnlyOf(r)
            /\ \A j \in DOMAIN stack' : stack'[j].req = r => stack'[j] = f
        BY <3>1, <3>2, <3>3, <2>3, Pushed
      <3>5. Rest
        BY <2>13, <3>1 DEF PollDone, Same, TypeOK, Tell, Answered, StopPolling
      <3>6. /\ requestDone'[r] /\ setting'[r] = setting[r] /\ ready'[r] = ready[r]
            /\ timer'[r] => timer[r]
            /\ Regular(r)' => Regular(r) /\ told[r] = <<>> /\ ~ival'[r] /\ ~pending'[r]
        <4>1. /\ requestDone'[r] /\ setting'[r] = setting[r] /\ ready'[r] = ready[r]
              /\ timer'[r] => timer[r]
          BY <2>13, <3>1 DEF PollDone, Answered, TypeOK
        <4>2. Regular(r)' => Regular(r)
          BY <2>13 DEF PollDone, Regular, Begun, Via
        <4>3. Regular(r) => told[r] = <<>> /\ ~ival'[r] /\ ~pending'[r]
          <5>1. ival[r] /\ ready[r] # "aborted" /\ ~ival'[r] /\ UNCHANGED pending
            BY <2>13 DEF PollDone, Answers, StopPolling, TypeOK
          <5> QED BY <5>1, <2>4 DEF ToldFits, NotYet
        <4> QED BY <4>1, <4>2, <4>3
      <3>7. Regular(r)' => told'[r] \in Answering
        BY <3>1, <3>6 DEF Answered, Tell, Answering, Outcome, TypeOK
      <3>8. Fits
        BY <2>0, <3>2, <3>4, <3>6, <3>7 DEF PlaceFits
      <3>9. Tells
        BY <3>6, <3>7, <2>4 DEF ToldFits, NotYet, AnswerTold, Begun, Via
      <3> QED BY <3>4, <3>5, <3>8, <3>9
    <2>14. CASE PollJsonp(r)
      <3> DEFINE f == Frame(r, "jsonpAnswer")
      <3>1. f \in Frames /\ f.req = r
        BY TypedStack DEF Frame, Places
      <3>2. stack' = <<f>> \o stack /\ stack = <<>>
        BY <2>14, <3>1 DEF PollJsonp, Idle
      <3> HIDE DEF f
      <3>3. /\ OneFrame' /\ OnlyOf(r)
            /\ \A j \in DOMAIN stack' : stack'[j].req = r => stack'[j] = f
        BY <3>1, <3>2, <2>3, Pushed
      <3>4. Rest
        BY <2>14 DEF PollJsonp, Same, TypeOK, Tell, StopPolling
      <3>5. ~Regular(r)' /\ Begun(r)'
        BY <2>0, <2>14 DEF PollJsonp, Regular, Begun, Via
      <3>6. Fits
        BY <3>1, <3>3, <3>5 DEF PlaceFits
      <3> QED BY <3>3, <3>4, <3>5, <3>6
    <2>15. CASE TimeOut(r) /\ (requestDone[r] \/ ready[r] = "aborted")
      <3>1. \A i \in DOMAIN stack : stack[i].req # r
        BY <2>15, NotWaiting DEF TimeOut
      <3>2. OneFrame' /\ OnlyOf(r) /\ Fits
        BY <2>15, <3>1, <2>3, Kept DEF TimeOut
      <3>3. /\ Rest
            /\ ival'[r] => ival[r]
            /\ timer'[r] => timer[r]
            /\ UNCHANGED <<setting, ready, requestDone, pending, told, sendThrew>>
        BY <2>15 DEF TimeOut, Same, TypeOK, StopPolling
      <3>4. Tells
        BY <3>3, <2>4 DEF ToldFits, NotYet, Regular, Begun, Via
      <3> QED BY <3>2, <3>3, <3>4
    <2>16. CASE TimeOut(r) /\ ~requestDone[r] /\ ready[r] # "aborted"
      <3>1. Answered(r, "error", TRUE, <<>>) /\ stack = <<>>
        BY <2>16 DEF TimeOut, Idle
      <3> DEFINE f == AnswerFrame(r, TRUE)
      <3>2. f \in Frames /\ f.req = r /\ f.at = "answer" /\ f.late = TRUE
        BY TypedStack DEF AnswerFrame
      <3>3. stack' = <<f>> \o stack
        BY <3>1 DEF Answered
      <3> HIDE DEF f
      <3>4. /\ OneFrame' /\ OnlyOf(r)
            /\ \A j \in DOMAIN stack' : stack'[j].req = r => stack'[j] = f
        BY <3>1, <3>2, <3>3, <2>3, Pushed
      <3>5. Rest
        BY <2>16, <3>1 DEF TimeOut, Same, TypeOK, Tell, Answered, StopPolling
      <3>6. /\ requestDone'[r] /\ setting'[r] = setting[r] /\ ready'[r] = ready[r]
            /\ timer'[r] => timer[r]
            /\ Regular(r)' => Regular(r) /\ told[r] = <<>> /\ ~ival'[r] /\ ~pending'[r] /\ Via(r) = "timed"
        <4>1. /\ requestDone'[r] /\ setting'[r] = setting[r] /\ ready'[r] = ready[r]
              /\ timer'[r] => timer[r]
          BY <2>16, <3>1 DEF TimeOut, Answered, TypeOK
        <4>2. Regular(r)' => Regular(r)
          BY <2>16 DEF TimeOut, Regular, Begun, Via
        <4>3. Regular(r) => told[r] = <<>> /\ ~ival'[r] /\ ~pending'[r] /\ Via(r) = "timed"
          <5>1. /\ timer[r] /\ ~requestDone[r] /\ ready[r] # "aborted"
                /\ ~ival'[r] /\ UNCHANGED pending
            BY <2>16 DEF TimeOut, StopPolling, TypeOK
          <5>2. Begun(r)
            BY <5>1 DEF StoryInv, Untouched
          <5> QED BY <5>1, <5>2, <2>4 DEF ToldFits, NotYet
        <4> QED BY <4>1, <4>2, <4>3
      <3>7. Regular(r)' => told'[r] \in Answering
        BY <3>1, <3>6 DEF Answered, Tell, Answering, Outcome, TypeOK
      <3>8. Fits
        BY <2>0, <3>2, <3>4, <3>6, <3>7 DEF PlaceFits, Via
      <3>9. Tells
        BY <3>6, <3>7, <2>4 DEF ToldFits, NotYet, AnswerTold, Begun, Via
      <3> QED BY <3>4, <3>5, <3>8, <3>9
    <2>17. CASE ScriptLoaded(r)
      <3>1. Answered(r, "success", FALSE, <<>>) /\ stack = <<>>
        BY <2>17 DEF ScriptLoaded, Idle
      <3> DEFINE f == AnswerFrame(r, FALSE)
      <3>2. f \in Frames /\ f.req = r /\ f.at = "answer" /\ f.late = FALSE
        BY TypedStack DEF AnswerFrame
      <3>3. stack' = <<f>> \o stack
        BY <3>1 DEF Answered
      <3> HIDE DEF f
      <3>4. /\ OneFrame' /\ OnlyOf(r)
            /\ \A j \in DOMAIN stack' : stack'[j].req = r => stack'[j] = f
        BY <3>1, <3>2, <3>3, <2>3, Pushed
      <3>5. Rest
        BY <2>17, <3>1 DEF ScriptLoaded, Same, TypeOK, Tell, Answered
      <3>6. /\ requestDone'[r] /\ setting'[r] = setting[r] /\ ready'[r] = ready[r]
            /\ timer'[r] => timer[r]
            /\ Regular(r)' => Regular(r) /\ told[r] = <<>> /\ ~ival'[r] /\ ~pending'[r]
        <4>1. /\ requestDone'[r] /\ setting'[r] = setting[r] /\ ready'[r] = ready[r]
              /\ timer'[r] => timer[r]
          BY <2>17, <3>1 DEF ScriptLoaded, Answered, TypeOK
        <4>2. Regular(r)' => Regular(r)
          BY <2>17 DEF ScriptLoaded, Regular, Begun, Via
        <4>3. Regular(r) => told[r] = <<>> /\ ~ival'[r] /\ ~pending'[r]
          <5>1. pending[r] /\ ~pending'[r] /\ UNCHANGED ival
            BY <2>17 DEF ScriptLoaded, TypeOK
          <5> QED BY <5>1, <2>4 DEF ToldFits, NotYet
        <4> QED BY <4>1, <4>2, <4>3
      <3>7. Regular(r)' => told'[r] \in Answering
        BY <3>1, <3>6 DEF Answered, Tell, Answering, Outcome, TypeOK
      <3>8. Fits
        BY <2>0, <3>2, <3>4, <3>6, <3>7 DEF PlaceFits
      <3>9. Tells
        BY <3>6, <3>7, <2>4 DEF ToldFits, NotYet, AnswerTold, Begun, Via
      <3> QED BY <3>4, <3>5, <3>8, <3>9
    <2>18. CASE AfterAnswer(r)
      <3> DEFINE f == CompleteFrame(r, Head(stack).late)
      <3>1. /\ stack # <<>> /\ stack' = <<f>> \o Tail(stack) /\ Head(stack) \in Frames
            /\ Head(stack).req = r /\ Head(stack).at = "answer" /\ PlaceFits(Head(stack))
        BY <2>18, Innermost DEF AfterAnswer, Places, NextPlace, Answered, In
      <3>2. f \in Frames /\ f.req = r
        BY <3>1, TypedStack DEF Frames, Places, CompleteFrame
      <3> HIDE DEF f
      <3>3. /\ OneFrame' /\ OnlyOf(r)
            /\ \A j \in DOMAIN stack' : stack'[j].req = r => stack'[j] = f
        BY <3>1, <3>2, <2>3, Replaced
      <3>4. Rest
        BY <2>18 DEF AfterAnswer, Same, TypeOK, Tell, Answered, reqVars
      <3>5. f.at = "complete" /\ f.late = Head(stack).late
        BY DEF f, CompleteFrame
      <3>6. /\ UNCHANGED <<setting, ready, ival, timer, requestDone, pending, sendThrew>>
            /\ told'[r] = Append(told[r], "complete")
        BY <2>18 DEF AfterAnswer, reqVars, Tell, TypeOK
      <3>7. Fits
        BY <3>1, <3>2, <3>3, <3>5, <3>6 DEF PlaceFits, Regular, Begun, Via
      <3>8. Tells
        <4>1. told[r] \in Answering => told'[r] \in AnswerTold
          BY <3>6, Appended DEF Answering, AnswerTold, Events
        <4> QED BY <3>1, <3>6, <4>1, <2>4 DEF PlaceFits, ToldFits, NotYet, Regular, Begun, Via
      <3> QED BY <3>3, <3>4, <3>7, <3>8
    <2>19. CASE AfterComplete(r)
      <3>1. /\ In(r, "complete") /\ stack # <<>> /\ Return
            /\ Head(stack).req = r /\ Head(stack).at = "complete" /\ PlaceFits(Head(stack))
        BY <2>19, Innermost DEF AfterComplete, Places, In
      <3>2. /\ OneFrame' /\ OnlyOf(r)
            /\ \A j \in DOMAIN stack' : stack'[j].req # r
        BY <3>1, <2>3, Popped
      <3>3. Rest
        BY <2>19 DEF AfterComplete, Same, TypeOK, histVars
      <3>4. Tells
        BY <2>19, <3>1, <2>4 DEF AfterComplete, PlaceFits, ToldFits, NotYet, Regular, Begun, Via, TypeOK, histVars
      <3> QED BY <3>2, <3>3, <3>4
    <2>20. CASE AfterJsonpAnswer(r)
      <3> DEFINE f == Frame(r, "jsonpComplete")
      <3>1. /\ stack # <<>> /\ stack' = <<f>> \o Tail(stack) /\ Head(stack) \in Frames
            /\ Head(stack).req = r /\ Head(stack).at = "jsonpAnswer" /\ PlaceFits(Head(stack))
        BY <2>20, Innermost DEF AfterJsonpAnswer, Places, NextPlace, Answered, In
      <3>2. f \in Frames /\ f.req = r
        BY <3>1, TypedStack DEF Frames, Places, Frame
      <3> HIDE DEF f
      <3>3. /\ OneFrame' /\ OnlyOf(r)
            /\ \A j \in DOMAIN stack' : stack'[j].req = r => stack'[j] = f
        BY <3>1, <3>2, <2>3, Replaced
      <3>4. Rest
        BY <2>20 DEF AfterJsonpAnswer, Same, TypeOK, Tell, Answered, reqVars
      <3>5. ~Regular(r)' /\ Begun(r)'
        BY <2>20, <3>1 DEF AfterJsonpAnswer, PlaceFits, Regular, Begun, Via, reqVars
      <3>6. Fits
        BY <3>2, <3>3, <3>5 DEF PlaceFits
      <3> QED BY <3>3, <3>4, <3>5, <3>6
    <2>21. CASE AfterJsonpComplete(r)
      <3> DEFINE f == Frame(r, "complete")
      <3>1. /\ stack # <<>> /\ stack' = <<f>> \o Tail(stack) /\ Head(stack) \in Frames
            /\ Head(stack).req = r /\ Head(stack).at = "jsonpComplete" /\ PlaceFits(Head(stack))
        BY <2>21, Innermost DEF AfterJsonpComplete, Places, NextPlace, Answered, In
      <3>2. f \in Frames /\ f.req = r
        BY <3>1, TypedStack DEF Frames, Places, Frame
      <3> HIDE DEF f
      <3>3. /\ OneFrame' /\ OnlyOf(r)
            /\ \A j \in DOMAIN stack' : stack'[j].req = r => stack'[j] = f
        BY <3>1, <3>2, <2>3, Replaced
      <3>4. Rest
        BY <2>21 DEF AfterJsonpComplete, Same, TypeOK, Tell, Answered, reqVars
      <3>5. ~Regular(r)' /\ Begun(r)'
        BY <2>21, <3>1 DEF AfterJsonpComplete, PlaceFits, Regular, Begun, Via, reqVars
      <3>6. Fits
        BY <3>2, <3>3, <3>5 DEF PlaceFits
      <3> QED BY <3>3, <3>4, <3>5, <3>6
    <2>22. CASE Throw(r)
      <3>1. PICK at \in Places : In(r, at)
        BY <2>22 DEF Throw
      <3>2. /\ stack # <<>> /\ Head(stack).req = r /\ PlaceFits(Head(stack))
        BY <3>1, Innermost
      <3>3. /\ Rest
            /\ UNCHANGED <<setting, ready, ival, timer, requestDone, pending, sendThrew>>
        BY <2>22 DEF Throw, Same, TypeOK, reqVars, Tell
      <3>4. CASE Head(stack).at \in {"jsonpAnswer", "jsonpComplete"}
        <4> DEFINE f == Frame(r, "complete")
        <4>1. f \in Frames /\ f.req = r
          BY TypedStack DEF Frame, Places
        <4>2. stack' = <<f>> \o Tail(stack)
          BY <2>22, <3>4 DEF Throw, NextPlace
        <4> HIDE DEF f
        <4>3. /\ OneFrame' /\ OnlyOf(r)
              /\ \A j \in DOMAIN stack' : stack'[j].req = r => stack'[j] = f
          BY <3>2, <4>1, <4>2, <2>3, Replaced
        <4>4. ~Regular(r)' /\ Begun(r)'
          BY <3>2, <3>3, <3>4 DEF PlaceFits, Regular, Begun, Via
        <4>5. Fits
          BY <4>1, <4>3, <4>4 DEF PlaceFits
        <4> QED BY <3>3, <4>3, <4>4, <4>5
      <3>5. CASE Head(stack).at \notin {"jsonpAnswer", "jsonpComplete"}
        <4>1. Return /\ UNCHANGED told
          BY <2>22, <3>5 DEF Throw
        <4>2. /\ OneFrame' /\ OnlyOf(r)
              /\ \A j \in DOMAIN stack' : stack'[j].req # r
          BY <3>2, <4>1, <2>3, Popped
        <4>3. Tells
          BY <3>3, <4>1, <2>4 DEF ToldFits, NotYet, Regular, Begun, Via
        <4> QED BY <3>3, <4>2, <4>3
      <3> QED BY <3>4, <3>5
    <2>23. CASE Abort(r)
      <3>1. OneFrame' /\ OnlyOf(r)
        BY <2>23, <2>3, Kept DEF Abort
      <3>2. Rest
        BY <2>23 DEF Abort, Same, TypeOK, Tell
      <3>3. /\ UNCHANGED <<setting, ival, timer, requestDone, pending, stack, sendThrew>>
            /\ ready'[r] = "aborted" /\ ready[r] \notin {"none", "aborted"} /\ ~requestDone[r]
            /\ told'[r] = Append(told[r], "abort")
        BY <2>23 DEF Abort, Answers, Tell, TypeOK
      <3>4. Fits
        <4> SUFFICES ASSUME NEW j \in DOMAIN stack, stack[j].req = r PROVE (PlaceFits(stack[j]))'
          BY <3>3
        <4>1. PlaceFits(stack[j])
          BY DEF StoryInv, FramesFit
        <4> QED BY <3>3, <4>1 DEF PlaceFits, Regular, Begun, Via
      <3>5. Tells
        <4>1. Regular(r) => told[r] = <<>>
          BY <3>3, <2>4 DEF ToldFits
        <4>2. Regular(r) => told'[r] = <<"abort">>
          <5>1. Append(<<>>, "abort") = <<"abort">>
            OBVIOUS
          <5> QED BY <3>3, <4>1, <5>1
        <4> QED BY <3>3, <4>2, <2>4 DEF ToldFits, NotYet, Regular, Begun, Via
      <3> QED BY <3>1, <3>2, <3>4, <3>5
    <2>24. CASE Respond(r)
      <3>1. OneFrame' /\ OnlyOf(r)
        BY <2>24, <2>3, Kept DEF Respond
      <3>2. Rest
        BY <2>24 DEF Respond, Same, TypeOK, histVars
      <3>3. /\ UNCHANGED <<setting, ival, timer, requestDone, pending, told, stack, sendThrew>>
            /\ ready[r] = "opened" /\ ready'[r] \notin {"none", "aborted"}
        BY <2>24 DEF Respond, Answers, histVars, TypeOK
      <3>4. Fits
        <4> SUFFICES ASSUME NEW j \in DOMAIN stack, stack[j].req = r PROVE (PlaceFits(stack[j]))'
          BY <3>3
        <4>1. PlaceFits(stack[j])
          BY DEF StoryInv, FramesFit
        <4> QED BY <3>3, <4>1 DEF PlaceFits, Regular, Begun, Via
      <3>5. Tells
        BY <3>3, <2>4 DEF ToldFits, NotYet, Regular, Begun, Via
      <3> QED BY <3>1, <3>2, <3>4, <3>5
    <2> QED BY <2>1, <2>5, <2>6, <2>7, <2>8, <2>9, <2>10, <2>11, <2>12, <2>13, <2>14,
               <2>15, <2>16, <2>17, <2>18, <2>19, <2>20, <2>21, <2>22, <2>23, <2>24
               DEF Step, Continue, Poll
  <1> QED BY <1>1, <1>2

LEMMA StoryAlways == Spec => []StoryInv
  <1>1. Init => StoryInv
    BY DEF Init, StoryInv, OneFrame, FramesFit, Regular, ToldFits, NotYet, Begun, Untouched
  <1> QED BY <1>1, TypeCorrect, StoryStep, PTL DEF Spec

\* The answer comes once, and nothing after an abort, for requests whose send does not throw
\* and that are not JSONP from the page's own host.
THEOREM AnsweredOnce == Spec => []OneAnswer
  <1>1. StoryInv => OneAnswer
    BY DEF StoryInv, Regular, ToldFits, OneAnswer, Stories, AnswerTold, Answering
  <1> QED BY <1>1, StoryAlways, PTL

-----------------------------------------------------------------------------
(* The number of active queries.                                                *)

\* The queries that are under way and that handlers of global events hear of.
Active(r) == Begun(r) /\ setting[r].global /\ UnderWay(r)
AllCounted == \A r \in Reqs : ~Uncounted(r)
Activity == AllCounted => /\ IsFiniteSet({r \in Reqs : Active(r)})
                          /\ active = Cardinality({r \in Reqs : Active(r)})

\* A step of one request leaves the others where they are, and theirs is not what it counts.
Undisturbed(q) ==
    /\ Same(q) /\ (q \in threw' <=> q \in threw)
    /\ \A at \in Places : At(q, at)' <=> At(q, at)

LEMMA WaitingAt == ASSUME TypeOK, NEW r PROVE Waiting(r) <=> \E at \in Places : At(r, at)
  <1>1. \A i \in DOMAIN stack : stack[i] \in Frames
    BY DEF TypeOK
  <1>2. \A i \in DOMAIN stack : stack[i].at \in Places
    BY <1>1 DEF Frames
  <1> QED BY <1>2 DEF Waiting, At

\* What is true of the calls that wait is true of those that wait next.
LEMMA WaitingAtNext == ASSUME TypeOK', NEW r PROVE Waiting(r)' <=> \E at \in Places : At(r, at)'
  <1>1. \A i \in DOMAIN stack' : stack'[i] \in Frames
    BY DEF TypeOK
  <1>2. \A i \in DOMAIN stack' : stack'[i].at \in Places
    BY <1>1 DEF Frames
  <1> QED BY <1>2 DEF Waiting, At

LEMMA UndisturbedSame ==
    ASSUME TypeOK, TypeOK', NEW q \in Reqs, Undisturbed(q)
    PROVE  /\ Begun(q)' <=> Begun(q)
           /\ Uncounted(q)' <=> Uncounted(q)
           /\ Counted(q) => Counted(q)'
           /\ Active(q)' <=> Active(q)
  <1>1. (Begun(q)' <=> Begun(q)) /\ Via(q)' = Via(q)
    BY DEF Undisturbed, Same, Begun, Via
  <1>2. Uncounted(q)' <=> Uncounted(q)
    BY <1>1 DEF Undisturbed, Same, Uncounted
  <1>3. Counted(q) => Counted(q)'
    BY <1>1 DEF Undisturbed, Same, Counted, Places
  <1>4. Waiting(q) <=> \E at \in Places : At(q, at)
    BY WaitingAt
  <1>5. Waiting(q)' <=> \E at \in Places : At(q, at)'
    BY WaitingAtNext
  <1>6. Active(q)' <=> Active(q)
    BY <1>1, <1>4, <1>5 DEF Undisturbed, Same, Active, UnderWay
  <1> QED BY <1>1, <1>2, <1>3, <1>6

\* A step that starts, ends, or leaves under way one request, and counts it so.
Accounted(r) ==
    \/ (Active(r)' <=> Active(r)) /\ active' = active
    \/ ~Active(r) /\ Active(r)' /\ active' = active + 1
    \/ Active(r) /\ ~Active(r)' /\ active' = active - 1

LEMMA CountsOn ==
    ASSUME TypeOK, TypeOK', CountInv, Activity, NEW r \in Reqs,
           \A q \in Reqs : q # r => Undisturbed(q),
           Uncounted(r) => Uncounted(r)',
           Begun(r)',
           ~Uncounted(r)' => Counted(r)' /\ Accounted(r)
    PROVE  CountInv' /\ Activity'
  <1>1. CountInv'
    <2>1. ASSUME NEW q \in Reqs, Begun(q)', ~Uncounted(q)' PROVE Counted(q)'
      BY <2>1, UndisturbedSame DEF CountInv
    <2>2. ASSUME NEW q \in sendThrew' PROVE Begun(q)'
      <3>1. q \in Reqs
        BY DEF TypeOK
      <3>2. q # r => q \in sendThrew /\ (Begun(q)' <=> Begun(q))
        BY <3>1, UndisturbedSame DEF Undisturbed, Same
      <3> QED BY <3>2 DEF CountInv
    <2> QED BY <2>1, <2>2 DEF CountInv
  <1>2. Activity'
    <2> SUFFICES ASSUME AllCounted' 
                 PROVE  /\ IsFiniteSet({q \in Reqs : Active(q)})'
                        /\ active' = Cardinality({q \in Reqs : Active(q)})'
      BY DEF Activity
    <2> DEFINE now == {q \in Reqs : Active(q)}
    <2>1. AllCounted /\ ~Uncounted(r)'
      BY UndisturbedSame DEF AllCounted
    <2>2. IsFiniteSet(now) /\ active = Cardinality(now) /\ Cardinality(now) \in Nat
      BY <2>1, FS_CardinalityType DEF Activity
    <2>3. \A q \in Reqs : q # r => (q \in now' <=> q \in now)
      BY UndisturbedSame
    <2>4. (r \in now' <=> Active(r)') /\ (r \in now <=> Active(r))
      OBVIOUS
    <2>5. now \subseteq Reqs /\ now' \subseteq Reqs
      OBVIOUS
    <2>6. Accounted(r)
      BY <2>1
    <2> HIDE DEF now
    <2>7. CASE (Active(r)' <=> Active(r)) /\ active' = active
      <3>1. now' = now
        BY <2>3, <2>4, <2>5, <2>7
      <3> QED BY <2>2, <2>7, <3>1 DEF now
    <2>8. CASE ~Active(r) /\ Active(r)' /\ active' = active + 1
      <3>1. now' = now \cup {r} /\ r \notin now
        BY <2>3, <2>4, <2>5, <2>8
      <3>2. IsFiniteSet(now') /\ Cardinality(now') = Cardinality(now) + 1
        BY <2>2, <3>1, FS_AddElement
      <3> QED BY <2>2, <2>8, <3>2 DEF now
    <2>9. CASE Active(r) /\ ~Active(r)' /\ active' = active - 1
      <3>1. now' = now \ {r} /\ r \in now
        BY <2>3, <2>4, <2>5, <2>9
      <3>2. IsFiniteSet(now') /\ Cardinality(now') = Cardinality(now) - 1
        BY <2>2, <3>1, FS_RemoveElement
      <3> QED BY <2>2, <2>9, <3>2 DEF now
    <2> QED BY <2>6, <2>7, <2>8, <2>9 DEF Accounted
  <1> QED BY <1>1, <1>2

\* The innermost call ends, goes on, or another is made.
LEMMA AtPopped ==
    ASSUME TypeOK, OneFrame, stack # <<>>, Return
    PROVE  \A q, at : At(q, at)' <=> (At(q, at) /\ q # Head(stack).req)
  <1>1. stack \in Seq(Frames)
    BY DEF TypeOK
  <1>2. /\ Head(stack) = stack[1] /\ 1 \in DOMAIN stack
        /\ \A i \in DOMAIN stack' : i + 1 \in DOMAIN stack /\ i + 1 # 1 /\ stack'[i] = stack[i + 1]
        /\ \A i \in DOMAIN stack : i # 1 => i - 1 \in DOMAIN stack' /\ stack'[i - 1] = stack[i]
    BY <1>1 DEF Return
  <1>3. \A i \in DOMAIN stack : stack[i].req = Head(stack).req <=> i = 1
    BY <1>2 DEF OneFrame
  <1>4. ASSUME NEW q, NEW at PROVE At(q, at)' <=> (At(q, at) /\ q # Head(stack).req)
    BY <1>2, <1>3 DEF At
  <1> QED BY <1>4

LEMMA AtReplaced ==
    ASSUME TypeOK, OneFrame, stack # <<>>, NEW f \in Frames, f.req = Head(stack).req, NextPlace(f)
    PROVE  \A q, at : At(q, at)' <=> IF q = f.req THEN at = f.at ELSE At(q, at)
  <1>1. stack \in Seq(Frames)
    BY DEF TypeOK
  <1>2. /\ Head(stack) = stack[1] /\ 1 \in DOMAIN stack
        /\ DOMAIN (<<f>> \o Tail(stack)) = DOMAIN stack /\ (<<f>> \o Tail(stack))[1] = f
        /\ \A i \in DOMAIN stack : i # 1 => (<<f>> \o Tail(stack))[i] = stack[i]
    BY <1>1
  <1>3. /\ DOMAIN stack' = DOMAIN stack /\ stack'[1] = f
        /\ \A i \in DOMAIN stack : i # 1 => stack'[i] = stack[i]
    BY <1>2 DEF NextPlace
  <1>4. \A i \in DOMAIN stack : stack[i].req = f.req <=> i = 1
    BY <1>2 DEF OneFrame
  <1>5. ASSUME NEW q, NEW at PROVE At(q, at)' <=> IF q = f.req THEN at = f.at ELSE At(q, at)
    BY <1>2, <1>3, <1>4 DEF At
  <1> QED BY <1>5

LEMMA AtPushed ==
    ASSUME TypeOK, NEW f \in Frames, stack' = <<f>> \o stack
    PROVE  \A q, at : At(q, at)' <=> (At(q, at) \/ (q = f.req /\ at = f.at))
  <1>1. stack \in Seq(Frames)
    BY DEF TypeOK
  <1>2. /\ DOMAIN stack' = 1 .. Len(stack) + 1 /\ stack'[1] = f
        /\ \A i \in DOMAIN stack' : i = 1 \/ (i # 1 /\ i - 1 \in DOMAIN stack /\ stack'[i] = stack[i - 1])
    BY <1>1, InFront
  <1>3. DOMAIN stack = 1 .. Len(stack) /\ Len(stack) \in Nat
    BY <1>1
  <1>4. ASSUME NEW i \in DOMAIN stack PROVE i + 1 \in DOMAIN stack' /\ stack'[i + 1] = stack[i]
    <2>1. i \in Nat /\ i + 1 # 1 /\ i + 1 \in DOMAIN stack' /\ (i + 1) - 1 = i
      BY <1>2, <1>3
    <2> QED BY <1>2, <2>1
  <1>5. 1 \in DOMAIN stack'
    BY <1>2, <1>3
  <1>6. ASSUME NEW q, NEW at PROVE At(q, at)' <=> (At(q, at) \/ (q = f.req /\ at = f.at))
    <2>1. At(q, at)' => (At(q, at) \/ (q = f.req /\ at = f.at))
      BY <1>2 DEF At
    <2>2. At(q, at) => At(q, at)'
      BY <1>4 DEF At
    <2>3. q = f.req /\ at = f.at => At(q, at)'
      BY <1>2, <1>5 DEF At
    <2> QED BY <2>1, <2>2, <2>3
  <1> QED BY <1>6

\* What each kind of step does with the innermost call.
LEMMA Ends ==
    ASSUME TypeOK, StoryInv, NEW r \in Reqs, NEW at \in Places, In(r, at), Return
    PROVE  At(r, at) /\ \A q, p : At(q, p)' <=> (At(q, p) /\ q # r)
  <1>1. stack # <<>> /\ Head(stack).req = r /\ Head(stack).at = at
    BY DEF In
  <1>2. stack \in Seq(Frames)
    BY DEF TypeOK
  <1>3. 1 \in DOMAIN stack /\ Head(stack) = stack[1]
    BY <1>1, <1>2
  <1> QED BY <1>1, <1>3, AtPopped DEF StoryInv, At

LEMMA GoesOn ==
    ASSUME TypeOK, StoryInv, NEW r \in Reqs, NEW at \in Places, In(r, at),
           NEW f \in Frames, f.req = r, NextPlace(f)
    PROVE  At(r, at) /\ \A q, p : At(q, p)' <=> IF q = r THEN p = f.at ELSE At(q, p)
  <1>1. stack # <<>> /\ Head(stack).req = r /\ Head(stack).at = at
    BY DEF In
  <1>2. stack \in Seq(Frames)
    BY DEF TypeOK
  <1>3. 1 \in DOMAIN stack /\ Head(stack) = stack[1]
    BY <1>1, <1>2
  <1>4. \A q, p : At(q, p)' <=> IF q = f.req THEN p = f.at ELSE At(q, p)
    BY <1>1, AtReplaced DEF StoryInv
  <1> QED BY <1>1, <1>3, <1>4 DEF At

LEMMA Starts ==
    ASSUME TypeOK, StoryInv, NEW r \in Reqs, ~Begun(r) \/ Idle,
           NEW f \in Frames, f.req = r, stack' = <<f>> \o stack
    PROVE  /\ \A p : ~At(r, p)
           /\ \A q, p : At(q, p)' <=> IF q = r THEN p = f.at ELSE At(q, p)
  <1>1. \A p : ~At(r, p)
    BY NotWaiting DEF At
  <1> QED BY <1>1, AtPushed

LEMMA Stays == ASSUME UNCHANGED stack PROVE \A q, p : At(q, p)' <=> At(q, p)
  BY DEF At

\* A request that is counted, and what its step makes of it.
LEMMA Local ==
    ASSUME NEW r, Begun(r), UNCHANGED setting, setting[r].global \in BOOLEAN, active \in Int,
           \/ (UnderWay(r)' <=> UnderWay(r)) /\ active' = active
           \/ UnderWay(r) /\ ~UnderWay(r)' /\ GiveBack(r)
    PROVE  Accounted(r)
  BY DEF Accounted, Active, GiveBack, Begun

\* The readings of UnderWay before and after a step.
LEMMA UnderWays ==
    ASSUME TypeOK, TypeOK', NEW r
    PROVE  /\ UnderWay(r) <=> (\E at \in Places : At(r, at)) \/ ival[r] \/ pending[r]
           /\ UnderWay(r)' <=> (\E at \in Places : At(r, at)') \/ ival'[r] \/ pending'[r]
  <1>1. Waiting(r) <=> \E at \in Places : At(r, at)
    BY WaitingAt
  <1>2. Waiting(r)' <=> \E at \in Places : At(r, at)'
    BY WaitingAtNext
  <1> QED BY <1>1, <1>2 DEF UnderWay

\* The flags of the others stay.
LEMMA SameFlags ==
    ASSUME TypeOK, NEW r \in Reqs, Step(r), NEW q \in Reqs, q # r
    PROVE  Same(q) /\ (q \in threw' <=> q \in threw)
  <1> USE DEF TypeOK, Same, Tell, Answered, StopPolling, StartPolling, reqVars, histVars
  <1>1. CASE \E s \in Settings : Begin(r, s)
    BY <1>1 DEF Begin
  <1>2. CASE AddScript(r) \/ Refuse(r) \/ Send(r) \/ SendThrows(r) \/ SendSync(r) \/ AfterSendError(r)
    BY <1>2 DEF AddScript, Refuse, Send, SendThrows, SendSync, AfterSendError
  <1>3. CASE AfterAnswer(r) \/ AfterComplete(r) \/ AfterJsonpAnswer(r) \/ AfterJsonpComplete(r) \/ Throw(r)
    BY <1>3 DEF AfterAnswer, AfterComplete, AfterJsonpAnswer, AfterJsonpComplete, Throw
  <1>4. CASE Poll(r)
    BY <1>4 DEF Poll, PollAborted, PollDone, PollJsonp
  <1>5. CASE TimeOut(r)
    BY <1>5 DEF TimeOut
  <1>6. CASE ScriptLoaded(r) \/ Abort(r) \/ Respond(r)
    BY <1>6 DEF ScriptLoaded, Abort, Respond
  <1> QED BY <1>1, <1>2, <1>3, <1>4, <1>5, <1>6 DEF Step, Continue

\* What is not counted is not counted later.
LEMMA StaysUncounted ==
    ASSUME TypeOK, StoryInv, CountInv, NEW r \in Reqs, Step(r), Uncounted(r)
    PROVE  Uncounted(r)'
  <1>1. threw \subseteq threw' /\ sendThrew \subseteq sendThrew'
    BY DEF Step, Continue, Poll, Begin, AddScript, Refuse, Send, SendThrows, SendSync, AfterSendError,
           AfterAnswer, AfterComplete, AfterJsonpAnswer, AfterJsonpComplete, Throw, PollAborted, PollDone,
           PollJsonp, TimeOut, ScriptLoaded, Abort, Respond, reqVars, histVars
  <1>2. CASE Begun(r) /\ UNCHANGED setting
    BY <1>1, <1>2 DEF Uncounted, Begun, Via
  <1>3. CASE \E s \in Settings : Begin(r, s)
    <2>1. ~Begun(r) /\ r \notin sendThrew
      BY <1>3 DEF Begin, CountInv
    <2> QED BY <1>1, <1>3, <2>1 DEF Begin, Uncounted, Begun, Via
  <1> QED BY <1>2, <1>3, StepOfBegun

\* A step leaves the other calls alone, and counts its request when it can be counted.
Tidy(r) ==
    /\ \A q \in Reqs : q # r => \A at \in Places : At(q, at)' <=> At(q, at)
    /\ ~Uncounted(r)' => Counted(r)' /\ Accounted(r)

\* A request that begins.
LEMMA BeginTidy ==
    ASSUME TypeOK, TypeOK', StoryInv, NEW r \in Reqs, NEW s \in Settings, Begin(r, s)
    PROVE  Tidy(r)
  <1> DEFINE f == Frame(r, "before")
  <1>1. f \in Frames /\ f.req = r /\ f.at = "before"
    BY TypedStack DEF Frame, Places
  <1>2. stack' = <<f>> \o stack /\ ~Begun(r)
    BY DEF Begin
  <1> HIDE DEF f
  <1>3. /\ \A p : ~At(r, p)
        /\ \A q, p : At(q, p)' <=> IF q = r THEN p = f.at ELSE At(q, p)
    BY <1>1, <1>2, Starts
  <1>4. ~ival[r] /\ ~timer[r] /\ ~requestDone[r] /\ ~pending[r]
    BY <1>2 DEF StoryInv, Untouched
  <1>5. /\ UNCHANGED <<ival, timer, requestDone, pending>>
        /\ setting'[r] = s /\ s # None /\ s.global \in BOOLEAN
        /\ active' = IF s.global THEN active + 1 ELSE active
    BY NoneAssumption, SettingsAssumption DEF Begin, TypeOK
  <1>6. Counted(r)'
    BY <1>1, <1>3, <1>4, <1>5 DEF Counted
  <1>7. UnderWay(r)'
    BY <1>1, <1>3, UnderWays DEF Places
  <1>8. ~Active(r) /\ (Active(r)' <=> s.global)
    BY <1>2, <1>5, <1>7 DEF Active, Begun
  <1>9. Accounted(r)
    BY <1>5, <1>8 DEF Accounted
  <1> QED BY <1>3, <1>6, <1>9 DEF Tidy

\* A request whose innermost call ends: it is sent, refused, or complete.
LEMMA EndTidy ==
    ASSUME TypeOK, TypeOK', StoryInv, CountInv, NEW r \in Reqs,
           AddScript(r) \/ Refuse(r) \/ Send(r) \/ AfterComplete(r)
    PROVE  Tidy(r)
  <1>1. PICK p \in {"before", "complete"} : In(r, p) /\ Return
    BY DEF AddScript, Refuse, Send, AfterComplete
  <1>2. p \in Places
    BY DEF Places
  <1>3. At(r, p) /\ \A q, at : At(q, at)' <=> (At(q, at) /\ q # r)
    BY <1>1, <1>2, Ends
  <1>4. Begun(r) /\ UNCHANGED <<setting, sendThrew, threw>>
    <2>1. Begun(r)
      BY <1>1, <1>2, Innermost DEF PlaceFits
    <2> QED BY <2>1 DEF AddScript, Refuse, Send, AfterComplete, histVars
  <1>5. ASSUME ~Uncounted(r)' PROVE Counted(r)' /\ Accounted(r)
    <2>1. Counted(r) /\ ~Uncounted(r)
      BY <1>4, <1>5 DEF CountInv, Uncounted, Begun, Via
    <2>2. setting[r].global \in BOOLEAN /\ active \in Int /\ Via(r) \in Vias /\ Via(r)' = Via(r)
      BY <1>4, SettingsAssumption DEF TypeOK, Begun, Via
    <2>3. UnderWay(r) /\ (UnderWay(r)' <=> ival'[r] \/ pending'[r])
      BY <1>2, <1>3, UnderWays
    <2>4. CASE AddScript(r) \/ Send(r)
      <3>1. At(r, "before")
        BY <2>4, <1>2, <1>3, <2>1, Ends DEF AddScript, Send, Places
      <3>2. /\ active' = active /\ requestDone' = requestDone /\ (ival'[r] \/ pending'[r])
            /\ pending'[r] => Via(r) = "script" /\ ~ival'[r] /\ ~timer'[r]
            /\ ival'[r] => Via(r) \notin {"script", "sync"} /\ ~pending'[r]
            /\ timer'[r] => Via(r) = "timed" /\ ival'[r]
        BY <2>1, <2>2, <2>4, <3>1 DEF AddScript, Send, StartPolling, Counted, TypeOK, Vias
      <3>3. Counted(r)'
        BY <1>3, <2>1, <2>2, <3>1, <3>2 DEF Counted
      <3> QED BY <1>4, <2>2, <2>3, <3>2, <3>3, Local
    <2>5. CASE Refuse(r) \/ AfterComplete(r)
      <3>1. At(r, "before") \/ At(r, "complete")
        BY <1>3
      <3>2. /\ UNCHANGED <<ival, timer, requestDone, pending>> /\ GiveBack(r)
            /\ ready'[r] \in {ready[r], "aborted"}
        BY <2>5 DEF Refuse, AfterComplete, TypeOK
      <3>3. ~ival[r] /\ ~pending[r]
        BY <2>1, <3>1 DEF Counted
      <3>4. Counted(r)'
        BY <1>3, <2>1, <2>2, <3>2, <3>3 DEF Counted
      <3> QED BY <1>4, <2>2, <2>3, <3>2, <3>3, <3>4, Local
    <2> QED BY <2>4, <2>5
  <1> QED BY <1>3, <1>5 DEF Tidy

\* A send that throws, or that was waited for; and the callback after that.
LEMMA SendTidy ==
    ASSUME TypeOK, TypeOK', StoryInv, CountInv, NEW r \in Reqs, SendThrows(r) \/ SendSync(r) \/ AfterAnswer(r)
    PROVE  Tidy(r)
  <1>1. PICK p \in {"before", "answer"}, f \in Frames :
          /\ In(r, p) /\ f.req = r /\ NextPlace(f)
          /\ f.at = IF SendThrows(r) THEN "sendError" ELSE IF SendSync(r) THEN "answer" ELSE "complete"
    <2>1. CASE SendThrows(r)
      BY <2>1, TypedStack DEF SendThrows, Frame, Places
    <2>2. CASE SendSync(r) /\ ~SendThrows(r)
      BY <2>2, TypedStack DEF SendSync, Answered, NextPlace, AnswerFrame
    <2>3. CASE AfterAnswer(r)
      <3>1. Head(stack).late \in BOOLEAN /\ ~SendSync(r) /\ ~SendThrows(r)
        BY <2>3, TypedStack DEF AfterAnswer, SendSync, SendThrows, In, Frames
      <3> QED BY <2>3, <3>1, TypedStack DEF AfterAnswer, CompleteFrame
    <2> QED BY <2>1, <2>2, <2>3
  <1>2. p \in Places /\ f.at \in Places
    BY DEF Places, Frames
  <1>3. At(r, p) /\ \A q, at : At(q, at)' <=> IF q = r THEN at = f.at ELSE At(q, at)
    BY <1>1, <1>2, GoesOn
  <1>4. Begun(r) /\ UNCHANGED <<setting, threw, active, pending>> /\ sendThrew \subseteq sendThrew'
    <2>1. Begun(r)
      BY <1>1, <1>2, Innermost DEF PlaceFits
    <2> QED BY <2>1 DEF SendThrows, SendSync, AfterAnswer, reqVars
  <1>5. ASSUME ~Uncounted(r)' PROVE Counted(r)' /\ Accounted(r)
    <2>1. Counted(r) /\ ~Uncounted(r)
      BY <1>4, <1>5 DEF CountInv, Uncounted, Begun, Via
    <2>2. setting[r].global \in BOOLEAN /\ active \in Int /\ Via(r) \in Vias /\ Via(r)' = Via(r)
      BY <1>4, SettingsAssumption DEF TypeOK, Begun, Via
    <2>3. UnderWay(r) /\ UnderWay(r)'
      BY <1>2, <1>3, UnderWays
    <2>4. Accounted(r)
      BY <1>4, <2>2, <2>3, Local
    <2>5. CASE SendThrows(r)
      <3>1. /\ f.at = "sendError" /\ p = "before" /\ r \in sendThrew' /\ requestDone' = requestDone
            /\ StartPolling(r) /\ Via(r) # "script"
        BY <1>1, <2>5 DEF SendThrows, In
      <3>2. Via(r) # "sync"
        BY <1>5, <2>2, <3>1 DEF Uncounted
      <3>3. ival'[r] /\ (timer'[r] => Via(r) = "timed")
        BY <3>1, <3>2 DEF StartPolling, TypeOK
      <3> QED BY <1>3, <1>4, <2>1, <2>2, <2>4, <3>1, <3>2, <3>3 DEF Counted
    <2>6. CASE SendSync(r) /\ ~SendThrows(r)
      <3>1. /\ f.at = "answer" /\ p = "before" /\ requestDone'[r] /\ UNCHANGED <<ival, timer>>
        BY <1>1, <2>6 DEF SendSync, In, Answered, TypeOK
      <3> QED BY <1>3, <1>4, <2>1, <2>2, <2>4, <3>1 DEF Counted
    <2>7. CASE AfterAnswer(r) /\ ~SendSync(r) /\ ~SendThrows(r)
      <3>1. f.at = "complete" /\ p = "answer" /\ UNCHANGED reqVars
        BY <1>1, <2>7 DEF AfterAnswer, In
      <3> QED BY <1>3, <1>4, <2>1, <2>2, <2>4, <3>1 DEF Counted, reqVars
    <2> QED BY <2>4, <2>5, <2>6, <2>7
  <1> QED BY <1>3, <1>5 DEF Tidy

\* After an error of send the answer is still waited for; what throws, or is JSONP, is not counted.
LEMMA ErrorTidy ==
    ASSUME TypeOK, TypeOK', StoryInv, CountInv, NEW r \in Reqs,
           AfterSendError(r) \/ AfterJsonpAnswer(r) \/ AfterJsonpComplete(r) \/ Throw(r)
    PROVE  Tidy(r)
  <1>1. PICK p \in Places : In(r, p) /\ (AfterSendError(r) => p = "sendError")
                            /\ (AfterJsonpAnswer(r) => p = "jsonpAnswer")
                            /\ (AfterJsonpComplete(r) => p = "jsonpComplete")
    <2>1. CASE Throw(r) /\ ~AfterSendError(r) /\ ~AfterJsonpAnswer(r) /\ ~AfterJsonpComplete(r)
      BY <2>1 DEF Throw
    <2>2. CASE AfterSendError(r) \/ AfterJsonpAnswer(r) \/ AfterJsonpComplete(r)
      BY <2>2 DEF AfterSendError, AfterJsonpAnswer, AfterJsonpComplete, In, Places
    <2> QED BY <2>1, <2>2
  <1>2. Return \/ \E f \in Frames : f.req = r /\ NextPlace(f)
    <2>1. CASE AfterSendError(r)
      BY <2>1, TypedStack DEF AfterSendError, Answered, NextPlace, AnswerFrame
    <2>2. CASE AfterJsonpAnswer(r) \/ AfterJsonpComplete(r) \/ Throw(r)
      BY <2>2, TypedStack DEF AfterJsonpAnswer, AfterJsonpComplete, Throw, Frame, Places
    <2> QED BY <2>1, <2>2
  <1>3. At(r, p) /\ \A q \in Reqs : q # r => \A at \in Places : At(q, at)' <=> At(q, at)
    <2>1. CASE Return
      BY <1>1, <2>1, Ends
    <2>2. CASE \E f \in Frames : f.req = r /\ NextPlace(f)
      BY <1>1, <2>2, GoesOn
    <2> QED BY <1>2, <2>1, <2>2
  <1>4. /\ Begun(r) /\ UNCHANGED <<setting, sendThrew, ready, ival, timer, pending>>
        /\ AfterSendError(r) => active' = active
    <2>1. Begun(r)
      BY <1>1, Innermost DEF PlaceFits
    <2> QED BY <2>1 DEF AfterSendError, AfterJsonpAnswer, AfterJsonpComplete, Throw, reqVars
  <1>5. ASSUME ~Uncounted(r)' PROVE Counted(r)' /\ Accounted(r)
    <2>1. ~Throw(r) /\ threw' = threw
      BY <1>5 DEF Throw, Uncounted, AfterSendError, AfterJsonpAnswer, AfterJsonpComplete
    <2>2. Counted(r) /\ ~Uncounted(r)
      BY <1>4, <1>5, <2>1 DEF CountInv, Uncounted, Begun, Via
    <2>3. AfterSendError(r) /\ p = "sendError" /\ ival[r]
      BY <1>1, <1>3, <2>1, <2>2 DEF Counted
    <2>4. Return /\ requestDone' = requestDone
      BY <2>2, <2>3 DEF AfterSendError, Counted
    <2>5. \A at : ~At(r, at)'
      BY <1>1, <2>4, Ends
    <2>6. setting[r].global \in BOOLEAN /\ active \in Int /\ Via(r)' = Via(r)
      BY <1>4, SettingsAssumption DEF TypeOK, Begun, Via
    <2>7. UnderWay(r) /\ UnderWay(r)'
      BY <1>4, <2>3 DEF UnderWay
    <2>8. Counted(r)'
      BY <1>4, <2>2, <2>4, <2>5, <2>6 DEF Counted
    <2> QED BY <1>4, <2>3, <2>6, <2>7, <2>8, Local
  <1> QED BY <1>3, <1>5 DEF Tidy

\* An answer that is noticed: by the poll, the timeout, or the script that has come.
LEMMA AnswerTidy ==
    ASSUME TypeOK, TypeOK', StoryInv, CountInv, NEW r \in Reqs,
           \/ PollDone(r) \/ PollJsonp(r) \/ ScriptLoaded(r)
           \/ TimeOut(r) /\ ~requestDone[r] /\ ready[r] # "aborted"
    PROVE  Tidy(r)
  <1>1. PICK f \in Frames : /\ f.req = r /\ stack' = <<f>> \o <<>>
                            /\ ~PollJsonp(r) => f.at = "answer"
    <2>1. CASE PollJsonp(r)
      <3> DEFINE g == Frame(r, "jsonpAnswer")
      <3>1. g \in Frames /\ g.req = r
        BY TypedStack DEF Frame, Places
      <3>2. stack' = <<g>> \o <<>>
        BY <2>1, <3>1 DEF PollJsonp
      <3> HIDE DEF g
      <3> QED BY <2>1, <3>1, <3>2
    <2>2. CASE ~PollJsonp(r)
      <3>1. PICK late \in BOOLEAN, e \in Events : Answered(r, e, late, <<>>)
        BY <2>2 DEF PollDone, ScriptLoaded, TimeOut, Outcome, Events
      <3> QED BY <2>2, <3>1, TypedStack DEF Answered, AnswerFrame
    <2> QED BY <2>1, <2>2
  <1>2. Idle /\ stack' = <<f>> \o stack
    BY <1>1 DEF PollDone, PollJsonp, ScriptLoaded, TimeOut, Idle
  <1>3. \A q, p : At(q, p)' <=> IF q = r THEN p = f.at ELSE At(q, p)
    BY <1>1, <1>2, Starts
  <1>4. /\ Begun(r) /\ UNCHANGED <<setting, sendThrew, threw, ready, active>>
        /\ requestDone'[r] /\ timer'[r] \in {timer[r], FALSE}
    <2>1. Begun(r)
      BY DEF PollDone, PollJsonp, ScriptLoaded, TimeOut, StoryInv, Untouched
    <2> QED BY <2>1 DEF PollDone, PollJsonp, ScriptLoaded, TimeOut, Answered, TypeOK
  <1>5. ASSUME ~Uncounted(r)' PROVE Counted(r)' /\ Accounted(r)
    <2>1. Counted(r) /\ ~Uncounted(r)
      BY <1>4, <1>5 DEF CountInv, Uncounted, Begun, Via
    <2>2. ~PollJsonp(r) /\ f.at = "answer"
      BY <1>1, <1>4, <2>1 DEF PollJsonp, Uncounted
    <2>3. setting[r].global \in BOOLEAN /\ active \in Int /\ Via(r)' = Via(r)
      BY <1>4, SettingsAssumption DEF TypeOK, Begun, Via
    <2>4. (ival[r] \/ pending[r]) /\ ~ival'[r] /\ ~pending'[r]
      <3>1. CASE ScriptLoaded(r)
        BY <2>1, <3>1 DEF ScriptLoaded, Counted, TypeOK
      <3>2. CASE PollDone(r)
        BY <2>1, <3>2 DEF PollDone, StopPolling, Counted, TypeOK
      <3>3. CASE TimeOut(r) /\ ~requestDone[r] /\ ready[r] # "aborted"
        BY <2>1, <3>3 DEF TimeOut, StopPolling, Counted, TypeOK
      <3> QED BY <2>2, <3>1, <3>2, <3>3
    <2>5. UnderWay(r) /\ UnderWay(r)'
      BY <1>3, <2>2, <2>4, UnderWays DEF UnderWay, Places
    <2>6. Counted(r)'
      BY <1>3, <1>4, <2>1, <2>2, <2>3, <2>4 DEF Counted, TypeOK
    <2> QED BY <1>4, <2>3, <2>5, <2>6, Local
  <1> QED BY <1>3, <1>5 DEF Tidy

\* An abort, an answer on its way, and the poll or the timeout that finds nothing to answer.
LEMMA QuietTidy ==
    ASSUME TypeOK, TypeOK', StoryInv, CountInv, NEW r \in Reqs,
           \/ Abort(r) \/ Respond(r) \/ PollAborted(r)
           \/ TimeOut(r) /\ (requestDone[r] \/ ready[r] = "aborted")
    PROVE  Tidy(r)
  <1>1. /\ UNCHANGED <<setting, stack, requestDone, pending, sendThrew, threw>>
        /\ timer'[r] \in {timer[r], FALSE}
    BY DEF Abort, Respond, PollAborted, TimeOut, histVars, TypeOK
  <1>2. \A q, p : At(q, p)' <=> At(q, p)
    BY <1>1, Stays
  <1>3. Begun(r)
    BY DEF Abort, Respond, PollAborted, TimeOut, StoryInv, Untouched, Answers
  <1>4. ASSUME ~Uncounted(r)' PROVE Counted(r)' /\ Accounted(r)
    <2>1. Counted(r) /\ ~Uncounted(r)
      BY <1>1, <1>3, <1>4 DEF CountInv, Uncounted, Begun, Via
    <2>2. setting[r].global \in BOOLEAN /\ active \in Int /\ Via(r)' = Via(r)
      BY <1>1, <1>3, SettingsAssumption DEF TypeOK, Begun, Via
    <2>3. CASE ival'[r] = ival[r] /\ active' = active
      <3>1. ready'[r] = "aborted" \/ ready[r] # "aborted"
        BY <2>3 DEF Abort, Respond, PollAborted, TimeOut, TypeOK
      <3>2. UnderWay(r)' <=> UnderWay(r)
        BY <1>1, <1>2, <2>3, UnderWays
      <3>3. Counted(r)'
        BY <1>1, <1>2, <2>1, <2>2, <2>3, <3>1 DEF Counted
      <3> QED BY <1>1, <1>3, <2>2, <2>3, <3>2, <3>3, Local
    <2>4. CASE Idle /\ ival[r] /\ ~ival'[r] /\ GiveBack(r) /\ ready[r] = "aborted" /\ ready' = ready
      <3>1. ~pending[r]
        BY <2>1, <2>4 DEF Counted
      <3>2. \A p : ~At(r, p)
        BY <2>4 DEF Idle, At
      <3>3. UnderWay(r) /\ ~UnderWay(r)'
        BY <1>1, <1>2, <2>4, <3>1, <3>2, UnderWays
      <3>4. Counted(r)'
        BY <1>1, <1>2, <2>1, <2>2, <2>4, <3>2 DEF Counted
      <3> QED BY <1>1, <1>3, <2>2, <2>4, <3>3, <3>4, Local
    <2>5. \/ ival'[r] = ival[r] /\ active' = active
          \/ Idle /\ ival[r] /\ ~ival'[r] /\ GiveBack(r) /\ ready[r] = "aborted" /\ ready' = ready
      BY DEF Abort, Respond, PollAborted, TimeOut, StopPolling, TypeOK
    <2> QED BY <2>3, <2>4, <2>5
  <1> QED BY <1>2, <1>4 DEF Tidy

LEMMA CountStep ==
    TypeOK /\ TypeOK' /\ StoryInv /\ StoryInv' /\ CountInv /\ Activity /\ [Next]_vars => CountInv' /\ Activity'
  <1> SUFFICES ASSUME TypeOK, TypeOK', StoryInv, StoryInv', CountInv, Activity, [Next]_vars
               PROVE  CountInv' /\ Activity'
    OBVIOUS
  <1>1. CASE UNCHANGED vars
    BY <1>1 DEF vars, reqVars, histVars, CountInv, Activity, AllCounted, Active, UnderWay, Waiting,
                Uncounted, Counted, At, Begun, Via
  <1>2. CASE Next
    <2>1. PICK r \in Reqs : Step(r)
      BY <1>2 DEF Next
    <2>2. Tidy(r)
      <3>1. \A s \in Settings : Begin(r, s) => Tidy(r)
        BY BeginTidy
      <3>2. Continue(r) \/ Throw(r) => Tidy(r)
        BY EndTidy, SendTidy, ErrorTidy DEF Continue
      <3>3. Poll(r) \/ TimeOut(r) \/ ScriptLoaded(r) \/ Abort(r) \/ Respond(r) => Tidy(r)
        BY AnswerTidy, QuietTidy DEF Poll
      <3> QED BY <2>1, <3>1, <3>2, <3>3 DEF Step
    <2>3. \A q \in Reqs : q # r => Undisturbed(q)
      BY <2>1, <2>2, SameFlags DEF Undisturbed, Tidy
    <2>4. Uncounted(r) => Uncounted(r)'
      BY <2>1, StaysUncounted
    <2>5. Begun(r)'
      <3>1. CASE \E s \in Settings : Begin(r, s)
        BY <3>1, NoneAssumption DEF Begun, Begin, TypeOK
      <3>2. CASE Begun(r) /\ UNCHANGED setting
        BY <3>2 DEF Begun
      <3> QED BY <2>1, <3>1, <3>2, StepOfBegun
    <2> QED BY <2>2, <2>3, <2>4, <2>5, CountsOn DEF Tidy
  <1> QED BY <1>1, <1>2

\* jQuery.active is the number of queries under way, as its comment says, when no callback and
\* no synchronous send has thrown and no JSONP is of the page's own host.
THEOREM ActiveIsRight == Spec => []ActiveCounts
  <1>1. Init => CountInv /\ Activity
    <2> SUFFICES ASSUME Init PROVE CountInv /\ Activity
      OBVIOUS
    <2>1. \A r \in Reqs : ~Begun(r)
      BY DEF Init, Begun
    <2>2. {r \in Reqs : Active(r)} = {}
      BY <2>1 DEF Active
    <2> QED BY <2>1, <2>2, FS_EmptySet DEF Init, CountInv, Activity
  <1>2. Spec => [](CountInv /\ Activity)
    BY <1>1, StoryAlways, TypeCorrect, CountStep, PTL DEF Spec
  <1>3. Activity => ActiveCounts
    BY DEF Activity, AllCounted, Active, ActiveCounts
  <1> QED BY <1>2, <1>3, PTL
=============================================================================
