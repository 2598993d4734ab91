-------------------------- MODULE BrowserPageProofs --------------------------
(***************************************************************************)
(* Proofs about BrowserPage: its types, for which a request to start or to *)
(* stop must name an account, and that the button comes back.              *)
(***************************************************************************)
EXTENDS BrowserPage, TLAPS

Inv == TypeOK /\ PageInv

-----------------------------------------------------------------------------
(* Requests that are made and answered.                                         *)

\* A request that is sent has its fields.
LEMMA SentIsRequest ==
    ASSUME NEW kind \in Kinds, NEW user \in Names \cup {None}, NEW n \in Nat
    PROVE  Sent(kind, user, n) \in Requests
BY DEF Sent, Requests

\* Home asks for two things, and neither is about an account.
LEMMA HomeIsRequests ==
    ASSUME NEW n \in Nat
    PROVE  /\ HomeRequests(n) \subseteq Requests
           /\ \A r \in HomeRequests(n) : ~AboutAccount(r) /\ r.kind # "user" /\ r.kind # "stop"
BY DEF HomeRequests, Sent, Requests, Kinds, AboutAccount

\* An answer changes the state and the data of a request only.
LEMMA AnswerKeeps ==
    ASSUME NEW r \in Requests, NEW state \in {"ok", "error"}, NEW data \in SUBSET Accounts
    PROVE  /\ Answered(r, state, data) \in Requests
           /\ Answered(r, state, data).kind = r.kind
           /\ Answered(r, state, data).user = r.user
           /\ Answered(r, state, data).state = state
BY DEF Requests, Answered

\* Removing one command leaves a list of commands.
LEMMA RemoveAtType ==
    ASSUME NEW S, NEW s \in Seq(S), NEW i \in DOMAIN s
    PROVE  RemoveAt(s, i) \in Seq(S)
<1>1. SubSeq(s, 1, i - 1) \in Seq(S)
  OBVIOUS
<1>2. SubSeq(s, i + 1, Len(s)) \in Seq(S)
  OBVIOUS
<1> QED  BY <1>1, <1>2 DEF RemoveAt

\* What is in a list is of its kind.
LEMMA ElementType ==
    ASSUME NEW S, NEW s \in Seq(S), NEW i \in DOMAIN s
    PROVE  s[i] \in S
OBVIOUS

\* A column that is empty.
LEMMA EmptyColumn == <<>> \in Seq(Accounts \cup {None})
OBVIOUS

-----------------------------------------------------------------------------
(* The invariant.                                                               *)

LEMMA InitInv == Init => Inv
<1> SUFFICES ASSUME Init PROVE Inv
  OBVIOUS
<1>1. TypeOK
  <2>1. HomeRequests(0) \subseteq Requests
    BY HomeIsRequests
  <2>2. commands \in Seq([op : {"start", "stop"}, user : Accounts])
    BY DEF Init
  <2> QED  BY <2>1, <2>2, EmptyColumn DEF Init, TypeOK, Labels
<1>2. PageInv
  BY HomeIsRequests DEF Init, PageInv, AboutAccount
<1> QED  BY <1>1, <1>2 DEF Inv

\* What the user does.
LEMMA UserInv == Inv /\ User => Inv'
<1> SUFFICES ASSUME Inv, User PROVE Inv'
  OBVIOUS
<1> USE DEF Inv
<1>0. acts' \in Nat /\ patient' \in BOOLEAN /\ errors' \in Nat
  <2>1. Act
    BY DEF User, Home, Tweet, FollowOrUnfollow, ViewUser
  <2>2. patient' \in BOOLEAN
    BY <2>1 DEF Act
  <2> QED  BY <2>1, <2>2 DEF Act, TypeOK
<1>1. CASE Home
  <2>1. requests' = requests \cup HomeRequests(acts')
    BY <1>1 DEF Home
  <2>2. TypeOK'
    BY <1>0, <1>1, <2>1, HomeIsRequests, EmptyColumn DEF Home, TypeOK, serverVars
  <2>3. PageInv'
    BY <1>0, <1>1, <2>1, HomeIsRequests DEF Home, PageInv, AboutAccount
  <2> QED  BY <2>2, <2>3
<1>2. CASE Tweet
  <2>1. Sent("tweet", None, acts') \in Requests
    BY <1>0, SentIsRequest DEF Kinds
  <2>2. TypeOK'
    BY <1>0, <1>2, <2>1 DEF Tweet, TypeOK, pageVars, serverVars
  <2>3. PageInv'
    BY <1>2 DEF Tweet, PageInv, AboutAccount, pageVars, Sent
  <2> QED  BY <2>2, <2>3
<1>3. CASE FollowOrUnfollow
  <2>1. currentUser \in Accounts
    BY <1>3 DEF FollowOrUnfollow, TypeOK, PageInv
  <2> DEFINE kind == IF currentUser \in followingIds THEN "stop" ELSE "start"
             new == Sent(kind, currentUser, acts')
  <2>2. new \in Requests /\ new.user = currentUser /\ new.kind \in {"start", "stop"}
    BY <1>0, <2>1, SentIsRequest DEF Kinds, Names, Sent
  <2>3. CASE followingIds = None
    BY <1>0, <1>3, <2>3 DEF FollowOrUnfollow, TypeOK, PageInv, AboutAccount, Labels, serverVars
  <2>4. CASE followingIds # None
    <3>1. requests' = requests \cup {new} /\ UNCHANGED <<shown, currentUser, followingIds>>
      BY <1>3, <2>4 DEF FollowOrUnfollow
    <3>2. followingIds \in SUBSET Accounts
      BY <2>4 DEF TypeOK
    <3>3. TypeOK'
      BY <1>0, <1>3, <2>2, <3>1 DEF FollowOrUnfollow, TypeOK, Labels, serverVars
    <3>4. PageInv'
      BY <2>1, <2>2, <3>1, <3>2 DEF PageInv, AboutAccount
    <3> QED  BY <3>3, <3>4
  <2> QED  BY <2>3, <2>4
<1>4. ASSUME NEW u \in Names, ViewUser(u) PROVE Inv'
  <2>1. Sent("user", u, acts') \in Requests
    BY <1>0, SentIsRequest DEF Kinds
  <2>2. TypeOK'
    BY <1>0, <1>4, <2>1 DEF ViewUser, TypeOK, pageVars, serverVars
  <2>3. PageInv'
    BY <1>4 DEF ViewUser, PageInv, AboutAccount, pageVars, Sent
  <2> QED  BY <2>2, <2>3
<1> QED  BY <1>1, <1>2, <1>3, <1>4 DEF User

\* The server answers.  Only an account is found.
LEMMA ServerInv == ASSUME Inv, NEW r \in requests, Serve(r) \/ Refuse(r) PROVE Inv'
<1> USE DEF Inv
<1>1. r \in Requests /\ Data(r) \in SUBSET Accounts
  BY DEF TypeOK, Data
<1>2. CASE Serve(r)
  <2>1. PICK state \in {"ok", "error"}, data \in SUBSET Accounts :
          /\ Answer(r, state, data)
          /\ r.kind = "user" /\ state = "ok" => r.user \notin Strangers
    BY <1>1, <1>2 DEF Serve
  <2> DEFINE a == Answered(r, state, data)
  <2>2. a \in Requests /\ a.kind = r.kind /\ a.user = r.user /\ a.state = state
    BY <1>1, AnswerKeeps
  <2>3. requests' = (requests \ {r}) \cup {a}
    BY <2>1 DEF Answer
  <2>4. commands' \in Seq([op : {"start", "stop"}, user : Accounts])
    <3>1. CASE r.kind \in {"start", "stop"}
      <4>1. r.user \in Accounts
        BY <3>1 DEF PageInv, AboutAccount
      <4>2. commands' = Append(commands, [op |-> r.kind, user |-> r.user])
        BY <1>2, <3>1 DEF Serve
      <4> QED  BY <3>1, <4>1, <4>2 DEF TypeOK
    <3>2. CASE r.kind \notin {"start", "stop"}
      BY <1>2, <3>2 DEF Serve, TypeOK
    <3> QED  BY <3>1, <3>2
  <2>5. TypeOK'
    BY <1>2, <2>2, <2>3, <2>4 DEF Serve, TypeOK, pageVars, histVars
  <2>6. AboutAccount(a) => a.user \in Accounts
    BY <2>1, <2>2 DEF PageInv, AboutAccount, Names
  <2>7. PageInv'
    BY <1>2, <2>2, <2>3, <2>6 DEF Serve, PageInv, AboutAccount, pageVars
  <2> QED  BY <2>5, <2>7
<1>3. CASE Refuse(r)
  <2> DEFINE a == Answered(r, "error", {})
  <2>1. a \in Requests /\ a.kind = r.kind /\ a.user = r.user /\ a.state = "error"
    BY <1>1, AnswerKeeps
  <2>2. requests' = (requests \ {r}) \cup {a}
    BY <1>3 DEF Refuse, Answer
  <2>3. TypeOK'
    BY <1>3, <2>1, <2>2 DEF Refuse, TypeOK, pageVars, serverVars
  <2>4. PageInv'
    BY <1>3, <2>1, <2>2 DEF Refuse, PageInv, AboutAccount, pageVars
  <2> QED  BY <2>3, <2>4
<1> QED  BY <1>2, <1>3

LEMMA CommandInv == Inv /\ RunCommand => Inv'
<1> SUFFICES ASSUME Inv, RunCommand PROVE Inv'
  OBVIOUS
<1>1. PICK i \in DOMAIN commands :
        /\ follows' = IF commands[i].op = "start" THEN follows \cup {commands[i].user}
                                                  ELSE follows \ {commands[i].user}
        /\ commands' = RemoveAt(commands, i)
        /\ UNCHANGED <<pageVars, requests, histVars>>
  BY DEF RunCommand
<1>2. commands[i].user \in Accounts
  <2>1. commands \in Seq([op : {"start", "stop"}, user : Accounts])
    BY DEF Inv, TypeOK
  <2>2. i \in DOMAIN commands
    OBVIOUS
  <2>3. commands[i] \in [op : {"start", "stop"}, user : Accounts]
    BY <2>1, <2>2, ElementType
  <2> QED  BY <2>3
<1>3. commands' \in Seq([op : {"start", "stop"}, user : Accounts])
  BY <1>1, RemoveAtType DEF Inv, TypeOK
<1>4. TypeOK'
  BY <1>1, <1>2, <1>3 DEF Inv, TypeOK, pageVars, histVars
<1>5. PageInv'
  BY <1>1 DEF Inv, PageInv, AboutAccount, pageVars
<1> QED  BY <1>4, <1>5 DEF Inv

-----------------------------------------------------------------------------
(* Callbacks.                                                                   *)

LEMMA CallbackInv == ASSUME Inv, NEW r \in requests, Callback(r) PROVE Inv'
<1> USE DEF Inv
<1>1. r \in Requests
  BY DEF TypeOK
<1>2. CASE ShowTimeline(r)
  BY <1>2 DEF ShowTimeline, Done, TypeOK, PageInv, AboutAccount, serverVars, histVars
<1>3. CASE StoreFollowing(r)
  <2>1. r.data \in SUBSET Accounts
    BY <1>1 DEF Requests
  <2> QED  BY <1>3, <2>1 DEF StoreFollowing, Done, TypeOK, PageInv, AboutAccount, serverVars, histVars
<1>4. CASE ShowTheirs(r)
  <2>1. r.user \in Accounts
    BY <1>4 DEF ShowTheirs, PageInv, AboutAccount
  <2> QED  BY <1>4, <2>1 DEF ShowTheirs, Done, TypeOK, PageInv, AboutAccount, serverVars, histVars
<1>5. CASE ShowUser(r)
  <2>1. r.user \in Accounts /\ r.user # None /\ r.n \in Nat
    BY <1>1, <1>5, PageAssumption DEF ShowUser, PageInv, AboutAccount, Requests
  <2>2. Sent("theirs", r.user, r.n) \in Requests
    BY <2>1, SentIsRequest DEF Kinds, Names
  <2>3. requests' \subseteq Requests /\ label' \in Labels /\ tweets' \in Seq(Accounts \cup {None})
    <3>1. <<r.user>> \in Seq(Accounts \cup {None})
      BY <2>1
    <3> QED  BY <1>5, <2>2, <3>1, EmptyColumn DEF ShowUser, TypeOK, Labels
  <2>4. TypeOK'
    BY <1>5, <2>1, <2>3, EmptyColumn DEF ShowUser, TypeOK, serverVars, histVars
  <2>5. \A q \in requests' : q \in requests \/ q = Sent("theirs", r.user, r.n)
    BY <1>5 DEF ShowUser
  <2>6. PageInv'
    BY <1>5, <2>1, <2>5 DEF ShowUser, PageInv, AboutAccount, Sent
  <2> QED  BY <2>4, <2>6
<1>6. CASE Refresh(r)
  <2>1. Sent("timeline", None, r.n) \in Requests
    BY <1>1, SentIsRequest DEF Kinds, Requests
  <2>2. TypeOK'
    BY <1>6, <2>1 DEF Refresh, TypeOK, serverVars, histVars
  <2>3. PageInv'
    BY <1>6 DEF Refresh, PageInv, AboutAccount, Sent
  <2> QED  BY <2>2, <2>3
<1>7. CASE Started(r)
  BY <1>7 DEF Started, Done, TypeOK, PageInv, AboutAccount, Labels, serverVars, histVars
<1>8. CASE Stopped(r)
  <2>1. followingIds \in SUBSET Accounts
    BY <1>8 DEF Stopped, PageInv
  <2>2. followingIds' \in SUBSET Accounts
    BY <1>8, <2>1 DEF Stopped
  <2>3. TypeOK'
    BY <1>8, <2>2 DEF Stopped, Done, TypeOK, Labels, serverVars, histVars
  <2>4. PageInv'
    BY <1>8, <2>2 DEF Stopped, Done, PageInv, AboutAccount
  <2> QED  BY <2>3, <2>4
<1>9. CASE Failed(r)
  <2>1. TypeOK'
    BY <1>9 DEF Failed, Done, TypeOK, Labels, serverVars, histVars
  <2>2. PageInv'
    BY <1>9 DEF Failed, Done, PageInv, AboutAccount
  <2> QED  BY <2>1, <2>2
<1> QED  BY <1>2, <1>3, <1>4, <1>5, <1>6, <1>7, <1>8, <1>9 DEF Callback

LEMMA StutterInv == Inv /\ UNCHANGED vars => Inv'
BY DEF Inv, TypeOK, PageInv, AboutAccount, vars, pageVars, serverVars, histVars

LEMMA InvStep == Inv /\ [Next]_vars => Inv'
BY UserInv, ServerInv, CommandInv, CallbackInv, StutterInv DEF Next

LEMMA InvAlways == Spec => []Inv
BY InitInv, InvStep, PTL DEF Spec

\* Every variable of the page and the server keeps its type: whoever is shown, followed or
\* asked about where an account is needed has one, and followingIds is a list when an
\* answer to "stop following" changes it (bigbird.js, line 178).
THEOREM TypeCorrect == Spec => []TypeOK
BY InvAlways, PTL DEF Inv

-----------------------------------------------------------------------------
(* The button.                                                                  *)

Press(r) == r.kind \in {"start", "stop"}

\* A step that leaves the label at "updating..." leaves an answer to wait for.
LEMMA ButtonStep == Inv /\ ButtonComesBack /\ [Next]_vars => ButtonComesBack'
<1> SUFFICES ASSUME Inv, ButtonComesBack, [Next]_vars,
                    label' = "updating...", ~unheard'
             PROVE  \E r \in requests' : Press(r)
  BY DEF ButtonComesBack, Press
<1> USE DEF Press
<1>1. ASSUME label = "updating..." /\ ~unheard => \E r \in requests : Press(r),
             label' = label, unheard' = unheard,
             \A r \in requests : Press(r) => \E q \in requests' : Press(q)
      PROVE  \E r \in requests' : Press(r)
  BY <1>1
<1>2. label = "updating..." /\ ~unheard => \E r \in requests : Press(r)
  BY DEF ButtonComesBack
<1>3. CASE User
  <2>1. CASE FollowOrUnfollow
    <3> DEFINE new == Sent(IF currentUser \in followingIds THEN "stop" ELSE "start",
                           currentUser, acts')
    <3>1. new \in requests'
      BY <2>1 DEF FollowOrUnfollow
    <3> QED  BY <3>1 DEF Sent
  <2>2. CASE Home \/ Tweet \/ \E u \in Names : ViewUser(u)
    BY <1>1, <1>2, <2>2 DEF Home, Tweet, ViewUser, pageVars
  <2> QED  BY <1>3, <2>1, <2>2 DEF User
<1>4. CASE RunCommand
  BY <1>1, <1>2, <1>4 DEF RunCommand, pageVars, histVars
<1>5. ASSUME NEW r \in requests, Serve(r) \/ Refuse(r) PROVE \E q \in requests' : Press(q)
  <2>1. PICK state \in {"ok", "error"}, data \in SUBSET Accounts : Answer(r, state, data)
    BY <1>5 DEF Serve, Refuse, Data, Inv, TypeOK
  <2> DEFINE a == Answered(r, state, data)
  <2>2. a.kind = r.kind
    BY AnswerKeeps DEF Inv, TypeOK
  <2>3. requests' = (requests \ {r}) \cup {a}
    BY <2>1 DEF Answer
  <2> QED  BY <1>1, <1>2, <1>5, <2>2, <2>3 DEF Serve, Refuse, pageVars, histVars
<1>6. ASSUME NEW r \in requests, Callback(r) PROVE \E q \in requests' : Press(q)
  <2>1. CASE Press(r)
    BY <1>6, <2>1 DEF Callback, ShowTimeline, StoreFollowing, ShowTheirs, ShowUser, Refresh,
                      Started, Stopped, Failed
  <2>2. CASE ~Press(r)
    <3>1. \A q \in requests : Press(q) => q \in requests'
      BY <1>6, <2>2 DEF Callback, ShowTimeline, StoreFollowing, ShowTheirs, ShowUser, Refresh,
                        Started, Stopped, Failed, Done
    <3>2. label' = label /\ unheard' = unheard
      BY <1>6, <2>2 DEF Callback, ShowTimeline, StoreFollowing, ShowTheirs, ShowUser, Refresh,
                        Started, Stopped, Failed, histVars
    <3> QED  BY <1>2, <3>1, <3>2
  <2> QED  BY <2>1, <2>2
<1>7. CASE UNCHANGED vars
  BY <1>1, <1>2, <1>7 DEF vars, pageVars, histVars
<1> QED  BY <1>3, <1>4, <1>5, <1>6, <1>7 DEF Next

\* The button does not stay at "updating..." without an answer to come that sets it back,
\* in any order of answers, unless it was pressed before the people followed were known:
\* for every set of accounts and any number of acts and failures.
THEOREM ButtonSetBack == Spec => []ButtonComesBack
<1>1. Init => ButtonComesBack
  BY DEF Init, ButtonComesBack
<1> QED  BY <1>1, ButtonStep, InvAlways, PTL DEF Spec

-----------------------------------------------------------------------------
(* A user who waits for every answer.                                           *)

Orderly == OneThing /\ ColumnsFilled /\ FollowingKept

\* A command is one to start or to stop following an account.
LEMMA CommandTypes ==
    ASSUME Inv, commands # <<>>
    PROVE  /\ Len(commands) \in Nat \ {0} /\ 1 \in DOMAIN commands
           /\ commands[1].op \in {"start", "stop"} /\ commands[1].user \in Accounts
<1>1. Len(commands) \in Nat \ {0} /\ 1 \in DOMAIN commands
  BY DEF Inv, TypeOK
<1>2. commands[1] \in [op : {"start", "stop"}, user : Accounts]
  BY <1>1, ElementType DEF Inv, TypeOK
<1> QED  BY <1>1, <1>2

\* Whoever is not one of home()'s two requests is the only one.
LEMMA Alone ==
    ASSUME OneThing, NEW r \in requests, r.kind \notin {"timeline", "following"}
    PROVE  requests = {r}
BY DEF OneThing

LEMMA HomeIsOneThing ==
    ASSUME NEW n
    PROVE  \A q, r \in HomeRequests(n) : \/ q = r
                                         \/ q.kind = "timeline" /\ r.kind = "following"
                                         \/ q.kind = "following" /\ r.kind = "timeline"
BY DEF HomeRequests, Sent

\* A column with one name more.
LEMMA FirstOfColumn == ASSUME NEW u \in Accounts \cup {None} PROVE Append(<<>>, u) = <<u>>
OBVIOUS

\* Nothing under way, nothing to be unlearnt.
LEMMA NobodyLeaves == (\A r \in requests : r.kind # "stop") => Leaving = {}
BY DEF Leaving

\* An act of a user who has waited.
LEMMA PatientUser ==
    ASSUME Inv, Orderly, requests = {}, commands = <<>>, User
    PROVE  Orderly'
<1> USE DEF Orderly
<1>1. /\ shown = None \/ shown \in Accounts
      /\ tweets = <<shown>> /\ column = <<shown>> /\ (shown # None => currentUser = shown)
      /\ followingIds # None /\ followingIds \in SUBSET Accounts
      /\ followingIds \subseteq follows
      /\ shown # None /\ label = "Follow" => shown \notin followingIds
  BY NobodyLeaves DEF ColumnsFilled, FollowingKept, Pending, Inv, TypeOK
<1>2. CASE Home
  <2>1. /\ requests' = HomeRequests(acts') /\ commands' = <<>> /\ shown' = None
        /\ tweets' = <<>> /\ column' = <<>> /\ UNCHANGED <<followingIds, follows, label>>
    BY <1>2 DEF Home, serverVars
  <2>2. /\ Pending("timeline")' /\ Pending("following")'
        /\ \A r \in requests' : r.state = "sent" /\ r.kind \in {"timeline", "following"}
    BY <2>1 DEF Pending, HomeRequests, Sent
  <2>3. OneThing'
    BY <2>1, <2>2, HomeIsOneThing DEF OneThing
  <2>4. ColumnsFilled'
    BY <2>1, <2>2 DEF ColumnsFilled
  <2>5. Leaving' = {}
    BY <2>2 DEF Leaving
  <2>6. FollowingKept'
    BY <1>1, <2>1, <2>2, <2>5 DEF FollowingKept
  <2> QED  BY <2>3, <2>4, <2>6
<1>3. ASSUME NEW new, requests' = {new}, new.state = "sent",
             new.kind \in {"user", "tweet", "start", "stop"},
             new.kind = "tweet" => shown = None,
             new.kind \in {"start", "stop"} => shown # None /\ new.user = shown,
             new.kind = "start" => new.user \notin followingIds,
             new.kind = "stop" => new.user \in followingIds,
             UNCHANGED <<commands, shown, currentUser, tweets, column, followingIds, follows>>,
             label' # "Follow" \/ label' = label
      PROVE  Orderly'
  <2>1. \A kind \in {"timeline", "following", "theirs"} : ~Pending(kind)'
    BY <1>3 DEF Pending
  <2>2. Leaving' = {}
    BY <1>3 DEF Leaving
  <2>3. OneThing'
    BY <1>3 DEF OneThing
  <2>4. ColumnsFilled'
    BY <1>1, <1>3, <2>1 DEF ColumnsFilled
  <2>5. FollowingKept'
    BY <1>1, <1>3, <2>1, <2>2 DEF FollowingKept
  <2> QED  BY <2>3, <2>4, <2>5
<1>4. CASE Tweet
  <2> DEFINE new == Sent("tweet", None, acts')
  <2>1. requests' = {new} /\ shown = None /\ UNCHANGED <<pageVars, serverVars>>
    BY <1>4 DEF Tweet
  <2>2. new.kind = "tweet" /\ new.state = "sent"
    BY DEF Sent
  <2> QED  BY <1>3, <2>1, <2>2 DEF pageVars, serverVars
<1>5. ASSUME NEW u \in Names, ViewUser(u) PROVE Orderly'
  <2> DEFINE new == Sent("user", u, acts')
  <2>1. requests' = {new} /\ UNCHANGED <<pageVars, serverVars>>
    BY <1>5 DEF ViewUser
  <2>2. new.kind = "user" /\ new.state = "sent"
    BY DEF Sent
  <2> QED  BY <1>3, <2>1, <2>2 DEF pageVars, serverVars
<1>6. CASE FollowOrUnfollow
  <2> DEFINE kind == IF currentUser \in followingIds THEN "stop" ELSE "start"
             new == Sent(kind, currentUser, acts')
  <2>1. /\ requests' = {new} /\ shown # None /\ label' = "updating..."
        /\ UNCHANGED <<shown, currentUser, followingIds, tweets, column, serverVars>>
    BY <1>1, <1>6 DEF FollowOrUnfollow
  <2>2. new.kind = kind /\ new.state = "sent" /\ new.user = currentUser
    BY DEF Sent
  <2> HIDE DEF new
  <2> QED  BY <1>1, <1>3, <2>1, <2>2 DEF serverVars
<1> QED  BY <1>2, <1>4, <1>5, <1>6 DEF User

\* The server answers.
LEMMA PatientServer ==
    ASSUME Inv, Orderly, NEW r \in requests, Serve(r) \/ Refuse(r)
    PROVE  Orderly'
<1> USE DEF Orderly
<1>1. PICK state \in {"ok", "error"}, data \in SUBSET Accounts :
        /\ Answer(r, state, data)
        /\ state = "error" => r.kind \in {"user", "tweet", "start", "stop"}
        /\ r.kind = "following" => data = follows
        /\ commands' = IF state = "ok" /\ r.kind \in {"start", "stop"}
                       THEN Append(commands, [op |-> r.kind, user |-> r.user]) ELSE commands
  BY DEF Serve, Refuse, Data, Inv, TypeOK, serverVars
<1> DEFINE a == Answered(r, state, data)
<1>2. a.kind = r.kind /\ a.user = r.user /\ a.state = state /\ a.data = data /\ r.state = "sent"
  BY DEF Answered, Serve, Refuse, Inv, TypeOK, Requests
<1>3. requests' = (requests \ {r}) \cup {a} /\ UNCHANGED <<pageVars, follows>>
  BY <1>1 DEF Answer, Serve, Refuse, serverVars
<1> HIDE DEF a
<1>4. commands = <<>>
  BY <1>2 DEF OneThing
<1>5. \A kind : Pending(kind)' = Pending(kind)
  BY <1>2, <1>3 DEF Pending
<1>6. ColumnsFilled'
  BY <1>2, <1>3, <1>5 DEF ColumnsFilled, pageVars
<1>7. CASE r.kind \in {"start", "stop"}
  <2>1. requests = {r} /\ requests' = {a}
    BY <1>3, <1>7, Alone
  <2>2. commands' = IF state = "ok" THEN <<[op |-> r.kind, user |-> r.user]>> ELSE <<>>
    BY <1>1, <1>4, <1>7
  <2>3. OneThing'
    <3>1. CASE state = "ok"
      BY <1>2, <1>7, <2>1, <2>2, <3>1 DEF OneThing
    <3>2. CASE state = "error"
      BY <1>2, <1>7, <2>1, <2>2, <3>2 DEF OneThing
    <3> QED  BY <3>1, <3>2
  <2>4. Leaving = {} /\ Leaving' = IF r.kind = "stop" /\ state = "ok" THEN {r.user} ELSE {}
    BY <1>2, <2>1 DEF Leaving
  <2>5. /\ commands' # <<>> => commands'[1].op = r.kind /\ commands'[1].user = r.user /\ state = "ok"
    BY <2>2
  <2>6. FollowingKept'
    BY <1>2, <1>3, <1>5, <1>7, <2>1, <2>4, <2>5 DEF FollowingKept, pageVars
  <2> QED  BY <1>6, <2>3, <2>6
<1>8. CASE r.kind \notin {"start", "stop"}
  <2>1. commands' = <<>>
    BY <1>1, <1>4, <1>8
  <2>2. OneThing'
    BY <1>1, <1>2, <1>3, <2>1 DEF OneThing
  <2>3. \A q \in requests \cup requests' : q.kind \notin {"start", "stop"}
    BY <1>2, <1>3, <1>8 DEF OneThing
  <2>4. Leaving = {} /\ Leaving' = {}
    BY <2>3 DEF Leaving
  <2>5. FollowingKept'
    BY <1>1, <1>2, <1>3, <1>5, <2>1, <2>3, <2>4 DEF FollowingKept, pageVars
  <2> QED  BY <1>6, <2>2, <2>5
<1> QED  BY <1>7, <1>8

\* The one command that is there runs.
LEMMA PatientCommand == ASSUME Inv, Orderly, RunCommand PROVE Orderly'
<1> USE DEF Orderly
<1>1. PICK i \in DOMAIN commands :
        /\ follows' = IF commands[i].op = "start" THEN follows \cup {commands[i].user}
                                                  ELSE follows \ {commands[i].user}
        /\ commands' = RemoveAt(commands, i)
        /\ UNCHANGED <<pageVars, requests, histVars>>
  BY DEF RunCommand
<1>2. commands \in Seq([op : {"start", "stop"}, user : Accounts]) /\ Len(commands) <= 1
  BY DEF Inv, TypeOK, OneThing
<1>3. i = 1 /\ Len(commands) = 1 /\ commands # <<>>
  <2>1. DOMAIN commands = 1 .. Len(commands) /\ Len(commands) \in Nat
    BY <1>2
  <2> QED  BY <1>2, <2>1
<1>4. commands' = <<>>
  <2>1. commands' = SubSeq(commands, 1, 0) \o SubSeq(commands, 2, 1)
    BY <1>1, <1>3 DEF RemoveAt
  <2>2. SubSeq(commands, 1, 0) = <<>> /\ SubSeq(commands, 2, 1) = <<>>
    BY <1>2
  <2> QED  BY <2>1, <2>2
<1>5. commands[1].op \in {"start", "stop"}
  BY <1>3, CommandTypes
<1>6. /\ \A kind : Pending(kind)' = Pending(kind)
      /\ Leaving' = Leaving
  BY <1>1 DEF Pending, Leaving
<1>7. OneThing' /\ ColumnsFilled'
  BY <1>1, <1>4, <1>6 DEF OneThing, ColumnsFilled, pageVars
<1>8. \A r \in requests : r.kind # "following"
  BY <1>3, <1>5 DEF OneThing
<1>9. FollowingKept'
  BY <1>1, <1>3, <1>4, <1>5, <1>6, <1>8 DEF FollowingKept, pageVars
<1> QED  BY <1>7, <1>9

\* A callback runs.
LEMMA PatientCallback ==
    ASSUME Inv, Orderly, NEW r \in requests, Callback(r)
    PROVE  Orderly'
<1> USE DEF Orderly
<1>0. r \in Requests
  BY DEF Inv, TypeOK
<1>1. UNCHANGED <<commands, follows>>
  BY DEF Callback, ShowTimeline, StoreFollowing, ShowTheirs, ShowUser, Refresh, Started,
         Stopped, Failed, serverVars
<1>2. r.kind \notin {"start", "stop"} => commands = <<>>
  BY CommandTypes DEF OneThing
\* The callbacks of home()'s requests.
<1>3. CASE ShowTimeline(r) \/ StoreFollowing(r)
  <2>1. /\ requests' = requests \ {r} /\ r.kind \in {"timeline", "following"} /\ r.state = "ok"
        /\ UNCHANGED <<shown, currentUser, label>>
    BY <1>3 DEF ShowTimeline, StoreFollowing, Done
  <2>2. \A q \in requests : q.kind \in {"timeline", "following"} /\ (q.kind = r.kind => q = r)
    BY <2>1 DEF OneThing
  <2>3. /\ ~Pending(r.kind)' /\ Pending(r.kind) /\ ~Pending("theirs") /\ ~Pending("theirs")'
        /\ \A kind : kind # r.kind => Pending(kind)' = Pending(kind)
    BY <2>1, <2>2 DEF Pending
  <2>4. commands = <<>> /\ shown = None
    BY <1>2, <2>1 DEF ColumnsFilled
  <2>5. OneThing'
    BY <1>1, <2>1, <2>4 DEF OneThing
  <2>6. Leaving' = {} /\ Leaving = {}
    BY <2>1, <2>2 DEF Leaving
  <2>7. CASE ShowTimeline(r)
    <3>1. r.kind = "timeline" /\ tweets' = Append(tweets, None) /\ UNCHANGED <<column, followingIds>>
      BY <2>7 DEF ShowTimeline
    <3>2. tweets' = <<None>>
      BY <2>3, <3>1, FirstOfColumn DEF ColumnsFilled
    <3>3. ColumnsFilled'
      BY <2>1, <2>3, <2>4, <3>1, <3>2 DEF ColumnsFilled
    <3>4. FollowingKept'
      BY <1>1, <2>1, <2>3, <2>4, <2>6, <3>1 DEF FollowingKept
    <3> QED  BY <2>5, <3>3, <3>4
  <2>8. CASE StoreFollowing(r)
    <3>1. /\ r.kind = "following" /\ followingIds' = r.data /\ column' = Append(column, None)
          /\ UNCHANGED tweets
      BY <2>8 DEF StoreFollowing
    <3>2. column' = <<None>>
      BY <2>3, <3>1, FirstOfColumn DEF ColumnsFilled
    <3>3. ColumnsFilled'
      BY <2>1, <2>3, <2>4, <3>1, <3>2 DEF ColumnsFilled
    <3>4. followingIds' = follows /\ follows \subseteq Accounts
      BY <2>1, <3>1 DEF FollowingKept, Inv, TypeOK
    <3>5. followingIds' # None
      BY <3>4, PageAssumption
    <3>6. FollowingKept'
      BY <1>1, <2>1, <2>2, <2>4, <2>6, <3>4, <3>5 DEF FollowingKept
    <3> QED  BY <2>5, <3>3, <3>6
  <2> QED  BY <1>3, <2>7, <2>8

\* The callbacks of all others find nothing else under way.
<1>4. ASSUME requests = {r}, r.kind \notin {"timeline", "following"}
      PROVE  /\ \A kind : Pending(kind) => kind = r.kind
             /\ followingIds # None /\ followingIds \in SUBSET Accounts
  <2>1. \A kind : Pending(kind) => kind = r.kind
    BY <1>4 DEF Pending
  <2> QED  BY <1>4, <2>1 DEF FollowingKept, Inv, TypeOK
<1>5. ASSUME requests' = {} PROVE Leaving' = {} /\ \A kind : ~Pending(kind)'
  BY <1>5 DEF Leaving, Pending
<1>6. CASE ShowTheirs(r)
  <2>1. /\ requests = {r} /\ requests' = {} /\ r.kind = "theirs" /\ r.state = "ok"
        /\ column' = Append(column, r.user)
        /\ UNCHANGED <<shown, currentUser, followingIds, label, tweets>>
    BY <1>6, Alone DEF ShowTheirs, Done
  <2>2. r.user = shown /\ r.user \in Accounts /\ column = <<>> /\ tweets = <<shown>>
    BY <2>1, <1>4 DEF ColumnsFilled, Inv, PageInv, AboutAccount, Pending
  <2>3. column' = <<shown>>
    BY <2>1, <2>2, FirstOfColumn
  <2>4. OneThing' /\ ColumnsFilled'
    BY <1>1, <1>2, <1>5, <2>1, <2>2, <2>3 DEF OneThing, ColumnsFilled
  <2>5. Leaving = {} /\ Leaving' = {}
    BY <1>5, <2>1, NobodyLeaves
  <2>6. FollowingKept'
    BY <1>1, <1>2, <1>4, <1>5, <2>1, <2>5 DEF FollowingKept
  <2> QED  BY <2>4, <2>6
<1>7. CASE ShowUser(r)
  <2> DEFINE new == Sent("theirs", r.user, r.n)
  <2>1. requests = {r} /\ r.kind = "user" /\ r.state = "ok" /\ r.user \in Accounts /\ r.user # None
    BY <1>7, Alone, PageAssumption DEF ShowUser, Inv, PageInv, AboutAccount
  <2>2. /\ requests' = {new} /\ shown' = r.user /\ currentUser' = r.user
        /\ column' = <<>> /\ tweets' = <<r.user>> /\ UNCHANGED followingIds
        /\ label' = IF r.user \in followingIds THEN "Unfollow" ELSE "Follow"
    BY <1>4, <1>7, <2>1 DEF ShowUser
  <2>3. new.kind = "theirs" /\ new.user = r.user /\ new.state = "sent"
    BY DEF Sent
  <2> HIDE DEF new
  <2>4. /\ Pending("theirs")' /\ \A kind : Pending(kind)' => kind = "theirs"
        /\ commands' = <<>> /\ commands = <<>>
    BY <1>1, <1>2, <2>1, <2>2, <2>3 DEF Pending
  <2>5. Leaving = {} /\ Leaving' = {}
    BY <2>1, <2>2, <2>3 DEF Leaving
  <2>6. OneThing' /\ ColumnsFilled'
    BY <2>1, <2>2, <2>3, <2>4 DEF OneThing, ColumnsFilled
  <2>7. FollowingKept'
    BY <1>1, <1>4, <2>1, <2>2, <2>3, <2>4, <2>5 DEF FollowingKept
  <2> QED  BY <2>6, <2>7
<1>8. CASE Refresh(r)
  <2> DEFINE new == Sent("timeline", None, r.n)
  <2>1. /\ requests = {r} /\ r.kind = "tweet" /\ requests' = {new} /\ tweets' = <<>>
        /\ UNCHANGED <<shown, currentUser, followingIds, label, column>>
    BY <1>8, Alone DEF Refresh
  <2>2. new.kind = "timeline" /\ new.state = "sent"
    BY DEF Sent
  <2> HIDE DEF new
  <2>3. /\ Pending("timeline")' /\ \A kind : Pending(kind)' => kind = "timeline"
        /\ commands' = <<>> /\ commands = <<>> /\ shown = None
    BY <1>1, <1>2, <2>1, <2>2 DEF Pending, ColumnsFilled
  <2>4. Leaving = {} /\ Leaving' = {}
    BY <2>1, <2>2 DEF Leaving
  <2>5. OneThing' /\ ColumnsFilled'
    BY <1>4, <2>1, <2>2, <2>3 DEF OneThing, ColumnsFilled
  <2>6. FollowingKept'
    BY <1>1, <1>4, <2>1, <2>2, <2>3, <2>4 DEF FollowingKept
  <2> QED  BY <2>5, <2>6
<1>9. ASSUME requests = {r}, requests' = {}, r.kind \in {"user", "tweet", "start", "stop"},
             UNCHANGED <<shown, currentUser, tweets, column>>
      PROVE  OneThing' /\ ColumnsFilled'
  <2>1. tweets = <<shown>> /\ column = <<shown>>
    BY <1>4, <1>9 DEF ColumnsFilled
  <2> QED  BY <1>1, <1>5, <1>9, <2>1 DEF OneThing, ColumnsFilled
<1>10. CASE Started(r)
  <2>1. /\ requests = {r} /\ r.kind = "start" /\ requests' = {} /\ label' = "Unfollow"
        /\ UNCHANGED <<shown, currentUser, followingIds, tweets, column>>
    BY <1>10, Alone DEF Started, Done
  <2>2. Leaving = {} /\ Leaving' = {}
    BY <1>5, <2>1, NobodyLeaves
  <2>3. FollowingKept'
    BY <1>1, <1>4, <1>5, <2>1, <2>2 DEF FollowingKept
  <2> QED  BY <1>9, <2>1, <2>3
<1>11. CASE Stopped(r)
  <2>1. /\ requests = {r} /\ r.kind = "stop" /\ r.state = "ok" /\ requests' = {}
        /\ label' = "Follow" /\ UNCHANGED <<shown, currentUser, tweets, column>>
    BY <1>11, Alone DEF Stopped, Done
  <2>2. r.user = currentUser /\ r.user = shown /\ r.user \in followingIds
    BY <2>1 DEF ColumnsFilled, FollowingKept
  <2>3. followingIds' = followingIds \ {r.user}
    BY <1>11, <2>2 DEF Stopped
  <2>4. Leaving = {r.user} /\ Leaving' = {}
    BY <1>5, <2>1 DEF Leaving
  <2>5. commands # <<>> => commands[1].user = r.user
    BY <2>1 DEF OneThing
  <2>6. followingIds' # None
    BY <1>4, <2>1, <2>3, PageAssumption
  <2>7. FollowingKept'
    BY <1>1, <1>4, <1>5, <2>1, <2>2, <2>3, <2>4, <2>5, <2>6 DEF FollowingKept
  <2> QED  BY <1>9, <2>1, <2>7
<1>12. CASE Failed(r)
  <2>1. /\ r.state = "error" /\ r.kind \in {"user", "tweet", "start", "stop"}
        /\ requests' = requests \ {r}
        /\ UNCHANGED <<shown, currentUser, followingIds, tweets, column>>
    BY <1>12 DEF Failed, Done, OneThing
  <2>2. label' = IF r.kind = "start" THEN "Follow" ELSE IF r.kind = "stop" THEN "Unfollow" ELSE label
    BY <1>12 DEF Failed
  <2>3. requests = {r} /\ requests' = {}
    BY <2>1, Alone
  <2>4. commands = <<>> /\ Leaving = {} /\ Leaving' = {}
    BY <1>5, <2>1, <2>3 DEF OneThing, Leaving
  <2>5. r.kind = "start" => shown \notin followingIds
    BY <2>1 DEF ColumnsFilled, FollowingKept
  <2>6. FollowingKept'
    BY <1>1, <1>4, <1>5, <2>1, <2>2, <2>3, <2>4, <2>5 DEF FollowingKept
  <2> QED  BY <1>9, <2>1, <2>3, <2>6
<1> QED  BY <1>3, <1>6, <1>7, <1>8, <1>10, <1>11, <1>12 DEF Callback

LEMMA PatientStep == Inv /\ PatientInv /\ [Next]_vars => PatientInv'
<1> SUFFICES ASSUME Inv, PatientInv, [Next]_vars, patient' PROVE Orderly'
  BY DEF PatientInv, Orderly
<1>1. CASE User
  <2>1. Act
    BY <1>1 DEF User, Home, Tweet, FollowOrUnfollow, ViewUser
  <2>2. patient /\ requests = {} /\ commands = <<>>
    BY <2>1 DEF Act
  <2> QED  BY <1>1, <2>2, PatientUser DEF PatientInv, Orderly
<1>2. CASE RunCommand
  <2>1. patient
    BY <1>2 DEF RunCommand, histVars
  <2> QED  BY <1>2, <2>1, PatientCommand DEF PatientInv, Orderly
<1>3. ASSUME NEW r \in requests, Serve(r) \/ Refuse(r) PROVE Orderly'
  <2>1. patient
    BY <1>3 DEF Serve, Refuse, histVars
  <2> QED  BY <1>3, <2>1, PatientServer DEF PatientInv, Orderly
<1>4. ASSUME NEW r \in requests, Callback(r) PROVE Orderly'
  <2>1. patient
    BY <1>4 DEF Callback, ShowTimeline, StoreFollowing, ShowTheirs, ShowUser, Refresh, Started,
                Stopped, Failed, histVars
  <2> QED  BY <1>4, <2>1, PatientCallback DEF PatientInv, Orderly
<1>5. CASE UNCHANGED vars
  BY <1>5 DEF PatientInv, Orderly, OneThing, ColumnsFilled, FollowingKept, Pending, Leaving,
              vars, pageVars, serverVars, histVars
<1> QED  BY <1>1, <1>2, <1>3, <1>4, <1>5 DEF Next

LEMMA PatientAlways == Spec => []PatientInv
<1>1. Init => PatientInv
  <2> SUFFICES ASSUME Init PROVE Orderly
    BY DEF PatientInv, Orderly
  <2>1. /\ requests = HomeRequests(0) /\ commands = <<>> /\ shown = None /\ followingIds = None
        /\ tweets = <<>> /\ column = <<>>
    BY DEF Init
  <2>2. /\ Pending("timeline") /\ Pending("following")
        /\ \A r \in requests : r.state = "sent" /\ r.kind \in {"timeline", "following"}
    BY <2>1 DEF Pending, HomeRequests, Sent
  <2>3. OneThing
    BY <2>1, <2>2, HomeIsOneThing DEF OneThing
  <2>4. ColumnsFilled /\ FollowingKept
    BY <2>1, <2>2 DEF ColumnsFilled, FollowingKept
  <2> QED  BY <2>3, <2>4 DEF Orderly
<1> QED  BY <1>1, PatientStep, InvAlways, PTL DEF Spec

\* Whoever waits for every answer sees one person's tweets and following lists, those of the
\* one in the header, for any accounts, acts, failed posts and order of the answers.
THEOREM OneAtATime == Spec => []OnePerson
<1>1. PatientInv => OnePerson
  BY DEF PatientInv, OnePerson, AtRest, ColumnsFilled, Pending
<1> QED  BY <1>1, PatientAlways, PTL

\* Whoever waits for every answer is shown as followed only whom he follows, although the
\* page changes its list when the server has only accepted the command, and is not offered
\* to follow one of them.
THEOREM FollowedIsTrue == Spec => []KnownIsFollowed
<1>1. Inv /\ PatientInv => KnownIsFollowed
  <2> SUFFICES ASSUME PatientInv, patient, AtRest
               PROVE  /\ followingIds \subseteq follows
                      /\ shown # None /\ label = "Follow" => currentUser \notin followingIds
    BY DEF KnownIsFollowed
  <2>1. requests = {} /\ Leaving = {} /\ ColumnsFilled /\ FollowingKept
    BY NobodyLeaves DEF AtRest, PatientInv
  <2>2. followingIds # None
    BY <2>1 DEF FollowingKept, Pending
  <2> QED  BY <2>1, <2>2 DEF FollowingKept, ColumnsFilled
<1> QED  BY <1>1, PatientAlways, InvAlways, PTL
=============================================================================
