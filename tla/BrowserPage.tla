----------------------------- MODULE BrowserPage -----------------------------
(***************************************************************************)
(* The page of a logged-in user: the handlers of bigbird.js and the        *)
(* callbacks of their requests, which the server serves, and the browser   *)
(* runs, in any order.  A column of the page is the list of the answers    *)
(* that were appended to it, each named by whose it is.                    *)
(***************************************************************************)
EXTENDS Integers, Sequences, FiniteSets, SequencesExt

CONSTANTS
    Accounts,       \* the users, the one logged in included
    Strangers,      \* names that can be searched for and have no account
    None,           \* undefined; the home page, which belongs to no header
    MaxActs,        \* bound: what the user does
    MaxErrors       \* bound: posts that fail

ASSUME PageAssumption ==
    /\ Accounts \cap Strangers = {} /\ None \notin Accounts \cup Strangers
    /\ \A ids \in SUBSET Accounts : ids # None
    /\ MaxActs \in Nat /\ MaxErrors \in Nat

VARIABLES
    shown,          \* whose header; None: the home page, with the tweet box
    currentUser,
    followingIds,   \* whom the page takes to be followed
    label,          \* of the button "follow"
    tweets, column, \* the columns "tweets" and "following"
    requests,       \* under way
    follows,        \* at the server: whom the user logged in follows
    commands,       \* at the server: accepted and not yet run
    acts, errors,
    patient,        \* history: the user has always waited for every answer
    unheard         \* history: the button was pressed and nothing was sent

pageVars == <<shown, currentUser, followingIds, label, tweets, column>>
serverVars == <<follows, commands>>
histVars == <<acts, errors, patient, unheard>>
vars == <<pageVars, requests, serverVars, histVars>>

Names == Accounts \cup Strangers
Kinds == {"timeline", "following", "user", "theirs", "tweet", "start", "stop"}
Labels == {"Follow", "Unfollow", "updating..."}
Requests == [kind : Kinds, user : Names \cup {None}, n : Nat,
             state : {"sent", "ok", "error"}, data : SUBSET Accounts]

TypeOK ==
    /\ shown \in Accounts \cup {None} /\ currentUser \in Accounts \cup {None}
    /\ followingIds \in (SUBSET Accounts) \cup {None} /\ label \in Labels
    /\ tweets \in Seq(Accounts \cup {None}) /\ column \in Seq(Accounts \cup {None})
    /\ requests \subseteq Requests
    /\ follows \subseteq Accounts /\ commands \in Seq([op : {"start", "stop"}, user : Accounts])
    /\ acts \in Nat /\ errors \in Nat /\ patient \in BOOLEAN /\ unheard \in BOOLEAN

Sent(kind, user, n) ==
    [kind |-> kind, user |-> user, n |-> n, state |-> "sent", data |-> {}]
HomeRequests(n) == {Sent("timeline", None, n), Sent("following", None, n)}

\* The page has been loaded, and home() has run for the first time.
Init ==
    /\ shown = None /\ currentUser = None /\ followingIds = None /\ label = "Follow"
    /\ tweets = <<>> /\ column = <<>>
    /\ requests = HomeRequests(0)
    /\ follows \in SUBSET Accounts /\ commands = <<>>
    /\ acts = 0 /\ errors = 0 /\ patient = TRUE /\ unheard = FALSE

-----------------------------------------------------------------------------
(* What the user does.                                                          *)

Act == /\ acts < MaxActs /\ acts' = acts + 1
       /\ patient' = (patient /\ requests = {} /\ commands = <<>>)
       /\ UNCHANGED errors

Home ==
    /\ Act
    /\ shown' = None /\ tweets' = <<>> /\ column' = <<>>
    /\ requests' = requests \cup HomeRequests(acts')
    /\ UNCHANGED <<currentUser, followingIds, label, serverVars, unheard>>

\* A link, or the field "find_user".
ViewUser(u) ==
    /\ Act
    /\ requests' = requests \cup {Sent("user", u, acts')}
    /\ UNCHANGED <<pageVars, serverVars, unheard>>

Tweet ==
    /\ Act /\ shown = None
    /\ requests' = requests \cup {Sent("tweet", None, acts')}
    /\ UNCHANGED <<pageVars, serverVars, unheard>>

\* The button is part of a user's header.  While the people followed are not
\* known, contains throws and nothing is sent.
FollowOrUnfollow ==
    /\ Act /\ shown # None
    /\ label' = "updating..."
    /\ unheard' = (unheard \/ followingIds = None)
    /\ requests' = IF followingIds = None THEN requests
                   ELSE requests \cup
                          {Sent(IF currentUser \in followingIds THEN "stop" ELSE "start",
                                currentUser, acts')}
    /\ UNCHANGED <<shown, currentUser, followingIds, tweets, column, serverVars>>

-----------------------------------------------------------------------------
(* The server.                                                                  *)

Answered(r, state, data) == [r EXCEPT !.state = state, !.data = data]
Answer(r, state, data) == requests' = (requests \ {r}) \cup {Answered(r, state, data)}

\* The answers tell apart whom one follows, at the time the request is served.
Data(r) == IF r.kind = "following" THEN follows ELSE {}

Serve(r) ==
    /\ r.state = "sent"
    /\ IF r.kind = "user" /\ r.user \in Strangers
         THEN Answer(r, "error", {})
         ELSE Answer(r, "ok", Data(r))
    /\ commands' = IF r.kind \in {"start", "stop"}
                     THEN Append(commands, [op |-> r.kind, user |-> r.user]) ELSE commands
    /\ UNCHANGED <<pageVars, follows, histVars>>

Refuse(r) ==
    /\ r.state = "sent" /\ r.kind \in {"tweet", "start", "stop"} /\ errors < MaxErrors
    /\ Answer(r, "error", {})
    /\ errors' = errors + 1
    /\ UNCHANGED <<pageVars, serverVars, acts, patient, unheard>>

\* The command queue runs what it has accepted; its workers need not keep the order.
RunCommand ==
    \E i \in DOMAIN commands :
    /\ LET c == commands[i] IN
       follows' = IF c.op = "start" THEN follows \cup {c.user} ELSE follows \ {c.user}
    /\ commands' = RemoveAt(commands, i)
    /\ UNCHANGED <<pageVars, requests, histVars>>

-----------------------------------------------------------------------------
(* Callbacks.                                                                   *)

Done(r, state) == r.state = state /\ requests' = requests \ {r}

ShowTimeline(r) ==
    /\ r.kind = "timeline" /\ Done(r, "ok")
    /\ tweets' = Append(tweets, None)
    /\ UNCHANGED <<shown, currentUser, followingIds, label, column, serverVars, histVars>>

StoreFollowing(r) ==
    /\ r.kind = "following" /\ Done(r, "ok")
    /\ followingIds' = r.data /\ column' = Append(column, None)
    /\ UNCHANGED <<shown, currentUser, label, tweets, serverVars, histVars>>

ShowTheirs(r) ==
    /\ r.kind = "theirs" /\ Done(r, "ok")
    /\ column' = Append(column, r.user)
    /\ UNCHANGED <<shown, currentUser, followingIds, label, tweets, serverVars, histVars>>

KeepTweets(r) ==        \* variation: the tweets shown before are not removed
    /\ r.kind = "user" /\ r.state = "ok" /\ followingIds # None
    /\ shown' = r.user /\ currentUser' = r.user /\ column' = <<>>
    /\ tweets' = Append(tweets, r.user)
    /\ label' = IF r.user \in followingIds THEN "Unfollow" ELSE "Follow"
    /\ requests' = (requests \ {r}) \cup {Sent("theirs", r.user, r.n)}
    /\ UNCHANGED <<followingIds, serverVars, histVars>>

\* viewUserHandler, which ends early when the people followed are not known.
ShowUser(r) ==
    /\ r.kind = "user" /\ r.state = "ok"
    /\ shown' = r.user /\ currentUser' = r.user /\ column' = <<>>
    /\ IF followingIds = None
         THEN tweets' = <<>> /\ requests' = requests \ {r} /\ UNCHANGED label
         ELSE /\ tweets' = <<r.user>>
              /\ label' = IF r.user \in followingIds THEN "Unfollow" ELSE "Follow"
              /\ requests' = (requests \ {r}) \cup {Sent("theirs", r.user, r.n)}
    /\ UNCHANGED <<followingIds, serverVars, histVars>>

\* tweet() succeeded: refreshTweets.
Refresh(r) ==
    /\ r.kind = "tweet" /\ r.state = "ok"
    /\ tweets' = <<>>
    /\ requests' = (requests \ {r}) \cup {Sent("timeline", None, r.n)}
    /\ UNCHANGED <<shown, currentUser, followingIds, label, column, serverVars, histVars>>

\* concat leaves followingIds as it is.
Started(r) ==
    /\ r.kind = "start" /\ Done(r, "ok")
    /\ label' = "Unfollow"
    /\ UNCHANGED <<shown, currentUser, followingIds, tweets, column, serverVars, histVars>>

NotSpliced(r) ==        \* variation: the list is left as it is here, too
    /\ r.kind = "stop" /\ Done(r, "ok")
    /\ label' = "Follow"
    /\ UNCHANGED <<shown, currentUser, followingIds, tweets, column, serverVars, histVars>>

\* splice(indexOf(currentUser), 1): the user shown now, and if that one is not in the
\* list, whoever is its last.
Stopped(r) ==
    /\ r.kind = "stop" /\ Done(r, "ok")
    /\ label' = "Follow"
    /\ followingIds' \in
         IF currentUser \in followingIds THEN {followingIds \ {currentUser}}
         ELSE {followingIds \ {u} : u \in followingIds} \cup ({followingIds} \cap {{}})
    /\ UNCHANGED <<shown, currentUser, tweets, column, serverVars, histVars>>

StuckLabel(r) ==        \* variation: the button is not set back
    /\ Done(r, "error")
    /\ UNCHANGED <<pageVars, serverVars, histVars>>

Failed(r) ==
    /\ Done(r, "error")
    /\ label' = CASE r.kind = "start" -> "Follow" [] r.kind = "stop" -> "Unfollow"
                  [] OTHER -> label
    /\ UNCHANGED <<shown, currentUser, followingIds, tweets, column, serverVars, histVars>>

-----------------------------------------------------------------------------
User == Home \/ Tweet \/ FollowOrUnfollow \/ \E u \in Names : ViewUser(u)
Callback(r) == \/ ShowTimeline(r) \/ StoreFollowing(r) \/ ShowTheirs(r) \/ ShowUser(r)
               \/ Refresh(r) \/ Started(r) \/ Stopped(r) \/ Failed(r)
Next == User \/ RunCommand \/ \E r \in requests : Serve(r) \/ Refuse(r) \/ Callback(r)
Spec == Init /\ [][Next]_vars

-----------------------------------------------------------------------------
AtRest == requests = {} /\ commands = <<>>

\* The button says "updating..." only while an answer to it is awaited, unless it was
\* pressed before the people followed were known (followOrUnfollow).
ButtonComesBack ==
    label = "updating..." /\ ~unheard => \E r \in requests : r.kind \in {"start", "stop"}

\* If the user waits for every answer, the columns show one person, the one in the header.
OnePerson == patient /\ AtRest => tweets = <<shown>> /\ column = <<shown>>

\* If the user waits for every answer, whom the page takes to be followed is followed, and
\* "Follow" is not offered for them (followOrUnfollow, its callbacks).
KnownIsFollowed ==
    patient /\ AtRest =>
        /\ followingIds \subseteq follows
        /\ shown # None /\ label = "Follow" => currentUser \notin followingIds

-----------------------------------------------------------------------------
(* Inductive strengthening, for the proofs: whom a request is about.            *)

AboutAccount(r) ==
    \/ r.kind \in {"start", "stop", "theirs"}
    \/ r.kind = "user" /\ r.state = "ok"
PageInv ==
    /\ shown # None => currentUser # None
    /\ \A r \in requests : /\ r.kind = "user" => r.user \in Names
                           /\ AboutAccount(r) => r.user \in Accounts
                           /\ r.kind = "stop" => followingIds \in SUBSET Accounts

\* A user who waits for every answer: one thing is under way at a time, the two requests
\* of home() or a request and the command it has left with the server.
Pending(kind) == \E r \in requests : r.kind = kind
OneThing ==
    /\ \A q, r \in requests : \/ q = r
                              \/ q.kind = "timeline" /\ r.kind = "following"
                              \/ q.kind = "following" /\ r.kind = "timeline"
    /\ Len(commands) <= 1
    /\ \A r \in requests : commands # <<>> =>
         r.state = "ok" /\ commands[1].op = r.kind /\ commands[1].user = r.user
    /\ \A r \in requests : r.state = "error" => r.kind \in {"user", "tweet", "start", "stop"}

\* A column is empty until the answer it waits for, and then shows whose page it is.
ColumnsFilled ==
    /\ tweets = IF Pending("timeline") THEN <<>> ELSE <<shown>>
    /\ column = IF Pending("following") \/ Pending("theirs") THEN <<>> ELSE <<shown>>
    /\ shown # None => currentUser = shown
    /\ \A r \in requests :
         /\ r.kind \in {"timeline", "following", "tweet"} => shown = None
         /\ r.kind \in {"start", "stop", "theirs"} => shown # None /\ r.user = shown

\* Whom the page takes to be followed is followed, but for the one whose "stop following"
\* the server has accepted and the page does not know of yet.
Leaving == {r.user : r \in {q \in requests : q.kind = "stop" /\ q.state = "ok"}}
FollowingKept ==
    /\ followingIds = None => Pending("following")
    /\ followingIds # None =>
         /\ followingIds \ Leaving \subseteq follows
         /\ commands # <<>> /\ commands[1].op = "stop" =>
              commands[1].user \notin followingIds \ Leaving
         /\ shown # None /\ label = "Follow" => shown \notin followingIds
    /\ \A r \in requests :
         /\ r.kind = "following" /\ r.state = "ok" => r.data = follows
         /\ r.kind = "start" => r.user \notin followingIds
         /\ r.kind = "stop" => r.user \in followingIds
PatientInv == patient => OneThing /\ ColumnsFilled /\ FollowingKept
=============================================================================
