---------------------------- MODULE Registration ----------------------------
(***************************************************************************)
(* Accounts: the login page of each visitor (login.js), the registration   *)
(* it posts (WebTweetService.register, VoldemortUserService.newUser), the  *)
(* login that reads what was stored, and nodes that create the account     *)
(* "admin" when they start.  A visitor is named for the password used.     *)
(***************************************************************************)
EXTENDS Naturals, FiniteSets

CONSTANTS
    Nodes, Visitors,
    Names,          \* user names; the empty one is like any other, see Serve
    Admin,          \* "admin"
    Preset,         \* the password admin is created with
    None,
    MaxPosts,       \* bound: registrations posted
    MaxFaults       \* bound: calls of the store that throw

ASSUME RegistrationAssumption ==
    /\ Admin \in Names /\ None \notin Names
    /\ {Preset, None} \cap Visitors = {} /\ Preset # None
    /\ MaxPosts \in Nat /\ MaxFaults \in Nat

VARIABLES
    accounts,       \* store users: the password of each name, or None
    npc,            \* a node: "down", "create" (admin was not there), "up"
    form, message,  \* of a visitor's page: what it shows, what it says
    session,        \* of a visitor: logged in as
    requests,       \* registrations under way
    posts, faults,
    asked, told     \* history: names asked for by, and said to be registered for

histVars == <<asked, told>>
pageVars == <<form, message, session>>
vars == <<accounts, npc, pageVars, requests, posts, faults, histVars>>

Requests == [who : Visitors, name : Names, n : 1 .. MaxPosts, heard : BOOLEAN,
             state : {"sent", "ok", "taken", "failed"}]

TypeOK ==
    /\ accounts \in [Names -> Visitors \cup {Preset, None}]
    /\ npc \in [Nodes -> {"down", "create", "up"}]
    /\ form \in [Visitors -> {"login", "register", "index"}]
    /\ message \in [Visitors -> {"", "registered", "taken", "failed"}]
    /\ session \in [Visitors -> Names \cup {None}]
    /\ requests \subseteq Requests
    /\ posts \in 0 .. MaxPosts /\ faults \in 0 .. MaxFaults
    /\ asked \subseteq Visitors \X Names /\ told \subseteq Visitors \X Names

Init ==
    /\ accounts = [u \in Names |-> None] /\ npc = [n \in Nodes |-> "down"]
    /\ form = [v \in Visitors |-> "login"] /\ message = [v \in Visitors |-> ""]
    /\ session = [v \in Visitors |-> None]
    /\ requests = {} /\ posts = 0 /\ faults = 0 /\ asked = {} /\ told = {}

-----------------------------------------------------------------------------
(* The service of users.                                                        *)

\* variation: the new account is put whatever is there
Overwritten(u, password) == [accounts EXCEPT ![u] = password]

\* The new value has an empty clock: an account that is there makes the put obsolete.
\* putIfNotObsolete returns false then, which update drops, so applyUpdate succeeds.
NewUser(u, password) ==
    IF accounts[u] = None THEN [accounts EXCEPT ![u] = password] ELSE accounts

\* variation: the account is left to others when it is not there
StartedWithout(n) ==
    /\ npc[n] = "down"
    /\ npc' = [npc EXCEPT ![n] = "up"]
    /\ UNCHANGED <<accounts, pageVars, requests, posts, faults, histVars>>

\* initialize: the node asks for admin, and creates it.
NodeStarts(n) ==
    /\ npc[n] = "down"
    /\ npc' = [npc EXCEPT ![n] = IF accounts[Admin] = None THEN "create" ELSE "up"]
    /\ UNCHANGED <<accounts, pageVars, requests, posts, faults, histVars>>

NodeCreates(n) ==
    /\ npc[n] = "create"
    /\ accounts' = NewUser(Admin, Preset)
    /\ npc' = [npc EXCEPT ![n] = "up"]
    /\ UNCHANGED <<pageVars, requests, posts, faults, histVars>>

\* The store throws, before or after the put was done, and the context does not start.
Fault == faults < MaxFaults /\ faults' = faults + 1
NodeFails(n) ==
    /\ npc[n] = "create" /\ Fault
    /\ npc' = [npc EXCEPT ![n] = "down"]
    /\ accounts' \in {accounts, NewUser(Admin, Preset)}
    /\ UNCHANGED <<pageVars, requests, posts, histVars>>

-----------------------------------------------------------------------------
(* The page.                                                                    *)

Show(v, f, m) ==
    /\ form' = [form EXCEPT ![v] = f] /\ message' = [message EXCEPT ![v] = m]
    /\ UNCHANGED session

ShowRegistration(v) ==
    /\ form[v] = "login" /\ Show(v, "register", "")
    /\ UNCHANGED <<accounts, npc, requests, posts, faults, histVars>>

Home(v) ==
    /\ form[v] = "register" /\ Show(v, "login", "")
    /\ UNCHANGED <<accounts, npc, requests, posts, faults, histVars>>

Post(v, u) ==
    /\ form[v] = "register" /\ posts < MaxPosts
    /\ posts' = posts + 1
    /\ requests' = requests \cup
         {[who |-> v, name |-> u, n |-> posts', heard |-> TRUE, state |-> "sent"]}
    /\ asked' = asked \cup {<<v, u>>}
    /\ UNCHANGED <<accounts, npc, pageVars, faults, told>>

\* success: home, then the message.
Registered(r) ==
    /\ r.state = "ok" /\ requests' = requests \ {r}
    /\ Show(r.who, "login", "registered")
    /\ told' = told \cup {<<r.who, r.name>>}
    /\ UNCHANGED <<accounts, npc, posts, faults, asked>>

NotRegistered(r) ==
    /\ r.state \in {"taken", "failed"} /\ requests' = requests \ {r}
    /\ Show(r.who, form[r.who], r.state)
    /\ UNCHANGED <<accounts, npc, posts, faults, histVars>>

-----------------------------------------------------------------------------
(* The server.                                                                  *)

Serving == \E n \in Nodes : npc[n] = "up"
Answer(r, state) ==
    requests' = (requests \ {r}) \cup (IF r.heard THEN {[r EXCEPT !.state = state]} ELSE {})

\* variation: the answer does not wait for the store
ServeAhead(r) ==
    /\ Serving /\ r.state = "sent"
    /\ Answer(r, "ok")
    /\ UNCHANGED <<accounts, npc, pageVars, posts, faults, histVars>>

\* register builds an answer for each empty field and returns none of them; newUser never
\* throws AlreadyExistsException, so the answer 409 does not occur.
Serve(r) ==
    /\ Serving /\ r.state = "sent"
    /\ accounts' = NewUser(r.name, r.who)
    /\ Answer(r, "ok")
    /\ UNCHANGED <<npc, pageVars, posts, faults, histVars>>

ServeFails(r) ==
    /\ Serving /\ r.state = "sent" /\ Fault
    /\ accounts' \in {accounts, NewUser(r.name, r.who)}
    /\ Answer(r, "failed")
    /\ UNCHANGED <<npc, pageVars, posts, histVars>>

\* The form posts to another page: callbacks of the page that is left do not run.
Left(v) == {IF r.who = v THEN [r EXCEPT !.heard = FALSE] ELSE r :
              r \in {q \in requests : q.who # v \/ q.state = "sent"}}
Found(v, u) == accounts[u] = v      \* getUser has the password that was typed
Login(v, u) ==
    /\ Serving /\ form[v] = "login"
    /\ requests' = Left(v)
    /\ message' = [message EXCEPT ![v] = ""]
    /\ IF Found(v, u)
         THEN form' = [form EXCEPT ![v] = "index"] /\ session' = [session EXCEPT ![v] = u]
         ELSE UNCHANGED <<form, session>>
    /\ UNCHANGED <<accounts, npc, posts, faults, histVars>>

-----------------------------------------------------------------------------
Node(n) == NodeStarts(n) \/ NodeCreates(n) \/ NodeFails(n)
Visitor(v) == ShowRegistration(v) \/ Home(v) \/ \E u \in Names : Post(v, u) \/ Login(v, u)
Request(r) == Serve(r) \/ ServeFails(r) \/ Registered(r) \/ NotRegistered(r)
Next == \/ \E n \in Nodes : Node(n)
        \/ \E v \in Visitors : Visitor(v)
        \/ \E r \in requests : Request(r)
Spec == Init /\ [][Next]_vars

-----------------------------------------------------------------------------
\* A node that serves has found or created admin, though nodes start together, a start may
\* fail halfway and a visitor may register the name first (initialize).
AdminThere == \A n \in Nodes : npc[n] = "up" => accounts[Admin] # None

\* Who was told "Registered!" has the account, unless another one asked for the name too
\* or it is admin's (newUser, register, the success callback).
RegisteredIsThere ==
    \A v \in Visitors, u \in Names \ {Admin} :
        <<v, u>> \in told =>
            \/ accounts[u] = v
            \/ accounts[u] # None /\ \E w \in Visitors \ {v} : <<w, u>> \in asked

\* Who is logged in under a name goes on owning it, whatever is registered meanwhile
\* (newUser, loadUserByUsername).
SessionIsOwner == \A v \in Visitors : session[v] # None => accounts[session[v]] = v
=============================================================================
