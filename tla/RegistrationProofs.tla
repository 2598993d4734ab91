------------------------- MODULE RegistrationProofs -------------------------
(***************************************************************************)
(* What holds of Registration for every set of nodes, visitors and names,  *)
(* any number of registrations and failures.                               *)
(***************************************************************************)
EXTENDS Registration, TLAPS

Passwords == Visitors \cup {Preset}

LEMMA Constants ==
    /\ Admin \in Names /\ None \notin Names /\ None \notin Passwords
    /\ Preset \notin Visitors /\ MaxPosts \in Nat /\ MaxFaults \in Nat
BY RegistrationAssumption DEF Passwords

\* newUser fills the place of one name if it is free.
LEMMA NewUserFacts ==
    ASSUME accounts \in [Names -> Passwords \cup {None}], NEW u \in Names, NEW p \in Passwords
    PROVE  /\ NewUser(u, p) \in [Names -> Passwords \cup {None}]
           /\ NewUser(u, p)[u] # None
           /\ \A x \in Names : accounts[x] # None => NewUser(u, p)[x] = accounts[x]
           /\ \A x \in Names : NewUser(u, p)[x] = accounts[x] \/ (x = u /\ NewUser(u, p)[x] = p)
BY Constants DEF NewUser

-----------------------------------------------------------------------------
(* Types.                                                                       *)

LEMMA FaultType ==
    ASSUME faults \in 0 .. MaxFaults, Fault
    PROVE  faults' \in 0 .. MaxFaults
BY Constants DEF Fault

LEMMA RequestType ==
    ASSUME NEW r \in Requests, NEW s \in {"sent", "ok", "taken", "failed"}
    PROVE  /\ [r EXCEPT !.state = s] \in Requests /\ [r EXCEPT !.heard = FALSE] \in Requests
           /\ r.who \in Visitors /\ r.name \in Names /\ r.who \in Passwords
BY DEF Requests, Passwords

LEMMA AnswerType ==
    ASSUME requests \subseteq Requests, NEW r \in requests,
           NEW s \in {"ok", "failed"}, Answer(r, s)
    PROVE  requests' \subseteq Requests
<1>1. [r EXCEPT !.state = s] \in Requests
  BY RequestType
<1> QED
  BY <1>1 DEF Answer

LEMMA LeftType ==
    ASSUME requests \subseteq Requests, NEW v \in Visitors
    PROVE  Left(v) \subseteq Requests
BY RequestType DEF Left

\* Every variable keeps its type: names are stored with the password of a visitor or of admin.
THEOREM TypeCorrect == Spec => []TypeOK
<1>1. Init => TypeOK
  <2> SUFFICES ASSUME Init PROVE TypeOK
    OBVIOUS
  <2>1. posts \in 0 .. MaxPosts /\ faults \in 0 .. MaxFaults
    <3>1. posts = 0 /\ faults = 0
      BY DEF Init
    <3> QED
      BY <3>1, Constants
  <2>2. requests \subseteq Requests
    BY DEF Init
  <2> QED
    BY <2>1, <2>2 DEF Init, TypeOK
<1>2. TypeOK /\ [Next]_vars => TypeOK'
  <2> SUFFICES ASSUME TypeOK, [Next]_vars PROVE TypeOK'
    OBVIOUS
  <2>0. accounts \in [Names -> Passwords \cup {None}] /\ Preset \in Passwords
    BY DEF TypeOK, Passwords
  <2>1. ASSUME NEW n \in Nodes, Node(n) PROVE TypeOK'
    <3>1. NewUser(Admin, Preset) \in [Names -> Passwords \cup {None}]
      BY <2>0, Constants, NewUserFacts
    <3>2. CASE NodeStarts(n)
      BY <3>2 DEF NodeStarts, TypeOK, pageVars, histVars
    <3>3. CASE NodeCreates(n)
      BY <3>1, <3>3 DEF NodeCreates, TypeOK, pageVars, histVars, Passwords
    <3>4. CASE NodeFails(n)
      <4>1. faults' \in 0 .. MaxFaults
        BY <3>4, FaultType DEF NodeFails, TypeOK
      <4>2. accounts' \in [Names -> Passwords \cup {None}]
        BY <2>0, <3>1, <3>4 DEF NodeFails
      <4> QED
        BY <3>4, <4>1, <4>2 DEF NodeFails, TypeOK, pageVars, histVars, Passwords
    <3> QED
      BY <2>1, <3>2, <3>3, <3>4 DEF Node
  <2>2. ASSUME NEW v \in Visitors, Visitor(v) PROVE TypeOK'
    <3>1. CASE ShowRegistration(v)
      BY <3>1 DEF ShowRegistration, Show, TypeOK, histVars
    <3>2. CASE Home(v)
      BY <3>2 DEF Home, Show, TypeOK, histVars
    <3>3. ASSUME NEW u \in Names, Post(v, u) PROVE TypeOK'
      <4>1. posts' \in 1 .. MaxPosts
        <5>1. posts \in 0 .. MaxPosts /\ posts < MaxPosts /\ posts' = posts + 1
          BY <3>3 DEF Post, TypeOK
        <5> QED
          BY <5>1, Constants
      <4>2. requests' \subseteq Requests
        <5> DEFINE q == [who |-> v, name |-> u, n |-> posts', heard |-> TRUE, state |-> "sent"]
        <5>1. q \in Requests
          BY <4>1 DEF Requests
        <5>2. requests' = requests \cup {q}
          BY <3>3 DEF Post
        <5> QED
          BY <5>1, <5>2 DEF TypeOK
      <4>3. posts' \in 0 .. MaxPosts
        BY <4>1
      <4>4. asked' \subseteq Visitors \X Names
        <5>1. asked' = asked \cup {<<v, u>>} /\ asked \subseteq Visitors \X Names
          BY <3>3 DEF Post, TypeOK
        <5> QED
          BY <5>1
      <4> QED
        BY <3>3, <4>2, <4>3, <4>4 DEF Post, TypeOK, pageVars
    <3>4. ASSUME NEW u \in Names, Login(v, u) PROVE TypeOK'
      <4>1. requests' \subseteq Requests
        BY <3>4, LeftType DEF Login, TypeOK
      <4> QED
        BY <3>4, <4>1 DEF Login, TypeOK, histVars
    <3> QED
      BY <2>2, <3>1, <3>2, <3>3, <3>4 DEF Visitor
  <2>3. ASSUME NEW r \in requests, Request(r) PROVE TypeOK'
    <3>1. r \in Requests /\ r.who \in Visitors /\ r.name \in Names /\ r.who \in Passwords
      BY RequestType DEF TypeOK
    <3>2. NewUser(r.name, r.who) \in [Names -> Passwords \cup {None}]
      BY <2>0, <3>1, NewUserFacts
    <3>3. CASE Serve(r)
      <4>1. requests' \subseteq Requests
        BY <3>3, AnswerType DEF Serve, TypeOK
      <4> QED
        BY <3>2, <3>3, <4>1 DEF Serve, TypeOK, pageVars, histVars, Passwords
    <3>4. CASE ServeFails(r)
      <4>1. requests' \subseteq Requests
        BY <3>4, AnswerType DEF ServeFails, TypeOK
      <4>2. faults' \in 0 .. MaxFaults
        BY <3>4, FaultType DEF ServeFails, TypeOK
      <4>3. accounts' \in [Names -> Passwords \cup {None}]
        BY <2>0, <3>2, <3>4 DEF ServeFails
      <4> QED
        BY <3>4, <4>1, <4>2, <4>3 DEF ServeFails, TypeOK, pageVars, histVars, Passwords
    <3>5. CASE Registered(r)
      <4>1. form' \in [Visitors -> {"login", "register", "index"}]
            /\ message' \in [Visitors -> {"", "registered", "taken", "failed"}]
        BY <3>1, <3>5 DEF Registered, Show, TypeOK
      <4>2. told' \subseteq Visitors \X Names
        <5>1. told' = told \cup {<<r.who, r.name>>} /\ told \subseteq Visitors \X Names
          BY <3>5 DEF Registered, TypeOK
        <5> QED
          BY <3>1, <5>1
      <4> QED
        BY <3>5, <4>1, <4>2 DEF Registered, Show, TypeOK
    <3>6. CASE NotRegistered(r)
      BY <3>1, <3>6 DEF NotRegistered, Show, TypeOK, histVars
    <3> QED
      BY <2>3, <3>3, <3>4, <3>5, <3>6 DEF Request
  <2>4. CASE UNCHANGED vars
    BY <2>4 DEF vars, pageVars, histVars, TypeOK
  <2> QED
    BY <2>1, <2>2, <2>3, <2>4 DEF Next
<1> QED
  BY <1>1, <1>2, PTL DEF Spec

-----------------------------------------------------------------------------
(* What a step does to the accounts.                                            *)

\* An account that is there stays as it is, and a new one is the one asked for.
Kept == \A x \in Names : accounts[x] # None => accounts'[x] = accounts[x]
Grown == \A x \in Names : \/ accounts'[x] = accounts[x]
                          \/ x = Admin /\ accounts'[x] = Preset
                          \/ \E r \in requests : r.name = x /\ accounts'[x] = r.who

LEMMA StepKeeps ==
    ASSUME TypeOK, [Next]_vars
    PROVE  Kept /\ Grown
<1>1. accounts \in [Names -> Passwords \cup {None}] /\ Preset \in Passwords
  BY DEF TypeOK, Passwords
<1>2. CASE accounts' = accounts
  BY <1>2 DEF Kept, Grown
<1>3. CASE accounts' = NewUser(Admin, Preset)
  BY <1>1, <1>3, Constants, NewUserFacts DEF Kept, Grown
<1>4. ASSUME NEW r \in requests, accounts' = NewUser(r.name, r.who) PROVE Kept /\ Grown
  <2>1. r.name \in Names /\ r.who \in Passwords
    BY RequestType DEF TypeOK
  <2>2. /\ \A x \in Names : accounts[x] # None => accounts'[x] = accounts[x]
        /\ \A x \in Names : accounts'[x] = accounts[x] \/ (x = r.name /\ accounts'[x] = r.who)
    <3>1. /\ \A x \in Names : accounts[x] # None => NewUser(r.name, r.who)[x] = accounts[x]
          /\ \A x \in Names : \/ NewUser(r.name, r.who)[x] = accounts[x]
                              \/ x = r.name /\ NewUser(r.name, r.who)[x] = r.who
      BY <1>1, <2>1, NewUserFacts, SMTT(20)
    <3> QED
      BY <1>4, <3>1
  <2> QED
    BY <2>2 DEF Kept, Grown
<1>5. \/ accounts' = accounts \/ accounts' = NewUser(Admin, Preset)
      \/ \E r \in requests : accounts' = NewUser(r.name, r.who)
  <2>1. ASSUME NEW n \in Nodes, Node(n)
        PROVE  accounts' \in {accounts, NewUser(Admin, Preset)}
    BY <2>1 DEF Node, NodeStarts, NodeCreates, NodeFails
  <2>2. ASSUME NEW v \in Visitors, Visitor(v) PROVE accounts' = accounts
    BY <2>2 DEF Visitor, ShowRegistration, Home, Post, Login
  <2>3. ASSUME NEW r \in requests, Request(r)
        PROVE  accounts' \in {accounts, NewUser(r.name, r.who)}
    BY <2>3 DEF Request, Serve, ServeFails, Registered, NotRegistered
  <2> QED
    BY <2>1, <2>2, <2>3 DEF Next, vars
<1> QED
  BY <1>2, <1>3, <1>4, <1>5

\* A node that serves has found or created admin (SessionIsOwner below likewise holds
\* because no step changes an account that is there).
THEOREM AdminAlways == Spec => []AdminThere
<1>1. Init => AdminThere
  BY DEF Init, AdminThere
<1>2. TypeOK /\ AdminThere /\ [Next]_vars => AdminThere'
  <2> SUFFICES ASSUME TypeOK, AdminThere, [Next]_vars, NEW n \in Nodes, npc'[n] = "up"
               PROVE  accounts'[Admin] # None
    BY DEF AdminThere
  <2>1. CASE npc[n] = "up" \/ accounts[Admin] # None
    BY <2>1, StepKeeps, Constants DEF AdminThere, Kept
  <2>2. CASE npc[n] # "up" /\ accounts[Admin] = None
    <3>1. ASSUME NEW k \in Nodes, Node(k) PROVE accounts'[Admin] # None
      <4>1. ~NodeStarts(k)
        BY <2>2 DEF NodeStarts, TypeOK
      <4>2. ~NodeFails(k)
        BY <2>2 DEF NodeFails, TypeOK
      <4>3. accounts' = NewUser(Admin, Preset)
        BY <3>1, <4>1, <4>2 DEF Node, NodeCreates
      <4> QED
        BY <4>3, Constants, NewUserFacts DEF TypeOK, Passwords
    <3>2. ASSUME NEW v \in Visitors, Visitor(v) PROVE npc' = npc
      BY <3>2 DEF Visitor, ShowRegistration, Home, Post, Login
    <3>3. ASSUME NEW r \in requests, Request(r) PROVE npc' = npc
      BY <3>3 DEF Request, Serve, ServeFails, Registered, NotRegistered
    <3> QED
      BY <2>2, <3>1, <3>2, <3>3 DEF Next, vars
  <2> QED
    BY <2>1, <2>2
<1> QED
  BY <1>1, <1>2, TypeCorrect, PTL DEF Spec

\* Whoever is logged in goes on owning the name.
THEOREM SessionKept == Spec => []SessionIsOwner
<1>1. Init => SessionIsOwner
  BY DEF Init, SessionIsOwner
<1>2. TypeOK /\ SessionIsOwner /\ [Next]_vars => SessionIsOwner'
  <2> SUFFICES ASSUME TypeOK, SessionIsOwner, [Next]_vars,
                      NEW w \in Visitors, session'[w] # None
               PROVE  accounts'[session'[w]] = w
    BY DEF SessionIsOwner
  <2>1. CASE session'[w] = session[w]
    <3>1. session[w] \in Names /\ accounts[session[w]] = w /\ w # None
      BY <2>1, Constants DEF SessionIsOwner, TypeOK, Passwords
    <3> QED
      BY <2>1, <3>1, StepKeeps DEF Kept
  <2>2. CASE session'[w] # session[w]
    <3>1. PICK v \in Visitors, u \in Names : Login(v, u)
      <4>1. ASSUME NEW n \in Nodes, Node(n) PROVE session' = session
        BY <4>1 DEF Node, NodeStarts, NodeCreates, NodeFails, pageVars
      <4>2. ASSUME NEW r \in requests, Request(r) PROVE session' = session
        BY <4>2 DEF Request, Serve, ServeFails, Registered, NotRegistered, Show, pageVars
      <4>3. ASSUME NEW v \in Visitors, Visitor(v), session' # session
            PROVE  \E u \in Names : Login(v, u)
        BY <4>3 DEF Visitor, ShowRegistration, Home, Post, Show, pageVars
      <4> QED
        BY <2>2, <4>1, <4>2, <4>3 DEF Next, vars, pageVars
    <3>2. Found(v, u) /\ session' = [session EXCEPT ![v] = u] /\ accounts' = accounts
      BY <2>2, <3>1 DEF Login
    <3> QED
      BY <2>2, <3>2 DEF Found, TypeOK
  <2> QED
    BY <2>1, <2>2
<1> QED
  BY <1>1, <1>2, TypeCorrect, PTL DEF Spec

-----------------------------------------------------------------------------
(* What visitors are told.                                                      *)

\* Who asked: all that is under way or stored was asked for by its owner.
AskedFirst ==
    /\ \A r \in requests : <<r.who, r.name>> \in asked
    /\ \A u \in Names \ {Admin} : accounts[u] # None => <<accounts[u], u>> \in asked

\* A good answer, heard or not, and what was told, mean that the account is there.
Served == /\ \A r \in requests : r.state = "ok" => accounts[r.name] # None
          /\ \A v \in Visitors, u \in Names : <<v, u>> \in told => accounts[u] # None

\* A request goes on being the one that was posted; its answer is good only when the
\* account is there.
Same(r, q) == r.who = q.who /\ r.name = q.name
Continued(q) ==
    \/ <<q.who, q.name>> \in asked' /\ q.state = "sent"
    \/ \E r \in requests :
         Same(r, q) /\ (q.state = r.state \/ (q.state = "ok" => accounts'[q.name] # None))

LEMMA RequestsStep ==
    ASSUME TypeOK, [Next]_vars
    PROVE  (\A q \in requests' : Continued(q)) /\ asked \subseteq asked'
<1>1. CASE requests' \subseteq requests /\ asked' = asked
  BY <1>1 DEF Continued, Same
<1>2. ASSUME NEW v \in Visitors, NEW u \in Names, Post(v, u)
      PROVE  (\A q \in requests' : Continued(q)) /\ asked \subseteq asked'
  BY <1>2 DEF Post, Continued, Same
<1>3. ASSUME NEW v \in Visitors, requests' = Left(v), asked' = asked
      PROVE  \A q \in requests' : Continued(q)
  <2>1. \A r \in requests : /\ Same(r, [r EXCEPT !.heard = FALSE])
                           /\ [r EXCEPT !.heard = FALSE].state = r.state
    BY DEF Same, Requests, TypeOK
  <2>2. SUFFICES ASSUME NEW q \in requests' PROVE Continued(q)
    OBVIOUS
  <2>3. PICK r \in requests : q = r \/ q = [r EXCEPT !.heard = FALSE]
    BY <1>3 DEF Left
  <2>4. Same(r, q) /\ q.state = r.state
    BY <2>1, <2>3 DEF Same
  <2> QED
    BY <2>4 DEF Continued
<1>4. ASSUME NEW r \in requests, NEW s \in {"ok", "failed"}, Answer(r, s), asked' = asked,
             s = "ok" => accounts'[r.name] # None
      PROVE  \A q \in requests' : Continued(q)
  <2>1. Same(r, [r EXCEPT !.state = s]) /\ [r EXCEPT !.state = s].state = s
    BY DEF Same, Requests, TypeOK
  <2>2. Continued([r EXCEPT !.state = s])
    BY <1>4, <2>1 DEF Continued, Same
  <2> QED
    BY <1>4, <2>2 DEF Answer, Continued, Same
<1>5. ASSUME NEW n \in Nodes, Node(n) PROVE requests' \subseteq requests /\ asked' = asked
  BY <1>5 DEF Node, NodeStarts, NodeCreates, NodeFails, histVars
<1>6. ASSUME NEW v \in Visitors, Visitor(v)
      PROVE  (\A q \in requests' : Continued(q)) /\ asked \subseteq asked'
  <2>1. CASE ShowRegistration(v) \/ Home(v)
    BY <1>1, <2>1 DEF ShowRegistration, Home, histVars
  <2>2. ASSUME NEW u \in Names, Login(v, u) PROVE requests' = Left(v) /\ asked' = asked
    BY <2>2 DEF Login, histVars
  <2> QED
    BY <1>2, <1>3, <1>6, <2>1, <2>2 DEF Visitor
<1>7. ASSUME NEW r \in requests, Request(r)
      PROVE  (\A q \in requests' : Continued(q)) /\ asked \subseteq asked'
  <2>1. CASE Serve(r)
    <3>1. accounts'[r.name] # None
      BY <2>1, RequestType, NewUserFacts DEF Serve, TypeOK, Passwords
    <3> QED
      BY <1>4, <2>1, <3>1 DEF Serve, histVars
  <2>2. CASE ServeFails(r)
    BY <1>4, <2>2 DEF ServeFails, histVars
  <2>3. CASE Registered(r) \/ NotRegistered(r)
    BY <1>1, <2>3 DEF Registered, NotRegistered, histVars
  <2> QED
    BY <1>7, <2>1, <2>2, <2>3 DEF Request
<1>8. CASE UNCHANGED vars
  BY <1>1, <1>8 DEF vars, histVars
<1> QED
  BY <1>1, <1>5, <1>6, <1>7, <1>8 DEF Next

\* Who is told "Registered!" has the account, unless another one asked for the name.
THEOREM ToldIsTrue == Spec => []RegisteredIsThere
<1>1. Init => AskedFirst /\ Served
  <2> SUFFICES ASSUME Init PROVE AskedFirst /\ Served
    OBVIOUS
  <2>1. requests = {} /\ told = {} /\ \A u \in Names : accounts[u] = None
    BY DEF Init
  <2> QED
    BY <2>1 DEF AskedFirst, Served
<1>2. TypeOK /\ AskedFirst /\ Served /\ [Next]_vars => AskedFirst' /\ Served'
  <2> SUFFICES ASSUME TypeOK, AskedFirst, Served, [Next]_vars PROVE AskedFirst' /\ Served'
    OBVIOUS
  <2>1. Kept /\ Grown /\ (\A q \in requests' : Continued(q)) /\ asked \subseteq asked'
    BY StepKeeps, RequestsStep
  <2>2. \A r \in requests : r.name \in Names
    BY RequestType DEF TypeOK
  <2>3. \A q \in requests' : <<q.who, q.name>> \in asked'
    BY <2>1 DEF Continued, Same, AskedFirst
  <2>4. ASSUME NEW u \in Names \ {Admin}, accounts'[u] # None
        PROVE  <<accounts'[u], u>> \in asked'
    <3>1. CASE accounts'[u] = accounts[u]
      BY <2>1, <2>4, <3>1 DEF AskedFirst
    <3>2. ASSUME NEW r \in requests, r.name = u, accounts'[u] = r.who
          PROVE  <<accounts'[u], u>> \in asked'
      BY <2>1, <3>2 DEF AskedFirst
    <3> QED
      BY <2>1, <3>1, <3>2 DEF Grown
  <2>5. ASSUME NEW q \in requests', q.state = "ok" PROVE accounts'[q.name] # None
    <3>1. PICK r \in requests : Same(r, q) /\ (q.state = r.state \/ accounts'[q.name] # None)
      BY <2>1, <2>5 DEF Continued
    <3> QED
      BY <2>1, <2>2, <2>5, <3>1 DEF Same, Served, Kept
  <2>6. ASSUME NEW v \in Visitors, NEW u \in Names, <<v, u>> \in told'
        PROVE  accounts'[u] # None
    <3>1. <<v, u>> \in told \/ \E r \in requests : r.state = "ok" /\ r.name = u
      <4>1. ASSUME NEW n \in Nodes, Node(n) PROVE told' = told
        BY <4>1 DEF Node, NodeStarts, NodeCreates, NodeFails, histVars
      <4>2. ASSUME NEW w \in Visitors, Visitor(w) PROVE told' = told
        BY <4>2 DEF Visitor, ShowRegistration, Home, Post, Login, histVars
      <4>3. ASSUME NEW r \in requests, Request(r)
            PROVE  told' = told \/ (r.state = "ok" /\ told' = told \cup {<<r.who, r.name>>})
        BY <4>3 DEF Request, Serve, ServeFails, Registered, NotRegistered, histVars
      <4> QED
        BY <2>6, <4>1, <4>2, <4>3 DEF Next, vars, histVars
    <3>2. accounts[u] # None
      BY <3>1 DEF Served
    <3> QED
      BY <2>1, <3>2 DEF Kept
  <2> QED
    BY <2>3, <2>4, <2>5, <2>6 DEF AskedFirst, Served
<1>3. TypeOK /\ AskedFirst /\ Served => RegisteredIsThere
  BY DEF TypeOK, AskedFirst, Served, RegisteredIsThere
<1> QED
  BY <1>1, <1>2, <1>3, TypeCorrect, PTL DEF Spec
=============================================================================
