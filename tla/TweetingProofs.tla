--------------------------- MODULE TweetingProofs ---------------------------
(***************************************************************************)
(* What holds of Tweeting for every set of accounts, callers and workers,  *)
(* every follow graph, and any number of calls, crashes, reruns and        *)
(* failures.                                                               *)
(***************************************************************************)
EXTENDS Tweeting, TimelineListsProofs

LEMMA Constants ==
    /\ Nobody \notin Names /\ None \notin Names
    /\ Users \subseteq Names /\ Users \subseteq Readers
    /\ Callers \subseteq Threads /\ Workers \subseteq Threads /\ Callers \cap Workers = {}
BY NamesAssumption DEF Names, Readers, Threads

-----------------------------------------------------------------------------
(* The inductive invariant of the ids: of the variables that matter to them it    *)
(* has the types.  The other types need the lists; they are proved further down.  *)

TweetPcs == {"store", "fan", "ownGet", "ownPut", "await"}
RunPcs == Pcs \ {"idle", "resGet", "resPut"}
FollowPcs == RunPcs \ (TweetPcs \cup {"add", "return", "finish"})
PastPcs == {"fan", "ownGet", "ownPut", "await", "return"}

StoreShape == /\ last \in [Users -> Nat] /\ userVer \in [Users -> Nat]
              /\ lineVer \in [Readers -> Nat] /\ tweets \subseteq Entries
QueueShape == queue \in Seq(Commands) /\ records \subseteq Commands
ThreadShape == /\ pc \in [Threads -> Pcs] /\ cmd \in [Threads -> Commands \cup {None}]
               /\ ver \in [Threads -> Nat] /\ idx \in [Threads -> Int]
CountShape == posts \in Nat /\ followCmds \in Nat
Shape == StoreShape /\ QueueShape /\ ThreadShape /\ CountShape

\* A thread in a call or a task has a command, of the kind its place is for.
OnCommand ==
    \A t \in Threads :
        /\ pc[t] # "idle" => cmd[t] \in Commands
        /\ pc[t] # "idle" /\ t \in Callers => cmd[t].op = "tweet"
        /\ pc[t] \in {"resGet", "resPut", "add", "return"} => t \in Callers
        /\ pc[t] \in TweetPcs => cmd[t].op = "tweet"
        /\ pc[t] \in FollowPcs => cmd[t].op # "tweet"

Inv == /\ Shape /\ OnCommand
       /\ IssuedCovered /\ IdsUnique /\ ReadFresh /\ PastStore /\ AckedIsStored

-----------------------------------------------------------------------------
\* What a queue of commands holds after a command is queued or taken.
LEMMA QueueContents ==
    ASSUME NEW q \in Seq(Commands)
    PROVE  /\ ToSet(q) \subseteq Commands
           /\ \A c \in Commands : /\ Append(q, c) \in Seq(Commands)
                                  /\ ToSet(Append(q, c)) \subseteq ToSet(q) \cup {c}
           /\ q # <<>> => /\ Head(q) \in ToSet(q)
                          /\ Tail(q) \in Seq(Commands)
                          /\ ToSet(Tail(q)) \subseteq ToSet(q)
<1>1. ToSet(q) \subseteq Commands
  BY DEF ToSet
<1>2. ASSUME NEW c \in Commands
      PROVE  Append(q, c) \in Seq(Commands) /\ ToSet(Append(q, c)) \subseteq ToSet(q) \cup {c}
  <2>1. /\ Append(q, c) \in Seq(Commands) /\ Len(Append(q, c)) = Len(q) + 1
        /\ \A i \in 1 .. Len(q) : Append(q, c)[i] = q[i]
        /\ Append(q, c)[Len(q) + 1] = c
    OBVIOUS
  <2>2. ASSUME NEW i \in 1 .. Len(q) + 1 PROVE Append(q, c)[i] \in ToSet(q) \cup {c}
    <3>1. CASE i \in 1 .. Len(q)
      BY <3>1, <2>1 DEF ToSet
    <3>2. CASE i = Len(q) + 1
      BY <3>2, <2>1
    <3> QED
      BY <3>1, <3>2
  <2>3. DOMAIN Append(q, c) = 1 .. Len(q) + 1
    BY <2>1
  <2> QED
    BY <2>1, <2>2, <2>3 DEF ToSet
<1>3. ASSUME q # <<>>
      PROVE  Head(q) \in ToSet(q) /\ Tail(q) \in Seq(Commands) /\ ToSet(Tail(q)) \subseteq ToSet(q)
  BY <1>3 DEF ToSet
<1> QED
  BY <1>1, <1>2, <1>3

-----------------------------------------------------------------------------
(* What steps have in common.                                                   *)

LEMMA IssuedShrinks ==
    ASSUME IssuedCovered, IdsUnique, Issued' \subseteq Issued, last' = last
    PROVE  IssuedCovered' /\ IdsUnique'
BY DEF IssuedCovered, IdsUnique

\* Only t moves.
OthersStay(t) ==
    \A s \in Threads \ {t} : /\ pc'[s] = pc[s] /\ cmd'[s] = cmd[s]
                             /\ ver'[s] = ver[s] /\ idx'[s] = idx[s]
\* A user's version grows, and whenever lastTweet changes.
UsersAdvance ==
    \A u \in Users : /\ userVer'[u] \in Nat /\ userVer'[u] >= userVer[u]
                     /\ userVer'[u] = userVer[u] => last'[u] = last[u]

LEMMA ReadFreshKept ==
    ASSUME Inv, NEW t \in Threads, OthersStay(t), UsersAdvance, pc'[t] # "resPut"
    PROVE  ReadFresh'
<1> SUFFICES ASSUME NEW c \in Callers, pc'[c] = "resPut"
             PROVE  /\ ver'[c] <= userVer'[cmd'[c].user]
                    /\ ver'[c] = userVer'[cmd'[c].user] => idx'[c] = last'[cmd'[c].user] + 1
  BY DEF ReadFresh, At
<1>1. c # t /\ c \in Threads
  BY Constants
<1>2. /\ pc[c] = "resPut" /\ cmd'[c] = cmd[c] /\ ver'[c] = ver[c] /\ idx'[c] = idx[c]
  BY <1>1 DEF OthersStay
<1>3. cmd[c] \in Commands
  BY <1>1, <1>2 DEF Inv, OnCommand
<1>4. cmd[c].user \in Users
  BY <1>3 DEF Commands
<1> DEFINE u == cmd[c].user
<1>5. ver[c] <= userVer[u] /\ (ver[c] = userVer[u] => idx[c] = last[u] + 1)
  BY <1>2 DEF Inv, ReadFresh, At
<1>6. ver[c] \in Nat /\ userVer[u] \in Nat
  BY <1>1, <1>4 DEF Inv, Shape, ThreadShape, StoreShape
<1>7. userVer'[u] \in Nat /\ userVer'[u] >= userVer[u] /\ (userVer'[u] = userVer[u] => last'[u] = last[u])
  BY <1>4 DEF UsersAdvance
<1> HIDE DEF u
<1>8. ver[c] <= userVer'[u] /\ (ver[c] = userVer'[u] => idx[c] = last'[u] + 1)
  BY <1>5, <1>6, <1>7
<1> QED
  BY <1>2, <1>8 DEF u

LEMMA PastStoreKept ==
    ASSUME Inv, NEW t \in Threads, OthersStay(t), tweets \subseteq tweets',
           pc'[t] \in PastPcs /\ cmd'[t].op = "tweet" => Entry(cmd'[t]) \in tweets'
    PROVE  PastStore'
<1> SUFFICES ASSUME NEW s \in Threads, pc'[s] \in PastPcs, cmd'[s].op = "tweet"
             PROVE  Entry(cmd'[s]) \in tweets'
  BY DEF PastStore, PastPcs, Entry
<1>1. CASE s = t
  BY <1>1
<1>2. CASE s # t
  <2>1. pc'[s] = pc[s] /\ cmd'[s] = cmd[s]
    BY <1>2 DEF OthersStay
  <2>2. Entry(cmd[s]) \in tweets
    BY <2>1 DEF Inv, PastStore, PastPcs
  <2> QED
    BY <2>1, <2>2 DEF Entry
<1> QED
  BY <1>1, <1>2

\* A step of thread t through a command: it keeps its command, goes to a place for such
\* a command, and stores, if anything, that command or its tweet.
RunStep(t, p) ==
    /\ pc[t] \in RunPcs /\ p \in RunPcs /\ pc' = [pc EXCEPT ![t] = p]
    /\ p \in {"add", "return"} => t \in Callers
    /\ p \in TweetPcs => cmd[t].op = "tweet"
    /\ p \in FollowPcs => cmd[t].op # "tweet"
    /\ p \in PastPcs /\ cmd[t].op = "tweet" => Entry(cmd[t]) \in tweets'
    /\ UNCHANGED <<last, acked, cmd, queue, posts, followCmds>>
    /\ records' \in {records, records \cup {cmd[t]}}
    /\ tweets' = tweets \/ (cmd[t].op = "tweet" /\ tweets' = tweets \cup {Entry(cmd[t])})
    /\ userVer' \in [Users -> Nat] /\ \A u \in Users : userVer'[u] >= userVer[u]
    /\ lineVer' \in [Readers -> Nat]
    /\ ver' \in [Threads -> Nat] /\ \A s \in Threads \ {t} : ver'[s] = ver[s]
    /\ idx' \in [Threads -> Int] /\ \A s \in Threads \ {t} : idx'[s] = idx[s]

LEMMA RunStepKeeps ==
    ASSUME Inv, NEW t \in Threads, NEW p, RunStep(t, p)
    PROVE  Inv'
<1>1. pc[t] # "idle" /\ cmd[t] \in Commands /\ pc[t] \in Pcs
  BY DEF Inv, OnCommand, RunStep, RunPcs
<1>2. p \in Pcs \ {"idle", "resGet", "resPut"}
  BY DEF RunStep, RunPcs
<1>3. OthersStay(t) /\ pc'[t] = p /\ cmd' = cmd
  BY DEF OthersStay, RunStep, Inv, Shape, ThreadShape
<1>4. cmd[t].op = "tweet" => Entry(cmd[t]) \in Entries
  BY <1>1 DEF Entry, Entries, Commands
<1>5. Shape'
  <2>1. StoreShape'
    BY <1>4 DEF StoreShape, RunStep, Inv, Shape
  <2>2. QueueShape'
    BY <1>1 DEF QueueShape, RunStep, Inv, Shape
  <2>3. ThreadShape'
    BY <1>2 DEF ThreadShape, RunStep, Inv, Shape
  <2> QED
    BY <2>1, <2>2, <2>3 DEF Shape, CountShape, RunStep, Inv
<1>6. OnCommand'
  <2>1. ASSUME NEW s \in Threads, s # t
        PROVE pc'[s] = pc[s] /\ cmd'[s] = cmd[s]
    BY <2>1, <1>3 DEF OthersStay
  <2>2. /\ pc'[t] \notin {"idle", "resGet", "resPut"} /\ cmd'[t] = cmd[t]
        /\ (pc'[t] \in {"add", "return"} => t \in Callers)
        /\ (pc'[t] \in TweetPcs => cmd[t].op = "tweet")
        /\ (pc'[t] \in FollowPcs => cmd[t].op # "tweet")
    BY <1>2, <1>3 DEF RunStep
  <2>3. t \in Callers => cmd[t].op = "tweet"
    BY <1>1 DEF Inv, OnCommand
  <2> QED
    BY <2>1, <2>2, <2>3, <1>1 DEF OnCommand, Inv
<1>7. Issued' \subseteq Issued
  <2>1. InFlight' = InFlight
    <3>1. \A s \in Threads : pc'[s] \notin {"idle", "resGet", "resPut"}
                              <=> pc[s] \notin {"idle", "resGet", "resPut"}
      BY <1>2, <1>3 DEF OthersStay, RunStep, RunPcs
    <3> QED
      BY <3>1, <1>3 DEF InFlight
  <2>2. cmd[t] \in InFlight
    BY DEF InFlight, RunStep, RunPcs
  <2>3. TweetCommands' \subseteq TweetCommands
    <3>1. records' \subseteq records \cup {cmd[t]} /\ queue' = queue
      BY DEF RunStep
    <3> QED
      BY <3>1, <2>1, <2>2 DEF TweetCommands, ToSet
  <2>4. cmd[t].op = "tweet" => cmd[t] \in TweetCommands
    BY <2>2 DEF TweetCommands
  <2>5. \A c : Entry(c)' = Entry(c)
    BY DEF Entry
  <2> QED
    BY <2>3, <2>4 DEF Issued, RunStep, Entry
<1>8. IssuedCovered' /\ IdsUnique'
  BY <1>7, IssuedShrinks DEF Inv, RunStep
<1>9. ReadFresh'
  <2>1. UsersAdvance
    BY DEF UsersAdvance, RunStep
  <2> QED
    BY <2>1, <1>2, <1>3, ReadFreshKept
<1>10. PastStore'
  <2>1. tweets \subseteq tweets' /\ (p \in PastPcs /\ cmd[t].op = "tweet" => Entry(cmd[t]) \in tweets')
    BY DEF RunStep
  <2>2. pc'[t] \in PastPcs /\ cmd'[t].op = "tweet" => Entry(cmd'[t]) \in tweets'
    BY <2>1, <1>3
  <2> QED
    BY <2>1, <2>2, <1>3, PastStoreKept
<1>11. AckedIsStored'
  BY DEF AckedIsStored, RunStep, Inv
<1> QED
  BY <1>5, <1>6, <1>8, <1>9, <1>10, <1>11 DEF Inv

\* The stores but for timelines, and the counters of calls.
CoreUnchanged == UNCHANGED <<last, userVer, lineVer, tweets, posts, followCmds>>

LEMMA LeaveKeeps ==
    ASSUME Inv, NEW t \in Threads, Leave(t), CoreUnchanged, queue' = queue,
           \/ records' \subseteq records
           \/ pc[t] \in RunPcs /\ records' \subseteq records \cup {cmd[t]},
           acked' \subseteq tweets
    PROVE  Inv'
<1>1. Shape'
  <2>1. records' \subseteq Commands
    BY DEF Inv, Shape, QueueShape, OnCommand, RunPcs
  <2> QED
    BY <2>1 DEF Inv, Shape, StoreShape, QueueShape, ThreadShape, CountShape, CoreUnchanged,
                Leave, Goto, Pcs
<1>2. OthersStay(t) /\ pc'[t] = "idle"
  BY DEF OthersStay, Leave, Goto, Inv, Shape, ThreadShape
<1>3. OnCommand'
  BY <1>2 DEF OnCommand, OthersStay, Inv, TweetPcs, FollowPcs, RunPcs
<1>4. Issued' \subseteq Issued
  <2>1. InFlight' \subseteq InFlight
    BY <1>2 DEF InFlight, OthersStay
  <2>2. pc[t] \in RunPcs => cmd[t] \in InFlight
    BY DEF InFlight, RunPcs
  <2>3. TweetCommands' \subseteq TweetCommands
    BY <2>1, <2>2 DEF TweetCommands, ToSet
  <2> QED
    BY <2>3 DEF Issued, CoreUnchanged, Entry
<1>5. IssuedCovered' /\ IdsUnique'
  BY <1>4, IssuedShrinks DEF Inv, CoreUnchanged
<1>6. ReadFresh'
  <2>1. UsersAdvance
    BY DEF UsersAdvance, CoreUnchanged, Inv, Shape, StoreShape
  <2> QED
    BY <2>1, <1>2, ReadFreshKept
<1>7. PastStore'
  <2>1. pc'[t] \notin PastPcs /\ tweets \subseteq tweets'
    BY <1>2 DEF PastPcs, CoreUnchanged
  <2> QED
    BY <2>1, <1>2, PastStoreKept
<1>8. AckedIsStored'
  BY DEF AckedIsStored, CoreUnchanged
<1> QED
  BY <1>1, <1>3, <1>5, <1>6, <1>7, <1>8 DEF Inv

\* A step that leaves the threads and users alone and adds no tweet command: a delivery,
\* a follow command that is queued, a stored command that is queued again.
LEMMA AsideKeeps ==
    ASSUME Inv, UNCHANGED <<last, userVer, tweets, pc, cmd, ver, idx, acked>>,
           lineVer' \in [Readers -> Nat], QueueShape', CountShape',
           \A c \in records' \cup ToSet(queue)' :
               c \in records \cup ToSet(queue) \/ c.op # "tweet"
    PROVE  Inv'
<1>1. Shape'
  BY DEF Inv, Shape, StoreShape, ThreadShape
<1>2. OnCommand'
  BY DEF OnCommand, Inv
<1>3. Issued' \subseteq Issued
  <2>1. TweetCommands' \subseteq TweetCommands
    BY DEF TweetCommands, InFlight
  <2> QED
    BY <2>1 DEF Issued, Entry
<1>4. IssuedCovered' /\ IdsUnique'
  BY <1>3, IssuedShrinks DEF Inv
<1>5. ReadFresh' /\ PastStore' /\ AckedIsStored'
  BY DEF ReadFresh, PastStore, AckedIsStored, Inv, At, Entry
<1> QED
  BY <1>1, <1>2, <1>4, <1>5 DEF Inv

-----------------------------------------------------------------------------
(* The steps of a thread through its command.                                   *)

LEMMA Moves ==
    ASSUME Inv
    PROVE  /\ \A u : /\ Bump(userVer, u) \in [Users -> Nat]
                     /\ \A w \in Users : Bump(userVer, u)[w] >= userVer[w]
           /\ \A u : Bump(lineVer, u) \in [Readers -> Nat]
           /\ userVer \in [Users -> Nat] /\ (\A w \in Users : userVer[w] >= userVer[w])
           /\ lineVer \in [Readers -> Nat]
           /\ ver \in [Threads -> Nat] /\ idx \in [Threads -> Int]
<1>1. userVer \in [Users -> Nat] /\ lineVer \in [Readers -> Nat]
  BY DEF Inv, Shape, StoreShape
<1>2. \A w \in Users : userVer[w] \in Nat /\ userVer[w] >= userVer[w]
  BY <1>1
<1>3. ASSUME NEW u
      PROVE  /\ Bump(userVer, u) \in [Users -> Nat]
             /\ \A w \in Users : Bump(userVer, u)[w] >= userVer[w]
  <2>1. CASE u \in Users
    BY <2>1, <1>2, <1>1 DEF Bump
  <2>2. CASE u \notin Users
    BY <2>2, <1>2, <1>1 DEF Bump
  <2> QED
    BY <2>1, <2>2
<1>4. ASSUME NEW u PROVE Bump(lineVer, u) \in [Readers -> Nat]
  <2>1. CASE u \in Readers
    BY <2>1, <1>1 DEF Bump
  <2>2. CASE u \notin Readers
    BY <2>2, <1>1 DEF Bump
  <2> QED
    BY <2>1, <2>2
<1> QED
  BY <1>1, <1>2, <1>3, <1>4 DEF Inv, Shape, ThreadShape

LEMMA AgainSteps ==
    ASSUME Inv, NEW t \in Threads, pc[t] \in RunPcs, pc[t] \notin {"add", "return", "finish"},
           Again(t), UNCHANGED <<storeVars, queueVars, acked, countVars>>,
           cmd[t].op = "tweet" => Entry(cmd[t]) \in tweets
    PROVE  Inv'
<1>1. cmd[t] \in Commands
  BY DEF Inv, OnCommand, RunPcs
<1>2. cmd[t].op \in {"tweet", "start", "stop"}
  BY <1>1 DEF Commands
<1>3. t \in Callers => cmd[t].op = "tweet"
  BY DEF Inv, OnCommand, RunPcs
<1>4. UNCHANGED <<last, acked, cmd, queue, posts, followCmds, records, tweets, userVer, lineVer, ver, idx>>
  BY DEF Again, storeVars, userVars, lineVars, queueVars, countVars
<1>5. PICK p \in {StartOf(cmd[t].op), AfterRun(t)} : pc' = [pc EXCEPT ![t] = p]
  BY DEF Again, Goto
<1>6. /\ p \in RunPcs /\ p # "add"
      /\ p = "return" => t \in Callers
      /\ p \in TweetPcs => cmd[t].op = "tweet"
      /\ p \in FollowPcs => cmd[t].op # "tweet"
  BY <1>2, <1>5 DEF StartOf, AfterRun, RunPcs, Pcs, TweetPcs, FollowPcs
<1>7. RunStep(t, p)
  BY <1>4, <1>5, <1>6, Moves DEF RunStep
<1> QED
  BY <1>7, RunStepKeeps

LEMMA RunTweetKeeps ==
    ASSUME Inv, NEW t \in Threads, RunTweet(t)
    PROVE  Inv'
<1> USE DEF At, Goto, storeVars, userVars, lineVars, queueVars, taskVars, countVars
<1>1. /\ pc[t] \in TweetPcs
      /\ cmd[t] \in Commands /\ cmd[t].op = "tweet"
  BY DEF RunTweet, StoreTweet, StoreObsolete, FanOut, OwnGet, OwnPut, OwnObsolete, Await,
         Inv, OnCommand, TweetPcs
<1>2. cmd[t].user \in Users /\ cmd[t].user \in Readers
  BY <1>1, Constants DEF Commands
<1>3. /\ pc[t] \in RunPcs /\ pc[t] \notin {"add", "return", "finish"}
      /\ pc[t] # "store" => Entry(cmd[t]) \in tweets
  BY <1>1 DEF TweetPcs, RunPcs, Pcs, Inv, PastStore
<1>4. lineVer[cmd[t].user] \in Nat
  BY <1>2, Moves
<1>5. CASE StoreTweet(t)
  <2>1. RunStep(t, "fan")
    BY <1>1, <1>3, <1>5, Moves DEF StoreTweet, RunStep, RunPcs, Pcs, TweetPcs, FollowPcs
  <2> QED
    BY <2>1, RunStepKeeps
<1>6. CASE StoreObsolete(t)
  <2>1. PICK e \in tweets : e.author = cmd[t].user /\ e.idx = cmd[t].idx
    BY <1>6 DEF StoreObsolete, StoredUnder
  <2>2. cmd[t] \in TweetCommands
    BY <1>1, <1>3 DEF TweetCommands, InFlight, RunPcs
  <2>3. e \in Issued /\ Entry(cmd[t]) \in Issued
    BY <2>2 DEF Issued
  <2>4. Entry(cmd[t]).author = cmd[t].user /\ Entry(cmd[t]).idx = cmd[t].idx
    BY DEF Entry
  <2>5. e = Entry(cmd[t])
    BY <2>1, <2>3, <2>4 DEF Inv, IdsUnique
  <2> QED
    BY <2>5, <1>3, <1>6, AgainSteps DEF StoreObsolete
<1>7. CASE FanOut(t)
  <2>1. RunStep(t, "ownGet")
    BY <1>1, <1>3, <1>7, Moves DEF FanOut, RunStep, RunPcs, Pcs, TweetPcs, FollowPcs
  <2> QED
    BY <2>1, RunStepKeeps
<1>8. CASE OwnGet(t)
  <2>1. RunStep(t, "ownPut")
    BY <1>1, <1>3, <1>4, <1>8, Moves DEF OwnGet, ReadLine, RunStep, RunPcs, Pcs, TweetPcs, FollowPcs
  <2> QED
    BY <2>1, RunStepKeeps
<1>9. CASE OwnPut(t)
  <2>1. RunStep(t, "await")
    BY <1>1, <1>3, <1>9, Moves DEF OwnPut, PutLine, RunStep, RunPcs, Pcs, TweetPcs, FollowPcs
  <2> QED
    BY <2>1, RunStepKeeps
<1>10. CASE OwnObsolete(t)
  BY <1>1, <1>3, <1>10, AgainSteps DEF OwnObsolete, TweetPcs
<1>11. CASE Await(t)
  <2>1. RunStep(t, AfterRun(t))
    BY <1>1, <1>3, <1>11, Moves DEF Await, AfterRun, RunStep, RunPcs, Pcs, TweetPcs, FollowPcs
  <2> QED
    BY <2>1, RunStepKeeps
<1> QED
  BY <1>5, <1>6, <1>7, <1>8, <1>9, <1>10, <1>11 DEF RunTweet

LEMMA RunStartKeeps ==
    ASSUME Inv, NEW t \in Threads, RunStart(t)
    PROVE  Inv'
<1> USE DEF At, Goto, storeVars, userVars, lineVars, queueVars, taskVars, countVars
<1>1. /\ pc[t] \in FollowPcs
      /\ cmd[t] \in Commands /\ cmd[t].op # "tweet"
  BY DEF RunStart, FollowingGet, FollowingPut, FollowersGet, FollowersPut, LineGet,
         RecentLast, RecentRead, LinePut, Inv, OnCommand, FollowPcs, RunPcs, Pcs, TweetPcs
<1>2. cmd[t].user \in Users /\ cmd[t].user \in Readers /\ t \notin Callers
  BY <1>1, Constants DEF Commands, Inv, OnCommand, FollowPcs, RunPcs
<1>3. pc[t] \in RunPcs
  BY <1>1 DEF FollowPcs
<1>4. lineVer[cmd[t].user] \in Nat /\ \A u \in Users : userVer[u] \in Nat /\ last[u] \in Nat
  BY <1>2, Moves DEF Inv, Shape, StoreShape
<1>5. CASE FollowingGet(t)
  <2>1. RunStep(t, "followingPut")
    BY <1>1, <1>2, <1>3, <1>4, <1>5, Moves DEF FollowingGet, ReadUser, RunStep, RunPcs, Pcs, TweetPcs, FollowPcs, PastPcs
  <2> QED
    BY <2>1, RunStepKeeps
<1>6. CASE FollowingPut(t)
  <2>1. userVer' \in [Users -> Nat] /\ \A w \in Users : userVer'[w] >= userVer[w]
    BY <1>2, <1>6, Moves DEF FollowingPut
  <2>2. RunStep(t, "followersGet")
    BY <2>1, <1>1, <1>3, <1>6, Moves DEF FollowingPut, RunStep, RunPcs, Pcs, TweetPcs, FollowPcs, PastPcs
  <2> QED
    BY <2>2, RunStepKeeps
<1>7. CASE FollowersGet(t)
  <2>1. CASE cmd[t].other \in Users
    <3>1. RunStep(t, "followersPut")
      BY <2>1, <1>1, <1>3, <1>4, <1>7, Moves DEF FollowersGet, ReadUser, RunStep, RunPcs, Pcs, TweetPcs, FollowPcs, PastPcs
    <3> QED
      BY <3>1, RunStepKeeps
  <2>2. CASE cmd[t].other \notin Users
    <3>1. RunStep(t, "lineGet")
      BY <2>2, <1>1, <1>3, <1>7, Moves DEF FollowersGet, RunStep, RunPcs, Pcs, TweetPcs, FollowPcs, PastPcs
    <3> QED
      BY <3>1, RunStepKeeps
  <2> QED
    BY <2>1, <2>2
<1>8. CASE FollowersPut(t)
  <2>1. userVer' \in [Users -> Nat] /\ \A w \in Users : userVer'[w] >= userVer[w]
    BY <1>8, Moves DEF FollowersPut
  <2>2. RunStep(t, "lineGet")
    BY <2>1, <1>1, <1>3, <1>8, Moves DEF FollowersPut, RunStep, RunPcs, Pcs, TweetPcs, FollowPcs, PastPcs
  <2> QED
    BY <2>2, RunStepKeeps
<1>9. CASE LineGet(t)
  <2>1. RunStep(t, "recentLast")
    BY <1>1, <1>3, <1>4, <1>9, Moves DEF LineGet, ReadLine, RunStep, RunPcs, Pcs, TweetPcs, FollowPcs, PastPcs
  <2> QED
    BY <2>1, RunStepKeeps
<1>10. CASE RecentLast(t)
  <2>1. PICK p \in {AfterRun(t), "linePut", "recentRead"} : pc' = [pc EXCEPT ![t] = p]
    BY <1>10 DEF RecentLast
  <2>2. p \in {"finish", "linePut", "recentRead"}
    BY <2>1, <1>2 DEF AfterRun
  <2>3. idx' \in [Threads -> Int] /\ \A s \in Threads \ {t} : idx'[s] = idx[s]
    BY <1>4, <1>10, Moves DEF RecentLast
  <2>4. RunStep(t, p)
    BY <2>1, <2>2, <2>3, <1>1, <1>3, <1>10, Moves DEF RecentLast, RunStep, RunPcs, Pcs, TweetPcs, FollowPcs, PastPcs
  <2> QED
    BY <2>4, RunStepKeeps
<1>11. CASE RecentRead(t)
  <2>1. PICK p \in {"linePut", "recentRead"} : pc' = [pc EXCEPT ![t] = p]
    BY <1>11 DEF RecentRead
  <2>2. idx' \in [Threads -> Int] /\ \A s \in Threads \ {t} : idx'[s] = idx[s]
    BY <1>11, Moves DEF RecentRead
  <2>3. RunStep(t, p)
    BY <2>1, <2>2, <1>1, <1>3, <1>11, Moves DEF RecentRead, RunStep, RunPcs, Pcs, TweetPcs, FollowPcs, PastPcs
  <2> QED
    BY <2>3, RunStepKeeps
<1>12. CASE LinePut(t)
  <2>1. lineVer' \in [Readers -> Nat]
    BY <1>12, Moves DEF LinePut, PutLine
  <2>2. RunStep(t, AfterRun(t))
    BY <2>1, <1>1, <1>2, <1>3, <1>12, Moves DEF LinePut, AfterRun, RunStep, RunPcs, Pcs, TweetPcs, FollowPcs, PastPcs
  <2> QED
    BY <2>2, RunStepKeeps
<1> QED
  BY <1>5, <1>6, <1>7, <1>8, <1>9, <1>10, <1>11, <1>12 DEF RunStart

LEMMA RunStopKeeps ==
    ASSUME Inv, NEW t \in Threads, RunStop(t)
    PROVE  Inv'
<1> USE DEF At, Goto, storeVars, userVars, lineVars, queueVars, taskVars, countVars
<1>1. /\ pc[t] \in FollowPcs
      /\ cmd[t] \in Commands /\ cmd[t].op # "tweet"
  BY DEF RunStop, UnfollowersGet, UnfollowersPut, UnfollowingGet, UnfollowingPut, RemoveGet,
         RemovePut, StopObsolete, Inv, OnCommand, FollowPcs, RunPcs, Pcs, TweetPcs
<1>2. cmd[t].user \in Users /\ cmd[t].user \in Readers /\ t \notin Callers
  BY <1>1, Constants DEF Commands, Inv, OnCommand, FollowPcs, RunPcs
<1>3. pc[t] \in RunPcs
  BY <1>1 DEF FollowPcs
<1>4. lineVer[cmd[t].user] \in Nat /\ \A u \in Users : userVer[u] \in Nat
  BY <1>2, Moves DEF Inv, Shape, StoreShape
<1>5. CASE UnfollowersGet(t)
  <2>1. CASE cmd[t].other \in Users
    <3>1. RunStep(t, "unfollowersPut")
      BY <2>1, <1>1, <1>3, <1>4, <1>5, Moves
         DEF UnfollowersGet, ReadUser, RunStep, RunPcs, Pcs, TweetPcs, FollowPcs, PastPcs
    <3> QED
      BY <3>1, RunStepKeeps
  <2>2. CASE cmd[t].other \notin Users
    <3>1. Leave(t) /\ CoreUnchanged /\ UNCHANGED <<queue, records, acked>>
      BY <2>2, <1>5 DEF UnfollowersGet, CoreUnchanged
    <3> QED
      BY <3>1, LeaveKeeps DEF Inv, AckedIsStored
  <2> QED
    BY <2>1, <2>2
<1>6. CASE UnfollowersPut(t)
  <2>1. userVer' \in [Users -> Nat] /\ \A w \in Users : userVer'[w] >= userVer[w]
    BY <1>6, Moves DEF UnfollowersPut
  <2>2. RunStep(t, "unfollowingGet")
    BY <2>1, <1>1, <1>3, <1>6, Moves DEF UnfollowersPut, RunStep, RunPcs, Pcs, TweetPcs, FollowPcs, PastPcs
  <2> QED
    BY <2>2, RunStepKeeps
<1>7. CASE UnfollowingGet(t)
  <2>1. RunStep(t, "unfollowingPut")
    BY <1>1, <1>2, <1>3, <1>4, <1>7, Moves DEF UnfollowingGet, ReadUser, RunStep, RunPcs, Pcs, TweetPcs, FollowPcs, PastPcs
  <2> QED
    BY <2>1, RunStepKeeps
<1>8. CASE UnfollowingPut(t)
  <2>1. userVer' \in [Users -> Nat] /\ \A w \in Users : userVer'[w] >= userVer[w]
    BY <1>8, Moves DEF UnfollowingPut
  <2>2. RunStep(t, "removeGet")
    BY <2>1, <1>1, <1>3, <1>8, Moves DEF UnfollowingPut, RunStep, RunPcs, Pcs, TweetPcs, FollowPcs, PastPcs
  <2> QED
    BY <2>2, RunStepKeeps
<1>9. CASE RemoveGet(t)
  <2>1. PICK p \in {"finish", "removePut"} : pc' = [pc EXCEPT ![t] = p]
    BY <1>2, <1>9 DEF RemoveGet, ReadLine, AfterRun
  <2>2. RunStep(t, p)
    BY <2>1, <1>1, <1>3, <1>4, <1>9, Moves DEF RemoveGet, ReadLine, RunStep, RunPcs, Pcs, TweetPcs, FollowPcs, PastPcs
  <2> QED
    BY <2>2, RunStepKeeps
<1>10. CASE RemovePut(t)
  <2>1. RunStep(t, AfterRun(t))
    BY <1>1, <1>2, <1>3, <1>10, Moves DEF RemovePut, PutLine, AfterRun, RunStep, RunPcs, Pcs, TweetPcs, FollowPcs, PastPcs
  <2> QED
    BY <2>1, RunStepKeeps
<1>11. CASE StopObsolete(t)
  BY <1>1, <1>3, <1>11, AgainSteps DEF StopObsolete, FollowPcs
<1> QED
  BY <1>5, <1>6, <1>7, <1>8, <1>9, <1>10, <1>11 DEF RunStop

-----------------------------------------------------------------------------
(* The steps of a caller.                                                       *)

\* A call of tweet() before it has an index: nothing is issued yet.
LEMMA BeginTweetKeeps ==
    ASSUME Inv, NEW c \in Callers, NEW u \in Users, BeginTweet(c, u)
    PROVE  Inv'
<1> USE DEF At, Goto, storeVars, userVars, lineVars, queueVars, taskVars, countVars
<1> DEFINE new == [op |-> "tweet", user |-> u, other |-> u, idx |-> 0, n |-> posts + 1]
<1>1. c \in Threads /\ u \in Names
  BY Constants
<1>2. new \in Commands /\ new.op = "tweet" /\ posts + 1 \in Nat
  BY <1>1 DEF Commands, Inv, Shape, CountShape
<1>3. /\ pc[c] = "idle" /\ pc' = [pc EXCEPT ![c] = "resGet"]
      /\ cmd' = [cmd EXCEPT ![c] = new]
      /\ UNCHANGED <<last, userVer, lineVer, tweets, queue, records, ver, idx, acked, followCmds>>
      /\ posts' = posts + 1
  BY DEF BeginTweet
<1> HIDE DEF new
<1>4. Shape'
  BY <1>1, <1>2, <1>3 DEF Inv, Shape, StoreShape, QueueShape, ThreadShape, CountShape, Pcs
<1>5. OthersStay(c) /\ pc'[c] = "resGet" /\ cmd'[c] = new
  BY <1>1, <1>3 DEF OthersStay, Inv, Shape, ThreadShape
<1>6. OnCommand'
  BY <1>1, <1>2, <1>5 DEF OnCommand, OthersStay, Inv, TweetPcs, FollowPcs, RunPcs
<1>7. Issued' \subseteq Issued
  <2>1. InFlight' \subseteq InFlight
    BY <1>5 DEF InFlight, OthersStay
  <2> QED
    BY <2>1, <1>3 DEF Issued, TweetCommands, Entry, ToSet
<1>8. IssuedCovered' /\ IdsUnique'
  BY <1>3, <1>7, IssuedShrinks DEF Inv
<1>9. ReadFresh'
  <2>1. UsersAdvance
    BY <1>3 DEF UsersAdvance, Inv, Shape, StoreShape
  <2> QED
    BY <2>1, <1>1, <1>5, ReadFreshKept
<1>10. PastStore'
  BY <1>1, <1>3, <1>5, PastStoreKept DEF PastPcs
<1>11. AckedIsStored'
  BY <1>3 DEF AckedIsStored, Inv
<1> QED
  BY <1>4, <1>6, <1>8, <1>9, <1>10, <1>11 DEF Inv

LEMMA ReserveGetKeeps ==
    ASSUME Inv, NEW c \in Callers, ReserveGet(c)
    PROVE  Inv'
<1> USE DEF At, Goto, storeVars, userVars, lineVars, queueVars, taskVars, countVars
<1> DEFINE u == cmd[c].user
<1>1. c \in Threads /\ cmd[c] \in Commands /\ u \in Users
  BY Constants DEF ReserveGet, Inv, OnCommand, Commands
<1>2. userVer[u] \in Nat /\ last[u] \in Nat
  BY <1>1 DEF Inv, Shape, StoreShape
<1>3. /\ pc[c] = "resGet" /\ pc' = [pc EXCEPT ![c] = "resPut"]
      /\ ver' = [ver EXCEPT ![c] = userVer[u]] /\ idx' = [idx EXCEPT ![c] = last[u] + 1]
      /\ UNCHANGED <<last, userVer, lineVer, tweets, queue, records, cmd, acked, posts, followCmds>>
  BY DEF ReserveGet
<1>4. Shape'
  BY <1>1, <1>2, <1>3 DEF Inv, Shape, StoreShape, QueueShape, ThreadShape, CountShape, Pcs
<1>5. OthersStay(c) /\ pc'[c] = "resPut" /\ ver'[c] = userVer[u] /\ idx'[c] = last[u] + 1
  BY <1>1, <1>3 DEF OthersStay, Inv, Shape, ThreadShape
<1>6. OnCommand'
  BY <1>1, <1>3, <1>5 DEF OnCommand, OthersStay, Inv, TweetPcs, FollowPcs, RunPcs
<1>7. Issued' \subseteq Issued
  <2>1. InFlight' \subseteq InFlight
    BY <1>5 DEF InFlight, OthersStay
  <2> QED
    BY <2>1, <1>3 DEF Issued, TweetCommands, Entry, ToSet
<1>8. IssuedCovered' /\ IdsUnique'
  BY <1>3, <1>7, IssuedShrinks DEF Inv
<1>9. ReadFresh'
  <2> SUFFICES ASSUME NEW d \in Callers, pc'[d] = "resPut"
               PROVE  /\ ver'[d] <= userVer[cmd[d].user]
                      /\ ver'[d] = userVer[cmd[d].user] => idx'[d] = last[cmd[d].user] + 1
    BY <1>3 DEF ReadFresh
  <2>1. CASE d = c
    BY <2>1, <1>2, <1>5
  <2>2. CASE d # c
    BY <2>2, <1>5, Constants DEF OthersStay, Inv, ReadFresh
  <2> QED
    BY <2>1, <2>2
<1>10. PastStore'
  BY <1>1, <1>3, <1>5, PastStoreKept DEF PastPcs
<1>11. AckedIsStored'
  BY <1>3 DEF AckedIsStored, Inv
<1> QED
  BY <1>4, <1>6, <1>8, <1>9, <1>10, <1>11 DEF Inv

\* The put succeeds only on the version read: lastTweet is what it was then, and the new
\* index is above all that were issued.
LEMMA ReservePutKeeps ==
    ASSUME Inv, NEW c \in Callers, ReservePut(c)
    PROVE  Inv'
<1> USE DEF At, Goto, storeVars, userVars, lineVars, queueVars, taskVars, countVars
<1> DEFINE u == cmd[c].user
           new == [cmd[c] EXCEPT !.idx = idx[c]]
<1>1. c \in Threads /\ cmd[c] \in Commands /\ u \in Users /\ cmd[c].op = "tweet"
  BY Constants DEF ReservePut, Inv, OnCommand, Commands
<1>2. userVer[u] \in Nat /\ last[u] \in Nat /\ idx[c] = last[u] + 1
  BY <1>1 DEF ReservePut, Inv, Shape, StoreShape, ReadFresh
<1>3. new \in Commands /\ new.op = "tweet" /\ new.user = u /\ new.idx = last[u] + 1
  BY <1>1, <1>2 DEF Commands
<1>4. /\ pc[c] = "resPut" /\ pc' = [pc EXCEPT ![c] = "add"] /\ cmd' = [cmd EXCEPT ![c] = new]
      /\ last' = [last EXCEPT ![u] = last[u] + 1] /\ userVer' = Bump(userVer, u)
      /\ UNCHANGED <<lineVer, tweets, queue, records, ver, idx, acked, posts, followCmds>>
  BY <1>2 DEF ReservePut
<1> HIDE DEF new, u
<1>5. last' \in [Users -> Nat] /\ userVer' \in [Users -> Nat]
  <2>1. last \in [Users -> Nat] /\ last[u] + 1 \in Nat
    BY <1>2 DEF Inv, Shape, StoreShape, u
  <2>2. last' \in [Users -> Nat]
    BY <2>1, <1>4
  <2>3. userVer' \in [Users -> Nat]
    BY <1>4, Moves
  <2> QED
    BY <2>2, <2>3
<1>6. Shape'
  BY <1>1, <1>3, <1>4, <1>5 DEF Inv, Shape, StoreShape, QueueShape, ThreadShape, CountShape, Pcs
<1>7. OthersStay(c) /\ pc'[c] = "add" /\ cmd'[c] = new
  BY <1>1, <1>4 DEF OthersStay, Inv, Shape, ThreadShape
<1>8. OnCommand'
  BY <1>1, <1>3, <1>7 DEF OnCommand, OthersStay, Inv, TweetPcs, FollowPcs, RunPcs
<1>9. Issued' \subseteq Issued \cup {Entry(new)}
  <2>1. InFlight' \subseteq InFlight \cup {new}
    BY <1>7 DEF InFlight, OthersStay
  <2> QED
    BY <2>1, <1>4 DEF Issued, TweetCommands, Entry, ToSet
<1>10. Entry(new).author = u /\ Entry(new).idx = last[u] + 1
  BY <1>3 DEF Entry
<1>11. Issued \subseteq Entries
  <2>1. TweetCommands \subseteq Commands
    BY QueueContents DEF TweetCommands, InFlight, Inv, Shape, QueueShape, OnCommand
  <2> QED
    BY <2>1 DEF Issued, Entry, Entries, Commands, Inv, Shape, StoreShape
<1>12. ASSUME NEW e \in Issued
       PROVE  /\ e.idx \in 1 .. last'[e.author]
              /\ e.author = u => e.idx # last[u] + 1
  <2>1. e.author \in Users /\ e.idx \in Nat /\ e.idx \in 1 .. last[e.author] /\ last[e.author] \in Nat
    BY <1>11 DEF Entries, Inv, IssuedCovered, Shape, StoreShape
  <2>2. last'[e.author] \in {last[e.author], last[e.author] + 1}
    BY <2>1, <1>4 DEF Inv, Shape, StoreShape
  <2> QED
    BY <2>1, <2>2
<1>13. last'[u] = last[u] + 1
  BY <1>1, <1>4 DEF Inv, Shape, StoreShape, u
<1>14. IssuedCovered'
  <2> SUFFICES ASSUME NEW e \in Issued' PROVE e.idx \in 1 .. last'[e.author]
    BY DEF IssuedCovered
  <2>1. CASE e \in Issued
    BY <2>1, <1>12
  <2>2. CASE e = Entry(new)
    BY <2>2, <1>2, <1>10, <1>13 DEF u
  <2> QED
    BY <2>1, <2>2, <1>9
<1>15. IdsUnique'
  <2> SUFFICES ASSUME NEW x \in Issued', NEW y \in Issued', x.author = y.author, x.idx = y.idx
               PROVE  x = y
    BY DEF IdsUnique
  <2>1. CASE x \in Issued /\ y \in Issued
    BY <2>1 DEF Inv, IdsUnique
  <2>2. CASE x = Entry(new) /\ y = Entry(new)
    BY <2>2
  <2>3. CASE x = Entry(new) /\ y \in Issued
    BY <2>3, <1>10, <1>12
  <2>4. CASE x \in Issued /\ y = Entry(new)
    BY <2>4, <1>10, <1>12
  <2> QED
    BY <2>1, <2>2, <2>3, <2>4, <1>9
<1>16. ReadFresh'
  <2>1. UsersAdvance
    <3> SUFFICES ASSUME NEW w \in Users
                 PROVE  /\ userVer'[w] \in Nat /\ userVer'[w] >= userVer[w]
                        /\ userVer'[w] = userVer[w] => last'[w] = last[w]
      BY DEF UsersAdvance
    <3>1. CASE w = u
      BY <3>1, <1>2, <1>4 DEF Bump, Inv, Shape, StoreShape, u
    <3>2. CASE w # u
      BY <3>2, <1>4 DEF Bump, Inv, Shape, StoreShape
    <3> QED
      BY <3>1, <3>2
  <2> QED
    BY <2>1, <1>1, <1>7, ReadFreshKept
<1>17. PastStore'
  BY <1>1, <1>4, <1>7, PastStoreKept DEF PastPcs
<1>18. AckedIsStored'
  BY <1>4 DEF AckedIsStored, Inv
<1> QED
  BY <1>6, <1>8, <1>14, <1>15, <1>16, <1>17, <1>18 DEF Inv

LEMMA ReserveObsoleteKeeps ==
    ASSUME Inv, NEW c \in Callers, ReserveObsolete(c)
    PROVE  Inv'
<1> USE DEF At, Goto, storeVars, userVars, lineVars, queueVars, taskVars, countVars
<1>1. c \in Threads /\ pc[c] = "resPut" /\ cmd[c] \in Commands
  BY Constants DEF ReserveObsolete, Inv, OnCommand
<1>2. CoreUnchanged /\ UNCHANGED <<queue, records, acked>>
  BY DEF ReserveObsolete, CoreUnchanged
<1>3. CASE Leave(c)
  BY <1>1, <1>2, <1>3, LeaveKeeps DEF Inv, AckedIsStored
<1>4. CASE pc' = [pc EXCEPT ![c] = "resGet"] /\ UNCHANGED <<cmd, ver, idx>>
  <2>1. Shape'
    BY <1>1, <1>2, <1>4 DEF Inv, Shape, StoreShape, QueueShape, ThreadShape, CountShape, CoreUnchanged, Pcs
  <2>2. OthersStay(c) /\ pc'[c] = "resGet" /\ cmd' = cmd
    BY <1>1, <1>4 DEF OthersStay, Inv, Shape, ThreadShape
  <2>3. OnCommand'
    BY <1>1, <2>2 DEF OnCommand, OthersStay, Inv, TweetPcs, FollowPcs, RunPcs
  <2>4. Issued' \subseteq Issued
    <3>1. InFlight' \subseteq InFlight
      BY <2>2 DEF InFlight, OthersStay
    <3> QED
      BY <3>1, <1>2 DEF Issued, TweetCommands, Entry, ToSet, CoreUnchanged
  <2>5. IssuedCovered' /\ IdsUnique'
    BY <1>2, <2>4, IssuedShrinks DEF Inv, CoreUnchanged
  <2>6. ReadFresh'
    <3>1. UsersAdvance
      BY <1>2 DEF UsersAdvance, CoreUnchanged, Inv, Shape, StoreShape
    <3> QED
      BY <3>1, <1>1, <2>2, ReadFreshKept
  <2>7. PastStore' /\ AckedIsStored'
    BY <1>1, <1>2, <2>2, PastStoreKept DEF PastPcs, CoreUnchanged, AckedIsStored, Inv
  <2> QED
    BY <2>1, <2>3, <2>5, <2>6, <2>7 DEF Inv
<1> QED
  BY <1>3, <1>4 DEF ReserveObsolete

LEMMA CallerStepKeeps ==
    ASSUME Inv, NEW c \in Callers, CallerStep(c) \/ AddFails(c)
    PROVE  Inv'
<1> USE DEF At, Goto, storeVars, userVars, lineVars, queueVars, taskVars, countVars
<1>1. c \in Threads
  BY Constants
<1>2. CASE AddTweet(c)
  <2>1. RunStep(c, "store")
    BY <1>1, <1>2, Moves DEF AddTweet, Inv, OnCommand, RunStep, RunPcs, Pcs, TweetPcs, FollowPcs, PastPcs
  <2> QED
    BY <2>1, <1>1, RunStepKeeps
<1>3. CASE AddFails(c)
  <2>1. Leave(c) /\ CoreUnchanged /\ queue' = queue /\ acked' = acked
        /\ records' \subseteq records \cup {cmd[c]} /\ pc[c] \in RunPcs
    BY <1>3 DEF AddFails, CoreUnchanged, RunPcs, Pcs
  <2> QED
    BY <2>1, <1>1, LeaveKeeps DEF Inv, AckedIsStored
<1>4. CASE Return(c)
  <2>1. Leave(c) /\ CoreUnchanged /\ queue' = queue /\ records' = records
        /\ acked' = acked \cup {Entry(cmd[c])}
    BY <1>4 DEF Return, CoreUnchanged
  <2>2. Entry(cmd[c]) \in tweets
    BY <1>1, <1>4 DEF Return, Inv, OnCommand, PastStore
  <2> QED
    BY <2>1, <2>2, <1>1, LeaveKeeps DEF Inv, AckedIsStored
<1> QED
  BY <1>1, <1>2, <1>3, <1>4, ReserveGetKeeps, ReservePutKeeps, ReserveObsoleteKeeps, RunTweetKeeps
     DEF CallerStep

-----------------------------------------------------------------------------
(* Workers, deliveries, and what happens to the process.                        *)

\* A command that is taken was queued: its tweet is issued already.
LEMMA TakeKeeps ==
    ASSUME Inv, NEW w \in Workers, Take(w)
    PROVE  Inv'
<1> USE DEF At, Goto, storeVars, userVars, lineVars, queueVars, taskVars, countVars
<1> DEFINE c == Head(queue)
           p == StartOf(c.op)
<1>1. w \in Threads /\ w \notin Callers
  BY Constants
<1>2. queue \in Seq(Commands) /\ queue # <<>>
  BY DEF Take, Inv, Shape, QueueShape
<1>3. c \in ToSet(queue) /\ c \in Commands
      /\ Tail(queue) \in Seq(Commands) /\ ToSet(Tail(queue)) \subseteq ToSet(queue)
  BY <1>2, QueueContents
<1>4. c.op \in {"tweet", "start", "stop"}
  BY <1>3 DEF Commands
<1>5. /\ p \in {"store", "followingGet", "unfollowersGet"}
      /\ p = "store" <=> c.op = "tweet"
  BY <1>4 DEF StartOf
<1>6. /\ pc[w] = "idle" /\ pc' = [pc EXCEPT ![w] = p] /\ cmd' = [cmd EXCEPT ![w] = c]
      /\ queue' = Tail(queue) /\ CoreUnchanged /\ UNCHANGED <<records, ver, idx, acked>>
  BY DEF Take, CoreUnchanged
<1> HIDE DEF c, p
<1>7. Shape'
  BY <1>1, <1>3, <1>5, <1>6 DEF Inv, Shape, StoreShape, QueueShape, ThreadShape, CountShape, CoreUnchanged, Pcs
<1>8. OthersStay(w) /\ pc'[w] = p /\ cmd'[w] = c
  BY <1>1, <1>6 DEF OthersStay, Inv, Shape, ThreadShape
<1>9. OnCommand'
  BY <1>1, <1>3, <1>5, <1>8 DEF OnCommand, OthersStay, Inv, TweetPcs, FollowPcs, RunPcs
<1>10. Issued' \subseteq Issued
  <2>1. InFlight' \subseteq InFlight \cup {c}
    BY <1>8 DEF InFlight, OthersStay
  <2>2. ToSet(queue)' \subseteq ToSet(queue)
    BY <1>3, <1>6
  <2>3. TweetCommands' \subseteq TweetCommands
    BY <2>1, <2>2, <1>3, <1>6 DEF TweetCommands
  <2> QED
    BY <2>3, <1>6 DEF Issued, Entry, CoreUnchanged
<1>11. IssuedCovered' /\ IdsUnique'
  BY <1>6, <1>10, IssuedShrinks DEF Inv, CoreUnchanged
<1>12. ReadFresh'
  <2>1. UsersAdvance
    BY <1>6 DEF UsersAdvance, CoreUnchanged, Inv, Shape, StoreShape
  <2> QED
    BY <2>1, <1>1, <1>5, <1>8, ReadFreshKept
<1>13. PastStore' /\ AckedIsStored'
  BY <1>1, <1>5, <1>6, <1>8, PastStoreKept DEF PastPcs, CoreUnchanged, AckedIsStored, Inv
<1> QED
  BY <1>7, <1>9, <1>11, <1>12, <1>13 DEF Inv

LEMMA WorkerStepKeeps ==
    ASSUME Inv, NEW w \in Workers, WorkerStep(w)
    PROVE  Inv'
<1>1. w \in Threads
  BY Constants
<1>2. CASE Finish(w)
  <2>1. Leave(w) /\ CoreUnchanged /\ queue' = queue /\ acked' = acked /\ records' \subseteq records
    BY <1>2 DEF Finish, CoreUnchanged, storeVars, userVars, lineVars, countVars
  <2> QED
    BY <2>1, <1>1, LeaveKeeps DEF Inv, AckedIsStored
<1> QED
  BY <1>1, <1>2, TakeKeeps, RunTweetKeeps, RunStartKeeps, RunStopKeeps DEF WorkerStep

LEMMA SubmitFollowKeeps ==
    ASSUME Inv, NEW op \in {"start", "stop"}, NEW u \in Users, NEW v \in Names,
           SubmitFollow(op, u, v)
    PROVE  Inv'
<1> DEFINE c == [op |-> op, user |-> u, other |-> v, idx |-> 0, n |-> followCmds + 1]
<1>1. c \in Commands /\ c.op # "tweet" /\ followCmds + 1 \in Nat
  BY DEF Commands, Inv, Shape, CountShape
<1>2. /\ records' = records \cup {c} /\ queue' = Append(queue, c)
      /\ followCmds' = followCmds + 1
      /\ UNCHANGED <<last, userVer, lineVer, tweets, pc, cmd, ver, idx, acked, posts>>
  BY DEF SubmitFollow, storeVars, userVars, lineVars
<1> HIDE DEF c
<1>3. Append(queue, c) \in Seq(Commands) /\ ToSet(queue') \subseteq ToSet(queue) \cup {c}
  BY <1>1, <1>2, QueueContents DEF Inv, Shape, QueueShape
<1>4. QueueShape' /\ CountShape' /\ lineVer' \in [Readers -> Nat]
  BY <1>1, <1>2, <1>3 DEF Inv, Shape, StoreShape, QueueShape, CountShape
<1>5. \A d \in records' \cup ToSet(queue)' : d \in records \cup ToSet(queue) \/ d.op # "tweet"
  BY <1>1, <1>2, <1>3
<1> QED
  BY <1>2, <1>4, <1>5, AsideKeeps

LEMMA RequeueKeeps ==
    ASSUME Inv, NEW c \in records, Requeue(c)
    PROVE  Inv'
<1>1. /\ queue' = Append(queue, c) /\ records' = records
      /\ UNCHANGED <<last, userVer, lineVer, tweets, pc, cmd, ver, idx, acked, posts, followCmds>>
  BY DEF Requeue, storeVars, userVars, lineVars
<1>2. c \in Commands
  BY DEF Inv, Shape, QueueShape
<1>3. Append(queue, c) \in Seq(Commands) /\ ToSet(queue') \subseteq ToSet(queue) \cup {c}
  BY <1>1, <1>2, QueueContents DEF Inv, Shape, QueueShape
<1>4. QueueShape' /\ CountShape' /\ lineVer' \in [Readers -> Nat]
  BY <1>1, <1>3 DEF Inv, Shape, StoreShape, QueueShape, CountShape
<1>5. \A d \in records' \cup ToSet(queue)' : d \in records \cup ToSet(queue) \/ d.op # "tweet"
  BY <1>1, <1>3
<1> QED
  BY <1>1, <1>4, <1>5, AsideKeeps

LEMMA DeliveryKeeps ==
    ASSUME Inv, NEW k, DeliveryStep(k) \/ DeliveryAborts(k)
    PROVE  Inv'
<1>1. UNCHANGED <<last, userVer, tweets, pc, cmd, ver, idx, acked, queue, records, posts, followCmds>>
  BY DEF DeliveryStep, DeliveryAborts, DeliverGet, DeliverPut, DeliverObsolete, storeVars,
         userVars, queueVars, countVars
<1>2. lineVer' \in [Readers -> Nat]
  BY Moves DEF DeliveryStep, DeliveryAborts, DeliverGet, DeliverPut, DeliverObsolete, PutLine,
               storeVars, lineVars
<1>3. QueueShape' /\ CountShape'
  BY <1>1 DEF QueueShape, CountShape, Inv, Shape
<1>4. \A c \in records' \cup ToSet(queue)' : c \in records \cup ToSet(queue) \/ c.op # "tweet"
  BY <1>1 DEF ToSet
<1> QED
  BY <1>1, <1>2, <1>3, <1>4, AsideKeeps

LEMMA AbortKeeps ==
    ASSUME Inv, NEW t \in Threads, Abort(t)
    PROVE  Inv'
<1>1. Leave(t) /\ CoreUnchanged /\ queue' = queue /\ acked' = acked /\ records' = records
  BY DEF Abort, CoreUnchanged, storeVars, userVars, lineVars, queueVars
<1> QED
  BY <1>1, LeaveKeeps DEF Inv, AckedIsStored

LEMMA CrashKeeps ==
    ASSUME Inv, Crash
    PROVE  Inv'
<1>1. /\ UNCHANGED <<last, userVer, lineVer, tweets, records, acked, posts, followCmds>>
      /\ queue' = <<>> /\ \A t \in Threads : pc'[t] = "idle"
  BY DEF Crash, storeVars, userVars, lineVars
<1>2. Shape'
  BY <1>1 DEF Crash, Inv, Shape, StoreShape, QueueShape, ThreadShape, CountShape, Pcs
<1>3. OnCommand'
  BY <1>1 DEF OnCommand, TweetPcs, FollowPcs, RunPcs
<1>4. Issued' \subseteq Issued
  <2>1. InFlight' = {} /\ ToSet(queue)' = {}
    BY <1>1 DEF InFlight, ToSet
  <2> QED
    BY <2>1, <1>1 DEF Issued, TweetCommands, Entry
<1>5. IssuedCovered' /\ IdsUnique'
  BY <1>1, <1>4, IssuedShrinks DEF Inv
<1>6. ReadFresh' /\ PastStore' /\ AckedIsStored'
  BY <1>1, Constants DEF ReadFresh, PastStore, AckedIsStored, Inv, At
<1> QED
  BY <1>2, <1>3, <1>5, <1>6 DEF Inv

-----------------------------------------------------------------------------
(* The theorems.                                                                *)

LEMMA InitInv == Init => Inv
<1> SUFFICES ASSUME Init PROVE Inv
  OBVIOUS
<1>1. /\ \A t \in Threads : pc[t] = "idle"
      /\ tweets = {} /\ queue = <<>> /\ records = {} /\ acked = {}
  BY DEF Init
<1>2. Shape
  BY DEF Init, Shape, StoreShape, QueueShape, ThreadShape, CountShape, Pcs
<1>3. OnCommand
  BY <1>1 DEF OnCommand, TweetPcs, FollowPcs, RunPcs
<1>4. Issued = {}
  BY <1>1 DEF Issued, TweetCommands, InFlight, ToSet
<1>5. IssuedCovered /\ IdsUnique
  BY <1>4 DEF IssuedCovered, IdsUnique
<1>6. ReadFresh /\ PastStore /\ AckedIsStored
  BY <1>1, Constants DEF ReadFresh, PastStore, AckedIsStored, At
<1> QED
  BY <1>2, <1>3, <1>5, <1>6 DEF Inv

LEMMA NextKeeps == Inv /\ [Next]_vars => Inv'
<1> SUFFICES ASSUME Inv, [Next]_vars PROVE Inv'
  OBVIOUS
<1>1. CASE Call
  BY <1>1, BeginTweetKeeps, SubmitFollowKeeps DEF Call
<1>2. CASE \E c \in Callers : CallerStep(c) \/ AddFails(c)
  BY <1>2, CallerStepKeeps
<1>3. CASE \E w \in Workers : WorkerStep(w)
  BY <1>3, WorkerStepKeeps
<1>4. CASE \E k \in tasks : DeliveryStep(k) \/ DeliveryAborts(k)
  BY <1>4, DeliveryKeeps
<1>5. CASE \E t \in Threads : Abort(t)
  BY <1>5, AbortKeeps
<1>6. CASE Crash
  BY <1>6, CrashKeeps
<1>7. CASE \E c \in records : Requeue(c)
  BY <1>7, RequeueKeeps
<1>8. CASE UNCHANGED vars
  <2>1. /\ UNCHANGED <<last, userVer, lineVer, tweets, pc, cmd, ver, idx, acked>>
        /\ UNCHANGED <<queue, records, posts, followCmds>>
    BY <1>8 DEF vars, storeVars, userVars, lineVars, queueVars, countVars
  <2>2. QueueShape' /\ CountShape' /\ lineVer' \in [Readers -> Nat]
    BY <2>1 DEF QueueShape, CountShape, Inv, Shape, StoreShape
  <2>3. \A c \in records' \cup ToSet(queue)' : c \in records \cup ToSet(queue) \/ c.op # "tweet"
    BY <2>1 DEF ToSet
  <2> QED
    BY <2>1, <2>2, <2>3, AsideKeeps
<1> QED
  BY <1>1, <1>2, <1>3, <1>4, <1>5, <1>6, <1>7, <1>8 DEF Next

LEMMA Invariance == Spec => []Inv
BY InitInv, NextKeeps, PTL DEF Spec

\* No two tweets share an id, whatever callers, workers and reruns do (tweet, the
\* optimistic update of lastTweet; TweetCommand, VoldemortTweet's id).
THEOREM UniqueIds == Spec => []IdsUnique
<1>1. Inv => IdsUnique
  BY DEF Inv
<1> QED
  BY <1>1, Invariance, PTL

\* The optimistic update of lastTweet reserves: nothing issued is above lastTweet, and
\* whoever read an old version fails (VoldemortTweetService.tweet).
THEOREM ReservationHolds == Spec => []Reservation
<1>1. Inv => Reservation
  BY DEF Inv, Reservation
<1> QED
  BY <1>1, Invariance, PTL

\* Reading down from lastTweet meets every stored tweet (VoldemortTweetService.getTweets).
THEOREM LastTweetCovers == Spec => []LastCovers
<1>1. Inv => LastCovers
  BY DEF Inv, IssuedCovered, LastCovers, Issued
<1> QED
  BY <1>1, Invariance, PTL

\* A TweetCommand goes past its put only with the tweet stored (TweetCommand.execute).
THEOREM StoredFirst == Spec => []PastStore
<1>1. Inv => PastStore
  BY DEF Inv
<1> QED
  BY <1>1, Invariance, PTL

\* When tweet() returns its tweet is stored, even if the command was given up after three
\* attempts (AbstractVoldemortCommand.execute, which ignores what applyUpdate answers).
THEOREM AcknowledgedIsStored == Spec => []AckedIsStored
<1>1. Inv => AckedIsStored
  BY DEF Inv
<1> QED
  BY <1>1, Invariance, PTL

-----------------------------------------------------------------------------
(* Who follows whom, while calls are made one at a time and nothing fails.       *)

\* One thread is busy, or one command waits.
OneByOne ==
    /\ \A s, t \in Threads : pc[s] # "idle" /\ pc[t] # "idle" => s = t
    /\ queue # <<>> => Len(queue) = 1 /\ \A t \in Threads : pc[t] = "idle"

\* Whoever puts a user has read the newest version.
UsersFresh ==
    \A t \in Threads :
        /\ pc[t] \in {"followingPut", "unfollowingPut"} => ver[t] = userVer[cmd[t].user]
        /\ pc[t] \in {"followersPut", "unfollowersPut"} =>
             cmd[t].other \in Users /\ ver[t] = userVer[cmd[t].other]

\* Between its two puts a command has changed one side, and only then do they differ.
HalfDone ==
    \A t \in Threads :
        /\ pc[t] \in {"followersGet", "followersPut"} => Follows(cmd[t].user, cmd[t].other)
        /\ pc[t] \in {"unfollowingGet", "unfollowingPut"} =>
             cmd[t].other \in Users /\ ~HasFollower(cmd[t].other, cmd[t].user)
Between(t, u, v) ==
    /\ pc[t] \in {"followersGet", "followersPut", "unfollowingGet", "unfollowingPut"}
    /\ cmd[t].user = u /\ cmd[t].other = v
SidesAgree ==
    \A u, v \in Users : \/ Follows(u, v) <=> HasFollower(v, u)
                        \/ \E t \in Threads : Between(t, u, v)

FieldsShape ==
    /\ following \in [Users -> (SUBSET Names) \cup {None}]
    /\ followers \in [Users -> (SUBSET Users) \cup {None}]
    /\ calm \in BOOLEAN /\ crashes \in Nat /\ faults \in Nat

GraphInv == FieldsShape /\ (Undisturbed => OneByOne /\ UsersFresh /\ HalfDone /\ SidesAgree)

LEMMA NamesAreNotNone == \A names \in SUBSET Names : names # None
BY NamesAssumption

\* A field that is read, changed and written back: what it then holds.
LEMMA FieldAdded ==
    ASSUME NEW f \in (SUBSET Names) \cup {None}, NEW n \in Names, NEW u \in Names
    PROVE  u \in AsSet(AsField(AsSet(f) \cup {n})) <=> u \in AsSet(f) \/ u = n
<1> DEFINE g == AsField(AsSet(f) \cup {n})
<1>1. g \in SUBSET Names /\ n \in g
  BY Constants DEF AsField, AsSet
<1>2. g # None /\ g # {}
  BY <1>1, NamesAreNotNone
<1>3. AsSet(g) = g
  BY <1>2 DEF AsSet
<1>4. u \in g <=> u \in AsSet(f) \/ u = n
  BY Constants DEF AsField
<1> QED
  BY <1>3, <1>4

LEMMA FieldRemoved ==
    ASSUME NEW f \in (SUBSET Names) \cup {None}, NEW n, NEW u \in Users
    PROVE  u \in AsSet(AsField(AsSet(f) \ {n})) <=> u \in AsSet(f) /\ u # n
<1> DEFINE g == AsField(AsSet(f) \ {n})
<1>1. g \in SUBSET Names
  BY DEF AsField, AsSet
<1>2. g # None
  BY <1>1, NamesAreNotNone
<1>3. u # Nobody
  BY Constants
<1>4. u \in g <=> u \in AsSet(f) /\ u # n
  BY <1>3 DEF AsField
<1>5. AsSet(g) = IF g = {} THEN {Nobody} ELSE g
  BY <1>2 DEF AsSet
<1> HIDE DEF g
<1>6. u \in AsSet(g) <=> u \in g
  BY <1>3, <1>5
<1> QED
  BY <1>4, <1>6 DEF g

LEMMA FieldTypes ==
    ASSUME NEW S \in SUBSET Names, NEW f \in (SUBSET S) \cup {None}, NEW n
    PROVE  /\ n \in S => AsField(AsSet(f) \cup {n}) \in SUBSET S
           /\ AsField(AsSet(f) \ {n}) \in SUBSET S
BY DEF AsField, AsSet

-----------------------------------------------------------------------------
\* What a busy thread does while nothing runs beside it, and does not disturb.
OnlyMoves(t) ==
    /\ OthersStay(t) /\ pc[t] # "idle"
    /\ UNCHANGED <<queue, calm, crashes, faults>>

LEMMA MovesOneByOne ==
    ASSUME NEW t \in Threads, OnlyMoves(t), OneByOne
    PROVE  OneByOne' /\ \A s \in Threads \ {t} : pc[s] = "idle" /\ pc'[s] = "idle"
<1>1. \A s \in Threads \ {t} : pc[s] = "idle" /\ pc'[s] = "idle"
  BY DEF OneByOne, OnlyMoves, OthersStay
<1>2. queue = <<>> /\ queue' = queue
  BY DEF OneByOne, OnlyMoves
<1> QED
  BY <1>1, <1>2 DEF OneByOne

\* A step of a busy thread: GraphInv has to be shown of its own users only.
LEMMA StepKeepsGraph ==
    ASSUME GraphInv, NEW t \in Threads, OnlyMoves(t), FieldsShape',
           Undisturbed /\ UsersFresh /\ HalfDone =>
             /\ pc'[t] \in {"followingPut", "unfollowingPut"} => ver'[t] = userVer'[cmd'[t].user]
             /\ pc'[t] \in {"followersPut", "unfollowersPut"} =>
                  cmd'[t].other \in Users /\ ver'[t] = userVer'[cmd'[t].other]
             /\ pc'[t] \in {"followersGet", "followersPut"} =>
                  cmd'[t].other \in AsSet(following'[cmd'[t].user])
             /\ pc'[t] \in {"unfollowingGet", "unfollowingPut"} =>
                  cmd'[t].other \in Users /\ cmd'[t].user \notin AsSet(followers'[cmd'[t].other])
             /\ \A u, v \in Users :
                  \/ Follows(u, v)' <=> HasFollower(v, u)'
                  \/ Between(t, u, v)'
                  \/ ~(Follows(u, v) <=> HasFollower(v, u)) /\ ~Between(t, u, v)
    PROVE  GraphInv'
<1> SUFFICES ASSUME Undisturbed' PROVE OneByOne' /\ UsersFresh' /\ HalfDone' /\ SidesAgree'
  BY DEF GraphInv
<1>1. Undisturbed
  BY DEF Undisturbed, OnlyMoves
<1>2. OneByOne /\ UsersFresh /\ HalfDone /\ SidesAgree
  BY <1>1 DEF GraphInv
<1>3. OneByOne' /\ \A s \in Threads \ {t} : pc[s] = "idle" /\ pc'[s] = "idle"
  BY <1>2, MovesOneByOne
<1>4. UsersFresh'
  BY <1>1, <1>2, <1>3 DEF UsersFresh
<1>5. HalfDone'
  BY <1>1, <1>2, <1>3 DEF HalfDone, Follows, HasFollower, AsSet
<1>6. SidesAgree'
  <2> SUFFICES ASSUME NEW u \in Users, NEW v \in Users, ~(Follows(u, v)' <=> HasFollower(v, u)')
               PROVE  Between(t, u, v)'
    BY DEF SidesAgree
  <2>1. (Follows(u, v) <=> HasFollower(v, u)) \/ Between(t, u, v)
    BY <1>2, <1>3 DEF SidesAgree, Between
  <2> QED
    BY <2>1, <1>1, <1>2
<1> QED
  BY <1>3, <1>4, <1>5, <1>6

\* A step that leaves the users alone, of a thread that has not done the first put of a
\* follow command, or has done the second, and goes to no put of one.
GraphPcs == {"followingPut", "followersGet", "followersPut",
             "unfollowersPut", "unfollowingGet", "unfollowingPut"}
LEMMA AsideOfGraph ==
    ASSUME GraphInv, NEW t \in Threads, OnlyMoves(t),
           UNCHANGED <<following, followers>>,
           Undisturbed /\ UsersFresh /\ HalfDone =>
             \/ pc[t] \notin GraphPcs \ {"followingPut", "unfollowersPut"}
             \/ pc[t] = "followersGet" /\ cmd[t].other \notin Users,
           pc'[t] \notin GraphPcs
    PROVE  GraphInv'
<1>1. FieldsShape'
  BY DEF FieldsShape, GraphInv, OnlyMoves
<1>2. \A u, v \in Users : /\ Follows(u, v)' = Follows(u, v)
                          /\ HasFollower(v, u)' = HasFollower(v, u)
  BY DEF Follows, HasFollower, AsSet
<1>3. ASSUME Undisturbed, UsersFresh, HalfDone, NEW u \in Users, NEW v \in Users
      PROVE  ~Between(t, u, v)
  BY <1>3 DEF Between, GraphPcs
<1> QED
  BY <1>1, <1>2, <1>3, StepKeepsGraph DEF GraphPcs

-----------------------------------------------------------------------------
(* The steps of the commands.                                                   *)

LEMMA TweetKeepsGraph ==
    ASSUME Inv, GraphInv, NEW t \in Threads, RunTweet(t)
    PROVE  GraphInv'
<1> USE DEF At, Goto, storeVars, userVars, lineVars, queueVars, taskVars, countVars
<1>1. /\ pc[t] \in TweetPcs /\ cmd[t] \in Commands /\ cmd[t].op = "tweet"
  BY DEF RunTweet, StoreTweet, StoreObsolete, FanOut, OwnGet, OwnPut, OwnObsolete, Await,
         Inv, OnCommand, TweetPcs
<1>2. PICK p \in {"fan", "ownGet", "ownPut", "await", "return", "finish", "store"} :
        /\ pc' = [pc EXCEPT ![t] = p]
        /\ UNCHANGED <<cmd, idx, following, followers, queue, calm, crashes, faults>>
        /\ ver' = ver \/ ver' = [ver EXCEPT ![t] = lineVer[cmd[t].user]]
  BY <1>1 DEF RunTweet, StoreTweet, StoreObsolete, FanOut, OwnGet, OwnPut, OwnObsolete, Await,
              Again, AfterRun, StartOf, ReadLine
<1>3. OnlyMoves(t) /\ pc'[t] = p
  BY <1>1, <1>2 DEF OnlyMoves, OthersStay, TweetPcs, Inv, Shape, ThreadShape
<1> QED
  BY <1>1, <1>2, <1>3, AsideOfGraph DEF TweetPcs, GraphPcs

LEMMA FollowingPutKeepsGraph ==
    ASSUME Inv, GraphInv, NEW t \in Threads, FollowingPut(t)
    PROVE  GraphInv'
<1> USE DEF At, Goto, lineVars, queueVars, taskVars, countVars
<1> DEFINE u == cmd[t].user
           w == cmd[t].other
<1>1. pc[t] = "followingPut" /\ cmd[t] \in Commands
  BY DEF FollowingPut, Inv, OnCommand
<1>2. u \in Users /\ u \in Names /\ w \in Names
  BY <1>1, Constants DEF Commands
<1>3. /\ OnlyMoves(t) /\ pc'[t] = "followersGet" /\ cmd' = cmd
      /\ UNCHANGED followers
  BY <1>1 DEF FollowingPut, OnlyMoves, OthersStay, Inv, Shape, ThreadShape
<1>4. /\ following' = following \/ following' = [following EXCEPT ![u] = AsField(AsSet(@) \cup {w})]
      /\ Unchanged(u, t) => following' = [following EXCEPT ![u] = AsField(AsSet(@) \cup {w})]
  BY DEF FollowingPut
<1>5. following[u] \in (SUBSET Names) \cup {None}
  BY <1>2 DEF GraphInv, FieldsShape
<1>6. Unchanged(u, t) <=> ver[t] = userVer[u]
  BY DEF Unchanged
<1>7. Undisturbed /\ UsersFresh => Unchanged(u, t)
  BY <1>1, <1>6 DEF UsersFresh
<1>8. \A x, v : Between(t, x, v)' <=> x = u /\ v = w
  BY <1>3 DEF Between
<1>9. \A x, v : ~Between(t, x, v) /\ HasFollower(v, x)' = HasFollower(v, x)
  BY <1>1, <1>3 DEF Between, HasFollower, AsSet
<1>10. cmd'[t].user = u /\ cmd'[t].other = w
  BY <1>3
<1> HIDE DEF u, w
<1>11. AsField(AsSet(following[u]) \cup {w}) \in SUBSET Names
  BY <1>2, <1>5, FieldTypes
<1>12. FieldsShape'
  BY <1>2, <1>3, <1>4, <1>11 DEF FieldsShape, GraphInv, OnlyMoves
<1>13. ASSUME Undisturbed, UsersFresh
       PROVE  /\ w \in AsSet(following'[u])
              /\ \A x, v \in Users : \/ Follows(x, v)' <=> Follows(x, v)
                                     \/ x = u /\ v = w
  <2>1. following' = [following EXCEPT ![u] = AsField(AsSet(@) \cup {w})]
    BY <1>4, <1>7, <1>13
  <2>2. following'[u] = AsField(AsSet(following[u]) \cup {w})
    BY <2>1, <1>2 DEF GraphInv, FieldsShape
  <2>3. \A v \in Names : v \in AsSet(following'[u]) <=> v \in AsSet(following[u]) \/ v = w
    BY <2>2, <1>2, <1>5, FieldAdded
  <2>4. \A x \in Users : x = u \/ following'[x] = following[x]
    BY <2>1 DEF GraphInv, FieldsShape
  <2> QED
    BY <2>3, <2>4, <1>2, Constants DEF Follows, AsSet
<1> QED
  BY <1>3, <1>8, <1>9, <1>10, <1>12, <1>13, StepKeepsGraph

LEMMA FollowersPutKeepsGraph ==
    ASSUME Inv, GraphInv, NEW t \in Threads, FollowersPut(t)
    PROVE  GraphInv'
<1> USE DEF At, Goto, lineVars, queueVars, taskVars, countVars
<1> DEFINE u == cmd[t].user
           w == cmd[t].other
<1>1. pc[t] = "followersPut" /\ cmd[t] \in Commands
  BY DEF FollowersPut, Inv, OnCommand
<1>2. u \in Users /\ u \in Names
  BY <1>1, Constants DEF Commands
<1>3. /\ OnlyMoves(t) /\ pc'[t] = "lineGet" /\ cmd' = cmd
      /\ UNCHANGED following
  BY <1>1 DEF FollowersPut, OnlyMoves, OthersStay, Inv, Shape, ThreadShape
<1>4. /\ followers' = followers \/ followers' = [followers EXCEPT ![w] = AsField(AsSet(@) \cup {u})]
      /\ Unchanged(w, t) => followers' = [followers EXCEPT ![w] = AsField(AsSet(@) \cup {u})]
  BY DEF FollowersPut
<1>5. Undisturbed /\ UsersFresh => Unchanged(w, t) /\ w \in Users
  BY <1>1 DEF UsersFresh, Unchanged
<1>6. HalfDone => Follows(u, w)
  BY <1>1 DEF HalfDone
<1>7. \A x, v : Between(t, x, v) <=> x = u /\ v = w
  BY <1>1 DEF Between
<1>8. \A x, v : Follows(x, v)' <=> Follows(x, v)
  BY <1>3 DEF Follows, AsSet
<1> HIDE DEF u, w
<1>9. ASSUME w \in Users
      PROVE  /\ followers[w] \in (SUBSET Users) \cup {None}
             /\ followers[w] \in (SUBSET Names) \cup {None}
             /\ AsField(AsSet(followers[w]) \cup {u}) \in SUBSET Users
  BY <1>2, <1>9, FieldTypes, Constants DEF GraphInv, FieldsShape
<1>10. FieldsShape'
  BY <1>2, <1>3, <1>4, <1>9 DEF FieldsShape, GraphInv, OnlyMoves
<1>11. ASSUME Undisturbed, UsersFresh
       PROVE  /\ u \in AsSet(followers'[w])
              /\ \A x, v \in Users : \/ HasFollower(v, x)' <=> HasFollower(v, x)
                                     \/ x = u /\ v = w
  <2>1. followers' = [followers EXCEPT ![w] = AsField(AsSet(@) \cup {u})] /\ w \in Users
    BY <1>4, <1>5, <1>11
  <2>2. followers'[w] = AsField(AsSet(followers[w]) \cup {u})
    BY <2>1 DEF GraphInv, FieldsShape
  <2>3. \A x \in Names : x \in AsSet(followers'[w]) <=> x \in AsSet(followers[w]) \/ x = u
    BY <2>1, <2>2, <1>2, <1>9, FieldAdded
  <2>4. \A v \in Users : v = w \/ followers'[v] = followers[v]
    BY <2>1 DEF GraphInv, FieldsShape
  <2> QED
    BY <2>3, <2>4, <1>2, Constants DEF HasFollower, AsSet
<1>12. ASSUME Undisturbed, UsersFresh
       PROVE  \A x, v \in Users : x = u /\ v = w => HasFollower(v, x)'
  BY <1>11, <1>12 DEF HasFollower, AsSet
<1> QED
  BY <1>3, <1>6, <1>7, <1>8, <1>10, <1>11, <1>12, StepKeepsGraph

LEMMA StartKeepsGraph ==
    ASSUME Inv, GraphInv, NEW t \in Threads, RunStart(t)
    PROVE  GraphInv'
<1> USE DEF At, Goto, storeVars, userVars, lineVars, queueVars, taskVars, countVars
<1>1. CASE FollowingGet(t)
  <2>1. /\ pc[t] = "followingGet" /\ pc'[t] = "followingPut" /\ cmd' = cmd
        /\ OnlyMoves(t) /\ ver'[t] = userVer[cmd[t].user]
        /\ UNCHANGED <<following, followers, userVer>>
    BY <1>1 DEF FollowingGet, ReadUser, OnlyMoves, OthersStay, Inv, Shape, ThreadShape
  <2>2. FieldsShape'
    BY <2>1 DEF FieldsShape, GraphInv, OnlyMoves
  <2>3. \A u, v : /\ Follows(u, v)' = Follows(u, v) /\ HasFollower(v, u)' = HasFollower(v, u)
                  /\ ~Between(t, u, v)
    BY <2>1 DEF Follows, HasFollower, AsSet, Between
  <2> QED
    BY <2>1, <2>2, <2>3, StepKeepsGraph
<1>2. CASE FollowersGet(t) /\ cmd[t].other \in Users
  <2>1. /\ pc[t] = "followersGet" /\ pc'[t] = "followersPut" /\ cmd' = cmd
        /\ OnlyMoves(t) /\ ver'[t] = userVer[cmd[t].other]
        /\ UNCHANGED <<following, followers, userVer>>
    BY <1>2 DEF FollowersGet, ReadUser, OnlyMoves, OthersStay, Inv, Shape, ThreadShape
  <2>2. FieldsShape'
    BY <2>1 DEF FieldsShape, GraphInv, OnlyMoves
  <2>3. \A u, v : /\ Follows(u, v)' = Follows(u, v) /\ HasFollower(v, u)' = HasFollower(v, u)
                  /\ Between(t, u, v)' <=> Between(t, u, v)
    BY <2>1 DEF Follows, HasFollower, AsSet, Between
  <2>4. HalfDone => cmd[t].other \in AsSet(following[cmd[t].user])
    BY <2>1 DEF HalfDone, Follows
  <2> QED
    BY <2>1, <2>2, <2>3, <2>4, <1>2, StepKeepsGraph
<1>3. CASE FollowersGet(t) /\ cmd[t].other \notin Users
  <2>1. pc[t] = "followersGet" /\ pc'[t] = "lineGet" /\ OnlyMoves(t) /\ UNCHANGED <<following, followers>>
    BY <1>3 DEF FollowersGet, OnlyMoves, OthersStay, Inv, Shape, ThreadShape
  <2> QED
    BY <2>1, <1>3, AsideOfGraph DEF GraphPcs
<1>4. ASSUME LineGet(t) \/ RecentLast(t) \/ RecentRead(t) \/ LinePut(t)
      PROVE  GraphInv'
  <2>1. pc[t] \in {"lineGet", "recentLast", "recentRead", "linePut"}
    BY <1>4 DEF LineGet, RecentLast, RecentRead, LinePut
  <2>2. PICK p \in {"recentLast", "linePut", "recentRead", "return", "finish"} :
          /\ pc' = [pc EXCEPT ![t] = p]
          /\ UNCHANGED <<cmd, following, followers, queue, calm, crashes, faults>>
          /\ \A s \in Threads \ {t} : ver'[s] = ver[s] /\ idx'[s] = idx[s]
    BY <1>4 DEF LineGet, ReadLine, RecentLast, RecentRead, LinePut, AfterRun,
                Inv, Shape, ThreadShape
  <2>3. OnlyMoves(t) /\ pc'[t] = p
    BY <2>1, <2>2 DEF OnlyMoves, OthersStay, Inv, Shape, ThreadShape
  <2> QED
    BY <2>1, <2>2, <2>3, AsideOfGraph DEF GraphPcs
<1> QED
  BY <1>1, <1>2, <1>3, <1>4, FollowingPutKeepsGraph, FollowersPutKeepsGraph DEF RunStart

LEMMA UnfollowersPutKeepsGraph ==
    ASSUME Inv, GraphInv, NEW t \in Threads, UnfollowersPut(t)
    PROVE  GraphInv'
<1> USE DEF At, Goto, lineVars, queueVars, taskVars, countVars
<1> DEFINE u == cmd[t].user
           w == cmd[t].other
<1>1. pc[t] = "unfollowersPut" /\ cmd[t] \in Commands
  BY DEF UnfollowersPut, Inv, OnCommand
<1>2. u \in Users
  BY <1>1 DEF Commands
<1>3. /\ OnlyMoves(t) /\ pc'[t] = "unfollowingGet" /\ cmd' = cmd
      /\ UNCHANGED following
      /\ followers' = [followers EXCEPT ![w] = AsField(AsSet(@) \ {u})]
  BY <1>1 DEF UnfollowersPut, OnlyMoves, OthersStay, Inv, Shape, ThreadShape
<1>4. Undisturbed /\ UsersFresh => w \in Users
  BY <1>1 DEF UsersFresh
<1>5. \A x, v : /\ Follows(x, v)' <=> Follows(x, v)
                /\ ~Between(t, x, v)
                /\ Between(t, x, v)' <=> x = u /\ v = w
  BY <1>1, <1>3 DEF Follows, AsSet, Between
<1>6. cmd'[t].user = u /\ cmd'[t].other = w
  BY <1>3
<1> HIDE DEF u, w
<1>7. ASSUME w \in Users
      PROVE  /\ followers[w] \in (SUBSET Users) \cup {None}
             /\ followers[w] \in (SUBSET Names) \cup {None}
             /\ AsField(AsSet(followers[w]) \ {u}) \in SUBSET Users
  BY <1>7, FieldTypes, Constants DEF GraphInv, FieldsShape
<1>8. FieldsShape'
  BY <1>3, <1>7 DEF FieldsShape, GraphInv, OnlyMoves
<1>9. ASSUME w \in Users
      PROVE  /\ u \notin AsSet(followers'[w])
             /\ \A x, v \in Users : \/ HasFollower(v, x)' <=> HasFollower(v, x)
                                    \/ x = u /\ v = w
  <2>1. followers'[w] = AsField(AsSet(followers[w]) \ {u})
    BY <1>3, <1>9 DEF GraphInv, FieldsShape
  <2>2. \A x \in Users : x \in AsSet(followers'[w]) <=> x \in AsSet(followers[w]) /\ x # u
    BY <2>1, <1>7, <1>9, FieldRemoved
  <2>3. \A v \in Users : v = w \/ followers'[v] = followers[v]
    BY <1>3 DEF GraphInv, FieldsShape
  <2> QED
    BY <2>2, <2>3, <1>2 DEF HasFollower, AsSet
<1> QED
  BY <1>3, <1>4, <1>5, <1>6, <1>8, <1>9, StepKeepsGraph

LEMMA UnfollowingPutKeepsGraph ==
    ASSUME Inv, GraphInv, NEW t \in Threads, UnfollowingPut(t)
    PROVE  GraphInv'
<1> USE DEF At, Goto, lineVars, queueVars, taskVars, countVars
<1> DEFINE u == cmd[t].user
           w == cmd[t].other
<1>1. pc[t] = "unfollowingPut" /\ cmd[t] \in Commands
  BY DEF UnfollowingPut, Inv, OnCommand
<1>2. u \in Users
  BY <1>1 DEF Commands
<1>3. /\ OnlyMoves(t) /\ pc'[t] = "removeGet" /\ cmd' = cmd
      /\ UNCHANGED followers
      /\ following' = [following EXCEPT ![u] = AsField(AsSet(@) \ {w})]
  BY <1>1 DEF UnfollowingPut, OnlyMoves, OthersStay, Inv, Shape, ThreadShape
<1>4. HalfDone => w \in Users /\ ~HasFollower(w, u)
  BY <1>1 DEF HalfDone
<1>5. \A x, v : /\ HasFollower(v, x)' <=> HasFollower(v, x)
                /\ Between(t, x, v) <=> x = u /\ v = w
  BY <1>1, <1>3 DEF HasFollower, AsSet, Between
<1> HIDE DEF u, w
<1>6. /\ following[u] \in (SUBSET Names) \cup {None}
      /\ AsField(AsSet(following[u]) \ {w}) \in SUBSET Names
  BY <1>2, FieldTypes DEF GraphInv, FieldsShape
<1>7. FieldsShape'
  BY <1>3, <1>6 DEF FieldsShape, GraphInv, OnlyMoves
<1>8. \A x, v \in Users : Follows(x, v)' <=> Follows(x, v) /\ ~(x = u /\ v = w)
  <2>1. following'[u] = AsField(AsSet(following[u]) \ {w})
    BY <1>2, <1>3 DEF GraphInv, FieldsShape
  <2>2. \A v \in Users : v \in AsSet(following'[u]) <=> v \in AsSet(following[u]) /\ v # w
    BY <2>1, <1>6, FieldRemoved
  <2>3. \A x \in Users : x = u \/ following'[x] = following[x]
    BY <1>3 DEF GraphInv, FieldsShape
  <2> QED
    BY <2>2, <2>3 DEF Follows, AsSet
<1> QED
  BY <1>3, <1>4, <1>5, <1>7, <1>8, StepKeepsGraph

LEMMA StopKeepsGraph ==
    ASSUME Inv, GraphInv, NEW t \in Threads, RunStop(t)
    PROVE  GraphInv'
<1> USE DEF At, Goto, storeVars, userVars, lineVars, queueVars, taskVars, countVars
<1>1. CASE UnfollowersGet(t) /\ cmd[t].other \in Users
  <2>1. /\ pc[t] = "unfollowersGet" /\ pc'[t] = "unfollowersPut" /\ cmd' = cmd
        /\ OnlyMoves(t) /\ ver'[t] = userVer[cmd[t].other]
        /\ UNCHANGED <<following, followers, userVer>>
    BY <1>1 DEF UnfollowersGet, ReadUser, OnlyMoves, OthersStay, Inv, Shape, ThreadShape
  <2>2. FieldsShape'
    BY <2>1 DEF FieldsShape, GraphInv, OnlyMoves
  <2>3. \A u, v : /\ Follows(u, v)' = Follows(u, v) /\ HasFollower(v, u)' = HasFollower(v, u)
                  /\ ~Between(t, u, v)
    BY <2>1 DEF Follows, HasFollower, AsSet, Between
  <2> QED
    BY <2>1, <2>2, <2>3, <1>1, StepKeepsGraph
<1>2. CASE UnfollowersGet(t) /\ cmd[t].other \notin Users
  <2>1. pc[t] = "unfollowersGet" /\ pc'[t] = "idle" /\ OnlyMoves(t) /\ UNCHANGED <<following, followers>>
    BY <1>2 DEF UnfollowersGet, Leave, OnlyMoves, OthersStay, Inv, Shape, ThreadShape
  <2> QED
    BY <2>1, AsideOfGraph DEF GraphPcs
<1>3. CASE UnfollowingGet(t)
  <2>1. /\ pc[t] = "unfollowingGet" /\ pc'[t] = "unfollowingPut" /\ cmd' = cmd
        /\ OnlyMoves(t) /\ ver'[t] = userVer[cmd[t].user]
        /\ UNCHANGED <<following, followers, userVer>>
    BY <1>3 DEF UnfollowingGet, ReadUser, OnlyMoves, OthersStay, Inv, Shape, ThreadShape
  <2>2. FieldsShape'
    BY <2>1 DEF FieldsShape, GraphInv, OnlyMoves
  <2>3. \A u, v : /\ Follows(u, v)' = Follows(u, v) /\ HasFollower(v, u)' = HasFollower(v, u)
                  /\ Between(t, u, v)' <=> Between(t, u, v)
    BY <2>1 DEF Follows, HasFollower, AsSet, Between
  <2>4. HalfDone => cmd[t].other \in Users /\ cmd[t].user \notin AsSet(followers[cmd[t].other])
    BY <2>1 DEF HalfDone, HasFollower
  <2> QED
    BY <2>1, <2>2, <2>3, <2>4, StepKeepsGraph
<1>4. ASSUME RemoveGet(t) \/ RemovePut(t) \/ StopObsolete(t)
      PROVE  GraphInv'
  <2>1. /\ pc[t] \in {"unfollowersPut", "unfollowingPut", "removeGet", "removePut"}
        /\ cmd[t] \in Commands /\ cmd[t].op # "tweet"
    BY <1>4 DEF RemoveGet, RemovePut, StopObsolete, Inv, OnCommand, FollowPcs, RunPcs, Pcs, TweetPcs
  <2>2. StartOf(cmd[t].op) \in {"followingGet", "unfollowersGet"}
    BY <2>1 DEF Commands, StartOf
  <2>3. PICK p \in {"removePut", "return", "finish", "followingGet", "unfollowersGet"} :
          /\ pc' = [pc EXCEPT ![t] = p]
          /\ UNCHANGED <<cmd, idx, following, followers, queue, calm, crashes, faults>>
          /\ \A s \in Threads \ {t} : ver'[s] = ver[s]
    BY <1>4, <2>2 DEF RemoveGet, ReadLine, RemovePut, StopObsolete, Again, AfterRun,
                Inv, Shape, ThreadShape
  <2>4. OnlyMoves(t) /\ pc'[t] = p
    BY <2>1, <2>3 DEF OnlyMoves, OthersStay, Inv, Shape, ThreadShape
  <2>5. UsersFresh => pc[t] # "unfollowingPut"
    BY <1>4 DEF RemoveGet, RemovePut, StopObsolete, UsersFresh, Unchanged
  <2> QED
    BY <2>1, <2>3, <2>4, <2>5, AsideOfGraph DEF GraphPcs
<1> QED
  BY <1>1, <1>2, <1>3, <1>4, UnfollowersPutKeepsGraph, UnfollowingPutKeepsGraph DEF RunStop

-----------------------------------------------------------------------------
(* Calls, workers and failures.                                                 *)

LEMMA CallerKeepsGraph ==
    ASSUME Inv, GraphInv, NEW c \in Callers, CallerStep(c) \/ AddFails(c)
    PROVE  GraphInv'
<1> USE DEF At, Goto, storeVars, userVars, lineVars, queueVars, taskVars, countVars
<1>1. c \in Threads
  BY Constants
<1>2. CASE RunTweet(c)
  BY <1>1, <1>2, TweetKeepsGraph
<1>3. CASE AddFails(c)
  <2>1. /\ faults' = faults + 1 /\ faults' # 0 /\ faults' \in Nat
        /\ UNCHANGED <<following, followers, calm, crashes>>
    BY <1>3 DEF AddFails, Fault, GraphInv, FieldsShape
  <2> QED
    BY <2>1 DEF GraphInv, FieldsShape, Undisturbed
<1>4. ASSUME ReserveGet(c) \/ ReservePut(c) \/ ReserveObsolete(c) \/ AddTweet(c) \/ Return(c)
      PROVE  GraphInv'
  <2>1. pc[c] \in {"resGet", "resPut", "add", "return"}
    BY <1>4 DEF ReserveGet, ReservePut, ReserveObsolete, AddTweet, Return
  <2>2. /\ UNCHANGED <<following, followers, queue, calm, crashes, faults>>
        /\ pc'[c] \in {"resPut", "add", "resGet", "idle", "store"}
        /\ OthersStay(c)
    BY <1>1, <1>4 DEF ReserveGet, ReservePut, ReserveObsolete, AddTweet, Return, Leave,
                      OthersStay, Inv, Shape, ThreadShape
  <2>3. OnlyMoves(c)
    BY <2>1, <2>2 DEF OnlyMoves
  <2> QED
    BY <1>1, <2>1, <2>2, <2>3, AsideOfGraph DEF GraphPcs
<1> QED
  BY <1>2, <1>3, <1>4 DEF CallerStep

\* Nobody is between two puts when all threads are idle.
LEMMA IdleAgrees ==
    ASSUME Inv, \A t \in Threads : pc[t] = "idle"
    PROVE  SidesAgree <=> \A u, v \in Users : Follows(u, v) <=> HasFollower(v, u)
BY DEF SidesAgree, Between

\* A call, or a command that is taken: one thread or one command where there was none.
LEMMA BeginsAlone ==
    ASSUME Inv, GraphInv, FieldsShape', UNCHANGED <<following, followers>>,
           Undisturbed' =>
             /\ Undisturbed /\ OneByOne'
             /\ \A t \in Threads : pc[t] = "idle" /\ pc'[t] \notin GraphPcs
    PROVE  GraphInv'
<1> SUFFICES ASSUME Undisturbed' PROVE OneByOne' /\ UsersFresh' /\ HalfDone' /\ SidesAgree'
  BY DEF GraphInv
<1>1. \A u, v \in Users : Follows(u, v) <=> HasFollower(v, u)
  BY IdleAgrees DEF GraphInv
<1>2. SidesAgree'
  BY <1>1 DEF SidesAgree, Follows, HasFollower, AsSet
<1>3. UsersFresh' /\ HalfDone'
  BY DEF UsersFresh, HalfDone, GraphPcs
<1> QED
  BY <1>2, <1>3

LEMMA CallKeepsGraph ==
    ASSUME Inv, GraphInv, Call
    PROVE  GraphInv'
<1> USE DEF At, Goto, storeVars, userVars, lineVars, queueVars, taskVars, countVars
<1>1. ASSUME NEW c \in Callers, NEW u \in Users, BeginTweet(c, u)
      PROVE  GraphInv'
  <2>1. /\ calm' = (calm /\ Quiet) /\ pc' = [pc EXCEPT ![c] = "resGet"]
        /\ UNCHANGED <<following, followers, queue, crashes, faults>>
    BY <1>1 DEF BeginTweet, Called
  <2>2. FieldsShape'
    BY <2>1 DEF FieldsShape, GraphInv
  <2>3. Undisturbed' => Undisturbed /\ Quiet
    BY <2>1, <2>2 DEF Undisturbed, FieldsShape
  <2>4. c \in Threads /\ pc'[c] = "resGet" /\ \A t \in Threads \ {c} : pc'[t] = pc[t]
    BY <2>1, Constants DEF Inv, Shape, ThreadShape
  <2>5. Quiet => OneByOne'
    BY <2>1, <2>4 DEF Quiet, OneByOne
  <2>6. Quiet => \A t \in Threads : pc[t] = "idle" /\ pc'[t] \notin GraphPcs
    BY <2>4 DEF Quiet, GraphPcs
  <2> QED
    BY <2>1, <2>2, <2>3, <2>5, <2>6, BeginsAlone
<1>2. ASSUME NEW op \in {"start", "stop"}, NEW u \in Users, NEW v \in Names, SubmitFollow(op, u, v)
      PROVE  GraphInv'
  <2> DEFINE c == [op |-> op, user |-> u, other |-> v, idx |-> 0, n |-> followCmds + 1]
  <2>1. /\ calm' = (calm /\ Quiet /\ u # v) /\ pc' = pc /\ queue' = Append(queue, c)
        /\ UNCHANGED <<following, followers, crashes, faults>>
    BY <1>2 DEF SubmitFollow, Called
  <2>2. FieldsShape'
    BY <2>1 DEF FieldsShape, GraphInv
  <2>3. Undisturbed' => Undisturbed /\ Quiet
    BY <2>1, <2>2 DEF Undisturbed, FieldsShape
  <2> HIDE DEF c
  <2>4. Quiet => Len(queue') = 1
    BY <2>1 DEF Quiet
  <2>5. Quiet => OneByOne'
    BY <2>1, <2>4 DEF Quiet, OneByOne
  <2>6. Quiet => \A t \in Threads : pc[t] = "idle" /\ pc'[t] \notin GraphPcs
    BY <2>1 DEF Quiet, GraphPcs
  <2> QED
    BY <2>1, <2>2, <2>3, <2>5, <2>6, BeginsAlone
<1> QED
  BY <1>1, <1>2 DEF Call

LEMMA WorkerKeepsGraph ==
    ASSUME Inv, GraphInv, NEW w \in Workers, WorkerStep(w)
    PROVE  GraphInv'
<1> USE DEF At, Goto, storeVars, userVars, lineVars, queueVars, taskVars, countVars
<1>1. w \in Threads
  BY Constants
<1>2. CASE Take(w)
  <2>1. /\ queue \in Seq(Commands) /\ queue # <<>> /\ queue' = Tail(queue)
        /\ pc' = [pc EXCEPT ![w] = StartOf(Head(queue).op)]
        /\ UNCHANGED <<following, followers, calm, crashes, faults>>
    BY <1>2 DEF Take, Inv, Shape, QueueShape
  <2>2. StartOf(Head(queue).op) \in {"store", "followingGet", "unfollowersGet"}
    <3>1. Head(queue) \in Commands
      BY <2>1
    <3> QED
      BY <3>1 DEF Commands, StartOf
  <2>3. pc'[w] \in {"store", "followingGet", "unfollowersGet"} /\ \A t \in Threads \ {w} : pc'[t] = pc[t]
    BY <1>1, <2>1, <2>2 DEF Inv, Shape, ThreadShape
  <2>4. FieldsShape'
    BY <2>1 DEF FieldsShape, GraphInv
  <2>5. Undisturbed' => Undisturbed
    BY <2>1 DEF Undisturbed
  <2>6. Undisturbed => Len(queue) = 1 /\ \A t \in Threads : pc[t] = "idle"
    BY <2>1 DEF GraphInv, OneByOne
  <2>7. Len(queue) = 1 => queue' = <<>>
    BY <2>1
  <2>8. Undisturbed => OneByOne'
    BY <2>3, <2>6, <2>7 DEF OneByOne
  <2>9. Undisturbed => \A t \in Threads : pc[t] = "idle" /\ pc'[t] \notin GraphPcs
    BY <2>3, <2>6 DEF GraphPcs
  <2> QED
    BY <2>1, <2>4, <2>5, <2>8, <2>9, BeginsAlone
<1>3. CASE Finish(w)
  <2>1. /\ pc[w] = "finish" /\ pc'[w] = "idle" /\ OthersStay(w)
        /\ UNCHANGED <<following, followers, queue, calm, crashes, faults>>
    BY <1>1, <1>3 DEF Finish, Leave, OthersStay, Inv, Shape, ThreadShape
  <2>2. OnlyMoves(w)
    BY <2>1 DEF OnlyMoves
  <2> QED
    BY <1>1, <2>1, <2>2, AsideOfGraph DEF GraphPcs
<1> QED
  BY <1>1, <1>2, <1>3, TweetKeepsGraph, StartKeepsGraph, StopKeepsGraph DEF WorkerStep

\* What no thread does: deliveries, and what happens to the process.
LEMMA RestKeepsGraph ==
    ASSUME Inv, GraphInv,
           \/ \E k \in tasks : DeliveryStep(k) \/ DeliveryAborts(k)
           \/ \E t \in Threads : Abort(t)
           \/ Crash
           \/ \E c \in records : Requeue(c)
           \/ UNCHANGED vars
    PROVE  GraphInv'
<1> USE DEF storeVars, userVars, lineVars, queueVars, taskVars, countVars
<1>1. ASSUME UNCHANGED <<following, followers, userVer, queue, pc, cmd, ver, calm, crashes, faults>>
      PROVE  GraphInv'
  <2>1. FieldsShape' /\ (Undisturbed' => Undisturbed)
    BY <1>1 DEF FieldsShape, GraphInv, Undisturbed
  <2>2. OneByOne => OneByOne'
    BY <1>1 DEF OneByOne
  <2>3. UsersFresh => UsersFresh'
    BY <1>1 DEF UsersFresh
  <2>4. \A u, v : Follows(u, v)' = Follows(u, v) /\ HasFollower(v, u)' = HasFollower(v, u)
    BY <1>1 DEF Follows, HasFollower, AsSet
  <2>5. HalfDone => HalfDone'
    BY <1>1 DEF HalfDone, Follows, HasFollower, AsSet
  <2>6. SidesAgree => SidesAgree'
    BY <1>1, <2>4 DEF SidesAgree, Between
  <2> QED
    BY <2>1, <2>2, <2>3, <2>5, <2>6 DEF GraphInv
<1>2. ASSUME UNCHANGED <<following, followers, calm>>, crashes' \in Nat, faults' \in Nat,
             crashes' # 0 \/ faults' # 0
      PROVE  GraphInv'
  BY <1>2 DEF GraphInv, FieldsShape, Undisturbed
<1>3. CASE \E k \in tasks : DeliveryStep(k)
  BY <1>1, <1>3 DEF DeliveryStep, DeliverGet, DeliverPut, DeliverObsolete
<1>4. CASE (\E k \in tasks : DeliveryAborts(k)) \/ \E t \in Threads : Abort(t)
  <2>1. faults' = faults + 1 /\ UNCHANGED <<following, followers, calm, crashes>>
    BY <1>4 DEF DeliveryAborts, Abort, Fault
  <2> QED
    BY <2>1, <1>2 DEF GraphInv, FieldsShape
<1>5. CASE Crash
  <2>1. crashes' = crashes + 1 /\ UNCHANGED <<following, followers, calm, faults>>
    BY <1>5 DEF Crash
  <2> QED
    BY <2>1, <1>2 DEF GraphInv, FieldsShape
<1>6. CASE \E c \in records : Requeue(c)
  <2>1. crashes > 0 /\ UNCHANGED <<following, followers, calm, crashes, faults>>
    BY <1>6 DEF Requeue
  <2> QED
    BY <2>1, <1>2 DEF GraphInv, FieldsShape
<1>7. CASE UNCHANGED vars
  BY <1>1, <1>7 DEF vars
<1> QED
  BY <1>3, <1>4, <1>5, <1>6, <1>7

LEMMA GraphInit == Init => GraphInv
<1> SUFFICES ASSUME Init PROVE GraphInv
  OBVIOUS
<1>1. FieldsShape
  BY Constants DEF Init, FieldsShape
<1>2. /\ \A t \in Threads : pc[t] = "idle"
      /\ queue = <<>>
  BY DEF Init
<1>3. OneByOne /\ UsersFresh /\ HalfDone
  BY <1>2 DEF OneByOne, UsersFresh, HalfDone
<1>4. ASSUME NEW u \in Users, NEW v \in Users
      PROVE  Follows(u, v) <=> HasFollower(v, u)
  <2> DEFINE vs == {x \in Users : <<u, x>> \in InitialFollows}
             us == {x \in Users : <<x, v>> \in InitialFollows}
  <2>1. following[u] = (IF vs = {} THEN None ELSE vs) /\ followers[v] = (IF us = {} THEN None ELSE us)
    BY DEF Init
  <2>2. vs \in SUBSET Names /\ us \in SUBSET Names /\ (v \in vs <=> u \in us)
    BY Constants
  <2>3. vs # None /\ us # None
    BY <2>2, NamesAreNotNone
  <2> HIDE DEF vs, us
  <2>4. AsSet(following[u]) = vs /\ AsSet(followers[v]) = us
    BY <2>1, <2>3 DEF AsSet
  <2> QED
    BY <2>2, <2>4 DEF Follows, HasFollower
<1> QED
  BY <1>1, <1>3, <1>4 DEF GraphInv, SidesAgree

LEMMA GraphNext == Inv /\ GraphInv /\ [Next]_vars => GraphInv'
<1> SUFFICES ASSUME Inv, GraphInv, [Next]_vars PROVE GraphInv'
  OBVIOUS
<1> QED
  BY CallKeepsGraph, CallerKeepsGraph, WorkerKeepsGraph, RestKeepsGraph DEF Next

\* As long as calls are made one at a time and nothing fails, u follows v exactly if v has
\* the follower u, whatever the graph, the accounts and the number of commands: each of
\* the commands changes both sides (StartFollowingCommand, StopFollowingCommand).
THEOREM SidesOfFollowing == Spec => []FollowsAgree
<1>1. Inv /\ GraphInv => FollowsAgree
  <2> SUFFICES ASSUME Inv, GraphInv, Undisturbed, Quiet
               PROVE  \A u, v \in Users : Follows(u, v) <=> HasFollower(v, u)
    BY DEF FollowsAgree, FollowSymmetric
  <2> QED
    BY IdleAgrees DEF GraphInv, Quiet
<1> QED
  BY <1>1, Invariance, GraphInit, GraphNext, PTL DEF Spec
-----------------------------------------------------------------------------
(* That a tweet is shown once, while nobody starts or stops to follow.           *)

\* Callers only tweet, and nobody is his own follower.
OnlyTweeting == Ops = {"tweet"} /\ \A u \in Users : <<u, u>> \notin InitialFollows

-----------------------------------------------------------------------------
(* The inductive invariant: who may still put a tweet into a timeline.  The      *)
(* author's timeline is left to the thread that has stored the tweet, and every  *)
(* other one to a delivery that this thread has made.                            *)

\* The thread has stored its tweet and not put it into the author's timeline yet.
Spreads(t) == pc[t] \in {"fan", "ownGet", "ownPut"}

AllTweets == /\ \A c \in records \cup ToSet(queue) : c.op = "tweet"
             /\ \A t \in Threads : pc[t] # "idle" => cmd[t].op = "tweet"

\* Those a tweet is delivered to are not its author.
OthersFollow ==
    \A u \in Users : AsSet(followers[u]) \subseteq Readers /\ u \notin AsSet(followers[u])

LinesShape == timeline \in [Readers -> Seq(Entries)]

\* Of the threads with one command, run again after a crash, one spreads its tweet.
OneSpreads ==
    \A s, t \in Threads : Spreads(s) /\ Spreads(t) /\ Entry(cmd[s]) = Entry(cmd[t]) => s = t

\* Before the followers are read a tweet is nowhere.
FreshBeforeFan ==
    \A t \in Threads : pc[t] = "fan" =>
        /\ \A u \in Readers : Entry(cmd[t]) \notin ToSet(timeline[u])
        /\ \A k \in tasks : k.tweet # Entry(cmd[t])

OwnMissing ==
    \A t \in Threads : Spreads(t) => Entry(cmd[t]) \notin ToSet(timeline[cmd[t].user])

\* A delivery is the only one of its tweet to its reader, and has still to be done.
TasksRight ==
    \A k \in tasks :
        /\ k.tweet \in Entries /\ k.to \in Readers /\ k.to # k.tweet.author
        /\ k.tweet \notin ToSet(timeline[k.to])
        /\ \A l \in tasks : l.tweet = k.tweet /\ l.to = k.to => l = k

OnceInv == /\ OnlyTweeting /\ AllTweets /\ OthersFollow /\ LinesShape
           /\ EntriesExist /\ OneSpreads /\ FreshBeforeFan /\ OwnMissing /\ TasksRight
           /\ ShownOnce

-----------------------------------------------------------------------------
(* The steps that matter are few: a tweet is stored, its followers are read, or  *)
(* it is put into a timeline.  No other step brings a thread or a delivery       *)
(* closer to a timeline.                                                         *)

Harmless ==
    /\ UNCHANGED <<tweets, timeline, followers>>
    /\ tasks' \subseteq tasks
    /\ \A t \in Threads : pc'[t] \in {"fan", "ownGet", "ownPut"} =>
           /\ cmd'[t] = cmd[t] /\ pc[t] \in {"fan", "ownGet", "ownPut"}
           /\ pc'[t] = "fan" => pc[t] = "fan"

StoresUnchanged == UNCHANGED <<tweets, timeline, followers>>

LEMMA MoveIsHarmless ==
    ASSUME Inv, NEW t \in Threads, NEW p, pc' = [pc EXCEPT ![t] = p],
           p \notin {"fan", "ownGet", "ownPut"} \/ (p = "ownPut" /\ pc[t] = "ownGet" /\ cmd' = cmd),
           \A s \in Threads \ {t} : cmd'[s] = cmd[s],
           StoresUnchanged, tasks' \subseteq tasks
    PROVE  Harmless
<1>1. \A s \in Threads : pc'[s] = IF s = t THEN p ELSE pc[s]
  BY DEF Inv, Shape, ThreadShape
<1> QED
  BY <1>1 DEF Harmless, StoresUnchanged

LEMMA LeaveIsHarmless ==
    ASSUME Inv, NEW t \in Threads, Leave(t), StoresUnchanged, tasks' \subseteq tasks
    PROVE  Harmless
<1>1. pc' = [pc EXCEPT ![t] = "idle"] /\ \A s \in Threads \ {t} : cmd'[s] = cmd[s]
  BY DEF Leave, Goto, Inv, Shape, ThreadShape
<1> QED
  BY <1>1, MoveIsHarmless

Spreading(t) == StoreTweet(t) \/ FanOut(t) \/ OwnPut(t)

LEMMA TweetStep ==
    ASSUME Inv, AllTweets, NEW t \in Threads, RunTweet(t)
    PROVE  Spreading(t) \/ Harmless
<1> USE DEF At, Goto, storeVars, userVars, lineVars, queueVars, taskVars, countVars, StoresUnchanged
<1>1. pc[t] \in TweetPcs
  BY DEF RunTweet, StoreTweet, StoreObsolete, FanOut, OwnGet, OwnPut, OwnObsolete, Await, TweetPcs
<1>2. cmd[t].op = "tweet"
  BY <1>1 DEF AllTweets, TweetPcs
<1>3. CASE StoreObsolete(t) \/ OwnObsolete(t)
  <2>1. PICK p \in {StartOf(cmd[t].op), AfterRun(t)} : pc' = [pc EXCEPT ![t] = p]
    BY <1>3 DEF StoreObsolete, OwnObsolete, Again
  <2>2. p \in {"store", "return", "finish"}
    BY <1>2, <2>1 DEF StartOf, AfterRun
  <2>3. cmd' = cmd /\ StoresUnchanged /\ tasks' = tasks
    BY <1>3 DEF StoreObsolete, OwnObsolete, Again
  <2> QED
    BY <2>1, <2>2, <2>3, MoveIsHarmless
<1>4. CASE OwnGet(t)
  <2>1. pc[t] = "ownGet" /\ pc' = [pc EXCEPT ![t] = "ownPut"] /\ cmd' = cmd /\ StoresUnchanged /\ tasks' = tasks
    BY <1>4 DEF OwnGet, ReadLine
  <2> QED
    BY <2>1, MoveIsHarmless
<1>5. CASE Await(t)
  <2>1. pc' = [pc EXCEPT ![t] = AfterRun(t)] /\ cmd' = cmd /\ StoresUnchanged /\ tasks' = tasks
    BY <1>5 DEF Await
  <2>2. AfterRun(t) \in {"return", "finish"}
    BY DEF AfterRun
  <2> QED
    BY <2>1, <2>2, MoveIsHarmless
<1> QED
  BY <1>3, <1>4, <1>5 DEF RunTweet, Spreading

\* Nobody is at a place of a follow command.
LEMMA NoFollowing ==
    ASSUME Inv, AllTweets, NEW t \in Threads
    PROVE  ~RunStart(t) /\ ~RunStop(t)
<1>1. pc[t] \notin FollowPcs
  BY DEF AllTweets, Inv, OnCommand, FollowPcs, RunPcs, Pcs
<1> QED
  BY <1>1 DEF RunStart, FollowingGet, FollowingPut, FollowersGet, FollowersPut, LineGet, RecentLast,
              RecentRead, LinePut, RunStop, UnfollowersGet, UnfollowersPut, UnfollowingGet,
              UnfollowingPut, RemoveGet, RemovePut, StopObsolete, At, FollowPcs, RunPcs, Pcs, TweetPcs

LEMMA CallerSteps ==
    ASSUME Inv, AllTweets, NEW c \in Callers, CallerStep(c) \/ AddFails(c)
    PROVE  Spreading(c) \/ Harmless
<1> USE DEF At, Goto, storeVars, userVars, lineVars, queueVars, taskVars, countVars, StoresUnchanged
<1>1. c \in Threads
  BY Constants
<1>2. CASE ReserveGet(c)
  <2>1. pc' = [pc EXCEPT ![c] = "resPut"] /\ cmd' = cmd /\ StoresUnchanged /\ tasks' = tasks
    BY <1>2 DEF ReserveGet
  <2> QED
    BY <1>1, <2>1, MoveIsHarmless
<1>3. CASE ReservePut(c)
  <2>1. /\ pc' = [pc EXCEPT ![c] = "add"] /\ StoresUnchanged /\ tasks' = tasks
        /\ cmd' = [cmd EXCEPT ![c].idx = idx[c]]
    BY <1>3 DEF ReservePut
  <2>2. \A s \in Threads \ {c} : cmd'[s] = cmd[s]
    BY <2>1 DEF Inv, Shape, ThreadShape
  <2> QED
    BY <1>1, <2>1, <2>2, MoveIsHarmless
<1>4. CASE ReserveObsolete(c)
  <2>1. StoresUnchanged /\ tasks' = tasks
    BY <1>4 DEF ReserveObsolete
  <2>2. CASE Leave(c)
    BY <1>1, <2>1, <2>2, LeaveIsHarmless
  <2>3. CASE pc' = [pc EXCEPT ![c] = "resGet"] /\ cmd' = cmd
    BY <1>1, <2>1, <2>3, MoveIsHarmless
  <2> QED
    BY <1>4, <2>2, <2>3 DEF ReserveObsolete
<1>5. CASE AddTweet(c)
  <2>1. pc' = [pc EXCEPT ![c] = "store"] /\ cmd' = cmd /\ StoresUnchanged /\ tasks' = tasks
    BY <1>5 DEF AddTweet
  <2> QED
    BY <1>1, <2>1, MoveIsHarmless
<1>6. CASE Return(c) \/ AddFails(c)
  <2>1. Leave(c) /\ StoresUnchanged /\ tasks' = tasks
    BY <1>6 DEF Return, AddFails
  <2> QED
    BY <1>1, <2>1, LeaveIsHarmless
<1> QED
  BY <1>1, <1>2, <1>3, <1>4, <1>5, <1>6, TweetStep DEF CallerStep

LEMMA WorkerSteps ==
    ASSUME Inv, AllTweets, NEW w \in Workers, WorkerStep(w)
    PROVE  Spreading(w) \/ Harmless
<1> USE DEF At, Goto, storeVars, userVars, lineVars, queueVars, taskVars, countVars, StoresUnchanged
<1>1. w \in Threads
  BY Constants
<1>2. CASE Take(w)
  <2>1. queue \in Seq(Commands) /\ queue # <<>>
    BY <1>2 DEF Take, Inv, Shape, QueueShape
  <2>2. Head(queue) \in ToSet(queue)
    BY <2>1, QueueContents
  <2>3. Head(queue).op = "tweet"
    BY <2>2 DEF AllTweets
  <2>4. pc' = [pc EXCEPT ![w] = "store"] /\ StoresUnchanged /\ tasks' = tasks
    BY <1>2, <2>3 DEF Take, StartOf
  <2>5. \A s \in Threads \ {w} : cmd'[s] = cmd[s]
    BY <1>2 DEF Take, Inv, Shape, ThreadShape
  <2> QED
    BY <1>1, <2>4, <2>5, MoveIsHarmless
<1>3. CASE Finish(w)
  <2>1. Leave(w) /\ StoresUnchanged /\ tasks' = tasks
    BY <1>3 DEF Finish
  <2> QED
    BY <1>1, <2>1, LeaveIsHarmless
<1> QED
  BY <1>1, <1>2, <1>3, TweetStep, NoFollowing DEF WorkerStep

LEMMA Steps ==
    ASSUME Inv, AllTweets, OnlyTweeting, [Next]_vars
    PROVE  \/ Harmless
           \/ \E t \in Threads : Spreading(t)
           \/ \E k \in tasks : DeliverGet(k) \/ DeliverPut(k)
<1> USE DEF At, Goto, storeVars, userVars, lineVars, queueVars, taskVars, countVars, StoresUnchanged
<1>1. CASE Call
  <2>1. CASE \E c \in Callers, u \in Users : BeginTweet(c, u)
    <3>1. PICK c \in Callers, u \in Users : BeginTweet(c, u)
      BY <2>1
    <3>2. /\ pc' = [pc EXCEPT ![c] = "resGet"] /\ StoresUnchanged /\ tasks' = tasks
          /\ c \in Threads
      BY <3>1, Constants DEF BeginTweet
    <3>3. \A s \in Threads \ {c} : cmd'[s] = cmd[s]
      BY <3>1 DEF BeginTweet, Inv, Shape, ThreadShape
    <3> QED
      BY <3>2, <3>3, MoveIsHarmless
  <2>2. CASE \E op \in {"start", "stop"}, u \in Users, v \in Names : SubmitFollow(op, u, v)
    BY <2>2 DEF SubmitFollow, OnlyTweeting
  <2> QED
    BY <1>1, <2>1, <2>2 DEF Call
<1>2. CASE \E c \in Callers : CallerStep(c) \/ AddFails(c)
  BY <1>2, CallerSteps, Constants
<1>3. CASE \E w \in Workers : WorkerStep(w)
  BY <1>3, WorkerSteps, Constants
<1>4. CASE \E k \in tasks : DeliveryStep(k) \/ DeliveryAborts(k)
  <2>1. PICK k \in tasks : DeliveryStep(k) \/ DeliveryAborts(k)
    BY <1>4
  <2>2. CASE DeliverObsolete(k) \/ DeliveryAborts(k)
    BY <2>2 DEF DeliverObsolete, DeliveryAborts, Harmless
  <2> QED
    BY <2>1, <2>2 DEF DeliveryStep
<1>5. CASE \E t \in Threads : Abort(t)
  <2>1. PICK t \in Threads : Leave(t) /\ StoresUnchanged /\ tasks' = tasks
    BY <1>5 DEF Abort
  <2> QED
    BY <2>1, LeaveIsHarmless
<1>6. CASE Crash
  BY <1>6 DEF Crash, Harmless
<1>7. CASE \E c \in records : Requeue(c)
  BY <1>7 DEF Requeue, Harmless
<1>8. CASE UNCHANGED vars
  BY <1>8 DEF vars, Harmless
<1> QED
  BY <1>1, <1>2, <1>3, <1>4, <1>5, <1>6, <1>7, <1>8 DEF Next

-----------------------------------------------------------------------------
(* No follow command comes in.                                                  *)

\* What a step does to commands: a thread keeps its own or takes a tweet, and what is
\* stored or queued was there before.
LEMMA CommandsKept ==
    ASSUME AllTweets,
           \A c \in records' \cup ToSet(queue)' :
               c.op = "tweet" \/ c \in records \cup ToSet(queue),
           \A t \in Threads : pc'[t] # "idle" => cmd'[t].op = "tweet"
    PROVE  AllTweets'
BY DEF AllTweets

LEMMA LeaveKeepsTweets ==
    ASSUME Inv, AllTweets, NEW t \in Threads, Leave(t)
    PROVE  \A s \in Threads : pc'[s] # "idle" => cmd'[s].op = "tweet"
<1>1. \A s \in Threads : /\ s = t => pc'[s] = "idle"
                         /\ s # t => pc'[s] = pc[s] /\ cmd'[s] = cmd[s]
  BY DEF Leave, Goto, Inv, Shape, ThreadShape
<1> QED
  BY <1>1 DEF AllTweets

LEMMA KeepsTweets ==
    ASSUME Inv, AllTweets, NEW t \in Threads, NEW p, pc[t] # "idle",
           pc' = [pc EXCEPT ![t] = p], cmd' = cmd
    PROVE  \A s \in Threads : pc'[s] # "idle" => cmd'[s].op = "tweet"
BY DEF AllTweets, Inv, Shape, ThreadShape

LEMMA RunTweetCommands ==
    ASSUME Inv, AllTweets, NEW t \in Threads, RunTweet(t)
    PROVE  AllTweets'
<1> USE DEF At, Goto, queueVars
<1>1. pc[t] # "idle" /\ cmd' = cmd /\ records' = records /\ queue' = queue
  BY DEF RunTweet, StoreTweet, StoreObsolete, FanOut, OwnGet, OwnPut, OwnObsolete, Await, Again, ReadLine
<1>2. PICK p : pc' = [pc EXCEPT ![t] = p]
  BY DEF RunTweet, StoreTweet, StoreObsolete, FanOut, OwnGet, OwnPut, OwnObsolete, Await, Again, ReadLine
<1>3. \A s \in Threads : pc'[s] # "idle" => cmd'[s].op = "tweet"
  BY <1>1, <1>2, KeepsTweets
<1>4. ToSet(queue)' = ToSet(queue)
  BY <1>1 DEF ToSet
<1> QED
  BY <1>1, <1>3, <1>4, CommandsKept

LEMMA CallerCommands ==
    ASSUME Inv, AllTweets, NEW c \in Callers, CallerStep(c) \/ AddFails(c)
    PROVE  AllTweets'
<1> USE DEF At, Goto, queueVars
<1>1. c \in Threads
  BY Constants
<1>2. CASE ReserveGet(c) \/ AddTweet(c)
  <2>1. /\ pc[c] # "idle" /\ cmd' = cmd /\ queue' = queue
        /\ records' \subseteq records \cup {cmd[c]}
    BY <1>2 DEF ReserveGet, AddTweet
  <2>2. PICK p : pc' = [pc EXCEPT ![c] = p]
    BY <1>2 DEF ReserveGet, AddTweet
  <2>3. \A s \in Threads : pc'[s] # "idle" => cmd'[s].op = "tweet"
    BY <1>1, <2>1, <2>2, KeepsTweets
  <2>4. ToSet(queue)' = ToSet(queue) /\ cmd[c].op = "tweet"
    BY <1>1, <2>1 DEF ToSet, AllTweets
  <2> QED
    BY <2>1, <2>3, <2>4, CommandsKept
<1>3. CASE ReservePut(c)
  <2>1. /\ pc[c] = "resPut" /\ pc' = [pc EXCEPT ![c] = "add"]
        /\ cmd' = [cmd EXCEPT ![c].idx = idx[c]] /\ records' = records /\ queue' = queue
    BY <1>3 DEF ReservePut
  <2>2. cmd[c] \in Commands /\ cmd[c].op = "tweet"
    BY <1>1, <2>1 DEF AllTweets, Inv, OnCommand
  <2>3. [cmd[c] EXCEPT !.idx = idx[c]].op = "tweet"
    BY <2>2 DEF Commands
  <2>4. \A s \in Threads : /\ s = c => cmd'[s] = [cmd[c] EXCEPT !.idx = idx[c]]
                           /\ s # c => pc'[s] = pc[s] /\ cmd'[s] = cmd[s]
    BY <2>1 DEF Inv, Shape, ThreadShape
  <2>5. \A s \in Threads : pc'[s] # "idle" => cmd'[s].op = "tweet"
    BY <2>3, <2>4 DEF AllTweets
  <2>6. ToSet(queue)' = ToSet(queue)
    BY <2>1 DEF ToSet
  <2> QED
    BY <2>1, <2>5, <2>6, CommandsKept
<1>4. CASE ReserveObsolete(c)
  <2>1. pc[c] = "resPut" /\ records' = records /\ queue' = queue
    BY <1>4 DEF ReserveObsolete
  <2>2. \A s \in Threads : pc'[s] # "idle" => cmd'[s].op = "tweet"
    <3>1. CASE Leave(c)
      BY <1>1, <3>1, LeaveKeepsTweets
    <3>2. CASE pc' = [pc EXCEPT ![c] = "resGet"] /\ cmd' = cmd
      BY <1>1, <2>1, <3>2, KeepsTweets
    <3> QED
      BY <1>4, <3>1, <3>2 DEF ReserveObsolete
  <2>3. ToSet(queue)' = ToSet(queue)
    BY <2>1 DEF ToSet
  <2> QED
    BY <2>1, <2>2, <2>3, CommandsKept
<1>5. CASE Return(c) \/ AddFails(c)
  <2>1. Leave(c) /\ queue' = queue /\ records' \subseteq records \cup {cmd[c]} /\ pc[c] # "idle"
    BY <1>5 DEF Return, AddFails
  <2>2. ToSet(queue)' = ToSet(queue) /\ cmd[c].op = "tweet"
    BY <1>1, <2>1 DEF ToSet, AllTweets
  <2> QED
    BY <1>1, <2>1, <2>2, LeaveKeepsTweets, CommandsKept
<1> QED
  BY <1>1, <1>2, <1>3, <1>4, <1>5, RunTweetCommands DEF CallerStep

LEMMA WorkerCommands ==
    ASSUME Inv, AllTweets, NEW w \in Workers, WorkerStep(w)
    PROVE  AllTweets'
<1> USE DEF At, Goto
<1>1. w \in Threads
  BY Constants
<1>2. CASE Take(w)
  <2>1. queue \in Seq(Commands) /\ queue # <<>>
    BY <1>2 DEF Take, Inv, Shape, QueueShape
  <2>2. Head(queue) \in ToSet(queue) /\ ToSet(Tail(queue)) \subseteq ToSet(queue)
    BY <2>1, QueueContents
  <2>3. /\ records' = records /\ ToSet(queue)' = ToSet(Tail(queue))
        /\ cmd' = [cmd EXCEPT ![w] = Head(queue)]
        /\ pc' = [pc EXCEPT ![w] = StartOf(Head(queue).op)]
    BY <1>2 DEF Take, ToSet
  <2>4. \A s \in Threads : /\ s = w => cmd'[s] = Head(queue)
                           /\ s # w => pc'[s] = pc[s] /\ cmd'[s] = cmd[s]
    BY <2>3 DEF Inv, Shape, ThreadShape
  <2>5. \A s \in Threads : pc'[s] # "idle" => cmd'[s].op = "tweet"
    BY <2>2, <2>4 DEF AllTweets
  <2> QED
    BY <2>2, <2>3, <2>5, CommandsKept
<1>3. CASE Finish(w)
  <2>1. Leave(w) /\ ToSet(queue)' = ToSet(queue) /\ records' \subseteq records
    BY <1>3 DEF Finish, ToSet
  <2> QED
    BY <1>1, <2>1, LeaveKeepsTweets, CommandsKept
<1> QED
  BY <1>1, <1>2, <1>3, RunTweetCommands, NoFollowing DEF WorkerStep

LEMMA AllTweetsKept ==
    ASSUME Inv, AllTweets, OnlyTweeting, [Next]_vars
    PROVE  AllTweets'
<1> USE DEF At, Goto, queueVars
<1>1. CASE Call
  <2>1. CASE \E c \in Callers, u \in Users : BeginTweet(c, u)
    <3>1. PICK c \in Callers, u \in Users : BeginTweet(c, u)
      BY <2>1
    <3> DEFINE new == [op |-> "tweet", user |-> u, other |-> u, idx |-> 0, n |-> posts + 1]
    <3>2. /\ pc' = [pc EXCEPT ![c] = "resGet"] /\ cmd' = [cmd EXCEPT ![c] = new]
          /\ records' = records /\ queue' = queue
      BY <3>1 DEF BeginTweet
    <3>3. new.op = "tweet"
      OBVIOUS
    <3> HIDE DEF new
    <3>4. \A s \in Threads : /\ s = c => cmd'[s] = new
                             /\ s # c => pc'[s] = pc[s] /\ cmd'[s] = cmd[s]
      BY <3>2 DEF Inv, Shape, ThreadShape
    <3>5. \A s \in Threads : pc'[s] # "idle" => cmd'[s].op = "tweet"
      BY <3>3, <3>4 DEF AllTweets
    <3>6. ToSet(queue)' = ToSet(queue)
      BY <3>2 DEF ToSet
    <3> QED
      BY <3>2, <3>5, <3>6, CommandsKept
  <2>2. CASE \E op \in {"start", "stop"}, u \in Users, v \in Names : SubmitFollow(op, u, v)
    BY <2>2 DEF SubmitFollow, OnlyTweeting
  <2> QED
    BY <1>1, <2>1, <2>2 DEF Call
<1>2. CASE \E c \in Callers : CallerStep(c) \/ AddFails(c)
  BY <1>2, CallerCommands
<1>3. CASE \E w \in Workers : WorkerStep(w)
  BY <1>3, WorkerCommands
<1>4. CASE (\E k \in tasks : DeliveryStep(k) \/ DeliveryAborts(k)) \/ UNCHANGED vars
  <2>1. UNCHANGED <<pc, cmd, queue, records>>
    BY <1>4 DEF vars, DeliveryStep, DeliveryAborts, DeliverGet, DeliverPut, DeliverObsolete
  <2> QED
    BY <2>1 DEF AllTweets, ToSet
<1>5. CASE \E t \in Threads : Abort(t)
  <2>1. PICK t \in Threads : Leave(t) /\ UNCHANGED <<queue, records>>
    BY <1>5 DEF Abort
  <2>2. ToSet(queue)' = ToSet(queue)
    BY <2>1 DEF ToSet
  <2> QED
    BY <2>1, <2>2, LeaveKeepsTweets, CommandsKept
<1>6. CASE Crash
  <2>1. records' = records /\ queue' = <<>> /\ \A t \in Threads : pc'[t] = "idle"
    BY <1>6 DEF Crash
  <2>2. ToSet(queue)' = {}
    BY <2>1 DEF ToSet
  <2> QED
    BY <2>1, <2>2, CommandsKept
<1>7. CASE \E c \in records : Requeue(c)
  <2>1. PICK c \in records : queue' = Append(queue, c) /\ UNCHANGED <<records, pc, cmd>>
    BY <1>7 DEF Requeue
  <2>2. ToSet(queue)' \subseteq ToSet(queue) \cup {c}
    BY <2>1, QueueContents DEF Inv, Shape, QueueShape, ToSet
  <2>3. c.op = "tweet"
    BY DEF AllTweets
  <2> QED
    BY <2>1, <2>2, <2>3, CommandsKept DEF AllTweets
<1> QED
  BY <1>1, <1>2, <1>3, <1>4, <1>5, <1>6, <1>7 DEF Next

-----------------------------------------------------------------------------
(* The steps that matter keep the invariant.                                    *)

LEMMA HarmlessKeeps ==
    ASSUME OnceInv, Harmless, AllTweets'
    PROVE  OnceInv'
<1>1. OthersFollow' /\ LinesShape' /\ ShownOnce'
  BY DEF OnceInv, Harmless, OthersFollow, LinesShape, ShownOnce, AsSet
<1>2. EntriesExist'
  BY DEF OnceInv, Harmless, EntriesExist
<1>3. OneSpreads' /\ OwnMissing'
  BY DEF OnceInv, Harmless, OneSpreads, OwnMissing, Spreads, Entry
<1>4. FreshBeforeFan'
  BY DEF OnceInv, Harmless, FreshBeforeFan, Entry
<1>5. TasksRight'
  BY DEF OnceInv, Harmless, TasksRight
<1> QED
  BY <1>1, <1>2, <1>3, <1>4, <1>5 DEF OnceInv

\* What the tweet of a thread that spreads it is.
LEMMA SpreadsStored ==
    ASSUME Inv, AllTweets, NEW t \in Threads, Spreads(t)
    PROVE  /\ Entry(cmd[t]) \in tweets /\ Entry(cmd[t]) \in Entries
           /\ cmd[t].user \in Users /\ cmd[t].user \in Readers
           /\ Entry(cmd[t]).author = cmd[t].user
<1>1. cmd[t] \in Commands /\ cmd[t].op = "tweet"
  BY DEF Inv, OnCommand, AllTweets, Spreads
<1>2. Entry(cmd[t]) \in tweets
  BY <1>1 DEF Inv, PastStore, Spreads
<1> QED
  BY <1>1, <1>2, Constants DEF Commands, Inv, Shape, StoreShape, Entry

LEMMA StoreKeeps ==
    ASSUME Inv, OnceInv, AllTweets', NEW t \in Threads, StoreTweet(t)
    PROVE  OnceInv'
<1> DEFINE e == Entry(cmd[t])
<1>1. /\ pc[t] = "store" /\ tweets' = tweets \cup {e} /\ cmd' = cmd
      /\ UNCHANGED <<followers, timeline, tasks>>
      /\ \A s \in Threads : pc'[s] = IF s = t THEN "fan" ELSE pc[s]
  BY DEF StoreTweet, At, Goto, userVars, lineVars, taskVars, Inv, Shape, ThreadShape
<1>2. e \notin tweets
  BY DEF StoreTweet, StoredUnder, Entry
<1>3. \A s \in Threads : Spreads(s) => Entry(cmd[s]) # e
  BY <1>2, SpreadsStored DEF OnceInv
<1>4. /\ \A u \in Readers : e \notin ToSet(timeline[u])
      /\ \A k \in tasks : k.tweet # e
  BY <1>2 DEF OnceInv, EntriesExist
<1>5. cmd[t].user \in Readers
  BY <1>1, Constants DEF Inv, OnCommand, Commands
<1>6. \A s \in Threads : /\ Entry(cmd[s])' = Entry(cmd[s])
                         /\ Spreads(s)' => s = t \/ Spreads(s)
  BY <1>1 DEF Entry, Spreads
<1>7. OthersFollow' /\ LinesShape' /\ ShownOnce' /\ TasksRight'
  BY <1>1 DEF OnceInv, OthersFollow, LinesShape, ShownOnce, AsSet, TasksRight
<1>8. EntriesExist'
  BY <1>1 DEF OnceInv, EntriesExist
<1>9. OneSpreads'
  BY <1>3, <1>6 DEF OnceInv, OneSpreads
<1>10. OwnMissing'
  BY <1>1, <1>4, <1>5, <1>6 DEF OnceInv, OwnMissing
<1>11. FreshBeforeFan'
  BY <1>1, <1>4, <1>6 DEF OnceInv, FreshBeforeFan
<1> QED
  BY <1>7, <1>8, <1>9, <1>10, <1>11 DEF OnceInv

LEMMA FanKeeps ==
    ASSUME Inv, OnceInv, AllTweets', NEW t \in Threads, FanOut(t)
    PROVE  OnceInv'
<1> DEFINE e == Entry(cmd[t])
           new == {[tweet |-> e, to |-> f, ver |-> -1] : f \in AsSet(followers[cmd[t].user])}
<1>1. /\ pc[t] = "fan" /\ tasks' = tasks \cup new /\ cmd' = cmd
      /\ UNCHANGED <<followers, timeline, tweets>>
      /\ \A s \in Threads : pc'[s] = IF s = t THEN "ownGet" ELSE pc[s]
  BY DEF FanOut, At, Goto, storeVars, userVars, lineVars, Inv, Shape, ThreadShape
<1>2. Spreads(t)
  BY <1>1 DEF Spreads
<1>3. e \in tweets /\ e \in Entries /\ cmd[t].user \in Users /\ e.author = cmd[t].user
  BY <1>2, SpreadsStored DEF OnceInv
<1>4. \A k \in new : k.tweet = e /\ k.to \in Readers /\ k.to # e.author /\ k.ver = -1
  BY <1>3 DEF OnceInv, OthersFollow
<1>5. \A k, l \in new : k.to = l.to => k = l
  OBVIOUS
<1>6. /\ \A u \in Readers : e \notin ToSet(timeline[u])
      /\ \A k \in tasks : k.tweet # e
  BY <1>1 DEF OnceInv, FreshBeforeFan
<1>7. \A s \in Threads : /\ Entry(cmd[s])' = Entry(cmd[s])
                         /\ Spreads(s)' => Spreads(s)
                         /\ pc'[s] = "fan" => s # t /\ pc[s] = "fan" /\ Spreads(s)
  BY <1>1 DEF Entry, Spreads
<1> HIDE DEF e, new
<1>8. OthersFollow' /\ LinesShape' /\ ShownOnce'
  BY <1>1 DEF OnceInv, OthersFollow, LinesShape, ShownOnce, AsSet
<1>9. EntriesExist'
  BY <1>1, <1>3, <1>4 DEF OnceInv, EntriesExist
<1>10. OneSpreads' /\ OwnMissing'
  BY <1>1, <1>7 DEF OnceInv, OneSpreads, OwnMissing
<1>11. FreshBeforeFan'
  <2> SUFFICES ASSUME NEW s \in Threads, pc'[s] = "fan"
               PROVE  /\ \A u \in Readers : Entry(cmd[s]) \notin ToSet(timeline[u])
                      /\ \A k \in tasks' : k.tweet # Entry(cmd[s])
    BY <1>1, <1>7 DEF FreshBeforeFan
  <2>1. s # t /\ pc[s] = "fan" /\ Spreads(s)
    BY <1>7
  <2>2. Entry(cmd[s]) # e
    BY <2>1, <1>2 DEF OnceInv, OneSpreads, e
  <2> QED
    BY <2>1, <2>2, <1>1, <1>4 DEF OnceInv, FreshBeforeFan
<1>12. TasksRight'
  <2> SUFFICES ASSUME NEW k \in tasks'
               PROVE  /\ k.tweet \in Entries /\ k.to \in Readers /\ k.to # k.tweet.author
                      /\ k.tweet \notin ToSet(timeline[k.to])
                      /\ \A l \in tasks' : l.tweet = k.tweet /\ l.to = k.to => l = k
    BY <1>1 DEF TasksRight
  <2>1. CASE k \in tasks
    BY <2>1, <1>1, <1>4, <1>6 DEF OnceInv, TasksRight
  <2>2. CASE k \in new
    BY <2>2, <1>1, <1>3, <1>4, <1>5, <1>6
  <2> QED
    BY <2>1, <2>2, <1>1
<1> QED
  BY <1>8, <1>9, <1>10, <1>11, <1>12 DEF OnceInv

\* A tweet that was missing in a timeline is put into it.
LEMMA PutKeepsLines ==
    ASSUME OnceInv, NEW u \in Readers, NEW e \in tweets, e \in Entries, e \notin ToSet(timeline[u]),
           timeline' = [timeline EXCEPT ![u] = InsertTweet(timeline[u], e)], tweets' = tweets
    PROVE  /\ LinesShape' /\ ShownOnce'
           /\ \A r \in Readers : ToSet(timeline'[r]) \subseteq tweets'
           /\ \A r \in Readers : r # u => ToSet(timeline'[r]) = ToSet(timeline[r])
           /\ ToSet(timeline'[u]) = ToSet(timeline[u]) \cup {e}
<1>1. timeline \in [Readers -> Seq(Entries)] /\ timeline[u] \in Seq(Entries)
  BY DEF OnceInv, LinesShape
<1> DEFINE new == InsertTweet(timeline[u], e)
<1>2. new \in Seq(Entries) /\ ToSet(new) = ToSet(timeline[u]) \cup {e} /\ IsInjective(new)
  BY <1>1, InsertTweetKeeps DEF OnceInv, ShownOnce
<1> HIDE DEF new
<1>3. \A r \in Readers : timeline'[r] = IF r = u THEN new ELSE timeline[r]
  BY <1>1 DEF new
<1>4. timeline' \in [Readers -> Seq(Entries)]
  BY <1>1, <1>2 DEF new
<1>5. LinesShape'
  BY <1>4 DEF LinesShape
<1>6. ShownOnce'
  BY <1>2, <1>3 DEF OnceInv, ShownOnce
<1>7. /\ \A r \in Readers : r # u => ToSet(timeline'[r]) = ToSet(timeline[r])
      /\ ToSet(timeline'[u]) = ToSet(timeline[u]) \cup {e}
  BY <1>2, <1>3
<1>8. \A r \in Readers : ToSet(timeline'[r]) \subseteq tweets'
  BY <1>7 DEF OnceInv, EntriesExist
<1> QED
  BY <1>5, <1>6, <1>7, <1>8

LEMMA OwnPutKeeps ==
    ASSUME Inv, OnceInv, AllTweets', NEW t \in Threads, OwnPut(t)
    PROVE  OnceInv'
<1> DEFINE e == Entry(cmd[t])
           u == cmd[t].user
<1>1. /\ pc[t] = "ownPut" /\ cmd' = cmd /\ UNCHANGED <<followers, tweets, tasks>>
      /\ timeline' = [timeline EXCEPT ![u] = InsertTweet(timeline[u], e)]
      /\ \A s \in Threads : pc'[s] = IF s = t THEN "await" ELSE pc[s]
  BY DEF OwnPut, PutLine, At, Goto, userVars, taskVars, Inv, Shape, ThreadShape
<1>2. Spreads(t)
  BY <1>1 DEF Spreads
<1>3. e \in tweets /\ e \in Entries /\ u \in Readers /\ e.author = u
  BY <1>2, SpreadsStored DEF OnceInv
<1>4. e \notin ToSet(timeline[u])
  BY <1>2 DEF OnceInv, OwnMissing
<1>5. \A s \in Threads : /\ Entry(cmd[s])' = Entry(cmd[s])
                         /\ Spreads(s)' => s # t /\ Spreads(s) /\ Entry(cmd[s]) # e
                         /\ pc'[s] = "fan" => pc[s] = "fan" /\ Spreads(s)'
  BY <1>1, <1>2 DEF Entry, Spreads, OnceInv, OneSpreads
<1> HIDE DEF e, u
<1>6. /\ LinesShape' /\ ShownOnce'
      /\ \A r \in Readers : ToSet(timeline'[r]) \subseteq tweets'
      /\ \A r \in Readers : r # u => ToSet(timeline'[r]) = ToSet(timeline[r])
      /\ ToSet(timeline'[u]) = ToSet(timeline[u]) \cup {e}
  BY <1>1, <1>3, <1>4, PutKeepsLines
<1>7. OthersFollow' /\ EntriesExist'
  BY <1>1, <1>6 DEF OnceInv, OthersFollow, AsSet, EntriesExist
<1>8. OneSpreads'
  BY <1>5 DEF OnceInv, OneSpreads
<1>9. OwnMissing'
  <2> SUFFICES ASSUME NEW s \in Threads, Spreads(s)'
               PROVE  Entry(cmd[s]) \notin ToSet(timeline'[cmd[s].user])
    BY <1>1, <1>5 DEF OwnMissing
  <2>1. /\ cmd[s].user \in Readers /\ Entry(cmd[s]) # e
        /\ Entry(cmd[s]) \notin ToSet(timeline[cmd[s].user])
    BY <1>5, SpreadsStored DEF OnceInv, OwnMissing
  <2>2. ToSet(timeline'[cmd[s].user]) \subseteq ToSet(timeline[cmd[s].user]) \cup {e}
    BY <2>1, <1>6
  <2> QED
    BY <2>1, <2>2, <1>1
<1>10. FreshBeforeFan'
  <2> SUFFICES ASSUME NEW s \in Threads, pc'[s] = "fan"
               PROVE  /\ \A r \in Readers : Entry(cmd[s]) \notin ToSet(timeline'[r])
                      /\ \A k \in tasks : k.tweet # Entry(cmd[s])
    BY <1>1, <1>5 DEF FreshBeforeFan
  <2>1. Entry(cmd[s]) # e /\ pc[s] = "fan"
    BY <1>5
  <2> QED
    BY <2>1, <1>6 DEF OnceInv, FreshBeforeFan
<1>11. TasksRight'
  <2> SUFFICES ASSUME NEW k \in tasks PROVE k.tweet \notin ToSet(timeline'[k.to])
    BY <1>1 DEF TasksRight, OnceInv
  <2>1. k.to \in Readers /\ k.to # k.tweet.author /\ k.tweet \notin ToSet(timeline[k.to])
    BY DEF OnceInv, TasksRight
  <2>2. k.to = u => k.tweet # e
    BY <2>1, <1>3
  <2> QED
    BY <2>1, <2>2, <1>1, <1>6
<1> QED
  BY <1>6, <1>7, <1>8, <1>9, <1>10, <1>11 DEF OnceInv

\* A delivery that has read its timeline's version is the same delivery.
LEMMA DeliverGetKeeps ==
    ASSUME OnceInv, AllTweets', NEW k \in tasks, DeliverGet(k)
    PROVE  OnceInv'
<1> DEFINE m == [k EXCEPT !.ver = lineVer[k.to]]
<1>1. /\ tasks' = (tasks \ {k}) \cup {m}
      /\ UNCHANGED <<pc, cmd, followers, timeline, tweets>>
  BY DEF DeliverGet, storeVars, userVars, lineVars
<1>2. m.tweet = k.tweet /\ m.to = k.to
  OBVIOUS
<1> HIDE DEF m
<1>3. OthersFollow' /\ LinesShape' /\ ShownOnce' /\ OneSpreads' /\ OwnMissing'
  BY <1>1 DEF OnceInv, OthersFollow, LinesShape, ShownOnce, OneSpreads, OwnMissing, AsSet,
              Spreads, Entry
<1>4. EntriesExist' /\ FreshBeforeFan'
  BY <1>1, <1>2 DEF OnceInv, EntriesExist, FreshBeforeFan, Entry
<1>5. TasksRight'
  BY <1>1, <1>2 DEF OnceInv, TasksRight
<1> QED
  BY <1>3, <1>4, <1>5 DEF OnceInv

LEMMA DeliverPutKeeps ==
    ASSUME Inv, OnceInv, AllTweets', NEW k \in tasks, DeliverPut(k)
    PROVE  OnceInv'
<1> DEFINE e == k.tweet
           u == k.to
<1>1. /\ tasks' = tasks \ {k} /\ UNCHANGED <<pc, cmd, followers, tweets>>
      /\ timeline' = [timeline EXCEPT ![u] = InsertTweet(timeline[u], e)]
  BY DEF DeliverPut, PutLine, userVars
<1>2. /\ e \in tweets /\ e \in Entries /\ u \in Readers /\ u # e.author
      /\ e \notin ToSet(timeline[u])
      /\ \A l \in tasks : l.tweet = e /\ l.to = u => l = k
  BY DEF OnceInv, EntriesExist, TasksRight
<1> HIDE DEF e, u
<1>3. /\ LinesShape' /\ ShownOnce'
      /\ \A r \in Readers : ToSet(timeline'[r]) \subseteq tweets'
      /\ \A r \in Readers : r # u => ToSet(timeline'[r]) = ToSet(timeline[r])
      /\ ToSet(timeline'[u]) = ToSet(timeline[u]) \cup {e}
  BY <1>1, <1>2, PutKeepsLines
<1>4. OthersFollow' /\ EntriesExist' /\ OneSpreads'
  BY <1>1, <1>3 DEF OnceInv, OthersFollow, AsSet, EntriesExist, OneSpreads, Spreads, Entry
<1>5. OwnMissing'
  <2> SUFFICES ASSUME NEW s \in Threads, Spreads(s)
               PROVE  Entry(cmd[s]) \notin ToSet(timeline'[cmd[s].user])
    BY <1>1 DEF OwnMissing, Spreads, Entry
  <2>1. /\ cmd[s].user \in Readers /\ Entry(cmd[s]).author = cmd[s].user
        /\ Entry(cmd[s]) \notin ToSet(timeline[cmd[s].user])
    BY SpreadsStored DEF OnceInv, OwnMissing
  <2>2. cmd[s].user = u => Entry(cmd[s]) # e
    BY <2>1, <1>2
  <2> QED
    BY <2>1, <2>2, <1>3
<1>6. FreshBeforeFan'
  <2> SUFFICES ASSUME NEW s \in Threads, pc[s] = "fan"
               PROVE  /\ \A r \in Readers : Entry(cmd[s]) \notin ToSet(timeline'[r])
                      /\ \A l \in tasks : l.tweet # Entry(cmd[s])
    BY <1>1 DEF FreshBeforeFan, Entry
  <2>1. /\ \A r \in Readers : Entry(cmd[s]) \notin ToSet(timeline[r])
        /\ \A l \in tasks : l.tweet # Entry(cmd[s])
    BY DEF OnceInv, FreshBeforeFan
  <2>2. Entry(cmd[s]) # e
    BY <2>1 DEF e
  <2> QED
    BY <2>1, <2>2, <1>3
<1>7. TasksRight'
  <2> SUFFICES ASSUME NEW l \in tasks, l # k PROVE l.tweet \notin ToSet(timeline'[l.to])
    BY <1>1 DEF TasksRight, OnceInv
  <2>1. l.to \in Readers /\ l.tweet \notin ToSet(timeline[l.to])
    BY DEF OnceInv, TasksRight
  <2>2. l.to = u => l.tweet # e
    BY <1>2
  <2> QED
    BY <2>1, <2>2, <1>3
<1> QED
  BY <1>1, <1>3, <1>4, <1>5, <1>6, <1>7 DEF OnceInv

-----------------------------------------------------------------------------
(* The theorems.                                                                *)

LEMMA OnceInit == OnlyTweeting /\ Init => OnceInv
<1> SUFFICES ASSUME OnlyTweeting, Init PROVE OnceInv
  OBVIOUS
<1>1. /\ \A t \in Threads : pc[t] = "idle"
      /\ tweets = {} /\ tasks = {} /\ queue = <<>> /\ records = {}
      /\ timeline = [u \in Readers |-> <<>>]
  BY DEF Init
<1>2. AllTweets
  BY <1>1 DEF AllTweets, ToSet
<1>3. OthersFollow
  <2> SUFFICES ASSUME NEW u \in Users
               PROVE  AsSet(followers[u]) \subseteq Readers /\ u \notin AsSet(followers[u])
    BY DEF OthersFollow
  <2> DEFINE us == {v \in Users : <<v, u>> \in InitialFollows}
  <2>1. followers[u] = IF us = {} THEN None ELSE us
    BY DEF Init
  <2>2. us \subseteq Readers /\ u \notin us
    BY Constants DEF OnlyTweeting
  <2> HIDE DEF us
  <2>3. CASE us = {}
    BY <2>1, <2>3 DEF AsSet
  <2>4. CASE us # {}
    BY <2>1, <2>2, <2>4 DEF AsSet
  <2> QED
    BY <2>3, <2>4
<1>4. \A u \in Readers : timeline[u] = <<>> /\ ToSet(timeline[u]) = {}
  BY <1>1 DEF ToSet
<1>5. LinesShape /\ ShownOnce
  BY <1>1 DEF LinesShape, ShownOnce, IsInjective
<1>6. EntriesExist /\ TasksRight
  BY <1>1, <1>4 DEF EntriesExist, TasksRight
<1>7. OneSpreads /\ FreshBeforeFan /\ OwnMissing
  BY <1>1 DEF OneSpreads, FreshBeforeFan, OwnMissing, Spreads
<1> QED
  BY <1>2, <1>3, <1>5, <1>6, <1>7 DEF OnceInv

LEMMA OnceNext == Inv /\ OnceInv /\ [Next]_vars => OnceInv'
<1> SUFFICES ASSUME Inv, OnceInv, [Next]_vars PROVE OnceInv'
  OBVIOUS
<1>1. AllTweets'
  BY AllTweetsKept DEF OnceInv
<1>2. CASE Harmless
  BY <1>1, <1>2, HarmlessKeeps
<1>3. CASE \E t \in Threads : Spreading(t)
  BY <1>1, <1>3, StoreKeeps, FanKeeps, OwnPutKeeps DEF Spreading
<1>4. CASE \E k \in tasks : DeliverGet(k) \/ DeliverPut(k)
  BY <1>1, <1>4, DeliverGetKeeps, DeliverPutKeeps
<1> QED
  BY <1>2, <1>3, <1>4, Steps DEF OnceInv

LEMMA OnceAlways == OnlyTweeting /\ Spec => []OnceInv
BY OnceInit, OnceNext, Invariance, PTL DEF Spec

\* While callers only tweet, a tweet is in a timeline at most once, although its command
\* is run again after crashes, by several workers at once, and puts are retried
\* (TweetCommand, the fresh clock of its tweet; AbstractVoldemortCommand.execute).
THEOREM NothingTwice == OnlyTweeting /\ Spec => []ShownOnce
<1>1. OnceInv => ShownOnce
  BY DEF OnceInv
<1> QED
  BY <1>1, OnceAlways, PTL

-----------------------------------------------------------------------------
(* Types, and that whatever a timeline, a delivery or a thread names is stored.  *)

Attempts ==
    /\ tries \in [Threads -> 0 .. MaxTries] /\ idx \in [Threads -> Nat]
    /\ \A t \in Threads : /\ pc[t] \notin {"return", "finish"} => tries[t] < MaxTries
                          /\ pc[t] = "recentRead" => idx[t] >= 1
Lines == timeline \in [Readers -> Seq(tweets)] /\ recent \in [Threads -> Seq(tweets)]
Deliveries == /\ tasks \subseteq [tweet : tweets, to : Readers, ver : Nat \cup {-1}]
              /\ lost \subseteq [tweet : Entries, to : Readers]

DataInv == Attempts /\ Lines /\ Deliveries /\ reruns \in Nat

LEMMA TriesAllowed == MaxTries \in Nat /\ MaxTries > 0
BY BoundsAssumption

\* Of a thread that moves only its own attempts have to be looked at.
LEMMA AttemptsKept ==
    ASSUME Attempts, NEW t \in Threads,
           tries' \in [Threads -> 0 .. MaxTries], idx' \in [Threads -> Nat],
           \A s \in Threads \ {t} : pc'[s] = pc[s] /\ tries'[s] = tries[s] /\ idx'[s] = idx[s],
           pc'[t] \notin {"return", "finish"} => tries'[t] < MaxTries,
           pc'[t] = "recentRead" => idx'[t] >= 1
    PROVE  Attempts'
BY DEF Attempts

\* A thread that leaves its attempts alone, or begins them anew.
LEMMA GoesOnKeepsAttempts ==
    ASSUME Inv, Attempts, NEW t \in Threads, NEW p \in Pcs, pc' = [pc EXCEPT ![t] = p],
           p = "recentRead" => pc[t] = "recentRead", pc[t] \notin {"return", "finish"},
           tries' = tries \/ tries' = [tries EXCEPT ![t] = 0],
           idx' = idx \/ \E i \in Nat : idx' = [idx EXCEPT ![t] = i] /\ p # "recentRead"
    PROVE  Attempts'
<1>1. /\ tries \in [Threads -> 0 .. MaxTries] /\ idx \in [Threads -> Nat]
      /\ tries[t] < MaxTries /\ pc \in [Threads -> Pcs]
      /\ p = "recentRead" => idx[t] >= 1
  BY DEF Attempts, Inv, Shape, ThreadShape
<1>2. /\ tries' \in [Threads -> 0 .. MaxTries] /\ tries'[t] < MaxTries
      /\ \A s \in Threads \ {t} : tries'[s] = tries[s]
  BY <1>1, TriesAllowed
<1>3. /\ idx' \in [Threads -> Nat]
      /\ p = "recentRead" => idx'[t] >= 1
      /\ \A s \in Threads \ {t} : idx'[s] = idx[s]
  <2>1. CASE idx' = idx
    BY <2>1, <1>1
  <2>2. ASSUME NEW i \in Nat, idx' = [idx EXCEPT ![t] = i], p # "recentRead"
        PROVE  /\ idx' \in [Threads -> Nat]
               /\ p = "recentRead" => idx'[t] >= 1
               /\ \A s \in Threads \ {t} : idx'[s] = idx[s]
    BY <2>2, <1>1
  <2> QED
    BY <2>1, <2>2
<1>4. pc'[t] = p /\ \A s \in Threads \ {t} : pc'[s] = pc[s]
  BY <1>1
<1> QED
  BY <1>2, <1>3, <1>4, AttemptsKept

LEMMA LeaveKeepsAttempts ==
    ASSUME Inv, Attempts, NEW t \in Threads, Leave(t)
    PROVE  Attempts'
<1>1. /\ tries \in [Threads -> 0 .. MaxTries] /\ idx \in [Threads -> Nat] /\ pc \in [Threads -> Pcs]
      /\ tries' = [tries EXCEPT ![t] = 0] /\ idx' = [idx EXCEPT ![t] = 0]
      /\ pc' = [pc EXCEPT ![t] = "idle"]
  BY DEF Attempts, Inv, Shape, ThreadShape, Leave, Goto
<1>2. /\ tries' \in [Threads -> 0 .. MaxTries] /\ idx' \in [Threads -> Nat]
      /\ tries'[t] < MaxTries /\ pc'[t] = "idle"
      /\ \A s \in Threads \ {t} : pc'[s] = pc[s] /\ tries'[s] = tries[s] /\ idx'[s] = idx[s]
  BY <1>1, TriesAllowed
<1> QED
  BY <1>2, AttemptsKept

LEMMA AgainKeepsAttempts ==
    ASSUME Inv, Attempts, NEW t \in Threads, pc[t] \in RunPcs \ {"return", "finish"}, Again(t)
    PROVE  Attempts'
<1>1. /\ tries \in [Threads -> 0 .. MaxTries] /\ idx \in [Threads -> Nat] /\ pc \in [Threads -> Pcs]
      /\ tries[t] < MaxTries /\ cmd[t].op \in {"tweet", "start", "stop"}
      /\ tries' = [tries EXCEPT ![t] = @ + 1] /\ idx' = idx
      /\ pc' = [pc EXCEPT ![t] = IF tries[t] + 1 < MaxTries THEN StartOf(cmd[t].op) ELSE AfterRun(t)]
  BY DEF Attempts, Inv, Shape, ThreadShape, OnCommand, RunPcs, Commands, Again, Goto
<1>2. /\ StartOf(cmd[t].op) \notin {"return", "finish", "recentRead"}
      /\ AfterRun(t) \in {"return", "finish"}
  BY <1>1 DEF StartOf, AfterRun
<1>3. tries[t] \in 0 .. MaxTries /\ tries[t] + 1 \in 0 .. MaxTries
  BY <1>1, TriesAllowed
<1>4. /\ tries' \in [Threads -> 0 .. MaxTries] /\ tries'[t] = tries[t] + 1
      /\ \A s \in Threads \ {t} : pc'[s] = pc[s] /\ tries'[s] = tries[s] /\ idx'[s] = idx[s]
  BY <1>1, <1>3
<1>5. pc'[t] = IF tries[t] + 1 < MaxTries THEN StartOf(cmd[t].op) ELSE AfterRun(t)
  BY <1>1
<1> QED
  BY <1>1, <1>2, <1>4, <1>5, AttemptsKept

LEMMA TweetAttempts ==
    ASSUME Inv, Attempts, NEW t \in Threads, RunTweet(t)
    PROVE  Attempts'
<1> USE DEF At, Goto, RunPcs, Pcs, storeVars, userVars, lineVars, queueVars, taskVars, countVars
<1>1. CASE StoreObsolete(t) \/ OwnObsolete(t)
  <2>1. Again(t) /\ pc[t] \in RunPcs \ {"return", "finish"}
    BY <1>1 DEF StoreObsolete, OwnObsolete
  <2> QED
    BY <2>1, AgainKeepsAttempts
<1>2. CASE ~(StoreObsolete(t) \/ OwnObsolete(t))
  <2>1. PICK p \in {"fan", "ownGet", "ownPut", "await", "return", "finish"} :
          pc' = [pc EXCEPT ![t] = p] /\ tries' = tries /\ idx' = idx
    BY <1>2 DEF RunTweet, StoreTweet, FanOut, OwnGet, OwnPut, Await, AfterRun, ReadLine
  <2>2. pc[t] \in TweetPcs
    BY <1>2 DEF RunTweet, StoreTweet, FanOut, OwnGet, OwnPut, Await, TweetPcs
  <2> QED
    BY <2>1, <2>2, GoesOnKeepsAttempts DEF TweetPcs
<1> QED
  BY <1>1, <1>2

LEMMA RecentAttempts ==
    ASSUME Inv, Attempts, NEW t \in Threads, RecentLast(t) \/ RecentRead(t)
    PROVE  Attempts'
<1>1. /\ tries \in [Threads -> 0 .. MaxTries] /\ idx \in [Threads -> Nat] /\ pc \in [Threads -> Pcs]
      /\ last \in [Users -> Nat] /\ tries' = tries /\ tries[t] < MaxTries
  BY DEF RecentLast, RecentRead, At, Attempts, Inv, Shape, ThreadShape, StoreShape
<1>2. CASE RecentLast(t)
  <2> DEFINE v == cmd[t].other
  <2>1. CASE v \notin Users
    <3>1. pc' = [pc EXCEPT ![t] = AfterRun(t)] /\ idx' = idx /\ pc[t] = "recentLast"
      BY <1>2, <2>1 DEF RecentLast, At, Goto
    <3>2. AfterRun(t) \in Pcs /\ AfterRun(t) # "recentRead"
      BY DEF AfterRun, Pcs
    <3> QED
      BY <1>1, <3>1, <3>2, GoesOnKeepsAttempts
  <2>2. CASE v \in Users
    <3>1. /\ idx' = [idx EXCEPT ![t] = last[v]]
          /\ pc' = [pc EXCEPT ![t] = IF last[v] = 0 THEN "linePut" ELSE "recentRead"]
      BY <1>2, <2>2 DEF RecentLast, At, Goto
    <3>2. last[v] \in Nat
      BY <1>1, <2>2
    <3> HIDE DEF v
    <3>3. /\ idx' \in [Threads -> Nat]
          /\ pc'[t] = "recentRead" => idx'[t] >= 1
          /\ \A s \in Threads \ {t} : pc'[s] = pc[s] /\ idx'[s] = idx[s]
      BY <1>1, <3>1, <3>2
    <3> QED
      BY <1>1, <3>3, AttemptsKept
  <2> QED
    BY <2>1, <2>2
<1>3. CASE RecentRead(t)
  <2>1. /\ pc[t] = "recentRead" /\ idx' = [idx EXCEPT ![t] = @ - 1]
        /\ pc' = [pc EXCEPT ![t] = IF idx[t] = 1 \/ Len(recent'[t]) = RecentLimit
                                     THEN "linePut" ELSE "recentRead"]
    BY <1>3 DEF RecentRead, At, Goto
  <2>2. idx[t] >= 1 /\ idx[t] \in Nat
    BY <1>1, <2>1 DEF Attempts
  <2>3. pc'[t] = "recentRead" => idx[t] # 1
    BY <1>1, <2>1
  <2>4. /\ idx' \in [Threads -> Nat] /\ idx'[t] = idx[t] - 1
        /\ \A s \in Threads \ {t} : pc'[s] = pc[s] /\ idx'[s] = idx[s]
    BY <1>1, <2>1, <2>2
  <2> QED
    BY <1>1, <2>2, <2>3, <2>4, AttemptsKept
<1> QED
  BY <1>2, <1>3

LEMMA FollowAttempts ==
    ASSUME Inv, Attempts, NEW t \in Threads, RunStart(t) \/ RunStop(t)
    PROVE  Attempts'
<1> USE DEF At, Goto, RunPcs, Pcs, storeVars, userVars, lineVars, queueVars, taskVars, countVars
<1>1. CASE RecentLast(t) \/ RecentRead(t)
  BY <1>1, RecentAttempts
<1>2. CASE StopObsolete(t)
  <2>1. Again(t) /\ pc[t] \in RunPcs \ {"return", "finish"}
    BY <1>2 DEF StopObsolete
  <2> QED
    BY <2>1, AgainKeepsAttempts
<1>3. CASE UnfollowersGet(t) /\ cmd[t].other \notin Users
  <2>1. Leave(t)
    BY <1>3 DEF UnfollowersGet
  <2> QED
    BY <2>1, LeaveKeepsAttempts
<1>4. CASE FollowingGet(t) \/ FollowingPut(t) \/ FollowersGet(t) \/ FollowersPut(t) \/ LineGet(t) \/ LinePut(t)
  <2>1. PICK p \in {"followingPut", "followersGet", "followersPut", "lineGet", "recentLast", "return", "finish"} :
          pc' = [pc EXCEPT ![t] = p] /\ tries' = tries /\ idx' = idx
    BY <1>4 DEF FollowingGet, FollowingPut, FollowersGet, FollowersPut, LineGet, LinePut, ReadUser, ReadLine, AfterRun
  <2>2. pc[t] \notin {"return", "finish"}
    BY <1>4 DEF FollowingGet, FollowingPut, FollowersGet, FollowersPut, LineGet, LinePut
  <2> QED
    BY <2>1, <2>2, GoesOnKeepsAttempts
<1>5. CASE \/ UnfollowersGet(t) /\ cmd[t].other \in Users
           \/ UnfollowersPut(t) \/ UnfollowingGet(t) \/ UnfollowingPut(t) \/ RemoveGet(t) \/ RemovePut(t)
  <2>1. PICK p \in {"unfollowersPut", "unfollowingGet", "unfollowingPut", "removeGet", "removePut", "return", "finish"} :
          pc' = [pc EXCEPT ![t] = p] /\ tries' = tries /\ idx' = idx
    BY <1>5 DEF UnfollowersGet, UnfollowersPut, UnfollowingGet, UnfollowingPut, RemoveGet, RemovePut,
                ReadUser, ReadLine, AfterRun
  <2>2. pc[t] \notin {"return", "finish"}
    BY <1>5 DEF UnfollowersGet, UnfollowersPut, UnfollowingGet, UnfollowingPut, RemoveGet, RemovePut
  <2> QED
    BY <2>1, <2>2, GoesOnKeepsAttempts
<1> QED
  BY <1>1, <1>2, <1>3, <1>4, <1>5 DEF RunStart, RunStop

LEMMA CallerAttempts ==
    ASSUME Inv, Attempts, NEW c \in Callers, CallerStep(c) \/ AddFails(c)
    PROVE  Attempts'
<1> USE DEF At, Goto, Pcs
<1>1. c \in Threads
  BY Constants
<1>2. CASE ReserveGet(c)
  <2>1. cmd[c] \in Commands
    BY <1>1, <1>2 DEF ReserveGet, Inv, OnCommand
  <2>2. last[cmd[c].user] + 1 \in Nat
    BY <2>1 DEF Commands, Inv, Shape, StoreShape
  <2>3. /\ pc[c] = "resGet" /\ pc' = [pc EXCEPT ![c] = "resPut"] /\ tries' = tries
        /\ idx' = [idx EXCEPT ![c] = last[cmd[c].user] + 1]
    BY <1>2 DEF ReserveGet
  <2> QED
    BY <1>1, <2>2, <2>3, GoesOnKeepsAttempts
<1>3. CASE ReservePut(c) \/ AddTweet(c)
  <2>1. PICK p \in {"add", "store"} :
          /\ pc' = [pc EXCEPT ![c] = p] /\ idx' = idx
          /\ tries' = tries \/ tries' = [tries EXCEPT ![c] = 0]
    BY <1>3 DEF ReservePut, AddTweet
  <2>2. pc[c] \notin {"return", "finish"}
    BY <1>3 DEF ReservePut, AddTweet
  <2> QED
    BY <1>1, <2>1, <2>2, GoesOnKeepsAttempts
<1>4. CASE ReserveObsolete(c) /\ tries[c] + 1 < MaxTries
  <2>1. /\ tries' = [tries EXCEPT ![c] = @ + 1] /\ idx' = idx
        /\ pc' = [pc EXCEPT ![c] = "resGet"]
    BY <1>4 DEF ReserveObsolete
  <2>2. /\ tries \in [Threads -> 0 .. MaxTries] /\ idx \in [Threads -> Nat] /\ pc \in [Threads -> Pcs]
    BY DEF Attempts, Inv, Shape, ThreadShape
  <2>3. tries[c] + 1 \in 0 .. MaxTries
    BY <1>1, <1>4, <2>2, TriesAllowed
  <2>4. /\ tries' \in [Threads -> 0 .. MaxTries] /\ tries'[c] < MaxTries /\ pc'[c] = "resGet"
        /\ \A s \in Threads \ {c} : pc'[s] = pc[s] /\ tries'[s] = tries[s] /\ idx'[s] = idx[s]
    BY <1>1, <1>4, <2>1, <2>2, <2>3
  <2> QED
    BY <1>1, <2>1, <2>2, <2>4, AttemptsKept
<1>5. CASE \/ ReserveObsolete(c) /\ ~(tries[c] + 1 < MaxTries)
           \/ AddFails(c) \/ Return(c)
  <2>1. Leave(c)
    BY <1>5 DEF ReserveObsolete, AddFails, Return
  <2> QED
    BY <1>1, <2>1, LeaveKeepsAttempts
<1> QED
  BY <1>1, <1>2, <1>3, <1>4, <1>5, TweetAttempts DEF CallerStep

LEMMA AttemptsNext ==
    ASSUME Inv, Attempts, [Next]_vars
    PROVE  Attempts'
<1> USE DEF At, Goto, Pcs
<1>1. CASE UNCHANGED vars
  BY <1>1 DEF vars, Attempts
<1>2. CASE \E c \in Callers, u \in Users : BeginTweet(c, u)
  <2>1. PICK c \in Threads : pc[c] = "idle" /\ pc' = [pc EXCEPT ![c] = "resGet"] /\ tries' = tries /\ idx' = idx
    BY <1>2, Constants DEF BeginTweet
  <2> QED
    BY <2>1, GoesOnKeepsAttempts
<1>3. CASE \E c \in Callers : CallerStep(c) \/ AddFails(c)
  BY <1>3, CallerAttempts
<1>4. ASSUME NEW w \in Workers, WorkerStep(w) PROVE Attempts'
  <2>1. w \in Threads
    BY Constants
  <2>2. CASE Take(w)
    <3>1. /\ pc[w] = "idle" /\ tries' = tries /\ idx' = idx
          /\ pc' = [pc EXCEPT ![w] = StartOf(Head(queue).op)] /\ queue # <<>>
      BY <2>2 DEF Take
    <3>2. Head(queue) \in Commands
      BY <3>1 DEF Inv, Shape, QueueShape
    <3>3. StartOf(Head(queue).op) \in Pcs /\ StartOf(Head(queue).op) # "recentRead"
      BY <3>2 DEF StartOf, Commands
    <3> QED
      BY <2>1, <3>1, <3>3, GoesOnKeepsAttempts
  <2>3. CASE Finish(w)
    BY <2>1, <2>3, LeaveKeepsAttempts DEF Finish
  <2> QED
    BY <2>1, <2>2, <2>3, <1>4, TweetAttempts, FollowAttempts DEF WorkerStep
<1>5. CASE \E t \in Threads : Abort(t)
  BY <1>5, LeaveKeepsAttempts DEF Abort
<1>6. CASE Crash
  BY <1>6, TriesAllowed DEF Crash, Attempts
<1>7. CASE \/ \E op \in {"start", "stop"}, u \in Users, v \in Names : SubmitFollow(op, u, v)
           \/ \E k \in tasks : DeliveryStep(k) \/ DeliveryAborts(k)
           \/ \E c \in records : Requeue(c)
  <2>1. UNCHANGED <<pc, tries, idx>>
    BY <1>7 DEF SubmitFollow, DeliveryStep, DeliverGet, DeliverPut, DeliverObsolete, DeliveryAborts, Requeue
  <2> QED
    BY <2>1 DEF Attempts
<1> QED
  BY <1>1, <1>2, <1>3, <1>4, <1>5, <1>6, <1>7 DEF Next, Call

-----------------------------------------------------------------------------
LEMMA TweetsGrow ==
    ASSUME [Next]_vars
    PROVE  tweets \subseteq tweets'
<1> USE DEF storeVars, userVars, lineVars, queueVars, taskVars, countVars
<1>1. ASSUME NEW t, RunTweet(t) PROVE tweets \subseteq tweets'
  BY <1>1 DEF RunTweet, StoreTweet, StoreObsolete, FanOut, OwnGet, OwnPut, OwnObsolete, Await
<1>2. ASSUME NEW t, RunStart(t) \/ RunStop(t) PROVE tweets \subseteq tweets'
  BY <1>2 DEF RunStart, FollowingGet, FollowingPut, FollowersGet, FollowersPut, LineGet, RecentLast,
              RecentRead, LinePut, RunStop, UnfollowersGet, UnfollowersPut, UnfollowingGet,
              UnfollowingPut, RemoveGet, RemovePut, StopObsolete
<1>3. CASE UNCHANGED vars
  BY <1>3 DEF vars
<1>4. CASE Call
  BY <1>4 DEF Call, BeginTweet, SubmitFollow
<1>5. CASE \E c \in Callers : CallerStep(c) \/ AddFails(c)
  BY <1>1, <1>5 DEF CallerStep, ReserveGet, ReservePut, ReserveObsolete, AddTweet, Return, AddFails
<1>6. CASE \E w \in Workers : WorkerStep(w)
  BY <1>1, <1>2, <1>6 DEF WorkerStep, Take, Finish
<1>7. CASE \/ \E k \in tasks : DeliveryStep(k) \/ DeliveryAborts(k)
           \/ \E t \in Threads : Abort(t)
           \/ Crash
           \/ \E c \in records : Requeue(c)
  BY <1>7 DEF DeliveryStep, DeliverGet, DeliverPut, DeliverObsolete, DeliveryAborts, Abort, Crash, Requeue
<1> QED
  BY <1>3, <1>4, <1>5, <1>6, <1>7 DEF Next

\* What a step may do with the timelines and with what threads have read.
PutsLine == \/ timeline' = timeline
            \/ \E u \in Readers, l \in Seq(tweets) : timeline' = [timeline EXCEPT ![u] = l]
Reads == \/ recent' = recent
         \/ \E t \in Threads, s \in Seq(tweets) : recent' = [recent EXCEPT ![t] = s]

LEMMA LinesKept ==
    ASSUME Lines, PutsLine, Reads, tweets \subseteq tweets'
    PROVE  Lines'
<1>1. \A s \in Seq(tweets) : s \in Seq(tweets')
  OBVIOUS
<1>2. timeline' \in [Readers -> Seq(tweets)]
  BY DEF Lines, PutsLine
<1>3. recent' \in [Threads -> Seq(tweets)]
  BY DEF Lines, Reads
<1> QED
  BY <1>1, <1>2, <1>3 DEF Lines

\* The tweets stored under an index, as a sequence.
LEMMA FoundIsStored ==
    ASSUME Inv, NEW u, NEW i
    PROVE  SetToSeq(StoredUnder(u, i)) \in Seq(tweets)
<1> DEFINE S == StoredUnder(u, i)
<1>1. \A d, e \in S : d = e
  BY DEF StoredUnder, Inv, IdsUnique, Issued
<1>2. S \subseteq tweets
  BY DEF StoredUnder
<1> HIDE DEF S
<1>3. \E f \in [1 .. Cardinality(S) -> S] : IsInjective(f)
  <2>1. CASE S = {}
    <3>1. Cardinality(S) = 0
      BY <2>1, FS_EmptySet
    <3> DEFINE f == [k \in 1 .. Cardinality(S) |-> k]
    <3>2. f \in [1 .. Cardinality(S) -> S] /\ IsInjective(f)
      BY <3>1 DEF IsInjective
    <3> QED
      BY <3>2
  <2>2. CASE S # {}
    <3>1. PICK e : S = {e}
      BY <2>2, <1>1
    <3>2. Cardinality(S) = 1
      BY <3>1, FS_Singleton
    <3> DEFINE f == [k \in 1 .. Cardinality(S) |-> e]
    <3>3. f \in [1 .. Cardinality(S) -> S] /\ IsInjective(f)
      BY <3>1, <3>2 DEF IsInjective
    <3> QED
      BY <3>3
  <2> QED
    BY <2>1, <2>2
<1>4. SetToSeq(S) \in [1 .. Cardinality(S) -> S]
  BY <1>3 DEF SetToSeq
<1>5. Cardinality(S) \in Nat
  <2>1. CASE S = {}
    <3>1. Cardinality(S) = 0
      BY <2>1, FS_EmptySet
    <3> QED
      BY <3>1
  <2>2. CASE S # {}
    <3>1. PICK e : S = {e}
      BY <2>2, <1>1
    <3>2. Cardinality(S) = 1
      BY <3>1, FS_Singleton
    <3> QED
      BY <3>2
  <2> QED
    BY <2>1, <2>2
<1>6. SetToSeq(S) \in Seq(S)
  BY <1>4, <1>5
<1> QED
  BY <1>2, <1>6 DEF S

LEMMA TweetLines ==
    ASSUME Inv, Lines, NEW t \in Threads, RunTweet(t)
    PROVE  PutsLine /\ Reads
<1> USE DEF At, Goto, storeVars, userVars, lineVars, queueVars, taskVars, countVars
<1>1. Reads
  BY DEF Reads, RunTweet, StoreTweet, StoreObsolete, FanOut, OwnGet, OwnPut, OwnObsolete, Await,
         Again, ReadLine
<1>2. CASE OwnPut(t)
  <2>1. pc[t] = "ownPut" /\ cmd[t] \in Commands /\ cmd[t].op = "tweet"
    BY <1>2 DEF OwnPut, Inv, OnCommand, TweetPcs
  <2> DEFINE u == cmd[t].user
             e == Entry(cmd[t])
  <2>2. u \in Readers /\ e \in tweets
    BY <2>1, Constants DEF Commands, Inv, PastStore
  <2>3. timeline' = [timeline EXCEPT ![u] = InsertTweet(timeline[u], e)]
    BY <1>2 DEF OwnPut, PutLine
  <2> HIDE DEF u, e
  <2>4. InsertTweet(timeline[u], e) \in Seq(tweets)
    BY <2>2, InsertTweetKeeps DEF Lines
  <2> QED
    BY <1>1, <2>2, <2>3, <2>4 DEF PutsLine
<1>3. CASE ~OwnPut(t)
  <2>1. timeline' = timeline
    BY <1>3 DEF RunTweet, StoreTweet, StoreObsolete, FanOut, OwnGet, OwnObsolete, Await, Again
  <2> QED
    BY <1>1, <2>1 DEF PutsLine
<1> QED
  BY <1>2, <1>3

LEMMA FollowLines ==
    ASSUME Inv, Lines, NEW t \in Threads, RunStart(t) \/ RunStop(t)
    PROVE  PutsLine /\ Reads
<1> USE DEF At, Goto, storeVars, userVars, lineVars, queueVars, taskVars, countVars
<1>1. CASE LinePut(t) \/ RemovePut(t)
  <2> DEFINE u == cmd[t].user
  <2>1. pc[t] \in {"linePut", "removePut"} /\ cmd[t] \in Commands /\ recent' = recent
    BY <1>1 DEF LinePut, RemovePut, Inv, OnCommand
  <2>2. u \in Readers
    BY <2>1, Constants DEF Commands
  <2>3. \/ timeline' = timeline
        \/ timeline' = [timeline EXCEPT ![u] = Merge(timeline[u], recent[t])]
        \/ timeline' = [timeline EXCEPT ![u] = RemoveAuthor(timeline[u], cmd[t].other)]
    BY <1>1 DEF LinePut, RemovePut, PutLine
  <2> HIDE DEF u
  <2>4. timeline[u] \in Seq(tweets) /\ recent[t] \in Seq(tweets)
    BY <2>2 DEF Lines
  <2>5. Merge(timeline[u], recent[t]) \in Seq(tweets)
    BY <2>4, MergeLoopKeeps DEF Merge, MergeState
  <2>6. RemoveAuthor(timeline[u], cmd[t].other) \in Seq(tweets)
    BY <2>4, RemoveAuthorKeeps
  <2> QED
    BY <2>1, <2>2, <2>3, <2>5, <2>6 DEF PutsLine, Reads
<1>2. CASE RecentRead(t)
  <2>1. /\ recent' = [recent EXCEPT ![t] = @ \o SetToSeq(StoredUnder(cmd[t].other, idx[t]))]
        /\ timeline' = timeline
    BY <1>2 DEF RecentRead
  <2>2. recent[t] \in Seq(tweets)
    BY DEF Lines
  <2>3. recent[t] \o SetToSeq(StoredUnder(cmd[t].other, idx[t])) \in Seq(tweets)
    BY <2>2, FoundIsStored, ConcatProperties
  <2>4. recent' = [recent EXCEPT ![t] = recent[t] \o SetToSeq(StoredUnder(cmd[t].other, idx[t]))]
    BY <2>1
  <2> QED
    BY <2>1, <2>3, <2>4 DEF PutsLine, Reads
<1>3. CASE UnfollowersGet(t)
  <2>1. timeline' = timeline /\ (recent' = recent \/ recent' = [recent EXCEPT ![t] = <<>>])
    BY <1>3 DEF UnfollowersGet, ReadUser, Leave
  <2>2. <<>> \in Seq(tweets)
    OBVIOUS
  <2> QED
    BY <2>1, <2>2 DEF PutsLine, Reads
<1>4. CASE ~(LinePut(t) \/ RemovePut(t) \/ RecentRead(t) \/ UnfollowersGet(t))
  <2>1. timeline' = timeline /\ recent' = recent
    BY <1>4 DEF RunStart, FollowingGet, FollowingPut, FollowersGet, FollowersPut, LineGet, RecentLast,
                RunStop, UnfollowersPut, UnfollowingGet, UnfollowingPut, RemoveGet, StopObsolete,
                Again, ReadUser, ReadLine
  <2> QED
    BY <2>1 DEF PutsLine, Reads
<1> QED
  BY <1>1, <1>2, <1>3, <1>4

LEMMA LinesNext ==
    ASSUME Inv, Inv', Lines, Deliveries, [Next]_vars
    PROVE  Lines'
<1> USE DEF At, Goto, storeVars, userVars, lineVars, queueVars, taskVars, countVars
<1>1. tweets \subseteq tweets'
  BY TweetsGrow
<1>2. <<>> \in Seq(tweets)
  OBVIOUS
<1>3. CASE UNCHANGED vars
  BY <1>3 DEF vars, Lines
<1>4. CASE Call
  <2>1. timeline' = timeline /\ recent' = recent
    BY <1>4 DEF Call, BeginTweet, SubmitFollow
  <2> QED
    BY <2>1, <1>1, LinesKept DEF PutsLine, Reads
<1>5. ASSUME NEW c \in Callers, CallerStep(c) \/ AddFails(c) PROVE Lines'
  <2>1. c \in Threads
    BY Constants
  <2>2. CASE RunTweet(c)
    BY <2>1, <2>2, <1>1, TweetLines, LinesKept
  <2>3. CASE ~RunTweet(c)
    <3>1. timeline' = timeline /\ (recent' = recent \/ recent' = [recent EXCEPT ![c] = <<>>])
      BY <1>5, <2>3 DEF CallerStep, ReserveGet, ReservePut, ReserveObsolete, AddTweet, Return, AddFails, Leave
    <3> QED
      BY <2>1, <3>1, <1>1, <1>2, LinesKept DEF PutsLine, Reads
  <2> QED
    BY <2>2, <2>3
<1>6. ASSUME NEW w \in Workers, WorkerStep(w) PROVE Lines'
  <2>1. w \in Threads
    BY Constants
  <2>2. CASE RunTweet(w) \/ RunStart(w) \/ RunStop(w)
    BY <2>1, <2>2, <1>1, TweetLines, FollowLines, LinesKept
  <2>3. CASE Take(w) \/ Finish(w)
    <3>1. timeline' = timeline /\ (recent' = recent \/ recent' = [recent EXCEPT ![w] = <<>>])
      BY <2>3 DEF Take, Finish, Leave
    <3> QED
      BY <2>1, <3>1, <1>1, <1>2, LinesKept DEF PutsLine, Reads
  <2> QED
    BY <2>2, <2>3, <1>6 DEF WorkerStep
<1>7. ASSUME NEW k \in tasks, DeliveryStep(k) \/ DeliveryAborts(k) PROVE Lines'
  <2>1. recent' = recent
    BY <1>7 DEF DeliveryStep, DeliverGet, DeliverPut, DeliverObsolete, DeliveryAborts
  <2>2. CASE DeliverPut(k)
    <3>1. timeline' = [timeline EXCEPT ![k.to] = InsertTweet(timeline[k.to], k.tweet)]
      BY <2>2 DEF DeliverPut, PutLine
    <3>2. k.to \in Readers /\ k.tweet \in tweets
      BY DEF Deliveries
    <3>3. timeline[k.to] \in Seq(tweets)
      BY <3>2 DEF Lines
    <3>4. InsertTweet(timeline[k.to], k.tweet) \in Seq(tweets)
      BY <3>2, <3>3, InsertTweetKeeps
    <3> QED
      BY <2>1, <3>1, <3>2, <3>4, <1>1, LinesKept DEF PutsLine, Reads
  <2>3. CASE ~DeliverPut(k)
    <3>1. timeline' = timeline
      BY <1>7, <2>3 DEF DeliveryStep, DeliverGet, DeliverObsolete, DeliveryAborts
    <3> QED
      BY <2>1, <3>1, <1>1, LinesKept DEF PutsLine, Reads
  <2> QED
    BY <2>2, <2>3
<1>8. CASE \E t \in Threads : Abort(t)
  <2>1. PICK t \in Threads : timeline' = timeline /\ recent' = [recent EXCEPT ![t] = <<>>]
    BY <1>8 DEF Abort, Leave
  <2> QED
    BY <2>1, <1>1, <1>2, LinesKept DEF PutsLine, Reads
<1>9. CASE Crash
  <2>1. timeline' = timeline /\ recent' = [t \in Threads |-> <<>>] /\ tweets' = tweets
    BY <1>9 DEF Crash
  <2>2. recent' \in [Threads -> Seq(tweets)]
    BY <2>1, <1>2
  <2> QED
    BY <2>1, <2>2 DEF Lines
<1>10. CASE \E c \in records : Requeue(c)
  <2>1. timeline' = timeline /\ recent' = recent
    BY <1>10 DEF Requeue
  <2> QED
    BY <2>1, <1>1, LinesKept DEF PutsLine, Reads
<1> QED
  BY <1>3, <1>4, <1>5, <1>6, <1>7, <1>8, <1>9, <1>10 DEF Next

\* What a step may do with the deliveries: those it makes are of stored tweets.
LEMMA DeliveriesKept ==
    ASSUME Deliveries, tweets \subseteq tweets', tweets \subseteq Entries,
           tasks' \subseteq tasks \cup [tweet : tweets, to : Readers, ver : Nat \cup {-1}],
           lost' \subseteq lost \cup [tweet : tweets, to : Readers]
    PROVE  Deliveries'
<1>1. \A k \in [tweet : tweets, to : Readers, ver : Nat \cup {-1}] :
         k \in [tweet : tweets', to : Readers, ver : Nat \cup {-1}]
  OBVIOUS
<1>2. \A k \in [tweet : tweets, to : Readers] : k \in [tweet : Entries, to : Readers]
  OBVIOUS
<1> QED
  BY <1>1, <1>2 DEF Deliveries

LEMMA FanDeliveries ==
    ASSUME Inv, FieldsShape, NEW t \in Threads, FanOut(t)
    PROVE  /\ tasks' \subseteq tasks \cup [tweet : tweets, to : Readers, ver : Nat \cup {-1}]
           /\ lost' = lost
<1> DEFINE u == cmd[t].user
           e == Entry(cmd[t])
<1>1. pc[t] = "fan" /\ cmd[t] \in Commands /\ cmd[t].op = "tweet"
  BY DEF FanOut, At, Inv, OnCommand, TweetPcs
<1>2. u \in Users /\ e \in tweets
  BY <1>1 DEF Commands, Inv, PastStore
<1>3. AsSet(followers[u]) \subseteq Readers
  <2>1. followers[u] \in (SUBSET Users) \cup {None}
    BY <1>2 DEF FieldsShape
  <2> QED
    BY <2>1 DEF AsSet, Readers
<1>4. tasks' = tasks \cup {[tweet |-> e, to |-> f, ver |-> -1] : f \in AsSet(followers[u])} /\ lost' = lost
  BY DEF FanOut
<1> HIDE DEF u, e
<1> QED
  BY <1>2, <1>3, <1>4

LEMMA DeliveriesNext ==
    ASSUME Inv, FieldsShape, Deliveries, [Next]_vars
    PROVE  Deliveries'
<1> USE DEF storeVars, userVars, lineVars, queueVars, taskVars, countVars
<1>1. tweets \subseteq tweets' /\ tweets \subseteq Entries
  BY TweetsGrow DEF Inv, Shape, StoreShape
<1>2. ASSUME NEW t \in Threads, RunTweet(t) PROVE Deliveries'
  <2>1. CASE FanOut(t)
    BY <2>1, <1>1, FanDeliveries, DeliveriesKept
  <2>2. CASE ~FanOut(t)
    <3>1. tasks' = tasks /\ lost' = lost
      BY <1>2, <2>2 DEF RunTweet, StoreTweet, StoreObsolete, OwnGet, OwnPut, OwnObsolete, Await
    <3> QED
      BY <3>1, <1>1, DeliveriesKept
  <2> QED
    BY <2>1, <2>2
<1>3. ASSUME NEW t, RunStart(t) \/ RunStop(t) PROVE tasks' = tasks /\ lost' = lost
  BY <1>3 DEF RunStart, FollowingGet, FollowingPut, FollowersGet, FollowersPut, LineGet, RecentLast,
              RecentRead, LinePut, RunStop, UnfollowersGet, UnfollowersPut, UnfollowingGet,
              UnfollowingPut, RemoveGet, RemovePut, StopObsolete
<1>4. CASE \/ UNCHANGED vars
           \/ Call
           \/ \E t \in Threads : Abort(t)
           \/ \E c \in records : Requeue(c)
  <2>1. tasks' = tasks /\ lost' = lost
    BY <1>4 DEF vars, Call, BeginTweet, SubmitFollow, Abort, Requeue
  <2> QED
    BY <2>1, <1>1, DeliveriesKept
<1>5. ASSUME NEW c \in Callers, CallerStep(c) \/ AddFails(c) PROVE Deliveries'
  <2>1. CASE RunTweet(c)
    BY <2>1, <1>2, Constants
  <2>2. CASE ~RunTweet(c)
    <3>1. tasks' = tasks /\ lost' = lost
      BY <1>5, <2>2 DEF CallerStep, ReserveGet, ReservePut, ReserveObsolete, AddTweet, Return, AddFails
    <3> QED
      BY <3>1, <1>1, DeliveriesKept
  <2> QED
    BY <2>1, <2>2
<1>6. ASSUME NEW w \in Workers, WorkerStep(w) PROVE Deliveries'
  <2>1. CASE RunTweet(w)
    BY <2>1, <1>2, Constants
  <2>2. CASE ~RunTweet(w)
    <3>1. tasks' = tasks /\ lost' = lost
      BY <1>3, <1>6, <2>2 DEF WorkerStep, Take, Finish
    <3> QED
      BY <3>1, <1>1, DeliveriesKept
  <2> QED
    BY <2>1, <2>2
<1>7. ASSUME NEW k \in tasks, DeliveryStep(k) \/ DeliveryAborts(k) PROVE Deliveries'
  <2>1. k \in [tweet : tweets, to : Readers, ver : Nat \cup {-1}]
    BY DEF Deliveries
  <2>2. lineVer[k.to] \in Nat
    BY <2>1 DEF Inv, Shape, StoreShape
  <2>3. /\ [k EXCEPT !.ver = lineVer[k.to]] \in [tweet : tweets, to : Readers, ver : Nat \cup {-1}]
        /\ [tweet |-> k.tweet, to |-> k.to] \in [tweet : tweets, to : Readers]
    BY <2>1, <2>2
  <2>4. /\ tasks' \subseteq tasks \cup {[k EXCEPT !.ver = lineVer[k.to]]}
        /\ lost' \subseteq lost \cup {[tweet |-> k.tweet, to |-> k.to]}
    BY <1>7 DEF DeliveryStep, DeliverGet, DeliverPut, DeliverObsolete, DeliveryAborts
  <2>5. /\ tasks' \subseteq tasks \cup [tweet : tweets, to : Readers, ver : Nat \cup {-1}]
        /\ lost' \subseteq lost \cup [tweet : tweets, to : Readers]
    BY <2>3, <2>4
  <2> QED
    BY <2>5, <1>1, DeliveriesKept
<1>8. CASE Crash
  <2>1. tasks' = {} /\ lost' = {}
    BY <1>8 DEF Crash
  <2> QED
    BY <2>1 DEF Deliveries
<1> QED
  BY <1>4, <1>5, <1>6, <1>7, <1>8 DEF Next

LEMMA DataInit == Init => DataInv
<1> SUFFICES ASSUME Init PROVE DataInv
  OBVIOUS
<1>1. Attempts
  BY TriesAllowed DEF Init, Attempts
<1>2. Lines
  BY DEF Init, Lines
<1>3. Deliveries /\ reruns \in Nat
  BY DEF Init, Deliveries
<1> QED
  BY <1>1, <1>2, <1>3 DEF DataInv

LEMMA RerunsCount ==
    ASSUME reruns \in Nat, [Next]_vars
    PROVE  reruns' \in Nat
<1> USE DEF storeVars, userVars, lineVars, queueVars, taskVars, countVars
<1>1. ASSUME NEW t, RunTweet(t) PROVE reruns' = reruns
  BY <1>1 DEF RunTweet, StoreTweet, StoreObsolete, FanOut, OwnGet, OwnPut, OwnObsolete, Await
<1>2. ASSUME NEW t, RunStart(t) \/ RunStop(t) PROVE reruns' = reruns
  BY <1>2 DEF RunStart, FollowingGet, FollowingPut, FollowersGet, FollowersPut, LineGet, RecentLast,
              RecentRead, LinePut, RunStop, UnfollowersGet, UnfollowersPut, UnfollowingGet,
              UnfollowingPut, RemoveGet, RemovePut, StopObsolete
<1>3. CASE UNCHANGED vars \/ Call
  BY <1>3 DEF vars, Call, BeginTweet, SubmitFollow
<1>4. CASE \E c \in Callers : CallerStep(c) \/ AddFails(c)
  BY <1>1, <1>4 DEF CallerStep, ReserveGet, ReservePut, ReserveObsolete, AddTweet, Return, AddFails
<1>5. CASE \E w \in Workers : WorkerStep(w)
  BY <1>1, <1>2, <1>5 DEF WorkerStep, Take, Finish
<1>6. CASE \/ \E k \in tasks : DeliveryStep(k) \/ DeliveryAborts(k)
           \/ \E t \in Threads : Abort(t)
           \/ Crash
  BY <1>6 DEF DeliveryStep, DeliverGet, DeliverPut, DeliverObsolete, DeliveryAborts, Abort, Crash
<1>7. CASE \E c \in records : Requeue(c)
  BY <1>7 DEF Requeue
<1> QED
  BY <1>3, <1>4, <1>5, <1>6, <1>7 DEF Next

LEMMA DataNext == Inv /\ GraphInv /\ DataInv /\ [Next]_vars => DataInv'
<1> SUFFICES ASSUME Inv, GraphInv, DataInv, [Next]_vars PROVE DataInv'
  OBVIOUS
<1>1. Attempts' /\ reruns' \in Nat
  BY AttemptsNext, RerunsCount DEF DataInv
<1>2. Lines'
  BY LinesNext, NextKeeps DEF DataInv
<1>3. Deliveries'
  BY DeliveriesNext DEF DataInv, GraphInv
<1> QED
  BY <1>1, <1>2, <1>3 DEF DataInv

LEMMA DataAlways == Spec => []DataInv /\ []GraphInv
BY Invariance, GraphInit, GraphNext, DataInit, DataNext, PTL DEF Spec

\* Whatever runs together, dies or is run again, and whoever follows whom: no timeline, and
\* no delivery on its way to one, names a tweet that is not stored (TweetCommand.execute's
\* order of steps, getTweets of StartFollowingCommand, Merger).
THEOREM NothingMissing == Spec => []EntriesExist
<1>1. DataInv => EntriesExist
  <2> SUFFICES ASSUME DataInv PROVE EntriesExist
    OBVIOUS
  <2>1. \A u \in Readers : ToSet(timeline[u]) \subseteq tweets
    BY DEF DataInv, Lines, ToSet
  <2>2. \A k \in tasks : k.tweet \in tweets
    BY DEF DataInv, Deliveries
  <2> QED
    BY <2>1, <2>2 DEF EntriesExist
<1> QED
  BY <1>1, DataAlways, PTL

\* The variables keep their types in every state: no attempt counter passes MaxTries, no
\* index read down from lastTweet is below zero, and every list, delivery and command is
\* well formed (VoldemortTweetService and its commands).
THEOREM TypesHold == Spec => []TypeOK
<1>1. Inv /\ GraphInv /\ DataInv => TypeOK
  <2> SUFFICES ASSUME Inv, GraphInv, DataInv PROVE TypeOK
    OBVIOUS
  <2>1. /\ last \in [Users -> Nat] /\ userVer \in [Users -> Nat]
        /\ lineVer \in [Readers -> Nat] /\ tweets \subseteq Entries
        /\ queue \in Seq(Commands) /\ records \subseteq Commands
        /\ pc \in [Threads -> Pcs] /\ cmd \in [Threads -> Commands \cup {None}]
        /\ ver \in [Threads -> Nat] /\ posts \in Nat /\ followCmds \in Nat
    BY DEF Inv, Shape, StoreShape, QueueShape, ThreadShape, CountShape
  <2>2. acked \subseteq Entries
    BY <2>1 DEF Inv, AckedIsStored
  <2>3. tries \in [Threads -> 0 .. MaxTries] /\ idx \in [Threads -> Nat]
    BY DEF DataInv, Attempts
  <2>4. \A s \in Seq(tweets) : s \in Seq(Entries)
    BY <2>1
  <2>5. timeline \in [Readers -> Seq(Entries)] /\ recent \in [Threads -> Seq(Entries)]
    BY <2>4 DEF DataInv, Lines
  <2>6. \A k \in [tweet : tweets, to : Readers, ver : Nat \cup {-1}] :
           k \in [tweet : Entries, to : Readers, ver : Nat \cup {-1}]
    BY <2>1
  <2>7. /\ tasks \subseteq [tweet : Entries, to : Readers, ver : Nat \cup {-1}]
        /\ lost \subseteq [tweet : Entries, to : Readers]
        /\ reruns \in Nat
    BY <2>6 DEF DataInv, Deliveries
  <2>8. /\ following \in [Users -> (SUBSET Names) \cup {None}]
        /\ followers \in [Users -> (SUBSET Users) \cup {None}]
        /\ calm \in BOOLEAN /\ crashes \in Nat /\ faults \in Nat
    BY DEF GraphInv, FieldsShape
  <2> QED
    BY <2>1, <2>2, <2>3, <2>5, <2>7, <2>8 DEF TypeOK
<1> QED
  BY <1>1, Invariance, DataAlways, PTL


-----------------------------------------------------------------------------
(* What the timelines show, while calls are made one at a time and nothing      *)
(* fails.                                                                       *)

\* No name begins with another one and a dash, so that the removal takes an author's
\* entries only.
PlainNames == \A v, w \in Users : <<v, w>> \notin Extends

\* No merge is cut off: neither the recent tweets it asks for nor the limit of a timeline.
Few == posts <= RecentLimit /\ posts <= MaxInTimeline

MergePcs == {"lineGet", "recentLast", "recentRead", "linePut"}
RemovePcs == {"removeGet", "removePut"}
LinePcs == {"ownPut", "recentLast", "recentRead", "linePut", "removePut"}
WaitPcs == {"ownGet", "ownPut", "await", "return", "finish"}
StorePcs == {"resGet", "resPut", "add", "store"}
TweetsOf(v) == {e \in tweets : e.author = v}

\* A start-following command has read the other's tweets above idx, and at last all of
\* them, unless there are more than it asks for.
ReadDown(t) ==
    /\ pc[t] \in {"recentRead", "linePut"} =>
         ToSet(recent[t]) \subseteq TweetsOf(cmd[t].other) /\ IsInjective(recent[t])
    /\ pc[t] = "recentRead" =>
         /\ cmd[t].other \in Users /\ \A e \in ToSet(recent[t]) : e.idx > idx[t]
         /\ \A e \in TweetsOf(cmd[t].other) : e.idx > idx[t] => e \in ToSet(recent[t])
    /\ pc[t] = "linePut" /\ posts <= RecentLimit => TweetsOf(cmd[t].other) \subseteq ToSet(recent[t])
NothingRead(t) ==
    pc[t] \notin {"recentRead", "linePut", "finish"} => recent[t] = <<>>

\* The timeline a thread is about to put is the one it has read.
LineFresh(t) == pc[t] \in LinePcs => ver[t] = lineVer[cmd[t].user]

\* A follow command that has come to the timeline has changed both sides.
SideDone(t) ==
    /\ pc[t] \in MergePcs => cmd[t].other \in AsSet(following[cmd[t].user])
    /\ pc[t] \in RemovePcs =>
         cmd[t].other \in Users /\ cmd[t].user \notin AsSet(followers[cmd[t].other])

\* A tweet that is being stored is not counted yet, and one that is stored not shown yet.
ToBeStored(t) == pc[t] \in StorePcs => Cardinality(tweets) < posts
NotYetShown(t) ==
    /\ pc[t] = "fan" => \A u \in Readers : Entry(cmd[t]) \notin ToSet(timeline[u])
    /\ pc[t] \in {"ownGet", "ownPut"} => Entry(cmd[t]) \notin ToSet(timeline[cmd[t].user])

FollowsOther(c) == c.op # "tweet" /\ c.user # c.other
OthersCommand(t) == pc[t] # "idle" => cmd[t].op = "tweet" \/ FollowsOther(cmd[t])

BusyRight(t) ==
    /\ ReadDown(t) /\ NothingRead(t) /\ LineFresh(t) /\ SideDone(t)
    /\ ToBeStored(t) /\ NotYetShown(t) /\ OthersCommand(t)

NobodySelf == \A u \in Users : u \notin AsSet(followers[u])

\* While a tweet is delivered its author's call is the only one, and each reader is
\* delivered to once.
DeliveryRight(k) ==
    /\ k.to # k.tweet.author /\ k.ver \in {-1, lineVer[k.to]}
    /\ k.tweet \notin ToSet(timeline[k.to])
    /\ k.to \in Users => k.tweet.author \in AsSet(following[k.to])
    /\ \A j \in tasks : j.to = k.to => j = k
    /\ queue = <<>>
    /\ \A t \in Threads : pc[t] # "idle" => pc[t] \in WaitPcs /\ k.tweet = Entry(cmd[t])

LinesRight ==
    /\ \A u \in Readers : IsInjective(timeline[u]) /\ (lineVer[u] = 0 => timeline[u] = <<>>)
    /\ IsFiniteSet(tweets) /\ Cardinality(tweets) <= posts

\* Thread t is still going to see to it that u is shown e, or to take it away.
Owes(t, e, u) ==
    \/ pc[t] = "fan" /\ e = Entry(cmd[t])
    \/ pc[t] \in {"ownGet", "ownPut"} /\ e = Entry(cmd[t]) /\ u = e.author
    \/ pc[t] \in MergePcs /\ u = cmd[t].user /\ e.author = cmd[t].other
Removes(t, e, u) == pc[t] \in RemovePcs /\ u = cmd[t].user /\ e.author = cmd[t].other

\* Whom a tweet has to reach, and that it has, or will.
Due(e, u) == u = e.author \/ HasFollower(e.author, u)
Has(e, u) == e \in ToSet(timeline[u]) \/ \E k \in tasks : k.tweet = e /\ k.to = u
Reached ==
    Few /\ PlainNames =>
        \A e \in tweets, u \in Users : Due(e, u) => Has(e, u) \/ \E t \in Threads : Owes(t, e, u)

\* Whose tweets a timeline may show.
May(e, u) == e.author = u \/ Follows(u, e.author)
Allowed ==
    \A u \in Users : \A e \in ToSet(timeline[u]) :
        May(e, u) \/ \E t \in Threads : Removes(t, e, u)

AllRight ==
    /\ \A c \in ToSet(queue) : FollowsOther(c)
    /\ \A t \in Threads : BusyRight(t)
    /\ NobodySelf /\ LinesRight
    /\ \A k \in tasks : DeliveryRight(k)
    /\ Reached /\ Allowed
RightInv == Undisturbed => AllRight

-----------------------------------------------------------------------------
(* What the busy thread can rely on, and what is left to show of its steps.      *)

Calm == Inv /\ GraphInv /\ DataInv /\ Undisturbed /\ AllRight

\* What Reached and Allowed say when t alone is busy.
ReachedBy(t) ==
    Few /\ PlainNames => \A e \in tweets, u \in Users : Due(e, u) => Has(e, u) \/ Owes(t, e, u)
AllowedBy(t) ==
    \A u \in Users : \A e \in ToSet(timeline[u]) : May(e, u) \/ Removes(t, e, u)

LEMMA Alone ==
    ASSUME Calm, NEW t \in Threads, pc[t] # "idle"
    PROVE  /\ queue = <<>> /\ \A s \in Threads \ {t} : pc[s] = "idle" /\ recent[s] = <<>>
           /\ cmd[t] \in Commands /\ cmd[t].user \in Users /\ cmd[t].other \in Names
           /\ pc[t] \notin WaitPcs => tasks = {}
           /\ pc[t] \in FollowPcs => t \notin Callers /\ FollowsOther(cmd[t])
           /\ BusyRight(t) /\ ReachedBy(t) /\ AllowedBy(t)
<1>1. OneByOne
  BY DEF Calm, GraphInv
<1>2. queue = <<>> /\ \A s \in Threads \ {t} : pc[s] = "idle"
  BY <1>1 DEF OneByOne
<1>3. \A s \in Threads : BusyRight(s)
  BY DEF Calm, AllRight
<1>4. \A s \in Threads \ {t} : recent[s] = <<>>
  BY <1>2, <1>3 DEF BusyRight, NothingRead
<1>5. cmd[t] \in Commands
  BY DEF Calm, Inv, OnCommand
<1>6. cmd[t].user \in Users /\ cmd[t].other \in Names
  BY <1>5 DEF Commands
<1>7. pc[t] \notin WaitPcs => tasks = {}
  BY DEF Calm, AllRight, DeliveryRight
<1>8. pc[t] \in FollowPcs => t \notin Callers /\ FollowsOther(cmd[t])
  BY <1>3 DEF Calm, Inv, OnCommand, BusyRight, OthersCommand
<1>9. \A s \in Threads : \A e, u : (Owes(s, e, u) => s = t) /\ (Removes(s, e, u) => s = t)
  BY <1>2 DEF Owes, Removes, MergePcs, RemovePcs
<1>10. ReachedBy(t)
  BY <1>9 DEF Calm, AllRight, Reached, ReachedBy
<1>11. AllowedBy(t)
  BY <1>9 DEF Calm, AllRight, Allowed, AllowedBy
<1> QED
  BY <1>2, <1>3, <1>4, <1>5, <1>6, <1>7, <1>8, <1>10, <1>11

\* A step of thread t, which reads and moves for itself only.
Step(t) ==
    /\ OnlyMoves(t) /\ UNCHANGED posts
    /\ \A s \in Threads \ {t} : recent'[s] = recent[s]

LEMMA StepRight ==
    ASSUME Calm, NEW t \in Threads, Step(t),
           BusyRight(t)', NobodySelf', LinesRight', \A k \in tasks' : DeliveryRight(k)',
           ReachedBy(t)', AllowedBy(t)'
    PROVE  AllRight'
<1>1. pc[t] # "idle"
  BY DEF Step, OnlyMoves
<1>2. \A s \in Threads \ {t} : pc'[s] = "idle" /\ recent'[s] = <<>>
  BY <1>1, Alone DEF Step, OnlyMoves, OthersStay
<1>3. queue' = <<>>
  BY <1>1, Alone DEF Step, OnlyMoves
<1>4. \A c \in ToSet(queue)' : FollowsOther(c)
  BY <1>3 DEF ToSet
<1>5. \A s \in Threads : BusyRight(s)'
  <2>1. ASSUME NEW s \in Threads, s # t PROVE BusyRight(s)'
    BY <2>1, <1>2 DEF BusyRight, ReadDown, NothingRead, LineFresh, SideDone, ToBeStored, NotYetShown,
                      OthersCommand, LinePcs, MergePcs, RemovePcs, StorePcs
  <2> QED
    BY <2>1
<1>6. Reached'
  BY DEF Reached, ReachedBy
<1>7. Allowed'
  BY DEF Allowed, AllowedBy
<1> QED
  BY <1>4, <1>5, <1>6, <1>7 DEF AllRight, FollowsOther

\* A step that leaves the timelines, the tweets and both sides of following alone.
LEMMA AsideRight ==
    ASSUME Calm, NEW t \in Threads, Step(t), BusyRight(t)',
           UNCHANGED <<following, followers, tweets, timeline, lineVer, tasks>>,
           tasks # {} /\ pc'[t] # "idle" => pc'[t] \in WaitPcs /\ cmd'[t] = cmd[t],
           \A e \in tweets, u \in Users : Owes(t, e, u) => Owes(t, e, u)',
           \A u \in Users : \A e \in ToSet(timeline[u]) : Removes(t, e, u) => Removes(t, e, u)'
    PROVE  AllRight'
<1>1. pc[t] # "idle"
  BY DEF Step, OnlyMoves
<1>2. /\ queue = <<>> /\ queue' = <<>> /\ posts' = posts
      /\ \A s \in Threads \ {t} : pc'[s] = "idle"
  BY <1>1, Alone DEF Step, OnlyMoves, OthersStay
<1>3. NobodySelf'
  BY DEF NobodySelf, AsSet, Calm, AllRight
<1>4. LinesRight'
  BY <1>2 DEF LinesRight, Calm, AllRight
<1>5. ASSUME NEW k \in tasks' PROVE DeliveryRight(k)'
  <2>1. k \in tasks /\ DeliveryRight(k)
    BY <1>5 DEF Calm, AllRight
  <2>2. pc'[t] # "idle" => pc'[t] \in WaitPcs /\ k.tweet = Entry(cmd'[t])
    BY <1>1, <2>1 DEF DeliveryRight
  <2> QED
    BY <1>2, <2>1, <2>2 DEF DeliveryRight, AsSet, Entry
<1>6. ReachedBy(t)'
  <2>1. \A e, u : Due(e, u)' = Due(e, u) /\ Has(e, u)' = Has(e, u)
    BY DEF Due, Has, HasFollower, AsSet
  <2> QED
    BY <1>1, <1>2, <2>1, Alone DEF ReachedBy, Few
<1>7. AllowedBy(t)'
  <2>1. \A e, u : May(e, u)' = May(e, u)
    BY DEF May, Follows, AsSet
  <2> QED
    BY <1>1, <2>1, Alone DEF AllowedBy
<1> QED
  BY <1>3, <1>4, <1>5, <1>6, <1>7, StepRight

\* A step of a thread that has no timeline to see to, before or after.
OwingPcs == {"fan", "ownGet", "ownPut"} \cup MergePcs
LEMMA PlainStep ==
    ASSUME Calm, NEW t \in Threads, Step(t),
           UNCHANGED <<following, followers, tweets, timeline, lineVer, tasks>>,
           pc[t] \notin OwingPcs \cup RemovePcs,
           \/ pc'[t] = "idle" /\ recent'[t] = <<>>
           \/ /\ pc'[t] \in StorePcs \cup {"await", "return", "finish"}
              /\ pc'[t] \in StorePcs => pc[t] \in StorePcs
              /\ recent'[t] = recent[t] /\ pc[t] # "finish"
              /\ \/ cmd'[t] = cmd[t] /\ (pc[t] \in WaitPcs => pc'[t] \in WaitPcs)
                 \/ pc[t] \in StorePcs /\ cmd'[t].op = "tweet"
    PROVE  AllRight'
<1>1. pc[t] # "idle" /\ posts' = posts
  BY DEF Step, OnlyMoves
<1>2. BusyRight(t)'
  <2>1. NothingRead(t)'
    BY <1>1, Alone DEF NothingRead, BusyRight, OwingPcs, MergePcs
  <2>2. ToBeStored(t)'
    BY <1>1, Alone DEF ToBeStored, BusyRight, StorePcs
  <2>3. OthersCommand(t)'
    BY <1>1, Alone DEF OthersCommand, BusyRight, FollowsOther
  <2>4. ReadDown(t)' /\ LineFresh(t)' /\ SideDone(t)' /\ NotYetShown(t)'
    BY DEF ReadDown, LineFresh, SideDone, NotYetShown, LinePcs, MergePcs, RemovePcs, StorePcs
  <2> QED
    BY <2>1, <2>2, <2>3, <2>4 DEF BusyRight
<1>3. tasks # {} /\ pc'[t] # "idle" => pc'[t] \in WaitPcs /\ cmd'[t] = cmd[t]
  BY <1>1, Alone DEF WaitPcs, StorePcs
<1>4. \A e, u : ~Owes(t, e, u) /\ ~Removes(t, e, u)
  BY DEF Owes, Removes, OwingPcs
<1> QED
  BY <1>2, <1>3, <1>4, AsideRight

\* The caller's steps, but for those of the command.
LEMMA CallerRight ==
    ASSUME Calm, NEW c \in Callers,
           ReserveGet(c) \/ ReservePut(c) \/ ReserveObsolete(c) \/ AddTweet(c) \/ Return(c)
    PROVE  AllRight'
<1> USE DEF At, Goto, storeVars, userVars, lineVars, queueVars, taskVars, countVars
<1>1. c \in Threads /\ pc[c] \in {"resGet", "resPut", "add", "return"}
  BY Constants DEF ReserveGet, ReservePut, ReserveObsolete, AddTweet, Return
<1>2. recent \in [Threads -> Seq(tweets)] /\ cmd[c] \in Commands /\ cmd[c].op = "tweet"
  BY <1>1 DEF Calm, DataInv, Lines, Inv, OnCommand
<1>3. /\ UNCHANGED <<following, followers, tweets, timeline, lineVer, tasks, queue, calm,
                     crashes, faults, posts>>
      /\ OthersStay(c) /\ \A s \in Threads \ {c} : recent'[s] = recent[s]
  BY <1>1, <1>2 DEF ReserveGet, ReservePut, ReserveObsolete, AddTweet, Return, Leave,
                    OthersStay, Calm, Inv, Shape, ThreadShape
<1>4. Step(c)
  BY <1>1, <1>3 DEF Step, OnlyMoves
<1>5. CASE pc[c] = "return" \/ pc'[c] = "idle"
  <2>1. pc'[c] = "idle" /\ recent'[c] = <<>>
    BY <1>1, <1>2, <1>5 DEF ReserveGet, ReservePut, ReserveObsolete, AddTweet, Return, Leave,
                            Calm, Inv, Shape, ThreadShape
  <2> QED
    BY <1>1, <1>3, <1>4, <2>1, PlainStep DEF OwingPcs, MergePcs, RemovePcs
<1>6. CASE pc[c] # "return" /\ pc'[c] # "idle"
  <2>1. pc'[c] \in StorePcs /\ recent'[c] = recent[c] /\ cmd'[c].op = "tweet"
    BY <1>1, <1>2, <1>6 DEF ReserveGet, ReservePut, ReserveObsolete, AddTweet, Return, Leave,
                            Calm, Inv, Shape, ThreadShape, StorePcs, Commands
  <2> QED
    BY <1>1, <1>3, <1>4, <1>6, <2>1, PlainStep DEF OwingPcs, MergePcs, RemovePcs, StorePcs
<1> QED
  BY <1>5, <1>6

-----------------------------------------------------------------------------
(* The steps of a tweet.                                                        *)

\* What the steps of a tweet have in common.
LEMMA TweetMoves ==
    ASSUME Calm, NEW t \in Threads, RunTweet(t)
    PROVE  /\ Step(t) /\ UNCHANGED <<following, followers, cmd, recent>>
           /\ pc[t] # "idle" /\ cmd[t].op = "tweet" /\ Entry(cmd[t]) \in Entries
           /\ Entry(cmd[t]).author = cmd[t].user
<1> USE DEF At, Goto, storeVars, userVars, lineVars, queueVars, taskVars, countVars
<1>1. pc[t] \in TweetPcs /\ cmd[t] \in Commands /\ cmd[t].op = "tweet"
  BY DEF RunTweet, StoreTweet, StoreObsolete, FanOut, OwnGet, OwnPut, OwnObsolete, Await,
         Calm, Inv, OnCommand, TweetPcs
<1>2. PICK p \in Pcs :
        /\ pc' = [pc EXCEPT ![t] = p]
        /\ UNCHANGED <<cmd, idx, recent, following, followers, queue, calm, crashes, faults, posts>>
        /\ ver' = ver \/ ver' = [ver EXCEPT ![t] = lineVer[cmd[t].user]]
  BY <1>1 DEF RunTweet, StoreTweet, StoreObsolete, FanOut, OwnGet, OwnPut, OwnObsolete, Await,
              Again, AfterRun, StartOf, ReadLine, Pcs
<1>3. Step(t)
  BY <1>1, <1>2 DEF Step, OnlyMoves, OthersStay, TweetPcs, Calm, Inv, Shape, ThreadShape
<1> QED
  BY <1>1, <1>2, <1>3 DEF TweetPcs, Entry, Entries, Commands

\* The tweet is stored: it has to reach everybody, and is shown to nobody.
LEMMA StoreTweetRight ==
    ASSUME Calm, NEW t \in Threads, StoreTweet(t)
    PROVE  AllRight'
<1> DEFINE e == Entry(cmd[t])
<1>1. /\ pc[t] = "store" /\ pc' = [pc EXCEPT ![t] = "fan"] /\ tweets' = tweets \cup {e}
      /\ UNCHANGED <<timeline, lineVer, tasks, cmd>>
      /\ StoredUnder(cmd[t].user, cmd[t].idx) = {}
  BY DEF StoreTweet, At, Goto, lineVars, taskVars, userVars
<1>2. /\ Step(t) /\ UNCHANGED <<following, followers, cmd, recent>>
      /\ e \in Entries /\ cmd[t].op = "tweet"
  BY TweetMoves DEF RunTweet
<1>3. pc'[t] = "fan" /\ posts' = posts
  BY <1>1, <1>2 DEF Step, Calm, Inv, Shape, ThreadShape
<1>4. e \notin tweets
  BY <1>1 DEF StoredUnder, Entry
<1>5. /\ tasks = {} /\ BusyRight(t) /\ ReachedBy(t) /\ AllowedBy(t)
  BY <1>1, Alone DEF WaitPcs
<1>6. \A u \in Readers : ToSet(timeline[u]) \subseteq tweets
  BY DEF Calm, DataInv, Lines, ToSet
<1>7. BusyRight(t)'
  <2>1. NotYetShown(t)'
    BY <1>1, <1>3, <1>4, <1>6 DEF NotYetShown, Entry
  <2>2. NothingRead(t)' /\ OthersCommand(t)'
    BY <1>1, <1>2, <1>3, <1>5 DEF BusyRight, NothingRead, OthersCommand
  <2>3. ReadDown(t)' /\ LineFresh(t)' /\ SideDone(t)' /\ ToBeStored(t)'
    BY <1>3 DEF ReadDown, LineFresh, SideDone, ToBeStored, LinePcs, MergePcs, RemovePcs, StorePcs
  <2> QED
    BY <2>1, <2>2, <2>3 DEF BusyRight
<1>8. NobodySelf'
  BY <1>2 DEF NobodySelf, AsSet, Calm, AllRight
<1>9. LinesRight'
  <2>1. IsFiniteSet(tweets) /\ Cardinality(tweets) < posts
    BY <1>1, <1>5 DEF Calm, AllRight, LinesRight, BusyRight, ToBeStored, StorePcs
  <2>2. IsFiniteSet(tweets') /\ Cardinality(tweets') = Cardinality(tweets) + 1
    BY <1>1, <1>4, <2>1, FS_AddElement
  <2>3. Cardinality(tweets) \in Nat /\ posts \in Nat
    BY <2>1, FS_CardinalityType DEF Calm, Inv, Shape, CountShape
  <2>4. Cardinality(tweets') <= posts'
    BY <1>3, <2>1, <2>2, <2>3
  <2> QED
    BY <1>1, <2>2, <2>4 DEF LinesRight, Calm, AllRight
<1>10. ReachedBy(t)'
  <2>1. \A d, u : Due(d, u)' = Due(d, u) /\ Has(d, u)' = Has(d, u) /\ ~Owes(t, d, u)
    BY <1>1, <1>2 DEF Due, Has, HasFollower, AsSet, Owes, MergePcs
  <2>2. \A u : Owes(t, e, u)'
    BY <1>1, <1>3 DEF Owes, Entry
  <2>3. Few' => Few
    BY <1>3 DEF Few
  <2> QED
    BY <1>1, <1>5, <2>1, <2>2, <2>3 DEF ReachedBy
<1>11. AllowedBy(t)'
  <2>1. \A d, u : May(d, u)' = May(d, u) /\ ~Removes(t, d, u)
    BY <1>1, <1>2 DEF May, Follows, AsSet, Removes, RemovePcs
  <2> QED
    BY <1>1, <1>5, <2>1 DEF AllowedBy
<1> QED
  BY <1>1, <1>2, <1>5, <1>7, <1>8, <1>9, <1>10, <1>11, StepRight

\* The followers are read: a delivery for each, and the author's own timeline is left.
LEMMA FanOutRight ==
    ASSUME Calm, NEW t \in Threads, FanOut(t)
    PROVE  AllRight'
<1> DEFINE e == Entry(cmd[t])
           a == cmd[t].user
<1>1. /\ pc[t] = "fan" /\ pc' = [pc EXCEPT ![t] = "ownGet"]
      /\ tasks' = tasks \cup {[tweet |-> e, to |-> f, ver |-> -1] : f \in AsSet(followers[a])}
      /\ UNCHANGED <<tweets, timeline, lineVer, cmd>>
  BY DEF FanOut, At, Goto, lineVars, storeVars
<1>2. /\ Step(t) /\ UNCHANGED <<following, followers, cmd, recent>>
      /\ e \in Entries /\ e.author = a /\ cmd[t].op = "tweet"
  BY TweetMoves DEF RunTweet
<1>3. pc'[t] = "ownGet" /\ posts' = posts
  BY <1>1, <1>2 DEF Step, Calm, Inv, Shape, ThreadShape
<1>4. /\ tasks = {} /\ BusyRight(t) /\ ReachedBy(t) /\ AllowedBy(t) /\ a \in Users
      /\ queue = <<>> /\ \A s \in Threads \ {t} : pc[s] = "idle"
  BY <1>1, Alone DEF WaitPcs
<1>5. \A u \in Readers : e \notin ToSet(timeline[u])
  BY <1>1, <1>4 DEF BusyRight, NotYetShown
<1>6. BusyRight(t)'
  <2>1. NotYetShown(t)'
    BY <1>1, <1>3, <1>4, <1>5, Constants DEF NotYetShown, Entry
  <2>2. NothingRead(t)' /\ OthersCommand(t)'
    BY <1>1, <1>2, <1>3, <1>4 DEF BusyRight, NothingRead, OthersCommand
  <2>3. ReadDown(t)' /\ LineFresh(t)' /\ SideDone(t)' /\ ToBeStored(t)'
    BY <1>3 DEF ReadDown, LineFresh, SideDone, ToBeStored, LinePcs, MergePcs, RemovePcs, StorePcs
  <2> QED
    BY <2>1, <2>2, <2>3 DEF BusyRight
<1>7. NobodySelf'
  BY <1>2 DEF NobodySelf, AsSet, Calm, AllRight
<1>8. LinesRight'
  BY <1>1, <1>3 DEF LinesRight, Calm, AllRight
<1>9. ASSUME NEW k \in tasks' PROVE DeliveryRight(k)'
  <2>1. PICK f \in AsSet(followers[a]) : k = [tweet |-> e, to |-> f, ver |-> -1]
    BY <1>1, <1>4
  <2>2. f # a
    BY <1>4 DEF Calm, AllRight, NobodySelf
  <2>3. f \in Readers
    <3>1. followers[a] \in (SUBSET Users) \cup {None}
      BY <1>4 DEF Calm, GraphInv, FieldsShape
    <3> QED
      BY <3>1 DEF AsSet, Readers
  <2>4. f \in Users => a \in AsSet(following[f])
    BY <1>1, <1>4 DEF Calm, GraphInv, SidesAgree, Between, Follows, HasFollower
  <2>5. \A j \in tasks' : j.to = k.to => j = k
    BY <1>1, <1>4, <2>1
  <2>6. queue' = <<>> /\ \A s \in Threads : pc'[s] # "idle" => pc'[s] \in WaitPcs /\ k.tweet = Entry(cmd'[s])
    BY <1>2, <1>3, <1>4, <2>1 DEF Step, OnlyMoves, OthersStay, WaitPcs
  <2>7. k.to = f /\ k.tweet = e /\ k.ver = -1
    BY <2>1
  <2> HIDE DEF e, a
  <2> QED
    BY <1>1, <1>2, <1>5, <2>2, <2>3, <2>4, <2>5, <2>6, <2>7 DEF DeliveryRight, AsSet, Entry
<1>10. ReachedBy(t)'
  <2>1. \A d, u : Due(d, u)' = Due(d, u) /\ (Has(d, u) => Has(d, u)')
    BY <1>1, <1>2, <1>4 DEF Due, Has, HasFollower, AsSet
  <2>2. ASSUME NEW d, NEW u, Owes(t, d, u) PROVE d = e
    BY <1>1, <2>2 DEF Owes, MergePcs
  <2>3. ASSUME NEW u \in Users, Due(e, u) PROVE Has(e, u)' \/ Owes(t, e, u)'
    <3>1. CASE u = a
      BY <1>1, <1>2, <1>3, <3>1 DEF Owes, Entry
    <3>2. CASE u \in AsSet(followers[a])
      <4> DEFINE k == [tweet |-> e, to |-> u, ver |-> -1]
      <4>1. k \in tasks' /\ k.tweet = e /\ k.to = u
        BY <1>1, <3>2
      <4> QED
        BY <1>1, <4>1 DEF Has, Entry
    <3> QED
      BY <1>2, <2>3, <3>1, <3>2 DEF Due, HasFollower
  <2>4. Few' => Few
    BY <1>3 DEF Few
  <2> QED
    BY <1>1, <1>4, <2>1, <2>2, <2>3, <2>4 DEF ReachedBy
<1>11. AllowedBy(t)'
  <2>1. \A d, u : May(d, u)' = May(d, u) /\ ~Removes(t, d, u)
    BY <1>1, <1>2 DEF May, Follows, AsSet, Removes, RemovePcs
  <2> QED
    BY <1>1, <1>4, <2>1 DEF AllowedBy
<1> QED
  BY <1>2, <1>6, <1>7, <1>8, <1>9, <1>10, <1>11, StepRight

\* The author's own timeline is put; the deliveries go to others.
LEMMA OwnPutRight ==
    ASSUME Calm, NEW t \in Threads, OwnPut(t)
    PROVE  AllRight'
<1> DEFINE a == cmd[t].user
           e == Entry(cmd[t])
           new == InsertTweet(timeline[a], e)
<1>1. /\ pc[t] = "ownPut" /\ pc' = [pc EXCEPT ![t] = "await"]
      /\ timeline' = [timeline EXCEPT ![a] = new] /\ lineVer' = Bump(lineVer, a)
      /\ UNCHANGED <<tweets, tasks, cmd>>
  BY DEF OwnPut, At, Goto, PutLine, taskVars
<1>2. /\ Step(t) /\ UNCHANGED <<following, followers, cmd, recent>>
      /\ e \in Entries /\ e.author = a /\ cmd[t].op = "tweet"
  BY TweetMoves DEF RunTweet
<1>3. pc'[t] = "await" /\ posts' = posts
  BY <1>1, <1>2 DEF Step, Calm, Inv, Shape, ThreadShape
<1>4. /\ BusyRight(t) /\ ReachedBy(t) /\ AllowedBy(t) /\ a \in Users /\ a \in Readers
      /\ queue = <<>> /\ \A s \in Threads \ {t} : pc[s] = "idle"
  BY <1>1, Alone, Constants
<1>5. e \notin ToSet(timeline[a])
  BY <1>1, <1>4 DEF BusyRight, NotYetShown
<1>6. /\ timeline[a] \in Seq(tweets) /\ e \in tweets /\ IsInjective(timeline[a])
      /\ lineVer \in [Readers -> Nat] /\ timeline \in [Readers -> Seq(tweets)]
  BY <1>1, <1>2, <1>4 DEF Calm, DataInv, Lines, Inv, PastStore, AllRight, LinesRight, Shape, StoreShape
<1>7. ToSet(new) = ToSet(timeline[a]) \cup {e} /\ IsInjective(new)
  BY <1>5, <1>6, InsertTweetKeeps
<1> HIDE DEF a, e, new
<1>8. /\ timeline'[a] = new /\ lineVer'[a] = lineVer[a] + 1
      /\ \A u \in Readers : u # a => timeline'[u] = timeline[u] /\ lineVer'[u] = lineVer[u]
  BY <1>1, <1>4, <1>6 DEF Bump
<1>9. \A u \in Users : u \in Readers
  BY Constants
<1>10. BusyRight(t)'
  <2>1. NothingRead(t)' /\ OthersCommand(t)'
    BY <1>1, <1>2, <1>3, <1>4 DEF BusyRight, NothingRead, OthersCommand
  <2>2. /\ ReadDown(t)' /\ LineFresh(t)' /\ SideDone(t)' /\ ToBeStored(t)'
        /\ NotYetShown(t)'
    BY <1>3 DEF ReadDown, LineFresh, SideDone, ToBeStored, NotYetShown, LinePcs, MergePcs, RemovePcs, StorePcs
  <2> QED
    BY <2>1, <2>2 DEF BusyRight
<1>11. NobodySelf'
  BY <1>2 DEF NobodySelf, AsSet, Calm, AllRight
<1>12. LinesRight'
  <2>1. lineVer[a] + 1 # 0
    BY <1>4, <1>6
  <2>2. \A u \in Readers : IsInjective(timeline'[u]) /\ (lineVer'[u] = 0 => timeline'[u] = <<>>)
    BY <1>7, <1>8, <2>1 DEF LinesRight, Calm, AllRight
  <2> QED
    BY <1>1, <1>3, <2>2 DEF LinesRight, Calm, AllRight
<1>13. ASSUME NEW k \in tasks' PROVE DeliveryRight(k)'
  <2>1. k \in tasks /\ DeliveryRight(k)
    BY <1>1, <1>13 DEF Calm, AllRight
  <2>2. k.to \in Readers
    BY <2>1 DEF Calm, DataInv, Deliveries
  <2>3. k.to # a
    BY <1>1, <1>2, <2>1 DEF DeliveryRight, e
  <2>4. \A s \in Threads : pc'[s] # "idle" => pc'[s] \in WaitPcs /\ k.tweet = Entry(cmd'[s])
    BY <1>1, <1>2, <1>3, <1>4, <2>1 DEF Step, OnlyMoves, OthersStay, WaitPcs, DeliveryRight, Entry
  <2>5. queue' = <<>>
    BY <1>2, <1>4 DEF Step, OnlyMoves
  <2> QED
    BY <1>1, <1>2, <1>8, <2>1, <2>2, <2>3, <2>4, <2>5 DEF DeliveryRight, AsSet
<1>14. ReachedBy(t)'
  <2>1. \A d, u : Due(d, u)' = Due(d, u)
    BY <1>2 DEF Due, HasFollower, AsSet
  <2>2. ASSUME NEW d, NEW u \in Users, Has(d, u) PROVE Has(d, u)'
    <3>1. ToSet(timeline[u]) \subseteq ToSet(timeline'[u])
      BY <1>7, <1>8, <1>9
    <3> QED
      BY <1>1, <2>2, <3>1 DEF Has, ToSet
  <2>3. ASSUME NEW d, NEW u \in Users, Owes(t, d, u) PROVE Has(d, u)'
    <3>1. d = e /\ u = a
      BY <1>1, <1>2, <2>3 DEF Owes, MergePcs, e
    <3>2. d \in ToSet(timeline'[u])
      BY <1>7, <1>8, <3>1
    <3> QED
      BY <3>2 DEF Has, ToSet
  <2>4. Few' => Few
    BY <1>3 DEF Few
  <2> QED
    BY <1>1, <1>4, <2>1, <2>2, <2>3, <2>4 DEF ReachedBy
<1>15. AllowedBy(t)'
  <2>1. \A d, u : May(d, u)' = May(d, u) /\ ~Removes(t, d, u)
    BY <1>1, <1>2 DEF May, Follows, AsSet, Removes, RemovePcs
  <2>2. ASSUME NEW u \in Users, NEW d \in ToSet(timeline'[u]) PROVE May(d, u)
    <3>1. d \in ToSet(timeline[u]) \/ (d = e /\ u = a)
      BY <1>7, <1>8, <1>9
    <3> QED
      BY <1>2, <1>4, <2>1, <3>1 DEF AllowedBy, May
  <2>3. \A u \in Users : \A d \in ToSet(timeline'[u]) : May(d, u)'
    BY <2>1, <2>2
  <2> QED
    BY <2>3 DEF AllowedBy, ToSet
<1> QED
  BY <1>2, <1>10, <1>11, <1>12, <1>13, <1>14, <1>15, StepRight

LEMMA TweetRight ==
    ASSUME Calm, NEW t \in Threads, RunTweet(t)
    PROVE  AllRight'
<1> USE DEF At, Goto, storeVars, userVars, lineVars, queueVars, taskVars, countVars
<1>1. /\ Step(t) /\ UNCHANGED <<following, followers, cmd, recent>>
      /\ pc[t] # "idle" /\ cmd[t].op = "tweet"
  BY TweetMoves
<1>2. BusyRight(t) /\ cmd[t].user \in Users /\ pc \in [Threads -> Pcs] /\ posts' = posts
  BY <1>1, Alone DEF Calm, Inv, Shape, ThreadShape, Step
<1>3. CASE StoreObsolete(t) \/ Await(t)
  <2>1. /\ pc[t] \in {"store", "await"} /\ UNCHANGED <<tweets, timeline, lineVer, tasks>>
        /\ pc'[t] \in {"store", "return", "finish"} /\ (pc'[t] = "store" => pc[t] = "store")
    BY <1>1, <1>2, <1>3 DEF StoreObsolete, Await, Again, AfterRun, StartOf
  <2> QED
    BY <1>1, <2>1, PlainStep DEF OwingPcs, MergePcs, RemovePcs, StorePcs, WaitPcs
<1>4. CASE OwnGet(t)
  <2>1. /\ pc[t] = "ownGet" /\ pc'[t] = "ownPut" /\ UNCHANGED <<tweets, timeline, lineVer, tasks>>
        /\ ver'[t] = lineVer[cmd[t].user]
    BY <1>2, <1>4 DEF OwnGet, ReadLine, Calm, Inv, Shape, ThreadShape
  <2>2. BusyRight(t)'
    <3>1. NothingRead(t)' /\ OthersCommand(t)' /\ NotYetShown(t)' /\ LineFresh(t)'
      BY <1>1, <1>2, <2>1 DEF BusyRight, NothingRead, OthersCommand, NotYetShown, LineFresh, Entry
    <3>2. ReadDown(t)' /\ SideDone(t)' /\ ToBeStored(t)'
      BY <2>1 DEF ReadDown, SideDone, ToBeStored, MergePcs, RemovePcs, StorePcs
    <3> QED
      BY <3>1, <3>2 DEF BusyRight
  <2>3. \A e, u : (Owes(t, e, u) => Owes(t, e, u)') /\ ~Removes(t, e, u)
    BY <1>1, <2>1 DEF Owes, Removes, MergePcs, RemovePcs, Entry
  <2> QED
    BY <1>1, <2>1, <2>2, <2>3, AsideRight DEF WaitPcs
<1>5. ~OwnObsolete(t)
  BY <1>2 DEF OwnObsolete, BusyRight, LineFresh, LinePcs
<1> QED
  BY <1>3, <1>4, <1>5, StoreTweetRight, FanOutRight, OwnPutRight DEF RunTweet

-----------------------------------------------------------------------------
(* The deliveries.                                                              *)

\* A delivery's step: the author's call goes on, if it has not returned, and its timeline
\* is not the one that is delivered to.
LEMMA BesideRight ==
    ASSUME Calm, NEW k \in tasks,
           UNCHANGED <<queue, pc, cmd, ver, idx, recent, following, followers, tweets, posts>>,
           \A u \in Readers : u # k.to => timeline'[u] = timeline[u] /\ lineVer'[u] = lineVer[u],
           LinesRight', \A j \in tasks' : DeliveryRight(j)',
           \A e \in tweets, u \in Users : Has(e, u) => Has(e, u)',
           \A u \in Users : \A e \in ToSet(timeline'[u]) : e \in ToSet(timeline[u]) \/ May(e, u)
    PROVE  AllRight'
<1>1. DeliveryRight(k)
  BY DEF Calm, AllRight
<1>2. ASSUME NEW t \in Threads PROVE BusyRight(t)'
  <2>1. BusyRight(t)
    BY DEF Calm, AllRight
  <2>2. pc[t] # "idle" => /\ pc[t] \in WaitPcs /\ cmd[t].user \in Readers /\ cmd[t].user # k.to
    <3>1. pc[t] # "idle" => pc[t] \in WaitPcs /\ cmd[t] \in Commands
      BY <1>1 DEF DeliveryRight, Calm, Inv, OnCommand
    <3>2. pc[t] # "idle" => k.tweet.author = cmd[t].user
      <4>1. pc[t] # "idle" => k.tweet = Entry(cmd[t])
        BY <1>1 DEF DeliveryRight
      <4>2. Entry(cmd[t]).author = cmd[t].user
        BY DEF Entry
      <4> QED
        BY <4>1, <4>2
    <3>3. k.to # k.tweet.author
      BY <1>1 DEF DeliveryRight
    <3> QED
      BY <3>1, <3>2, <3>3, Constants DEF Commands
  <2>3. NothingRead(t)' /\ OthersCommand(t)' /\ NotYetShown(t)' /\ LineFresh(t)'
    BY <2>1, <2>2 DEF BusyRight, NothingRead, OthersCommand, NotYetShown, LineFresh, FollowsOther,
                      Entry, WaitPcs, LinePcs
  <2>4. ReadDown(t)' /\ SideDone(t)' /\ ToBeStored(t)'
    BY <2>2 DEF ReadDown, SideDone, ToBeStored, WaitPcs, MergePcs, RemovePcs, StorePcs
  <2> QED
    BY <2>3, <2>4 DEF BusyRight
<1>3. NobodySelf' /\ \A c \in ToSet(queue)' : FollowsOther(c)
  BY DEF NobodySelf, AsSet, Calm, AllRight, ToSet
<1>4. Reached'
  <2>1. \A e, u : Due(e, u)' = Due(e, u) /\ \A t \in Threads : Owes(t, e, u)' = Owes(t, e, u)
    BY DEF Due, HasFollower, AsSet, Owes, Entry
  <2>2. Few' = Few
    BY DEF Few
  <2> QED
    BY <2>1, <2>2 DEF Reached, Calm, AllRight
<1>5. Allowed'
  <2>1. \A e, u : May(e, u)' = May(e, u) /\ \A t \in Threads : Removes(t, e, u)' = Removes(t, e, u)
    BY DEF May, Follows, AsSet, Removes
  <2>2. \A u \in Users : \A e \in ToSet(timeline[u]) : May(e, u) \/ \E t \in Threads : Removes(t, e, u)
    BY DEF Calm, AllRight, Allowed
  <2>3. \A u \in Users : \A e \in ToSet(timeline'[u]) : May(e, u)' \/ \E t \in Threads : Removes(t, e, u)'
    BY <2>1, <2>2
  <2> QED
    BY <2>3 DEF Allowed, ToSet
<1> QED
  BY <1>2, <1>3, <1>4, <1>5 DEF AllRight, FollowsOther

LEMMA DeliverGetRight ==
    ASSUME Calm, NEW k \in tasks, DeliverGet(k)
    PROVE  AllRight'
<1> DEFINE r == [k EXCEPT !.ver = lineVer[k.to]]
<1>1. /\ tasks' = (tasks \ {k}) \cup {r}
      /\ UNCHANGED <<queue, pc, cmd, ver, idx, recent, following, followers, tweets, posts,
                     timeline, lineVer>>
  BY DEF DeliverGet, storeVars, userVars, lineVars, queueVars, countVars
<1>2. DeliveryRight(k) /\ k \in [tweet : tweets, to : Readers, ver : Nat \cup {-1}]
  BY DEF Calm, AllRight, DataInv, Deliveries
<1>3. r.tweet = k.tweet /\ r.to = k.to /\ r.ver = lineVer[k.to]
  BY <1>2
<1> HIDE DEF r
<1>4. ASSUME NEW j \in tasks' PROVE DeliveryRight(j)'
  <2>1. PICK i \in tasks : i.tweet = j.tweet /\ i.to = j.to /\ j.ver \in {i.ver, lineVer[j.to]}
    BY <1>1, <1>3, <1>4
  <2>2. DeliveryRight(i)
    BY DEF Calm, AllRight
  <2>3. \A l \in tasks' : l.to = j.to => l = j
    <3>1. ASSUME NEW l \in tasks', l.to = j.to PROVE l = j
      BY <1>1, <1>2, <1>3, <1>4, <3>1, <2>1, <2>2 DEF DeliveryRight
    <3> QED
      BY <3>1
  <2> QED
    BY <1>1, <2>1, <2>2, <2>3 DEF DeliveryRight, AsSet, Entry
<1>5. LinesRight'
  BY <1>1 DEF LinesRight, Calm, AllRight
<1>6. \A e, u : Has(e, u) => Has(e, u)'
  BY <1>1, <1>3 DEF Has
<1> QED
  BY <1>1, <1>4, <1>5, <1>6, BesideRight

LEMMA DeliverPutRight ==
    ASSUME Calm, NEW k \in tasks, DeliverPut(k)
    PROVE  AllRight'
<1> DEFINE new == InsertTweet(timeline[k.to], k.tweet)
<1>1. /\ tasks' = tasks \ {k}
      /\ timeline' = [timeline EXCEPT ![k.to] = new] /\ lineVer' = Bump(lineVer, k.to)
      /\ UNCHANGED <<queue, pc, cmd, ver, idx, recent, following, followers, tweets, posts>>
  BY DEF DeliverPut, PutLine, userVars, queueVars, countVars
<1>2. DeliveryRight(k) /\ k.tweet \in tweets /\ k.to \in Readers
  BY DEF Calm, AllRight, DataInv, Deliveries
<1>3. /\ timeline[k.to] \in Seq(tweets) /\ IsInjective(timeline[k.to])
      /\ k.tweet \notin ToSet(timeline[k.to])
      /\ lineVer \in [Readers -> Nat] /\ timeline \in [Readers -> Seq(tweets)]
  BY <1>2 DEF Calm, DataInv, Lines, Inv, Shape, StoreShape, AllRight, LinesRight, DeliveryRight
<1>4. ToSet(new) = ToSet(timeline[k.to]) \cup {k.tweet} /\ IsInjective(new)
  BY <1>2, <1>3, InsertTweetKeeps
<1> HIDE DEF new
<1>5. /\ timeline'[k.to] = new /\ lineVer'[k.to] = lineVer[k.to] + 1
      /\ \A u \in Readers : u # k.to => timeline'[u] = timeline[u] /\ lineVer'[u] = lineVer[u]
  BY <1>1, <1>2, <1>3 DEF Bump
<1>6. LinesRight'
  <2>1. lineVer[k.to] + 1 # 0
    BY <1>2, <1>3
  <2>2. \A u \in Readers : IsInjective(timeline'[u]) /\ (lineVer'[u] = 0 => timeline'[u] = <<>>)
    BY <1>4, <1>5, <2>1 DEF LinesRight, Calm, AllRight
  <2> QED
    BY <1>1, <2>2 DEF LinesRight, Calm, AllRight
<1>7. ASSUME NEW j \in tasks' PROVE DeliveryRight(j)'
  <2>1. j \in tasks /\ DeliveryRight(j) /\ j.to \in Readers /\ j # k
    BY <1>1, <1>7 DEF Calm, AllRight, DataInv, Deliveries
  <2>2. j.to # k.to
    BY <1>2, <2>1 DEF DeliveryRight
  <2> QED
    BY <1>1, <1>5, <2>1, <2>2 DEF DeliveryRight, AsSet, Entry
<1>8. ASSUME NEW e, NEW u \in Users, Has(e, u) PROVE Has(e, u)'
  <2>1. CASE e \in ToSet(timeline[u])
    <3>1. e \in ToSet(timeline'[u])
      BY <1>4, <1>5, <2>1, Constants
    <3> QED
      BY <3>1 DEF Has, ToSet
  <2>2. CASE k.tweet = e /\ k.to = u
    <3>1. e \in ToSet(timeline'[u])
      BY <1>4, <1>5, <2>2
    <3> QED
      BY <3>1 DEF Has, ToSet
  <2>3. CASE \E j \in tasks \ {k} : j.tweet = e /\ j.to = u
    BY <1>1, <2>3 DEF Has
  <2> QED
    BY <1>8, <2>1, <2>2, <2>3 DEF Has
<1>9. ASSUME NEW u \in Users, NEW e \in ToSet(timeline'[u])
      PROVE  e \in ToSet(timeline[u]) \/ May(e, u)
  <2>1. e \in ToSet(timeline[u]) \/ (e = k.tweet /\ u = k.to)
    BY <1>4, <1>5, Constants
  <2> QED
    BY <1>2, <2>1 DEF May, Follows, DeliveryRight
<1> QED
  BY <1>1, <1>5, <1>6, <1>7, <1>8, <1>9, BesideRight

LEMMA DeliveryStepRight ==
    ASSUME Calm, NEW k \in tasks, DeliveryStep(k)
    PROVE  AllRight'
<1>1. ~DeliverObsolete(k)
  BY DEF DeliverObsolete, Calm, AllRight, DeliveryRight
<1> QED
  BY <1>1, DeliverGetRight, DeliverPutRight DEF DeliveryStep

-----------------------------------------------------------------------------
(* The steps of a follow command.                                               *)

\* What they have in common.
LEMMA StartMoves ==
    ASSUME Calm, NEW t \in Threads, RunStart(t)
    PROVE  /\ Step(t) /\ UNCHANGED <<cmd, tweets, tasks, posts>>
           /\ pc[t] \in FollowPcs /\ pc[t] # "idle" /\ AfterRun(t) = "finish" /\ tasks = {}
<1> USE DEF At, Goto, storeVars, userVars, lineVars, queueVars, taskVars, countVars
<1>1. /\ pc[t] \in {"followingGet", "followingPut", "followersGet", "followersPut"} \cup MergePcs
      /\ UNCHANGED <<cmd, tweets, tasks, posts, queue, calm, crashes, faults>>
  BY DEF RunStart, FollowingGet, FollowingPut, FollowersGet, FollowersPut, LineGet, RecentLast,
         RecentRead, LinePut, ReadUser, ReadLine, MergePcs
<1>2. pc[t] \in FollowPcs /\ pc[t] # "idle" /\ pc[t] \notin WaitPcs
  BY <1>1 DEF MergePcs, FollowPcs, RunPcs, Pcs, TweetPcs, WaitPcs
<1>3. AfterRun(t) = "finish" /\ tasks = {}
  BY <1>2, Alone DEF AfterRun
<1>4. PICK p :
        /\ pc' = [pc EXCEPT ![t] = p]
        /\ \A s \in Threads \ {t} : ver'[s] = ver[s] /\ idx'[s] = idx[s] /\ recent'[s] = recent[s]
  BY DEF RunStart, FollowingGet, FollowingPut, FollowersGet, FollowersPut, LineGet, RecentLast,
         RecentRead, LinePut, ReadUser, ReadLine, Calm, Inv, Shape, ThreadShape, DataInv, Lines
<1>5. \A s \in Threads \ {t} : pc'[s] = pc[s]
  BY <1>4 DEF Calm, Inv, Shape, ThreadShape
<1>6. Step(t)
  BY <1>1, <1>2, <1>4, <1>5 DEF Step, OnlyMoves, OthersStay
<1> QED
  BY <1>1, <1>2, <1>3, <1>6

LEMMA StopMoves ==
    ASSUME Calm, NEW t \in Threads, RunStop(t)
    PROVE  /\ Step(t) /\ UNCHANGED <<tweets, tasks, posts>>
           /\ pc'[t] # "idle" => UNCHANGED <<cmd, recent>>
           /\ pc'[t] = "idle" => recent'[t] = <<>>
           /\ pc[t] \in FollowPcs /\ pc[t] # "idle" /\ AfterRun(t) = "finish" /\ tasks = {}
<1> USE DEF At, Goto, storeVars, userVars, lineVars, queueVars, taskVars, countVars
<1>1. /\ pc[t] \in {"unfollowersGet", "unfollowersPut", "unfollowingGet", "unfollowingPut"} \cup RemovePcs
      /\ UNCHANGED <<tweets, tasks, posts, queue, calm, crashes, faults>>
  BY DEF RunStop, UnfollowersGet, UnfollowersPut, UnfollowingGet, UnfollowingPut, RemoveGet, RemovePut,
         StopObsolete, RemovePcs
<1>2. pc[t] \in FollowPcs /\ pc[t] # "idle" /\ pc[t] \notin WaitPcs
  BY <1>1 DEF RemovePcs, FollowPcs, RunPcs, Pcs, TweetPcs, WaitPcs
<1>3. AfterRun(t) = "finish" /\ tasks = {} /\ cmd[t] \in Commands /\ cmd[t].op # "tweet"
  BY <1>2, Alone DEF AfterRun, FollowsOther
<1>4. /\ pc \in [Threads -> Pcs] /\ cmd \in [Threads -> Commands \cup {None}]
      /\ ver \in [Threads -> Nat] /\ idx \in [Threads -> Int] /\ recent \in [Threads -> Seq(tweets)]
  BY DEF Calm, Inv, Shape, ThreadShape, DataInv, Lines
<1>5. CASE UnfollowersGet(t) /\ cmd[t].other \notin Users
  <2>1. /\ pc'[t] = "idle" /\ recent'[t] = <<>>
        /\ OthersStay(t) /\ \A s \in Threads \ {t} : recent'[s] = recent[s]
    BY <1>4, <1>5 DEF UnfollowersGet, Leave, OthersStay
  <2> QED
    BY <1>1, <1>2, <1>3, <2>1 DEF Step, OnlyMoves
<1>6. CASE ~(UnfollowersGet(t) /\ cmd[t].other \notin Users)
  <2>1. StartOf(cmd[t].op) # "idle"
    BY <1>3 DEF StartOf, Commands
  <2>2. PICK p : /\ pc' = [pc EXCEPT ![t] = p] /\ p # "idle"
                 /\ UNCHANGED <<cmd, recent, idx>>
                 /\ \A s \in Threads \ {t} : ver'[s] = ver[s]
    BY <1>3, <1>4, <1>6, <2>1 DEF RunStop, UnfollowersGet, UnfollowersPut, UnfollowingGet, UnfollowingPut,
         RemoveGet, RemovePut, StopObsolete, Again, ReadUser, ReadLine
  <2>3. pc'[t] # "idle" /\ OthersStay(t) /\ \A s \in Threads \ {t} : recent'[s] = recent[s]
    BY <1>4, <2>2 DEF OthersStay
  <2> QED
    BY <1>1, <1>2, <1>3, <2>2, <2>3 DEF Step, OnlyMoves
<1> QED
  BY <1>5, <1>6

\* A step that changes no timeline.
LEMMA SidesRight ==
    ASSUME Calm, NEW t \in Threads, Step(t), BusyRight(t)', NobodySelf', tasks = {},
           UNCHANGED <<tweets, timeline, lineVer, tasks>>,
           \A e \in tweets, u \in Users :
              Due(e, u)' => Owes(t, e, u)' \/ (Due(e, u) /\ ~Owes(t, e, u)),
           \A u \in Users : \A e \in ToSet(timeline[u]) :
              May(e, u) \/ Removes(t, e, u) => May(e, u)' \/ Removes(t, e, u)'
    PROVE  AllRight'
<1>1. pc[t] # "idle" /\ posts' = posts
  BY DEF Step, OnlyMoves
<1>2. LinesRight'
  BY <1>1 DEF LinesRight, Calm, AllRight
<1>3. ReachedBy(t)'
  <2>1. \A e, u : Has(e, u)' = Has(e, u)
    BY DEF Has
  <2>2. Few' = Few
    BY <1>1 DEF Few
  <2>3. ReachedBy(t)
    BY <1>1, Alone
  <2> QED
    BY <2>1, <2>2, <2>3 DEF ReachedBy
<1>4. AllowedBy(t)'
  <2>1. AllowedBy(t)
    BY <1>1, Alone
  <2>2. \A u \in Users : \A e \in ToSet(timeline'[u]) : May(e, u)' \/ Removes(t, e, u)'
    BY <2>1 DEF AllowedBy
  <2> QED
    BY <2>2 DEF AllowedBy, ToSet
<1> QED
  BY <1>2, <1>3, <1>4, StepRight

\* Before it has changed a side a follow command relies on nothing yet.
EarlyPcs == {"followingGet", "followingPut", "followersGet", "followersPut",
             "unfollowersGet", "unfollowersPut", "unfollowingGet", "unfollowingPut"}
LEMMA EarlyRight ==
    ASSUME Calm, NEW t \in Threads, pc[t] \in EarlyPcs, cmd' = cmd,
           pc'[t] \in EarlyPcs, recent'[t] = recent[t]
    PROVE  BusyRight(t)' /\ \A e, u : ~Owes(t, e, u) /\ ~Removes(t, e, u)
<1>1. BusyRight(t)
  BY DEF Calm, AllRight
<1>2. BusyRight(t)'
  <2>1. NothingRead(t)' /\ OthersCommand(t)'
    BY <1>1 DEF BusyRight, NothingRead, OthersCommand, EarlyPcs, FollowsOther
  <2>2. /\ ReadDown(t)' /\ LineFresh(t)' /\ SideDone(t)' /\ ToBeStored(t)'
        /\ NotYetShown(t)'
    BY DEF ReadDown, LineFresh, SideDone, ToBeStored, NotYetShown, EarlyPcs, LinePcs, MergePcs,
           RemovePcs, StorePcs
  <2> QED
    BY <2>1, <2>2 DEF BusyRight
<1>3. \A e, u : ~Owes(t, e, u) /\ ~Removes(t, e, u)
  BY DEF Owes, Removes, EarlyPcs, MergePcs, RemovePcs
<1> QED
  BY <1>2, <1>3

LEMMA EarlyReadRight ==
    ASSUME Calm, NEW t \in Threads,
           \/ FollowingGet(t)
           \/ FollowersGet(t) /\ cmd[t].other \in Users
           \/ UnfollowersGet(t) /\ cmd[t].other \in Users
           \/ UnfollowingGet(t)
    PROVE  AllRight'
<1> USE DEF At, Goto, storeVars, userVars, lineVars, queueVars, taskVars, countVars
<1>1. RunStart(t) \/ RunStop(t)
  BY DEF RunStart, RunStop
<1>2. /\ pc[t] \in EarlyPcs /\ pc'[t] \in EarlyPcs
      /\ UNCHANGED <<cmd, recent, following, followers, timeline, lineVer, tweets, tasks>>
  BY DEF FollowingGet, FollowersGet, UnfollowersGet, UnfollowingGet, ReadUser, EarlyPcs,
         Calm, Inv, Shape, ThreadShape
<1>3. Step(t) /\ tasks = {}
  BY <1>1, StartMoves, StopMoves
<1>4. BusyRight(t)' /\ \A e, u : ~Owes(t, e, u) /\ ~Removes(t, e, u)
  BY <1>2, EarlyRight
<1>5. NobodySelf'
  BY <1>2 DEF NobodySelf, AsSet, Calm, AllRight
<1>6. \A e, u : Due(e, u)' = Due(e, u) /\ May(e, u)' = May(e, u)
  BY <1>2 DEF Due, May, HasFollower, Follows, AsSet
<1> QED
  BY <1>2, <1>3, <1>4, <1>5, <1>6, SidesRight

\* The sides: what a timeline may show grows with one, and what it has to show with the
\* other, when the merge is still to come.
LEMMA FollowingPutRight ==
    ASSUME Calm, NEW t \in Threads, FollowingPut(t)
    PROVE  AllRight'
<1> USE DEF At, Goto, storeVars, userVars, lineVars, queueVars, taskVars, countVars
<1> DEFINE a == cmd[t].user
<1>1. /\ pc[t] = "followingPut" /\ pc'[t] = "followersGet"
      /\ UNCHANGED <<cmd, recent, followers, timeline, lineVer, tweets, tasks>>
      /\ \/ following' = following
         \/ following' = [following EXCEPT ![a] = AsField(AsSet(@) \cup {cmd[t].other})]
  BY DEF FollowingPut, Calm, Inv, Shape, ThreadShape
<1>2. Step(t) /\ tasks = {}
  BY StartMoves DEF RunStart
<1>3. a \in Users /\ cmd[t].other \in Names
  BY <1>1, Alone
<1>4. BusyRight(t)' /\ \A e, u : ~Owes(t, e, u) /\ ~Removes(t, e, u)
  BY <1>1, EarlyRight DEF EarlyPcs
<1>5. NobodySelf'
  BY <1>1 DEF NobodySelf, AsSet, Calm, AllRight
<1>6. \A e, u : Due(e, u)' = Due(e, u)
  BY <1>1 DEF Due, HasFollower, AsSet
<1> HIDE DEF a
<1>7. ASSUME NEW u \in Users, NEW e \in ToSet(timeline[u]), May(e, u) PROVE May(e, u)'
  <2>1. e.author \in Names
    <3>1. ToSet(timeline[u]) \subseteq tweets /\ tweets \subseteq Entries
      BY Constants DEF Calm, DataInv, Lines, Inv, Shape, StoreShape, ToSet
    <3> QED
      BY <3>1, Constants DEF Entries
  <2>2. following \in [Users -> (SUBSET Names) \cup {None}]
    BY DEF Calm, GraphInv, FieldsShape
  <2>3. e.author \in AsSet(following[u]) => e.author \in AsSet(following'[u])
    <3>1. CASE following' = following
      BY <3>1
    <3>2. CASE following' = [following EXCEPT ![a] = AsField(AsSet(@) \cup {cmd[t].other})]
      <4>1. CASE u = a
        <5>1. following'[u] = AsField(AsSet(following[u]) \cup {cmd[t].other})
          BY <2>2, <3>2, <4>1
        <5> QED
          BY <1>3, <2>1, <2>2, <5>1, FieldAdded
      <4>2. CASE u # a
        BY <2>2, <3>2, <4>2
      <4> QED
        BY <4>1, <4>2
    <3> QED
      BY <1>1, <3>1, <3>2
  <2> QED
    BY <1>7, <2>3 DEF May, Follows, AsSet
<1> QED
  BY <1>1, <1>2, <1>4, <1>5, <1>6, <1>7, SidesRight

LEMMA FollowersPutRight ==
    ASSUME Calm, NEW t \in Threads, FollowersPut(t)
    PROVE  AllRight'
<1> USE DEF At, Goto, storeVars, userVars, lineVars, queueVars, taskVars, countVars
<1> DEFINE a == cmd[t].user
           b == cmd[t].other
<1>1. /\ pc[t] = "followersPut" /\ pc'[t] = "lineGet"
      /\ UNCHANGED <<cmd, recent, following, timeline, lineVer, tweets, tasks>>
      /\ \/ followers' = followers
         \/ followers' = [followers EXCEPT ![b] = AsField(AsSet(@) \cup {a})]
  BY DEF FollowersPut, Calm, Inv, Shape, ThreadShape
<1>2. Step(t) /\ tasks = {}
  BY StartMoves DEF RunStart
<1>3. /\ a \in Users /\ a \in Names /\ a # b /\ b \in Users /\ b \in AsSet(following[a])
      /\ BusyRight(t)
  <2>1. a \in Users /\ FollowsOther(cmd[t]) /\ BusyRight(t)
    BY <1>1, Alone DEF FollowPcs, RunPcs, Pcs, TweetPcs
  <2>2. b \in Users /\ b \in AsSet(following[a])
    BY <1>1 DEF Calm, GraphInv, UsersFresh, HalfDone, Follows
  <2> QED
    BY <2>1, <2>2, Constants DEF FollowsOther
<1>4. BusyRight(t)'
  <2>1. NothingRead(t)' /\ OthersCommand(t)' /\ SideDone(t)'
    BY <1>1, <1>3 DEF BusyRight, NothingRead, OthersCommand, SideDone, FollowsOther, AsSet, RemovePcs
  <2>2. ReadDown(t)' /\ LineFresh(t)' /\ ToBeStored(t)' /\ NotYetShown(t)'
    BY <1>1 DEF ReadDown, LineFresh, ToBeStored, NotYetShown, LinePcs, StorePcs
  <2> QED
    BY <2>1, <2>2 DEF BusyRight
<1>5. \A e, u : ~Owes(t, e, u) /\ ~Removes(t, e, u)
  BY <1>1 DEF Owes, Removes, MergePcs, RemovePcs
<1>6. \A e, u : May(e, u)' = May(e, u)
  BY <1>1 DEF May, Follows, AsSet
<1>7. \A e, u : e.author = b /\ u = a => Owes(t, e, u)'
  BY <1>1 DEF Owes, MergePcs
<1> HIDE DEF a, b
<1>8. ASSUME NEW v \in Users, NEW u \in Users, u \in AsSet(followers'[v])
      PROVE  u \in AsSet(followers[v]) \/ (u = a /\ v = b)
  <2>1. followers \in [Users -> (SUBSET Users) \cup {None}]
    BY DEF Calm, GraphInv, FieldsShape
  <2>2. CASE followers' = followers
    BY <1>8, <2>2
  <2>3. CASE followers' = [followers EXCEPT ![b] = AsField(AsSet(@) \cup {a})]
    <3>1. CASE v = b
      <4>1. followers'[v] = AsField(AsSet(followers[v]) \cup {a})
        BY <2>1, <2>3, <3>1
      <4>2. followers[v] \in (SUBSET Names) \cup {None} /\ u \in Names
        BY <2>1, Constants
      <4> QED
        BY <1>3, <1>8, <3>1, <4>1, <4>2, FieldAdded
    <3>2. CASE v # b
      BY <1>8, <2>1, <2>3, <3>2
    <3> QED
      BY <3>1, <3>2
  <2> QED
    BY <1>1, <2>2, <2>3
<1>9. NobodySelf'
  <2>1. \A u \in Users : u \notin AsSet(followers'[u])
    BY <1>3, <1>8 DEF NobodySelf, Calm, AllRight
  <2> QED
    BY <2>1 DEF NobodySelf, AsSet
<1>10. ASSUME NEW e \in tweets, NEW u \in Users, Due(e, u)' PROVE Owes(t, e, u)' \/ Due(e, u)
  <2>1. e.author \in Users
    BY DEF Calm, Inv, Shape, StoreShape, Entries
  <2>2. u = e.author \/ u \in AsSet(followers'[e.author])
    BY <1>10 DEF Due, HasFollower, AsSet
  <2>3. u = e.author \/ u \in AsSet(followers[e.author]) \/ (u = a /\ e.author = b)
    BY <1>8, <2>1, <2>2
  <2> QED
    BY <1>7, <2>3 DEF Due, HasFollower
<1> QED
  BY <1>1, <1>2, <1>4, <1>5, <1>6, <1>9, <1>10, SidesRight

\* What the command reads before it puts the timeline.
LEMMA LineGetRight ==
    ASSUME Calm, NEW t \in Threads,
           LineGet(t) \/ (FollowersGet(t) /\ cmd[t].other \notin Users)
    PROVE  AllRight'
<1> USE DEF At, Goto, storeVars, userVars, lineVars, queueVars, taskVars, countVars
<1>1. /\ UNCHANGED <<cmd, recent, following, followers, timeline, lineVer, tweets, tasks>>
      /\ \/ pc[t] = "lineGet" /\ pc'[t] = "recentLast" /\ ver'[t] = lineVer[cmd[t].user]
         \/ pc[t] = "followersGet" /\ pc'[t] = "lineGet"
  BY DEF LineGet, FollowersGet, ReadLine, Calm, Inv, Shape, ThreadShape
<1>2. Step(t) /\ tasks = {}
  BY StartMoves DEF RunStart
<1>3. BusyRight(t)
  BY DEF Calm, AllRight
<1>4. cmd[t].other \in AsSet(following[cmd[t].user])
  BY <1>1, <1>3 DEF Calm, GraphInv, HalfDone, Follows, BusyRight, SideDone, MergePcs
<1>5. BusyRight(t)'
  <2>1. NothingRead(t)' /\ OthersCommand(t)' /\ SideDone(t)' /\ LineFresh(t)'
    BY <1>1, <1>3, <1>4 DEF BusyRight, NothingRead, OthersCommand, SideDone, LineFresh, FollowsOther,
                            AsSet, RemovePcs, LinePcs
  <2>2. ReadDown(t)' /\ ToBeStored(t)' /\ NotYetShown(t)'
    BY <1>1 DEF ReadDown, ToBeStored, NotYetShown, StorePcs
  <2> QED
    BY <2>1, <2>2 DEF BusyRight
<1>6. NobodySelf'
  BY <1>1 DEF NobodySelf, AsSet, Calm, AllRight
<1>7. \A e, u : /\ Due(e, u)' = Due(e, u) /\ May(e, u)' = May(e, u)
                /\ (Owes(t, e, u) => Owes(t, e, u)') /\ ~Removes(t, e, u)
  BY <1>1 DEF Due, May, HasFollower, Follows, AsSet, Owes, Removes, MergePcs, RemovePcs
<1>8. \A e \in tweets, u \in Users : Due(e, u)' => Owes(t, e, u)' \/ (Due(e, u) /\ ~Owes(t, e, u))
  BY <1>7
<1>9. \A u \in Users : \A e \in ToSet(timeline[u]) :
         May(e, u) \/ Removes(t, e, u) => May(e, u)' \/ Removes(t, e, u)'
  BY <1>7
<1>10. UNCHANGED <<tweets, timeline, lineVer, tasks>>
  BY <1>1
<1> QED
  BY <1>2, <1>5, <1>6, <1>8, <1>9, <1>10, SidesRight

\* A name without an account has no tweets; nor has an account whose last index is 0.
LEMMA RecentLastRight ==
    ASSUME Calm, NEW t \in Threads, RecentLast(t)
    PROVE  AllRight'
<1> USE DEF At, Goto, storeVars, userVars, lineVars, queueVars, taskVars, countVars
<1> DEFINE b == cmd[t].other
<1>1. Step(t) /\ tasks = {} /\ AfterRun(t) = "finish"
  BY StartMoves DEF RunStart
<1>2. pc[t] = "recentLast" /\ UNCHANGED <<cmd, ver, recent, following, followers, timeline, lineVer, tweets, tasks>>
  BY DEF RecentLast
<1>3. /\ b \notin Users => pc'[t] = "finish"
      /\ b \in Users => idx'[t] = last[b] /\ pc'[t] = IF last[b] = 0 THEN "linePut" ELSE "recentRead"
  BY <1>1 DEF RecentLast, Calm, Inv, Shape, ThreadShape
<1>4. BusyRight(t) /\ recent[t] = <<>>
  BY <1>2 DEF Calm, AllRight, BusyRight, NothingRead
<1>5. \A e \in tweets : e.author \in Users /\ e.idx \in 1 .. last[e.author]
  BY DEF Calm, Inv, IssuedCovered, Issued, Shape, StoreShape, Entries
<1>6. last \in [Users -> Nat]
  BY DEF Calm, Inv, Shape, StoreShape
<1>7. BusyRight(t)'
  <2>1. ReadDown(t)'
    <3>1. \A e \in TweetsOf(b) : b \in Users /\ e.idx \in 1 .. last[b]
      BY <1>5 DEF TweetsOf
    <3>2. \A e \in TweetsOf(b) : b \in Users /\ last[b] # 0 /\ ~(e.idx > last[b])
      BY <3>1, <1>6
    <3>3. TweetsOf(b)' = TweetsOf(b) /\ ToSet(recent'[t]) = {} /\ IsInjective(recent'[t])
      BY <1>2, <1>4 DEF TweetsOf, ToSet, IsInjective
    <3>4. pc'[t] = "linePut" => TweetsOf(b) = {}
      BY <1>3, <3>2
    <3>5. pc'[t] = "recentRead" => b \in Users /\ \A e \in TweetsOf(b) : ~(e.idx > idx'[t])
      BY <1>3, <3>2
    <3> QED
      BY <1>2, <3>3, <3>4, <3>5 DEF ReadDown, TweetsOf
  <2>2. NothingRead(t)' /\ OthersCommand(t)' /\ SideDone(t)' /\ LineFresh(t)'
    BY <1>2, <1>3, <1>4 DEF BusyRight, NothingRead, OthersCommand, SideDone, LineFresh, FollowsOther,
                            AsSet, MergePcs, RemovePcs, LinePcs
  <2>3. ToBeStored(t)' /\ NotYetShown(t)'
    BY <1>3 DEF ToBeStored, NotYetShown, StorePcs
  <2> QED
    BY <2>1, <2>2, <2>3 DEF BusyRight
<1>8. NobodySelf'
  BY <1>2 DEF NobodySelf, AsSet, Calm, AllRight
<1>9. \A e, u : /\ Due(e, u)' = Due(e, u) /\ May(e, u)' = May(e, u) /\ ~Removes(t, e, u)
  BY <1>2 DEF Due, May, HasFollower, Follows, AsSet, Removes, RemovePcs
<1>10. ASSUME NEW e \in tweets, NEW u, Owes(t, e, u) PROVE Owes(t, e, u)'
  <2>1. u = cmd[t].user /\ e.author = b
    BY <1>2, <1>10 DEF Owes
  <2>2. b \in Users
    BY <1>5, <2>1
  <2> QED
    BY <1>2, <1>3, <2>1, <2>2 DEF Owes, MergePcs
<1>11. \A e \in tweets, u \in Users : Due(e, u)' => Owes(t, e, u)' \/ (Due(e, u) /\ ~Owes(t, e, u))
  BY <1>9, <1>10
<1>12. \A u \in Users : \A e \in ToSet(timeline[u]) :
         May(e, u) \/ Removes(t, e, u) => May(e, u)' \/ Removes(t, e, u)'
  BY <1>9
<1>13. UNCHANGED <<tweets, timeline, lineVer, tasks>>
  BY <1>2
<1> QED
  BY <1>1, <1>7, <1>8, <1>11, <1>12, <1>13, SidesRight
\* There is one tweet under an index, or none.
LEMMA FoundOnce ==
    ASSUME Inv, NEW u, NEW i
    PROVE  /\ SetToSeq(StoredUnder(u, i)) \in Seq(tweets)
           /\ DOMAIN SetToSeq(StoredUnder(u, i)) \subseteq {1}
           /\ ToSet(SetToSeq(StoredUnder(u, i))) = StoredUnder(u, i)
<1> DEFINE S == StoredUnder(u, i)
           found == SetToSeq(S)
<1>1. \A d, e \in S : d = e
  BY DEF StoredUnder, Inv, IdsUnique, Issued
<1>2. found \in Seq(tweets)
  BY FoundIsStored
<1> HIDE DEF S
<1>3. CASE S = {}
  <2>1. Cardinality(S) = 0
    BY <1>3, FS_EmptySet
  <2> DEFINE f == [k \in 1 .. Cardinality(S) |-> k]
  <2>2. f \in [1 .. Cardinality(S) -> S] /\ IsInjective(f)
    BY <2>1 DEF IsInjective
  <2>3. found \in [1 .. Cardinality(S) -> S]
    BY <2>2 DEF SetToSeq
  <2>4. DOMAIN found = {}
    BY <2>1, <2>3
  <2> QED
    BY <1>2, <1>3, <2>4 DEF ToSet, S
<1>4. CASE S # {}
  <2>1. PICK e : S = {e}
    BY <1>1, <1>4
  <2>2. Cardinality(S) = 1
    BY <2>1, FS_Singleton
  <2> DEFINE f == [k \in 1 .. Cardinality(S) |-> e]
  <2>3. f \in [1 .. Cardinality(S) -> S] /\ IsInjective(f)
    BY <2>1, <2>2 DEF IsInjective
  <2>4. found \in [1 .. Cardinality(S) -> S]
    BY <2>3 DEF SetToSeq
  <2>5. DOMAIN found = {1} /\ found[1] = e
    BY <2>1, <2>2, <2>4
  <2>6. ToSet(found) = S
    BY <2>1, <2>5 DEF ToSet
  <2> QED
    BY <1>2, <2>5, <2>6 DEF S
<1> QED
  BY <1>3, <1>4

\* One more entry at the end of a list.
LEMMA ReadOnce ==
    ASSUME NEW E, NEW list \in Seq(E), NEW found \in Seq(E), DOMAIN found \subseteq {1},
           IsInjective(list), ToSet(list) \cap ToSet(found) = {}
    PROVE  /\ list \o found \in Seq(E) /\ IsInjective(list \o found)
           /\ ToSet(list \o found) = ToSet(list) \cup ToSet(found)
<1> DEFINE n == Len(list)
           m == Len(found)
           new == list \o found
<1>1. n \in Nat /\ m \in Nat /\ new \in Seq(E) /\ Len(new) = n + m /\ DOMAIN new = 1 .. n + m
      /\ DOMAIN list = 1 .. n /\ DOMAIN found = 1 .. m
  OBVIOUS
<1>2. m \in {0, 1}
  <2>1. m = 0 \/ (m \in 1 .. m)
    BY <1>1
  <2> QED
    BY <1>1, <2>1
<1>3. \A j \in 1 .. n : new[j] = list[j] /\ list[j] \in ToSet(list)
  BY <1>1 DEF ToSet
<1>4. \A j \in 1 .. m : j = 1 /\ new[n + j] = found[j] /\ found[j] \in ToSet(found)
  BY <1>1 DEF ToSet
<1>5. \A j \in DOMAIN new : j \in 1 .. n \/ (j = n + 1 /\ 1 \in 1 .. m)
  <2> HIDE DEF n, m, new
  <2> QED
    BY <1>1, <1>2
<1>6. IsInjective(new)
  <2> SUFFICES ASSUME NEW i \in DOMAIN new, NEW j \in DOMAIN new, new[i] = new[j] PROVE i = j
    BY DEF IsInjective
  <2> HIDE DEF n, m, new
  <2>1. CASE i \in 1 .. n /\ j \in 1 .. n
    BY <1>1, <1>3, <2>1 DEF IsInjective
  <2>2. ASSUME NEW k \in 1 .. n, 1 \in 1 .. m PROVE new[k] # new[n + 1]
    BY <1>3, <1>4, <2>2
  <2> QED
    BY <1>5, <2>1, <2>2
<1>7. ToSet(new) = ToSet(list) \cup ToSet(found)
  <2>1. ASSUME NEW e \in ToSet(new) PROVE e \in ToSet(list) \cup ToSet(found)
    <3>1. PICK j \in DOMAIN new : new[j] = e
      BY <2>1 DEF ToSet
    <3> HIDE DEF n, m, new
    <3> QED
      BY <1>3, <1>4, <1>5, <3>1
  <2>2. ASSUME NEW e \in ToSet(list) PROVE e \in ToSet(new)
    <3>1. PICK j \in 1 .. n : list[j] = e
      BY <1>1, <2>2 DEF ToSet
    <3>2. j \in DOMAIN new /\ new[j] = e
      BY <1>1, <1>3, <3>1
    <3> HIDE DEF new
    <3> QED
      BY <3>2 DEF ToSet
  <2>3. ASSUME NEW e \in ToSet(found) PROVE e \in ToSet(new)
    <3>1. PICK j \in 1 .. m : found[j] = e
      BY <1>1, <2>3 DEF ToSet
    <3>2. n + j \in DOMAIN new /\ new[n + j] = e
      BY <1>1, <1>4, <3>1
    <3> HIDE DEF new
    <3> QED
      BY <3>2 DEF ToSet
  <2> QED
    BY <2>1, <2>2, <2>3
<1> QED
  BY <1>1, <1>6, <1>7
\* One index is read after the other, from the last one down.
LEMMA RecentReadRight ==
    ASSUME Calm, NEW t \in Threads, RecentRead(t)
    PROVE  AllRight'
<1> USE DEF At, Goto, storeVars, userVars, lineVars, queueVars, taskVars, countVars
<1> DEFINE b     == cmd[t].other
           i     == idx[t]
           S     == StoredUnder(b, i)
           found == SetToSeq(S)
           new   == recent[t] \o found
<1>1. Step(t) /\ tasks = {} /\ posts' = posts
  BY StartMoves DEF RunStart
<1>2. /\ pc[t] = "recentRead"
      /\ UNCHANGED <<cmd, ver, following, followers, timeline, lineVer, tweets, tasks>>
      /\ recent' = [recent EXCEPT ![t] = new] /\ idx' = [idx EXCEPT ![t] = i - 1]
      /\ pc' = [pc EXCEPT ![t] = IF i = 1 \/ Len(recent'[t]) = RecentLimit THEN "linePut" ELSE "recentRead"]
  BY DEF RecentRead
<1>3. /\ pc \in [Threads -> Pcs] /\ idx \in [Threads -> Nat] /\ i >= 1
      /\ recent \in [Threads -> Seq(tweets)] /\ recent[t] \in Seq(tweets)
  BY <1>2 DEF Calm, Inv, Shape, ThreadShape, DataInv, Attempts, Lines
<1>4. found \in Seq(tweets) /\ DOMAIN found \subseteq {1} /\ ToSet(found) = S
  BY FoundOnce DEF Calm
<1>5. /\ BusyRight(t) /\ b \in Users
      /\ ToSet(recent[t]) \subseteq TweetsOf(b) /\ IsInjective(recent[t])
      /\ \A e \in ToSet(recent[t]) : e.idx > i
      /\ \A e \in TweetsOf(b) : e.idx > i => e \in ToSet(recent[t])
  BY <1>2 DEF Calm, AllRight, BusyRight, ReadDown
<1>6. \A e \in tweets : e.author \in Users /\ e.idx \in Nat /\ e.idx >= 1
  BY DEF Calm, Inv, IssuedCovered, Issued, Shape, StoreShape, Entries
<1>7. \A e : e \in S <=> e \in TweetsOf(b) /\ e.idx = i
  BY DEF StoredUnder, TweetsOf
<1>8. \A e \in TweetsOf(b) : e \in tweets
  BY DEF TweetsOf
<1>9. recent'[t] = new /\ idx'[t] = i - 1
      /\ pc'[t] = IF i = 1 \/ Len(new) = RecentLimit THEN "linePut" ELSE "recentRead"
  BY <1>2, <1>3
<1>10. i \in Nat
  BY <1>3
<1> HIDE DEF b, i, S, found
<1>11. ToSet(recent[t]) \cap ToSet(found) = {}
  BY <1>4, <1>5, <1>7, <1>10
<1>12. new \in Seq(tweets) /\ IsInjective(new) /\ ToSet(new) = ToSet(recent[t]) \cup S
  <2> DEFINE r == recent[t]
  <2>1. r \in Seq(tweets) /\ found \in Seq(tweets) /\ DOMAIN found \subseteq {1}
    BY <1>3, <1>4
  <2>2. IsInjective(r) /\ ToSet(r) \cap ToSet(found) = {}
    BY <1>5, <1>11
  <2>3. new = r \o found
    OBVIOUS
  <2> HIDE DEF r, new
  <2>4. /\ r \o found \in Seq(tweets) /\ IsInjective(r \o found)
        /\ ToSet(r \o found) = ToSet(r) \cup ToSet(found)
    BY <2>1, <2>2, ReadOnce
  <2> QED
    BY <1>4, <2>3, <2>4 DEF r
<1> HIDE DEF new
<1>13. /\ ToSet(new) \subseteq TweetsOf(b)
       /\ \A e \in ToSet(new) : e.idx > i - 1
       /\ \A e \in TweetsOf(b) : e.idx > i - 1 => e \in ToSet(new)
  <2>1. \A e \in TweetsOf(b) : e.idx > i - 1 <=> e.idx > i \/ e.idx = i
    BY <1>6, <1>8, <1>10
  <2> QED
    BY <1>5, <1>7, <1>12, <2>1
<1>14. ASSUME i = 1 \/ Len(new) = RecentLimit, posts <= RecentLimit PROVE TweetsOf(b) \subseteq ToSet(new)
  <2>1. CASE i = 1
    BY <1>6, <1>8, <1>13, <2>1
  <2>2. CASE Len(new) = RecentLimit
    <3>1. IsFiniteSet(ToSet(new)) /\ Cardinality(ToSet(new)) = RecentLimit
      BY <1>12, <2>2, LengthIsSize
    <3>2. IsFiniteSet(tweets) /\ Cardinality(tweets) <= posts
      BY DEF Calm, AllRight, LinesRight
    <3>3. ToSet(new) \in SUBSET tweets
      BY <1>8, <1>13
    <3>4. /\ Cardinality(ToSet(new)) <= Cardinality(tweets)
          /\ Cardinality(ToSet(new)) = Cardinality(tweets) => tweets = ToSet(new)
      BY <3>2, <3>3, FS_Subset
    <3>5. Cardinality(tweets) \in Nat /\ posts \in Nat /\ RecentLimit \in Nat
      BY <3>2, FS_CardinalityType, BoundsAssumption DEF Calm, Inv, Shape, CountShape
    <3>6. ToSet(new) = tweets
      BY <1>14, <3>1, <3>2, <3>4, <3>5
    <3> QED
      BY <1>8, <3>6
  <2> QED
    BY <1>14, <2>1, <2>2
<1>15. BusyRight(t)'
  <2>1. ReadDown(t)'
    <3>1. TweetsOf(b)' = TweetsOf(b) /\ cmd'[t].other = b
      BY <1>2 DEF TweetsOf, b
    <3>2. pc'[t] \in {"recentRead", "linePut"}
      BY <1>9
    <3>3. pc'[t] = "linePut" => i = 1 \/ Len(new) = RecentLimit
      BY <1>9
    <3>4. pc'[t] = "linePut" /\ posts' <= RecentLimit => TweetsOf(b) \subseteq ToSet(recent'[t])
      BY <1>1, <1>9, <1>14, <3>3
    <3>5. /\ ToSet(recent'[t]) \subseteq TweetsOf(b) /\ IsInjective(recent'[t])
          /\ b \in Users /\ \A e \in ToSet(recent'[t]) : e.idx > idx'[t]
          /\ \A e \in TweetsOf(b) : e.idx > idx'[t] => e \in ToSet(recent'[t])
      BY <1>5, <1>9, <1>12, <1>13
    <3> QED
      BY <1>2, <3>1, <3>4, <3>5 DEF ReadDown, TweetsOf, ToSet
  <2>2. NothingRead(t)' /\ OthersCommand(t)' /\ SideDone(t)' /\ LineFresh(t)'
    BY <1>2, <1>5, <1>9 DEF BusyRight, NothingRead, OthersCommand, SideDone, LineFresh, FollowsOther,
                            AsSet, MergePcs, RemovePcs, LinePcs
  <2>3. ToBeStored(t)' /\ NotYetShown(t)'
    BY <1>9 DEF ToBeStored, NotYetShown, StorePcs
  <2> QED
    BY <2>1, <2>2, <2>3 DEF BusyRight
<1>16. NobodySelf'
  BY <1>2 DEF NobodySelf, AsSet, Calm, AllRight
<1>17. \A e, u : /\ Due(e, u)' = Due(e, u) /\ May(e, u)' = May(e, u) /\ ~Removes(t, e, u)
                 /\ (Owes(t, e, u) => Owes(t, e, u)')
  BY <1>2, <1>9 DEF Due, May, HasFollower, Follows, AsSet, Removes, Owes, MergePcs, RemovePcs
<1>18. \A e \in tweets, u \in Users : Due(e, u)' => Owes(t, e, u)' \/ (Due(e, u) /\ ~Owes(t, e, u))
  BY <1>17
<1>19. \A u \in Users : \A e \in ToSet(timeline[u]) :
         May(e, u) \/ Removes(t, e, u) => May(e, u)' \/ Removes(t, e, u)'
  BY <1>17
<1>20. UNCHANGED <<tweets, timeline, lineVer, tasks>>
  BY <1>2
<1> QED
  BY <1>1, <1>15, <1>16, <1>18, <1>19, <1>20, SidesRight

\* A step that puts the timeline of a follow command's user, and ends the command.
LEMMA LinePutsRight ==
    ASSUME Calm, NEW t \in Threads, Step(t), tasks = {}, pc'[t] = "finish",
           UNCHANGED <<cmd, following, followers, tweets, tasks>>,
           NEW a \in Users, NEW list, IsInjective(list),
           timeline' = [timeline EXCEPT ![a] = list], lineVer' = Bump(lineVer, a),
           \A e \in tweets : Due(e, a) =>
              \/ e \in ToSet(list)
              \/ ~(Few /\ PlainNames)
              \/ e \notin ToSet(timeline[a]) /\ ~Owes(t, e, a),
           \A e, u : Owes(t, e, u) => u = a,
           \A e \in ToSet(list) : May(e, a),
           \A e, u : Removes(t, e, u) => u = a
    PROVE  AllRight'
<1>1. pc[t] # "idle" /\ posts' = posts
  BY DEF Step, OnlyMoves
<1>2. ReachedBy(t) /\ AllowedBy(t) /\ BusyRight(t)
  BY <1>1, Alone
<1>3. /\ a \in Readers /\ timeline \in [Readers -> Seq(tweets)] /\ lineVer \in [Readers -> Nat]
      /\ \A u \in Users : u \in Readers
  BY Constants DEF Calm, DataInv, Lines, Inv, Shape, StoreShape
<1>4. /\ timeline'[a] = list /\ lineVer'[a] = lineVer[a] + 1 /\ lineVer[a] + 1 # 0
      /\ \A u \in Readers : u # a => timeline'[u] = timeline[u] /\ lineVer'[u] = lineVer[u]
  BY <1>3 DEF Bump
<1>5. BusyRight(t)'
  <2>1. OthersCommand(t)'
    BY <1>1, <1>2 DEF BusyRight, OthersCommand, FollowsOther
  <2>2. /\ ReadDown(t)' /\ NothingRead(t)' /\ LineFresh(t)' /\ SideDone(t)' /\ ToBeStored(t)'
        /\ NotYetShown(t)'
    BY DEF ReadDown, NothingRead, LineFresh, SideDone, ToBeStored, NotYetShown, LinePcs, MergePcs,
           RemovePcs, StorePcs
  <2> QED
    BY <2>1, <2>2 DEF BusyRight
<1>6. NobodySelf'
  BY DEF NobodySelf, AsSet, Calm, AllRight
<1>7. LinesRight'
  <2>1. \A u \in Readers : IsInjective(timeline'[u]) /\ (lineVer'[u] = 0 => timeline'[u] = <<>>)
    BY <1>4 DEF LinesRight, Calm, AllRight
  <2> QED
    BY <1>1, <2>1 DEF LinesRight, Calm, AllRight
<1>8. ReachedBy(t)'
  <2>1. \A e, u : Due(e, u)' = Due(e, u)
    BY DEF Due, HasFollower, AsSet
  <2>2. Few' = Few
    BY <1>1 DEF Few
  <2>3. ASSUME Few, PlainNames, NEW e \in tweets, NEW u \in Users, Due(e, u)
        PROVE  e \in ToSet(timeline'[u])
    <3>1. e \in ToSet(timeline[u]) \/ Owes(t, e, u)
      BY <1>2, <2>3 DEF ReachedBy, Has
    <3>2. CASE u = a
      BY <1>4, <2>3, <3>1, <3>2
    <3>3. CASE u # a
      BY <1>3, <1>4, <3>1, <3>3
    <3> QED
      BY <3>2, <3>3
  <2>4. \A e, u : e \in ToSet(timeline'[u]) => Has(e, u)'
    BY DEF Has, ToSet
  <2> QED
    BY <2>1, <2>2, <2>3, <2>4 DEF ReachedBy
<1>9. AllowedBy(t)'
  <2>1. \A e, u : May(e, u)' = May(e, u)
    BY DEF May, Follows, AsSet
  <2>2. ASSUME NEW u \in Users, NEW e \in ToSet(timeline'[u]) PROVE May(e, u)
    <3>1. CASE u = a
      BY <1>4, <2>2, <3>1
    <3>2. CASE u # a
      BY <1>2, <1>3, <1>4, <2>2, <3>2 DEF AllowedBy
    <3> QED
      BY <3>1, <3>2
  <2>3. \A u \in Users : \A e \in ToSet(timeline'[u]) : May(e, u)'
    BY <2>1, <2>2
  <2> QED
    BY <2>3 DEF AllowedBy, ToSet
<1> QED
  BY <1>5, <1>6, <1>7, <1>8, <1>9, StepRight
\* The merge: nothing that was shown is lost, and what was read is the other's.
LEMMA LinePutRight ==
    ASSUME Calm, NEW t \in Threads, LinePut(t)
    PROVE  AllRight'
<1> USE DEF At, Goto, storeVars, userVars, lineVars, queueVars, taskVars, countVars
<1> DEFINE a   == cmd[t].user
           b   == cmd[t].other
           old == timeline[a]
           r   == recent[t]
           new == Merge(old, r)
<1>1. Step(t) /\ tasks = {} /\ AfterRun(t) = "finish" /\ pc[t] \in FollowPcs
  BY StartMoves DEF RunStart
<1>2. pc[t] = "linePut" /\ BusyRight(t)
  BY DEF LinePut, Calm, AllRight
<1>3. ver[t] = lineVer[a]
  BY <1>2 DEF BusyRight, LineFresh, LinePcs
<1>4. /\ pc'[t] = "finish" /\ UNCHANGED <<cmd, following, followers, tweets, tasks>>
      /\ timeline' = [timeline EXCEPT ![a] = new] /\ lineVer' = Bump(lineVer, a)
  BY <1>1, <1>3 DEF LinePut, PutLine, Calm, Inv, Shape, ThreadShape
<1>5. a \in Users /\ a \in Readers /\ a # b /\ AllowedBy(t)
  BY <1>1, <1>2, Alone, Constants DEF FollowsOther
<1>6. /\ ToSet(r) \subseteq TweetsOf(b) /\ (posts <= RecentLimit => TweetsOf(b) \subseteq ToSet(r))
      /\ b \in AsSet(following[a])
  BY <1>2 DEF BusyRight, ReadDown, SideDone, MergePcs
<1>7. old \in Seq(tweets) /\ r \in Seq(tweets) /\ IsInjective(old)
  BY <1>5 DEF Calm, DataInv, Lines, AllRight, LinesRight
<1> HIDE DEF a, b, old, r
<1>8. IsInjective(new) /\ ToSet(old) \subseteq ToSet(new) /\ ToSet(new) \subseteq ToSet(old) \cup ToSet(r)
  BY <1>7, MergeLoopKeeps DEF Merged
<1>9. posts <= MaxInTimeline => ToSet(r) \subseteq ToSet(new)
  <2>1. IsFiniteSet(tweets) /\ Cardinality(tweets) <= posts
    BY DEF Calm, AllRight, LinesRight
  <2>2. Cardinality(tweets) \in Nat /\ posts \in Nat /\ MaxInTimeline \in Nat
    BY <2>1, FS_CardinalityType, MaxAssumption DEF Calm, Inv, Shape, CountShape
  <2>3. posts <= MaxInTimeline => Cardinality(tweets) <= MaxInTimeline
    BY <2>1, <2>2
  <2> QED
    BY <1>7, <2>1, <2>3, MergeFits
<1> HIDE DEF new
<1>10. \A e, u : /\ Owes(t, e, u) => u = a /\ e.author = b
                 /\ ~Removes(t, e, u)
  BY <1>2 DEF Owes, Removes, RemovePcs, a, b
<1>11. ASSUME NEW e \in tweets, Due(e, a)
       PROVE  \/ e \in ToSet(new)
              \/ ~(Few /\ PlainNames)
              \/ e \notin ToSet(timeline[a]) /\ ~Owes(t, e, a)
  <2>1. CASE e \in ToSet(old)
    BY <1>8, <2>1
  <2>2. CASE Owes(t, e, a) /\ Few
    <3>1. e \in TweetsOf(b)
      BY <1>10, <2>2 DEF TweetsOf
    <3> QED
      BY <1>6, <1>9, <2>2, <3>1 DEF Few
  <2> QED
    BY <2>1, <2>2 DEF old
<1>12. ASSUME NEW e \in ToSet(new) PROVE May(e, a)
  <2>1. CASE e \in ToSet(old)
    <3>1. e \in ToSet(timeline[a])
      BY <2>1 DEF old
    <3> QED
      BY <1>5, <1>10, <3>1 DEF AllowedBy
  <2>2. CASE e \in ToSet(r)
    BY <1>6, <2>2 DEF TweetsOf, May, Follows
  <2> QED
    BY <1>8, <1>12, <2>1, <2>2
<1>13. IsInjective(new)
  BY <1>8
<1>14. \A e, u : Owes(t, e, u) => u = a
  BY <1>10
<1>15. \A e, u : Removes(t, e, u) => u = a
  BY <1>10
<1>16. UNCHANGED <<cmd, following, followers, tweets, tasks>>
  BY <1>4
<1>17. timeline' = [timeline EXCEPT ![a] = new] /\ lineVer' = Bump(lineVer, a) /\ pc'[t] = "finish"
  BY <1>4
<1>18. \A e \in tweets : Due(e, a) =>
         \/ e \in ToSet(new)
         \/ ~(Few /\ PlainNames)
         \/ e \notin ToSet(timeline[a]) /\ ~Owes(t, e, a)
  BY <1>11
<1>19. \A e \in ToSet(new) : May(e, a)
  BY <1>12
<1>20. a \in Users /\ Step(t) /\ tasks = {}
  BY <1>1, <1>5
<1> QED
  BY <1>13, <1>14, <1>15, <1>16, <1>17, <1>18, <1>19, <1>20, LinePutsRight

-----------------------------------------------------------------------------
(* To stop following: the entries go after both sides have.                     *)

LEMMA UnfollowersPutRight ==
    ASSUME Calm, NEW t \in Threads, UnfollowersPut(t)
    PROVE  AllRight'
<1> USE DEF At, Goto, storeVars, userVars, lineVars, queueVars, taskVars, countVars
<1> DEFINE a == cmd[t].user
           b == cmd[t].other
<1>1. /\ pc[t] = "unfollowersPut" /\ pc'[t] = "unfollowingGet"
      /\ UNCHANGED <<cmd, recent, following, timeline, lineVer, tweets, tasks>>
      /\ followers' = [followers EXCEPT ![b] = AsField(AsSet(@) \ {a})]
  BY DEF UnfollowersPut, Calm, Inv, Shape, ThreadShape
<1>2. Step(t) /\ tasks = {}
  BY StopMoves DEF RunStop
<1>3. b \in Users
  BY <1>1 DEF Calm, GraphInv, UsersFresh
<1>4. BusyRight(t)' /\ \A e, u : ~Owes(t, e, u) /\ ~Removes(t, e, u)
  BY <1>1, EarlyRight DEF EarlyPcs
<1>5. \A e, u : May(e, u)' = May(e, u)
  BY <1>1 DEF May, Follows, AsSet
<1> HIDE DEF a, b
<1>6. ASSUME NEW v \in Users, NEW u \in Users, u \in AsSet(followers'[v])
      PROVE  u \in AsSet(followers[v])
  <2>1. followers \in [Users -> (SUBSET Users) \cup {None}]
    BY DEF Calm, GraphInv, FieldsShape
  <2>2. CASE v = b
    <3>1. followers'[v] = AsField(AsSet(followers[v]) \ {a})
      BY <1>1, <2>1, <2>2
    <3>2. followers[v] \in (SUBSET Names) \cup {None}
      BY <2>1, Constants
    <3> QED
      BY <1>6, <3>1, <3>2, FieldRemoved
  <2>3. CASE v # b
    BY <1>1, <1>6, <2>1, <2>3
  <2> QED
    BY <2>2, <2>3
<1>7. NobodySelf'
  <2>1. \A u \in Users : u \notin AsSet(followers'[u])
    BY <1>6 DEF NobodySelf, Calm, AllRight
  <2> QED
    BY <2>1 DEF NobodySelf, AsSet
<1>8. ASSUME NEW e \in tweets, NEW u \in Users, Due(e, u)' PROVE Due(e, u)
  <2>1. e.author \in Users
    BY DEF Calm, Inv, Shape, StoreShape, Entries
  <2>2. u = e.author \/ u \in AsSet(followers'[e.author])
    BY <1>8 DEF Due, HasFollower, AsSet
  <2> QED
    BY <1>6, <2>1, <2>2 DEF Due, HasFollower
<1>9. \A e \in tweets, u \in Users : Due(e, u)' => Owes(t, e, u)' \/ (Due(e, u) /\ ~Owes(t, e, u))
  BY <1>4, <1>8
<1> QED
  BY <1>1, <1>2, <1>4, <1>5, <1>7, <1>9, SidesRight

LEMMA UnfollowingPutRight ==
    ASSUME Calm, NEW t \in Threads, UnfollowingPut(t)
    PROVE  AllRight'
<1> USE DEF At, Goto, storeVars, userVars, lineVars, queueVars, taskVars, countVars
<1> DEFINE a == cmd[t].user
           b == cmd[t].other
<1>1. /\ pc[t] = "unfollowingPut" /\ pc'[t] = "removeGet"
      /\ UNCHANGED <<cmd, recent, followers, timeline, lineVer, tweets, tasks>>
      /\ following' = [following EXCEPT ![a] = AsField(AsSet(@) \ {b})]
  BY DEF UnfollowingPut, Calm, Inv, Shape, ThreadShape
<1>2. Step(t) /\ tasks = {}
  BY StopMoves DEF RunStop
<1>3. BusyRight(t) /\ b \in Users /\ a \notin AsSet(followers[b])
  BY <1>1 DEF Calm, GraphInv, HalfDone, HasFollower, AllRight
<1>4. BusyRight(t)'
  <2>1. NothingRead(t)' /\ OthersCommand(t)' /\ SideDone(t)'
    BY <1>1, <1>3 DEF BusyRight, NothingRead, OthersCommand, SideDone, FollowsOther, AsSet,
                      MergePcs, RemovePcs
  <2>2. ReadDown(t)' /\ LineFresh(t)' /\ ToBeStored(t)' /\ NotYetShown(t)'
    BY <1>1 DEF ReadDown, LineFresh, ToBeStored, NotYetShown, LinePcs, StorePcs
  <2> QED
    BY <2>1, <2>2 DEF BusyRight
<1>5. NobodySelf'
  BY <1>1 DEF NobodySelf, AsSet, Calm, AllRight
<1>6. \A e, u : Due(e, u)' = Due(e, u) /\ ~Owes(t, e, u) /\ ~Removes(t, e, u)
  BY <1>1 DEF Due, HasFollower, AsSet, Owes, Removes, MergePcs, RemovePcs
<1>7. \A e, u : e.author = b /\ u = a => Removes(t, e, u)'
  BY <1>1 DEF Removes, RemovePcs
<1> HIDE DEF a, b
<1>8. ASSUME NEW u \in Users, NEW e \in ToSet(timeline[u]), May(e, u) PROVE May(e, u)' \/ Removes(t, e, u)'
  <2>1. e.author \in Users
    <3>1. ToSet(timeline[u]) \subseteq tweets /\ tweets \subseteq Entries
      BY Constants DEF Calm, DataInv, Lines, Inv, Shape, StoreShape, ToSet
    <3> QED
      BY <3>1 DEF Entries
  <2>2. following \in [Users -> (SUBSET Names) \cup {None}]
    BY DEF Calm, GraphInv, FieldsShape
  <2>3. CASE u = a
    <3>1. following'[u] = AsField(AsSet(following[u]) \ {b})
      BY <1>1, <2>2, <2>3
    <3>2. e.author \in AsSet(following[u]) /\ e.author # b => e.author \in AsSet(following'[u])
      BY <2>1, <2>2, <3>1, FieldRemoved
    <3> QED
      BY <1>7, <1>8, <2>3, <3>2 DEF May, Follows, AsSet
  <2>4. CASE u # a
    <3>1. following'[u] = following[u]
      BY <1>1, <2>2, <2>4
    <3> QED
      BY <1>8, <3>1 DEF May, Follows, AsSet
  <2> QED
    BY <2>3, <2>4
<1>9. \A e \in tweets, u \in Users : Due(e, u)' => Owes(t, e, u)' \/ (Due(e, u) /\ ~Owes(t, e, u))
  BY <1>6
<1>10. \A u \in Users : \A e \in ToSet(timeline[u]) :
         May(e, u) \/ Removes(t, e, u) => May(e, u)' \/ Removes(t, e, u)'
  BY <1>6, <1>8
<1> QED
  BY <1>1, <1>2, <1>4, <1>5, <1>9, <1>10, SidesRight
\* A timeline that was never put has nothing to remove.
LEMMA RemoveGetRight ==
    ASSUME Calm, NEW t \in Threads, RemoveGet(t)
    PROVE  AllRight'
<1> USE DEF At, Goto, storeVars, userVars, lineVars, queueVars, taskVars, countVars
<1> DEFINE a == cmd[t].user
<1>1. Step(t) /\ tasks = {} /\ AfterRun(t) = "finish"
  BY StopMoves DEF RunStop
<1>2. /\ pc[t] = "removeGet" /\ pc'[t] = (IF lineVer[a] = 0 THEN "finish" ELSE "removePut")
      /\ ver'[t] = lineVer[a]
      /\ UNCHANGED <<cmd, recent, following, followers, timeline, lineVer, tweets, tasks>>
  BY <1>1 DEF RemoveGet, ReadLine, Calm, Inv, Shape, ThreadShape
<1>3. BusyRight(t) /\ a \in Users
  BY <1>2, Alone
<1>4. BusyRight(t)'
  <2>1. NothingRead(t)' /\ OthersCommand(t)' /\ SideDone(t)' /\ LineFresh(t)'
    BY <1>2, <1>3 DEF BusyRight, NothingRead, OthersCommand, SideDone, LineFresh, FollowsOther,
                      AsSet, MergePcs, RemovePcs, LinePcs
  <2>2. ReadDown(t)' /\ ToBeStored(t)' /\ NotYetShown(t)'
    BY <1>2 DEF ReadDown, ToBeStored, NotYetShown, StorePcs
  <2> QED
    BY <2>1, <2>2 DEF BusyRight
<1>5. NobodySelf'
  BY <1>2 DEF NobodySelf, AsSet, Calm, AllRight
<1>6. \A e, u : Due(e, u)' = Due(e, u) /\ May(e, u)' = May(e, u) /\ ~Owes(t, e, u)
  BY <1>2 DEF Due, May, HasFollower, Follows, AsSet, Owes, MergePcs
<1>7. ASSUME NEW u \in Users, NEW e \in ToSet(timeline[u]), Removes(t, e, u)
      PROVE  Removes(t, e, u)'
  <2>1. u = a
    BY <1>7 DEF Removes
  <2>2. lineVer[a] # 0
    <3>1. ToSet(timeline[u]) # {}
      BY <1>7
    <3>2. timeline[u] # <<>>
      BY <3>1 DEF ToSet
    <3> QED
      BY <1>3, <2>1, <3>2, Constants DEF Calm, AllRight, LinesRight
  <2> QED
    BY <1>2, <1>7, <2>2 DEF Removes, RemovePcs
<1>8. \A e \in tweets, u \in Users : Due(e, u)' => Owes(t, e, u)' \/ (Due(e, u) /\ ~Owes(t, e, u))
  BY <1>6
<1>9. \A u \in Users : \A e \in ToSet(timeline[u]) :
         May(e, u) \/ Removes(t, e, u) => May(e, u)' \/ Removes(t, e, u)'
  BY <1>6, <1>7
<1>10. UNCHANGED <<tweets, timeline, lineVer, tasks>>
  BY <1>2
<1> QED
  BY <1>1, <1>4, <1>5, <1>8, <1>9, <1>10, SidesRight

\* The removal takes the other's entries, and no one else's unless a name begins with his.
LEMMA RemovePutRight ==
    ASSUME Calm, NEW t \in Threads, RemovePut(t)
    PROVE  AllRight'
<1> USE DEF At, Goto, storeVars, userVars, lineVars, queueVars, taskVars, countVars
<1> DEFINE a   == cmd[t].user
           b   == cmd[t].other
           old == timeline[a]
           new == RemoveAuthor(old, b)
<1>1. Step(t) /\ tasks = {} /\ AfterRun(t) = "finish" /\ pc[t] \in FollowPcs
  BY StopMoves DEF RunStop
<1>2. /\ pc[t] = "removePut" /\ pc'[t] = "finish" /\ UNCHANGED <<cmd, following, followers, tweets, tasks>>
      /\ timeline' = [timeline EXCEPT ![a] = new] /\ lineVer' = Bump(lineVer, a)
  BY <1>1 DEF RemovePut, PutLine, AfterRun, StopMoves, Calm, Inv, Shape, ThreadShape
<1>3. a \in Users /\ a \in Readers /\ a # b /\ AllowedBy(t) /\ BusyRight(t)
  BY <1>1, <1>2, Alone, Constants DEF FollowsOther
<1>4. b \in Users /\ a \notin AsSet(followers[b])
  BY <1>2, <1>3 DEF BusyRight, SideDone, RemovePcs
<1>5. old \in Seq(tweets) /\ IsInjective(old)
  BY <1>3 DEF Calm, DataInv, Lines, AllRight, LinesRight
<1> HIDE DEF a, b, old
<1>6. IsInjective(new) /\ ToSet(new) = {e \in ToSet(old) : ~Named(b, e)}
  BY <1>5, RemoveAuthorKeeps
<1> HIDE DEF new
<1>7. \A e, u : /\ ~Owes(t, e, u)
                /\ Removes(t, e, u) => u = a /\ e.author = b
  BY <1>2 DEF Owes, Removes, MergePcs, a, b
<1>8. ASSUME NEW e \in tweets, Due(e, a)
      PROVE  \/ e \in ToSet(new)
             \/ ~(Few /\ PlainNames)
             \/ e \notin ToSet(timeline[a]) /\ ~Owes(t, e, a)
  <2>1. e.author \in Users
    BY DEF Calm, Inv, Shape, StoreShape, Entries
  <2>2. e.author # b
    BY <1>3, <1>4, <1>8 DEF Due, HasFollower
  <2>3. PlainNames => ~Named(b, e)
    BY <1>4, <2>1, <2>2 DEF PlainNames, Named
  <2> QED
    BY <1>6, <1>7, <2>3 DEF old
<1>9. ASSUME NEW e \in ToSet(new) PROVE May(e, a)
  <2>1. e \in ToSet(timeline[a]) /\ e.author # b
    BY <1>6, <1>9 DEF old, Named
  <2> QED
    BY <1>3, <1>7, <2>1 DEF AllowedBy
<1>10. IsInjective(new)
  BY <1>6
<1>11. \A e, u : Owes(t, e, u) => u = a
  BY <1>7
<1>12. \A e, u : Removes(t, e, u) => u = a
  BY <1>7
<1>13. UNCHANGED <<cmd, following, followers, tweets, tasks>>
  BY <1>2
<1>14. timeline' = [timeline EXCEPT ![a] = new] /\ lineVer' = Bump(lineVer, a) /\ pc'[t] = "finish"
  BY <1>2
<1>15. \A e \in tweets : Due(e, a) =>
         \/ e \in ToSet(new)
         \/ ~(Few /\ PlainNames)
         \/ e \notin ToSet(timeline[a]) /\ ~Owes(t, e, a)
  BY <1>8
<1>16. \A e \in ToSet(new) : May(e, a)
  BY <1>9
<1>17. a \in Users /\ Step(t) /\ tasks = {}
  BY <1>1, <1>3
<1> QED
  BY <1>10, <1>11, <1>12, <1>13, <1>14, <1>15, <1>16, <1>17, LinePutsRight

LEMMA FollowRight ==
    ASSUME Calm, NEW t \in Threads, RunStart(t) \/ RunStop(t)
    PROVE  AllRight'
<1> USE DEF At, Goto, storeVars, userVars, lineVars, queueVars, taskVars, countVars
<1>1. CASE UnfollowersGet(t) /\ cmd[t].other \notin Users
  <2>1. Step(t) /\ pc[t] = "unfollowersGet" /\ pc'[t] = "idle" /\ recent'[t] = <<>>
    <3>1. pc'[t] = "idle" /\ pc[t] = "unfollowersGet"
      BY <1>1 DEF UnfollowersGet, Leave, Calm, Inv, Shape, ThreadShape
    <3> QED
      BY <1>1, <3>1, StopMoves DEF RunStop
  <2>2. UNCHANGED <<following, followers, tweets, timeline, lineVer, tasks>>
    BY <1>1 DEF UnfollowersGet
  <2> QED
    BY <2>1, <2>2, PlainStep DEF OwingPcs, MergePcs, RemovePcs
<1>2. ~StopObsolete(t)
  <2>1. UsersFresh /\ BusyRight(t)
    BY DEF Calm, GraphInv, AllRight
  <2> QED
    BY <2>1 DEF StopObsolete, Unchanged, UsersFresh, BusyRight, LineFresh, LinePcs
<1> QED
  BY <1>1, <1>2, EarlyReadRight, FollowingPutRight, FollowersPutRight, LineGetRight, RecentLastRight,
     RecentReadRight, LinePutRight, UnfollowersPutRight, UnfollowingPutRight, RemoveGetRight, RemovePutRight
     DEF RunStart, RunStop

-----------------------------------------------------------------------------
(* Commands that are finished, taken and queued, and calls that begin.          *)

LEMMA FinishRight ==
    ASSUME Calm, NEW w \in Workers, Finish(w)
    PROVE  AllRight'
<1> USE DEF At, Goto, storeVars, userVars, lineVars, queueVars, taskVars, countVars
<1>1. /\ w \in Threads /\ pc[w] = "finish" /\ pc'[w] = "idle" /\ recent'[w] = <<>>
      /\ UNCHANGED <<following, followers, tweets, timeline, lineVer, tasks, queue, calm, crashes,
                     faults, posts>>
      /\ OthersStay(w) /\ \A s \in Threads \ {w} : recent'[s] = recent[s]
  BY Constants DEF Finish, Leave, OthersStay, Calm, Inv, Shape, ThreadShape, DataInv, Lines
<1>2. Step(w)
  BY <1>1 DEF Step, OnlyMoves
<1> QED
  BY <1>1, <1>2, PlainStep DEF OwingPcs, MergePcs, RemovePcs

\* Something begins: nothing runs, and nothing is due or to be removed.
LEMMA BeginRight ==
    ASSUME Calm, UNCHANGED <<following, followers, tweets, timeline, lineVer, tasks, recent>>,
           posts' \in Nat, posts' >= posts, tasks = {}, \A t \in Threads : pc[t] = "idle",
           \A c \in ToSet(queue') : FollowsOther(c),
           \A t \in Threads :
              \/ pc'[t] = "idle"
              \/ pc'[t] = "resGet" /\ cmd'[t].op = "tweet" /\ posts' = posts + 1
              \/ pc'[t] \in {"followingGet", "unfollowersGet"} /\ FollowsOther(cmd'[t])
    PROVE  AllRight'
<1>1. \A t \in Threads : recent[t] = <<>> /\ BusyRight(t)
  BY DEF Calm, AllRight, BusyRight, NothingRead
<1>2. IsFiniteSet(tweets) /\ Cardinality(tweets) <= posts /\ Cardinality(tweets) \in Nat /\ posts \in Nat
  BY FS_CardinalityType DEF Calm, AllRight, LinesRight, Inv, Shape, CountShape
<1>3. ASSUME NEW t \in Threads PROVE BusyRight(t)'
  <2>1. ToBeStored(t)'
    BY <1>2 DEF ToBeStored, StorePcs
  <2>2. NothingRead(t)' /\ OthersCommand(t)'
    BY <1>1 DEF NothingRead, OthersCommand, FollowsOther
  <2>3. ReadDown(t)' /\ LineFresh(t)' /\ SideDone(t)' /\ NotYetShown(t)'
    BY DEF ReadDown, LineFresh, SideDone, NotYetShown, LinePcs, MergePcs, RemovePcs
  <2> QED
    BY <2>1, <2>2, <2>3 DEF BusyRight
<1>4. NobodySelf'
  BY DEF NobodySelf, AsSet, Calm, AllRight
<1>5. LinesRight'
  <2>1. Cardinality(tweets) <= posts'
    BY <1>2
  <2> QED
    BY <2>1 DEF LinesRight, Calm, AllRight
<1>6. \A e, u : /\ Due(e, u)' = Due(e, u) /\ Has(e, u)' = Has(e, u) /\ May(e, u)' = May(e, u)
                /\ \A t \in Threads : ~Owes(t, e, u) /\ ~Removes(t, e, u)
  BY DEF Due, Has, May, HasFollower, Follows, AsSet, Owes, Removes, MergePcs, RemovePcs
<1>7. Reached'
  <2>1. Few' => Few
    BY <1>2, BoundsAssumption, MaxAssumption DEF Few
  <2>2. Few /\ PlainNames => \A e \in tweets, u \in Users : Due(e, u) => Has(e, u)
    BY <1>6 DEF Calm, AllRight, Reached
  <2> QED
    BY <1>6, <2>1, <2>2 DEF Reached
<1>8. Allowed'
  <2>1. \A u \in Users : \A e \in ToSet(timeline'[u]) : May(e, u)'
    BY <1>6 DEF Calm, AllRight, Allowed
  <2> QED
    BY <2>1 DEF Allowed, ToSet
<1> QED
  BY <1>3, <1>4, <1>5, <1>7, <1>8 DEF AllRight, FollowsOther, ToSet
LEMMA TakeRight ==
    ASSUME Calm, NEW w \in Workers, Take(w)
    PROVE  AllRight'
<1> USE DEF At, Goto, storeVars, userVars, lineVars, queueVars, taskVars, countVars
<1> DEFINE c == Head(queue)
<1>1. /\ w \in Threads /\ queue \in Seq(Commands) /\ queue # <<>> /\ queue' = Tail(queue)
      /\ cmd' = [cmd EXCEPT ![w] = c] /\ pc' = [pc EXCEPT ![w] = StartOf(c.op)]
      /\ UNCHANGED <<following, followers, tweets, timeline, lineVer, tasks, recent, posts>>
  BY Constants DEF Take, Calm, Inv, Shape, QueueShape
<1>2. Len(queue) = 1 /\ \A t \in Threads : pc[t] = "idle"
  BY <1>1 DEF Calm, GraphInv, OneByOne
<1>3. tasks = {}
  BY <1>1 DEF Calm, AllRight, DeliveryRight
<1>4. c \in Commands /\ c \in ToSet(queue) /\ queue' = <<>>
  BY <1>1, <1>2 DEF ToSet
<1>5. FollowsOther(c)
  BY <1>4 DEF Calm, AllRight
<1>6. StartOf(c.op) \in {"followingGet", "unfollowersGet"}
  BY <1>4, <1>5 DEF StartOf, FollowsOther, Commands
<1> HIDE DEF c
<1>7. /\ pc'[w] = StartOf(c.op) /\ cmd'[w] = c
      /\ \A t \in Threads \ {w} : pc'[t] = pc[t]
  BY <1>1 DEF Calm, Inv, Shape, ThreadShape
<1>8. \A t \in Threads : \/ pc'[t] = "idle"
                         \/ pc'[t] \in {"followingGet", "unfollowersGet"} /\ FollowsOther(cmd'[t])
  BY <1>2, <1>5, <1>6, <1>7
<1>9. \A d \in ToSet(queue') : FollowsOther(d)
  BY <1>4 DEF ToSet
<1>10. posts' \in Nat /\ posts' >= posts
  BY <1>1 DEF Calm, Inv, Shape, CountShape
<1> QED
  BY <1>1, <1>2, <1>3, <1>8, <1>9, <1>10, BeginRight

LEMMA CallRight ==
    ASSUME Calm, Call, calm'
    PROVE  AllRight'
<1> USE DEF At, Goto, storeVars, userVars, lineVars, queueVars, taskVars, countVars
<1>1. \A c \in ToSet(queue) : FollowsOther(c)
  BY DEF Calm, AllRight
<1>2. posts \in Nat
  BY DEF Calm, Inv, Shape, CountShape
<1>3. ASSUME NEW c \in Callers, NEW u \in Users, BeginTweet(c, u)
      PROVE  AllRight'
  <2> DEFINE new == [op |-> "tweet", user |-> u, other |-> u, idx |-> 0, n |-> posts + 1]
  <2>1. /\ calm' = (calm /\ Quiet) /\ posts' = posts + 1
        /\ pc' = [pc EXCEPT ![c] = "resGet"] /\ cmd' = [cmd EXCEPT ![c] = new]
        /\ UNCHANGED <<following, followers, tweets, timeline, lineVer, tasks, recent, queue>>
    BY <1>3 DEF BeginTweet, Called
  <2>2. new.op = "tweet" /\ c \in Threads
    BY Constants
  <2> HIDE DEF new
  <2>3. Quiet
    BY <2>1
  <2>4. tasks = {} /\ queue = <<>> /\ \A t \in Threads : pc[t] = "idle"
    BY <2>3 DEF Quiet
  <2>5. \A t \in Threads : IF t = c THEN pc'[t] = "resGet" /\ cmd'[t] = new ELSE pc'[t] = "idle"
    BY <2>1, <2>2, <2>4 DEF Calm, Inv, Shape, ThreadShape
  <2>6. \A t \in Threads : \/ pc'[t] = "idle"
                           \/ pc'[t] = "resGet" /\ cmd'[t].op = "tweet" /\ posts' = posts + 1
    BY <2>1, <2>2, <2>5
  <2>7. posts' \in Nat /\ posts' >= posts
    BY <1>2, <2>1
  <2>8. \A d \in ToSet(queue') : FollowsOther(d)
    BY <1>1, <2>1
  <2> QED
    BY <2>1, <2>4, <2>6, <2>7, <2>8, BeginRight
<1>4. ASSUME NEW op \in {"start", "stop"}, NEW u \in Users, NEW v \in Names, SubmitFollow(op, u, v)
      PROVE  AllRight'
  <2> DEFINE c == [op |-> op, user |-> u, other |-> v, idx |-> 0, n |-> followCmds + 1]
  <2>1. /\ calm' = (calm /\ Quiet /\ u # v) /\ queue' = Append(queue, c)
        /\ UNCHANGED <<following, followers, tweets, timeline, lineVer, tasks, recent, pc, posts>>
    BY <1>4 DEF SubmitFollow, Called
  <2>2. FollowsOther(c)
    BY <1>4, <2>1 DEF FollowsOther
  <2> HIDE DEF c
  <2>3. tasks = {} /\ queue = <<>> /\ \A t \in Threads : pc[t] = "idle"
    BY <2>1 DEF Quiet
  <2>4. queue' = <<c>>
    BY <2>1, <2>3
  <2>5. \A d \in ToSet(queue') : FollowsOther(d)
    BY <2>2, <2>4 DEF ToSet
  <2>6. posts' \in Nat /\ posts' >= posts /\ \A t \in Threads : pc'[t] = "idle"
    BY <1>2, <2>1, <2>3
  <2> QED
    BY <2>1, <2>3, <2>5, <2>6, BeginRight
<1> QED
  BY <1>3, <1>4 DEF Call

\* Steps of no thread: a failure, a crash and a command that is queued again end the calm.
LEMMA RightNext ==
    Inv /\ GraphInv /\ DataInv /\ RightInv /\ [Next]_vars => RightInv'
<1> SUFFICES ASSUME Inv, GraphInv, DataInv, RightInv, [Next]_vars, Undisturbed'
             PROVE  AllRight'
  BY DEF RightInv
<1> USE DEF storeVars, userVars, lineVars, queueVars, taskVars, countVars
<1>1. /\ calm \in BOOLEAN /\ crashes \in Nat /\ faults \in Nat
      /\ calm' /\ crashes' = 0 /\ faults' = 0
  BY DEF GraphInv, FieldsShape, Undisturbed
<1>2. ASSUME faults' = faults + 1 PROVE FALSE
  BY <1>1, <1>2
<1>3. ASSUME NEW c \in Callers, AddFails(c) PROVE FALSE
  BY <1>2, <1>3 DEF AddFails, Fault
<1>4. ASSUME NEW k \in tasks, DeliveryAborts(k) PROVE FALSE
  BY <1>2, <1>4 DEF DeliveryAborts, Fault
<1>10. ASSUME NEW t \in Threads, Abort(t) PROVE FALSE
  BY <1>2, <1>10 DEF Abort, Fault
<1>11. ASSUME Crash PROVE FALSE
  <2>1. crashes' = crashes + 1
    BY <1>11 DEF Crash
  <2> QED
    BY <1>1, <2>1
<1>12. ASSUME NEW c \in records, Requeue(c) PROVE FALSE
  <2>1. crashes > 0 /\ crashes' = crashes
    BY <1>12 DEF Requeue
  <2> QED
    BY <1>1, <2>1
<1>5. CASE UNCHANGED vars
  <2>1. Undisturbed /\ AllRight
    BY <1>5 DEF vars, Undisturbed, RightInv
  <2>2. UNCHANGED <<storeVars, queueVars, pc, cmd, ver, idx, recent, taskVars, countVars>>
    BY <1>5 DEF vars
  <2>3. \A t \in Threads : BusyRight(t)' = BusyRight(t)
    BY <2>2 DEF BusyRight, ReadDown, NothingRead, LineFresh, SideDone, ToBeStored, NotYetShown,
                OthersCommand, FollowsOther, TweetsOf, AsSet, Entry
  <2>4. NobodySelf' = NobodySelf /\ LinesRight' = LinesRight
    BY <2>2 DEF NobodySelf, AsSet, LinesRight
  <2>5. \A k : DeliveryRight(k)' = DeliveryRight(k)
    BY <2>2 DEF DeliveryRight, AsSet, Entry
  <2>6. \A e, u : /\ Due(e, u)' = Due(e, u) /\ Has(e, u)' = Has(e, u) /\ May(e, u)' = May(e, u)
                  /\ \A t : Owes(t, e, u)' = Owes(t, e, u) /\ Removes(t, e, u)' = Removes(t, e, u)
    BY <2>2 DEF Due, Has, May, HasFollower, Follows, AsSet, Owes, Removes, Entry
  <2>7. Reached'
    BY <2>1, <2>2, <2>6 DEF AllRight, Reached, Few
  <2>8. Allowed'
    <3>1. \A u \in Users : \A e \in ToSet(timeline'[u]) : May(e, u)' \/ \E t \in Threads : Removes(t, e, u)'
      BY <2>1, <2>2, <2>6 DEF AllRight, Allowed
    <3> QED
      BY <3>1 DEF Allowed, ToSet
  <2> QED
    BY <2>1, <2>2, <2>3, <2>4, <2>5, <2>7, <2>8 DEF AllRight, FollowsOther, ToSet
<1>6. CASE Call
  <2>1. UNCHANGED <<crashes, faults>> /\ (calm' => calm)
    BY <1>6 DEF Call, BeginTweet, SubmitFollow, Called
  <2>2. Calm
    BY <1>1, <2>1 DEF Calm, Undisturbed, RightInv
  <2> QED
    BY <1>1, <1>6, <2>2, CallRight
<1>7. CASE \E c \in Callers : CallerStep(c)
  <2>1. PICK c \in Callers : CallerStep(c)
    BY <1>7
  <2>2. UNCHANGED <<calm, crashes, faults>>
    BY <2>1 DEF CallerStep, ReserveGet, ReservePut, ReserveObsolete, AddTweet, Return, RunTweet,
                StoreTweet, StoreObsolete, FanOut, OwnGet, OwnPut, OwnObsolete, Await
  <2>3. Calm
    BY <1>1, <2>2 DEF Calm, Undisturbed, RightInv
  <2>4. c \in Threads
    BY Constants
  <2> QED
    BY <2>1, <2>3, <2>4, CallerRight, TweetRight DEF CallerStep
<1>8. CASE \E w \in Workers : WorkerStep(w)
  <2>1. PICK w \in Workers : WorkerStep(w)
    BY <1>8
  <2>2. CASE Take(w) \/ Finish(w)
    <3>1. UNCHANGED <<calm, crashes, faults>>
      BY <2>2 DEF Take, Finish
    <3>2. Calm
      BY <1>1, <3>1 DEF Calm, Undisturbed, RightInv
    <3> QED
      BY <2>2, <3>2, TakeRight, FinishRight
  <2>3. CASE RunTweet(w)
    <3>1. UNCHANGED <<calm, crashes, faults>>
      BY <2>3 DEF RunTweet, StoreTweet, StoreObsolete, FanOut, OwnGet, OwnPut, OwnObsolete, Await
    <3>2. Calm /\ w \in Threads
      BY <1>1, <3>1, Constants DEF Calm, Undisturbed, RightInv
    <3> QED
      BY <2>3, <3>2, TweetRight
  <2>4. CASE RunStart(w) \/ RunStop(w)
    <3>1. UNCHANGED <<calm, crashes, faults>>
      BY <2>4 DEF RunStart, RunStop, FollowingGet, FollowingPut, FollowersGet, FollowersPut, LineGet,
                  RecentLast, RecentRead, LinePut, UnfollowersGet, UnfollowersPut, UnfollowingGet,
                  UnfollowingPut, RemoveGet, RemovePut, StopObsolete
    <3>2. Calm /\ w \in Threads
      BY <1>1, <3>1, Constants DEF Calm, Undisturbed, RightInv
    <3> QED
      BY <2>4, <3>2, FollowRight
  <2> QED
    BY <2>1, <2>2, <2>3, <2>4 DEF WorkerStep
<1>9. CASE \E k \in tasks : DeliveryStep(k)
  <2>1. PICK k \in tasks : DeliveryStep(k)
    BY <1>9
  <2>2. UNCHANGED <<calm, crashes, faults>>
    BY <2>1 DEF DeliveryStep, DeliverGet, DeliverPut, DeliverObsolete
  <2>3. Calm
    BY <1>1, <2>2 DEF Calm, Undisturbed, RightInv
  <2> QED
    BY <2>1, <2>3, DeliveryStepRight
<1> QED
  BY <1>3, <1>4, <1>5, <1>6, <1>7, <1>8, <1>9, <1>10, <1>11, <1>12 DEF Next

\* Nobody follows himself at first; one that did could not be told of his own tweets once.
NoneFollowsHimself == \A u \in Users : <<u, u>> \notin InitialFollows

LEMMA RightInit == NoneFollowsHimself /\ Init => RightInv
<1> SUFFICES ASSUME NoneFollowsHimself, Init PROVE AllRight
  BY DEF RightInv
<1>1. /\ \A t \in Threads : pc[t] = "idle" /\ recent[t] = <<>>
      /\ queue = <<>> /\ tasks = {} /\ tweets = {} /\ posts = 0
      /\ \A u \in Readers : timeline[u] = <<>>
  BY DEF Init
<1>2. \A t \in Threads : BusyRight(t)
  BY <1>1 DEF BusyRight, ReadDown, NothingRead, LineFresh, SideDone, ToBeStored, NotYetShown,
              OthersCommand, LinePcs, MergePcs, RemovePcs, StorePcs
<1>3. NobodySelf
  <2> SUFFICES ASSUME NEW u \in Users PROVE u \notin AsSet(followers[u])
    BY DEF NobodySelf
  <2> DEFINE us == {x \in Users : <<x, u>> \in InitialFollows}
  <2>1. followers[u] = (IF us = {} THEN None ELSE us)
    BY DEF Init
  <2>2. us \in SUBSET Names /\ u \notin us
    BY Constants DEF NoneFollowsHimself
  <2> HIDE DEF us
  <2> QED
    BY <2>1, <2>2, NamesAreNotNone DEF AsSet
<1>4. LinesRight
  <2>1. IsFiniteSet(tweets) /\ Cardinality(tweets) = 0
    BY <1>1, FS_EmptySet
  <2> QED
    BY <1>1, <2>1 DEF LinesRight, IsInjective
<1>5. Reached /\ Allowed
  <2>1. \A u \in Users : ToSet(timeline[u]) = {}
    BY <1>1, Constants DEF ToSet
  <2> QED
    BY <1>1, <2>1 DEF Reached, Allowed
<1> QED
  BY <1>1, <1>2, <1>3, <1>4, <1>5 DEF AllRight, ToSet

LEMMA RightAlways == NoneFollowsHimself /\ Spec => []RightInv
<1>1. Inv /\ GraphInv /\ DataInv /\ RightInv /\ [Next]_vars => RightInv'
  BY RightNext
<1> QED
  BY <1>1, RightInit, Invariance, DataAlways, PTL DEF Spec
\* As long as calls are made one at a time and nothing fails, a timeline shows its owner's
\* tweets and those of the people the owner follows, and nobody else's, however many tweets
\* there are and whatever the limits: who stops following has all entries of the other
\* removed, and no delivery comes after (StopFollowingCommand, TweetCommand's latch).
THEOREM OnlyOfThoseFollowed == NoneFollowsHimself /\ Spec => [](Undisturbed => OnlyFollowed)
<1>1. Inv /\ RightInv => (Undisturbed => OnlyFollowed)
  <2> SUFFICES ASSUME Inv, RightInv, Undisturbed, Quiet,
                      NEW u \in Users, NEW e \in ToSet(timeline[u])
               PROVE  e.author = u \/ Follows(u, e.author)
    BY DEF OnlyFollowed
  <2>1. \A t \in Threads : ~Removes(t, e, u)
    BY DEF Quiet, Removes, RemovePcs
  <2> QED
    BY <2>1 DEF RightInv, AllRight, Allowed, May
<1> QED
  BY <1>1, RightAlways, Invariance, PTL

\* As long as calls are made one at a time and nothing fails, no timeline shows a tweet
\* twice, although a merge of recent tweets and a delivery can bring the same one
\* (StartFollowingCommand's merge, which looks for each tweet in the list).
THEOREM OnceWhileUndisturbed == NoneFollowsHimself /\ Spec => [](Undisturbed => ShownOnce)
<1>1. RightInv => (Undisturbed => ShownOnce)
  BY DEF RightInv, AllRight, LinesRight, ShownOnce
<1> QED
  BY <1>1, RightAlways, PTL

\* As long as calls are made one at a time and nothing fails, and while there are no more
\* tweets than a merge asks for or a timeline takes, a timeline shows all that its owner and
\* those he follows have tweeted, and nothing of others; names that begin with another
\* name and a dash are excluded, as the removal takes their entries too (TweetCommand,
\* StartFollowingCommand, StopFollowingCommand).
THEOREM RightTimelines == NoneFollowsHimself /\ PlainNames /\ Spec => [](Few => TimelinesRight)
<1> SUFFICES ASSUME PlainNames PROVE NoneFollowsHimself /\ Spec => [](Few => TimelinesRight)
  OBVIOUS
<1>1. ASSUME RightInv, Few, Undisturbed, Quiet,
             NEW e \in tweets, NEW u \in Users, u = e.author \/ HasFollower(e.author, u)
      PROVE  e \in ToSet(timeline[u])
  <2>1. \A t \in Threads : ~Owes(t, e, u)
    BY <1>1 DEF Quiet, Owes, MergePcs
  <2>2. Due(e, u)
    BY <1>1 DEF Due
  <2>3. Has(e, u)
    BY <1>1, <2>1, <2>2 DEF RightInv, AllRight, Reached
  <2> QED
    BY <1>1, <2>3 DEF Has, Quiet
<1>2. RightInv => (Few /\ Undisturbed => Delivered)
  BY <1>1 DEF Delivered, InTimelines
<1>3. RightInv /\ (Undisturbed => OnlyFollowed) => (Few => TimelinesRight)
  BY <1>2 DEF TimelinesRight
<1> QED
  BY <1>3, RightAlways, OnlyOfThoseFollowed, PTL

-----------------------------------------------------------------------------
(* The stores implement a board of tweets (TweetBoard).                          *)

\* What a thread has read to be merged is of the one author its command names.
ReadOfOther ==
    \A t \in Threads : \A e \in ToSet(recent[t]) : pc[t] # "idle" /\ e.author = cmd[t].other

\* Of a thread that moves only what it has read itself has to be looked at.
LEMMA OthersReadKept ==
    ASSUME ReadOfOther, NEW t \in Threads,
           \A s \in Threads \ {t} : recent'[s] = recent[s] /\ pc'[s] = pc[s] /\ cmd'[s] = cmd[s],
           \A e \in ToSet(recent'[t]) : pc'[t] # "idle" /\ e.author = cmd'[t].other
    PROVE  ReadOfOther'
BY DEF ReadOfOther

LEMMA NothingInNothing == ToSet(<<>>) = {}
BY DEF ToSet

\* A thread goes on with its command and what it has read.
LEMMA GoingOnKeepsRead ==
    ASSUME Inv, ReadOfOther, NEW t \in Threads, NEW p, p # "idle", pc[t] # "idle",
           pc' = [pc EXCEPT ![t] = p], cmd' = cmd, recent' = recent
    PROVE  ReadOfOther'
<1>1. pc \in [Threads -> Pcs]
  BY DEF Inv, Shape, ThreadShape
<1> QED
  BY <1>1 DEF ReadOfOther

LEMMA LeaveKeepsRead ==
    ASSUME Inv, Lines, ReadOfOther, NEW t \in Threads, Leave(t)
    PROVE  ReadOfOther'
<1>1. /\ pc \in [Threads -> Pcs] /\ cmd \in [Threads -> Commands \cup {None}]
      /\ recent \in [Threads -> Seq(tweets)]
  BY DEF Inv, Shape, ThreadShape, Lines
<1>2. \A s \in Threads \ {t} : recent'[s] = recent[s] /\ pc'[s] = pc[s] /\ cmd'[s] = cmd[s]
  BY <1>1 DEF Leave, Goto
<1>3. recent'[t] = <<>>
  BY <1>1 DEF Leave
<1> QED
  BY <1>2, <1>3, NothingInNothing, OthersReadKept

\* A thread gets its command while it has read nothing.
LEMMA BeginningKeepsRead ==
    ASSUME Inv, ReadOfOther, NEW t \in Threads, pc[t] = "idle", NEW p,
           pc' = [pc EXCEPT ![t] = p], NEW c, cmd' = [cmd EXCEPT ![t] = c], recent' = recent
    PROVE  ReadOfOther'
<1>1. pc \in [Threads -> Pcs] /\ cmd \in [Threads -> Commands \cup {None}]
  BY DEF Inv, Shape, ThreadShape
<1>2. \A s \in Threads \ {t} : recent'[s] = recent[s] /\ pc'[s] = pc[s] /\ cmd'[s] = cmd[s]
  BY <1>1
<1>3. ToSet(recent'[t]) = {}
  BY DEF ReadOfOther
<1> QED
  BY <1>2, <1>3, OthersReadKept

LEMMA EntriesOfBoth ==
    ASSUME NEW E, NEW list \in Seq(E), NEW found \in Seq(E)
    PROVE  ToSet(list \o found) = ToSet(list) \cup ToSet(found)
<1> DEFINE n == Len(list)
           m == Len(found)
           new == list \o found
<1>1. /\ n \in Nat /\ m \in Nat /\ DOMAIN new = 1 .. n + m
      /\ DOMAIN list = 1 .. n /\ DOMAIN found = 1 .. m
  OBVIOUS
<1>2. /\ \A j \in 1 .. n : new[j] = list[j]
      /\ \A j \in 1 .. n + m : j > n => new[j] = found[j - n]
  OBVIOUS
<1>3. \A j \in 1 .. m : n + j \in 1 .. n + m /\ n + j > n /\ new[n + j] = found[j]
  <2> SUFFICES ASSUME NEW j \in 1 .. m
               PROVE  n + j \in 1 .. n + m /\ n + j > n /\ new[n + j] = found[j]
    OBVIOUS
  <2>1. n + j \in 1 .. n + m /\ n + j > n /\ (n + j) - n = j
    BY <1>1
  <2> QED
    BY <2>1, <1>2
<1>4. \A j \in 1 .. n : j \in 1 .. n + m
  BY <1>1
<1>5. \A j \in 1 .. n + m : j \in 1 .. n \/ (j > n /\ j - n \in 1 .. m)
  BY <1>1
<1> HIDE DEF n, m, new
<1>6. ToSet(new) = {new[j] : j \in 1 .. n + m} /\ ToSet(list) = {list[j] : j \in 1 .. n}
      /\ ToSet(found) = {found[j] : j \in 1 .. m}
  BY <1>1 DEF ToSet
<1>7. ToSet(list) \cup ToSet(found) \subseteq ToSet(new)
  BY <1>2, <1>3, <1>4, <1>6
<1>8. ToSet(new) \subseteq ToSet(list) \cup ToSet(found)
  BY <1>2, <1>5, <1>6
<1> QED
  BY <1>7, <1>8 DEF new

LEMMA RecentReadKeepsRead ==
    ASSUME Inv, Lines, ReadOfOther, NEW t \in Threads, RecentRead(t)
    PROVE  ReadOfOther'
<1> USE DEF queueVars
<1> DEFINE found == SetToSeq(StoredUnder(cmd[t].other, idx[t]))
<1>1. pc \in [Threads -> Pcs] /\ recent \in [Threads -> Seq(tweets)] /\ pc[t] = "recentRead"
  BY DEF Inv, Shape, ThreadShape, Lines, RecentRead, At
<1>2. found \in Seq(tweets) /\ ToSet(found) = StoredUnder(cmd[t].other, idx[t])
  BY FoundOnce
<1>3. recent' = [recent EXCEPT ![t] = recent[t] \o found] /\ cmd' = cmd
  BY DEF RecentRead
<1>4. PICK p \in {"linePut", "recentRead"} : pc' = [pc EXCEPT ![t] = p]
  BY DEF RecentRead, Goto
<1> HIDE DEF found
<1>5. ToSet(recent'[t]) = ToSet(recent[t]) \cup ToSet(found)
  BY <1>1, <1>2, <1>3, EntriesOfBoth
<1>6. pc'[t] # "idle"
  BY <1>1, <1>4
<1>7. \A e \in ToSet(recent'[t]) : e.author = cmd'[t].other
  BY <1>2, <1>3, <1>5 DEF ReadOfOther, StoredUnder
<1>8. \A s \in Threads \ {t} : recent'[s] = recent[s] /\ pc'[s] = pc[s] /\ cmd'[s] = cmd[s]
  BY <1>1, <1>3, <1>4
<1> QED
  BY <1>6, <1>7, <1>8, OthersReadKept

LEMMA RunKeepsRead ==
    ASSUME Inv, Lines, ReadOfOther, NEW t \in Threads, RunTweet(t) \/ RunStart(t) \/ RunStop(t)
    PROVE  ReadOfOther'
<1> USE DEF At, Goto
<1>1. CASE RecentRead(t)
  BY <1>1, RecentReadKeepsRead
<1>2. CASE StoreObsolete(t) \/ OwnObsolete(t) \/ StopObsolete(t)
  <2>1. PICK p \in {StartOf(cmd[t].op), AfterRun(t)} : pc' = [pc EXCEPT ![t] = p]
    BY <1>2 DEF StoreObsolete, OwnObsolete, StopObsolete, Again
  <2>2. pc[t] # "idle" /\ cmd' = cmd /\ recent' = recent
    BY <1>2 DEF StoreObsolete, OwnObsolete, StopObsolete, Again
  <2>3. cmd[t].op \in {"tweet", "start", "stop"}
    BY <2>2 DEF Inv, OnCommand, Commands
  <2>4. p # "idle"
    BY <2>1, <2>3 DEF StartOf, AfterRun
  <2> QED
    BY <2>1, <2>2, <2>4, GoingOnKeepsRead
<1>3. CASE UnfollowersGet(t) /\ cmd[t].other \notin Users
  <2>1. Leave(t)
    BY <1>3 DEF UnfollowersGet
  <2> QED
    BY <2>1, LeaveKeepsRead
<1>4. CASE RunTweet(t) /\ ~StoreObsolete(t) /\ ~OwnObsolete(t)
  <2>1. PICK p \in {"fan", "ownGet", "ownPut", "await", "return", "finish"} :
          pc' = [pc EXCEPT ![t] = p] /\ cmd' = cmd /\ recent' = recent
    BY <1>4 DEF RunTweet, StoreTweet, FanOut, OwnGet, OwnPut, Await, AfterRun, ReadLine
  <2>2. pc[t] # "idle"
    BY <1>4 DEF RunTweet, StoreTweet, FanOut, OwnGet, OwnPut, Await
  <2> QED
    BY <2>1, <2>2, GoingOnKeepsRead
<1>5. CASE RunStart(t) /\ ~RecentRead(t)
  <2>1. PICK p \in {"followingPut", "followersGet", "followersPut", "lineGet", "recentLast",
                    "recentRead", "linePut", "return", "finish"} :
          pc' = [pc EXCEPT ![t] = p] /\ cmd' = cmd /\ recent' = recent
    BY <1>5 DEF RunStart, FollowingGet, FollowingPut, FollowersGet, FollowersPut, LineGet, RecentLast,
                LinePut, ReadUser, ReadLine, AfterRun
  <2>2. pc[t] # "idle"
    BY <1>5 DEF RunStart, FollowingGet, FollowingPut, FollowersGet, FollowersPut, LineGet, RecentLast,
                LinePut
  <2> QED
    BY <2>1, <2>2, GoingOnKeepsRead
<1>6. CASE RunStop(t) /\ ~StopObsolete(t) /\ ~(UnfollowersGet(t) /\ cmd[t].other \notin Users)
  <2>1. PICK p \in {"unfollowersPut", "unfollowingGet", "unfollowingPut", "removeGet",
                    "removePut", "return", "finish"} :
          pc' = [pc EXCEPT ![t] = p] /\ cmd' = cmd /\ recent' = recent
    BY <1>6 DEF RunStop, UnfollowersGet, UnfollowersPut, UnfollowingGet, UnfollowingPut, RemoveGet,
                RemovePut, ReadUser, ReadLine, AfterRun
  <2>2. pc[t] # "idle"
    BY <1>6 DEF RunStop, UnfollowersGet, UnfollowersPut, UnfollowingGet, UnfollowingPut, RemoveGet,
                RemovePut
  <2> QED
    BY <2>1, <2>2, GoingOnKeepsRead
<1> QED
  BY <1>1, <1>2, <1>3, <1>4, <1>5, <1>6

LEMMA CallerKeepsRead ==
    ASSUME Inv, Lines, ReadOfOther, NEW c \in Callers, CallerStep(c) \/ AddFails(c)
    PROVE  ReadOfOther'
<1> USE DEF At, Goto
<1>1. c \in Threads
  BY Constants
<1>2. CASE RunTweet(c)
  BY <1>1, <1>2, RunKeepsRead
<1>3. CASE ReserveGet(c) \/ AddTweet(c)
  <2>1. PICK p \in {"resPut", "store"} : pc' = [pc EXCEPT ![c] = p]
    BY <1>3 DEF ReserveGet, AddTweet
  <2>2. pc[c] # "idle" /\ cmd' = cmd /\ recent' = recent
    BY <1>3 DEF ReserveGet, AddTweet
  <2> QED
    BY <1>1, <2>1, <2>2, GoingOnKeepsRead
<1>4. CASE ReservePut(c)
  <2>1. pc[c] # "idle" /\ cmd[c] \in Commands
    BY <1>1, <1>4 DEF ReservePut, Inv, OnCommand
  <2>2. /\ pc' = [pc EXCEPT ![c] = "add"] /\ recent' = recent
        /\ cmd' = [cmd EXCEPT ![c] = [cmd[c] EXCEPT !.idx = idx[c]]]
    BY <1>4 DEF ReservePut
  <2>3. pc \in [Threads -> Pcs] /\ cmd \in [Threads -> Commands \cup {None}]
    BY DEF Inv, Shape, ThreadShape
  <2>4. [cmd[c] EXCEPT !.idx = idx[c]].other = cmd[c].other
    BY <2>1 DEF Commands
  <2>5. \A s \in Threads \ {c} : recent'[s] = recent[s] /\ pc'[s] = pc[s] /\ cmd'[s] = cmd[s]
    BY <2>2, <2>3
  <2>6. pc'[c] # "idle" /\ cmd'[c].other = cmd[c].other
    BY <1>1, <2>2, <2>3, <2>4
  <2> QED
    BY <1>1, <2>2, <2>5, <2>6, OthersReadKept DEF ReadOfOther
<1>5. CASE ReserveObsolete(c)
  <2>1. CASE Leave(c)
    BY <1>1, <2>1, LeaveKeepsRead
  <2>2. CASE ~Leave(c)
    <3>1. pc[c] # "idle" /\ pc' = [pc EXCEPT ![c] = "resGet"] /\ cmd' = cmd /\ recent' = recent
      BY <1>5, <2>2 DEF ReserveObsolete
    <3> QED
      BY <1>1, <3>1, GoingOnKeepsRead
  <2> QED
    BY <2>1, <2>2
<1>6. CASE Return(c) \/ AddFails(c)
  <2>1. Leave(c)
    BY <1>6 DEF Return, AddFails
  <2> QED
    BY <1>1, <2>1, LeaveKeepsRead
<1> QED
  BY <1>2, <1>3, <1>4, <1>5, <1>6 DEF CallerStep

LEMMA ReadNext ==
    ASSUME Inv, Lines, ReadOfOther, [Next]_vars
    PROVE  ReadOfOther'
<1> USE DEF At, Goto, queueVars, taskVars, countVars, storeVars
<1>1. ASSUME UNCHANGED <<pc, cmd, recent>> PROVE ReadOfOther'
  BY <1>1 DEF ReadOfOther
<1>2. CASE UNCHANGED vars
  BY <1>1, <1>2 DEF vars
<1>3. CASE Call
  <2>1. CASE \E c \in Callers, u \in Users : BeginTweet(c, u)
    <3>1. PICK c \in Callers, u \in Users : BeginTweet(c, u)
      BY <2>1
    <3>2. /\ c \in Threads /\ pc[c] = "idle" /\ recent' = recent
          /\ pc' = [pc EXCEPT ![c] = "resGet"]
          /\ \E m : cmd' = [cmd EXCEPT ![c] = m]
      BY <3>1, Constants DEF BeginTweet
    <3> QED
      BY <3>2, BeginningKeepsRead
  <2>2. CASE \E op \in {"start", "stop"}, u \in Users, v \in Names : SubmitFollow(op, u, v)
    BY <1>1, <2>2 DEF SubmitFollow
  <2> QED
    BY <1>3, <2>1, <2>2 DEF Call
<1>4. ASSUME NEW c \in Callers, CallerStep(c) \/ AddFails(c) PROVE ReadOfOther'
  BY <1>4, CallerKeepsRead
<1>5. ASSUME NEW w \in Workers, WorkerStep(w) PROVE ReadOfOther'
  <2>1. w \in Threads
    BY Constants
  <2>2. CASE RunTweet(w) \/ RunStart(w) \/ RunStop(w)
    BY <2>1, <2>2, RunKeepsRead
  <2>3. CASE Take(w)
    <3>1. /\ pc[w] = "idle" /\ recent' = recent
          /\ pc' = [pc EXCEPT ![w] = StartOf(Head(queue).op)]
          /\ cmd' = [cmd EXCEPT ![w] = Head(queue)]
      BY <2>3 DEF Take
    <3> QED
      BY <2>1, <3>1, BeginningKeepsRead
  <2>4. CASE Finish(w)
    <3>1. Leave(w)
      BY <2>4 DEF Finish
    <3> QED
      BY <2>1, <3>1, LeaveKeepsRead
  <2> QED
    BY <1>5, <2>2, <2>3, <2>4 DEF WorkerStep
<1>6. CASE \E k \in tasks : DeliveryStep(k) \/ DeliveryAborts(k)
  BY <1>1, <1>6 DEF DeliveryStep, DeliverGet, DeliverPut, DeliverObsolete, DeliveryAborts
<1>7. CASE \E t \in Threads : Abort(t)
  BY <1>7, LeaveKeepsRead DEF Abort
<1>8. CASE Crash
  <2>1. \A t \in Threads : recent'[t] = <<>>
    BY <1>8 DEF Crash
  <2> QED
    BY <2>1, NothingInNothing DEF ReadOfOther
<1>9. CASE \E c \in records : Requeue(c)
  BY <1>1, <1>9 DEF Requeue
<1> QED
  BY <1>2, <1>3, <1>4, <1>5, <1>6, <1>7, <1>8, <1>9 DEF Next

LEMMA ReadInit == Init => ReadOfOther
<1> SUFFICES ASSUME Init PROVE ReadOfOther
  OBVIOUS
<1>1. \A t \in Threads : recent[t] = <<>>
  BY DEF Init
<1> QED
  BY <1>1, NothingInNothing DEF ReadOfOther

-----------------------------------------------------------------------------
LEMMA SameOnTheBoard ==
    ASSUME NEW l
    PROVE  Board!Shown(l) = ToSet(l) /\ \A d, e : Board!Before(l, d, e) <=> Precedes(l, d, e)
BY DEF Board!Shown, Board!Before, ToSet, Precedes

LEMMA NothingOnTheBoard ==
    ASSUME UNCHANGED <<tweets, acked, timeline>>
    PROVE  UNCHANGED Board!boardVars
BY DEF Board!boardVars

LEMMA ShowsOnTheBoard ==
    ASSUME Lines, NEW u \in Readers, NEW a \in Names, NEW new,
           timeline' = [timeline EXCEPT ![u] = new], UNCHANGED <<tweets, acked>>,
           ToSet(timeline[u]) \subseteq ToSet(new),
           \A e \in ToSet(new) \ ToSet(timeline[u]) : e \in tweets /\ e.author = a,
           \A d, e : Precedes(timeline[u], d, e) => Precedes(new, d, e)
    PROVE  Board!Next
<1>1. timeline'[u] = new
  BY DEF Lines
<1>2. Board!Only(u)
  BY <1>1 DEF Board!Only
<1>3. Board!InOrder(timeline[u], timeline'[u])
  BY <1>1, SameOnTheBoard DEF Board!InOrder
<1>4. Board!Show(u, a)
  BY <1>1, <1>2, <1>3, SameOnTheBoard DEF Board!Show
<1> QED
  BY <1>4 DEF Board!Next

LEMMA DropsOnTheBoard ==
    ASSUME Lines, NEW u \in Readers, NEW a \in Names,
           timeline' = [timeline EXCEPT ![u] = RemoveAuthor(timeline[u], a)],
           UNCHANGED <<tweets, acked>>
    PROVE  Board!Next
<1> DEFINE new == RemoveAuthor(timeline[u], a)
<1>1. timeline'[u] = new /\ timeline[u] \in Seq(tweets)
  BY DEF Lines
<1>2. /\ ToSet(new) = {e \in ToSet(timeline[u]) : ~Named(a, e)}
      /\ \A d, e : Precedes(timeline[u], d, e) /\ ~Named(a, d) /\ ~Named(a, e)
                     => Precedes(new, d, e)
  BY <1>1, RemoveAuthorKeeps
<1> HIDE DEF new
<1>3. Board!Only(u)
  BY <1>1 DEF Board!Only, new
<1>4. Board!InOrder(timeline[u], timeline'[u])
  BY <1>1, <1>2, SameOnTheBoard DEF Board!InOrder
<1>5. Board!Shown(timeline'[u]) = {e \in Board!Shown(timeline[u]) :
                                     e.author # a /\ <<a, e.author>> \notin Extends}
  BY <1>1, <1>2, SameOnTheBoard DEF Named
<1>6. Board!Drop(u, a)
  BY <1>3, <1>4, <1>5 DEF Board!Drop
<1> QED
  BY <1>6 DEF Board!Next

\* A tweet put into a timeline by insertTweet.
LEMMA InsertsOnTheBoard ==
    ASSUME Inv, Lines, NEW u \in Readers, NEW e \in tweets,
           timeline' = [timeline EXCEPT ![u] = InsertTweet(timeline[u], e)],
           UNCHANGED <<tweets, acked>>
    PROVE  Board!Next
<1> DEFINE new == InsertTweet(timeline[u], e)
<1>1. timeline[u] \in Seq(tweets)
  BY DEF Lines
<1>2. new \in Seq(tweets) /\ \E k : PutAt(new, timeline[u], k, e)
  BY <1>1, InsertTweetPuts
<1> HIDE DEF new
<1>3. PICK k : PutAt(new, timeline[u], k, e)
  BY <1>2
<1>4. /\ ToSet(new) = ToSet(timeline[u]) \cup {e}
      /\ \A c, d : Precedes(timeline[u], c, d) => Precedes(new, c, d)
  BY <1>1, <1>2, <1>3, PutAtKeeps
<1>5. e.author \in Names
  BY DEF Inv, Shape, StoreShape, Entries, Names
<1>6. \A d \in ToSet(new) \ ToSet(timeline[u]) : d \in tweets /\ d.author = e.author
  BY <1>4
<1>7. timeline' = [timeline EXCEPT ![u] = new]
  BY DEF new
<1> QED
  BY <1>4, <1>5, <1>6, <1>7, ShowsOnTheBoard

\* What a thread has read, merged into a timeline.
LEMMA MergesOnTheBoard ==
    ASSUME Inv, Lines, ReadOfOther, NEW t \in Threads, LinePut(t)
    PROVE  Board!Next \/ UNCHANGED Board!boardVars
<1> USE DEF At, Goto, userVars, lineVars, queueVars, taskVars, countVars
<1> DEFINE u == cmd[t].user
           a == cmd[t].other
           new == Merge(timeline[u], recent[t])
<1>1. pc[t] = "linePut" /\ cmd[t] \in Commands
  BY DEF LinePut, Inv, OnCommand
<1>2. u \in Readers /\ a \in Names
  BY <1>1, Constants DEF Commands
<1>3. UNCHANGED <<tweets, acked>> /\ (timeline' = timeline \/ timeline' = [timeline EXCEPT ![u] = new])
  BY DEF LinePut, PutLine
<1>4. timeline[u] \in Seq(tweets) /\ recent[t] \in Seq(tweets)
  BY <1>2 DEF Lines
<1>5. Merged(timeline[u], ToSet(recent[t]), new)
  BY <1>4, MergeLoopKeeps
<1>6. \A e \in ToSet(recent[t]) : e \in tweets /\ e.author = a
  BY <1>4 DEF ToSet, ReadOfOther
<1> HIDE DEF u, a, new
<1>7. /\ ToSet(timeline[u]) \subseteq ToSet(new)
      /\ \A e \in ToSet(new) \ ToSet(timeline[u]) : e \in tweets /\ e.author = a
      /\ \A d, e : Precedes(timeline[u], d, e) => Precedes(new, d, e)
  BY <1>5, <1>6 DEF Merged
<1>8. CASE timeline' = timeline
  BY <1>3, <1>8, NothingOnTheBoard
<1>9. CASE timeline' = [timeline EXCEPT ![u] = new]
  BY <1>2, <1>3, <1>7, <1>9, ShowsOnTheBoard
<1> QED
  BY <1>3, <1>8, <1>9

LEMMA TweetOnTheBoard ==
    ASSUME Inv, Lines, NEW t \in Threads, RunTweet(t)
    PROVE  Board!Next \/ UNCHANGED Board!boardVars
<1> USE DEF At, Goto, storeVars, userVars, lineVars, queueVars, taskVars, countVars
<1>1. CASE StoreTweet(t)
  <2> DEFINE e == Entry(cmd[t])
  <2>1. pc[t] = "store" /\ cmd[t] \in Commands /\ cmd[t].op = "tweet"
    BY <1>1 DEF StoreTweet, Inv, OnCommand, TweetPcs
  <2>2. /\ StoredUnder(cmd[t].user, cmd[t].idx) = {}
        /\ tweets' = tweets \cup {e} /\ UNCHANGED <<acked, timeline>>
    BY <1>1 DEF StoreTweet
  <2>3. e \in Entries /\ e.author = cmd[t].user /\ e.idx = cmd[t].idx
    BY <2>1 DEF Entry, Entries, Commands
  <2>4. \A d \in tweets : d.author # e.author \/ d.idx # e.idx
    BY <2>2, <2>3 DEF StoredUnder
  <2>5. e \in tweets' \ tweets
    BY <2>2, <2>4
  <2> HIDE DEF e
  <2>6. Board!Post
    BY <2>2, <2>3, <2>4, <2>5 DEF Board!Post
  <2> QED
    BY <2>6 DEF Board!Next
<1>2. CASE OwnPut(t)
  <2> DEFINE u == cmd[t].user
             e == Entry(cmd[t])
  <2>1. pc[t] = "ownPut" /\ cmd[t] \in Commands /\ cmd[t].op = "tweet"
    BY <1>2 DEF OwnPut, Inv, OnCommand, TweetPcs
  <2>2. u \in Readers /\ e \in tweets
    BY <2>1, Constants DEF Commands, Inv, PastStore
  <2>3. timeline' = [timeline EXCEPT ![u] = InsertTweet(timeline[u], e)] /\ UNCHANGED <<tweets, acked>>
    BY <1>2 DEF OwnPut, PutLine
  <2> HIDE DEF u, e
  <2> QED
    BY <2>2, <2>3, InsertsOnTheBoard
<1>3. CASE ~(StoreTweet(t) \/ OwnPut(t))
  <2>1. UNCHANGED <<tweets, acked, timeline>>
    BY <1>3 DEF RunTweet, StoreObsolete, FanOut, OwnGet, OwnObsolete, Await
  <2> QED
    BY <2>1, NothingOnTheBoard
<1> QED
  BY <1>1, <1>2, <1>3

LEMMA FollowOnTheBoard ==
    ASSUME Inv, Lines, ReadOfOther, NEW t \in Threads, RunStart(t) \/ RunStop(t)
    PROVE  Board!Next \/ UNCHANGED Board!boardVars
<1> USE DEF At, Goto, storeVars, userVars, lineVars, queueVars, taskVars, countVars
<1>1. CASE LinePut(t)
  BY <1>1, MergesOnTheBoard
<1>2. CASE RemovePut(t)
  <2>1. pc[t] = "removePut" /\ cmd[t] \in Commands
    BY <1>2 DEF RemovePut, Inv, OnCommand
  <2>2. cmd[t].user \in Readers /\ cmd[t].other \in Names
    BY <2>1, Constants DEF Commands
  <2>3. /\ timeline' = [timeline EXCEPT ![cmd[t].user] = RemoveAuthor(timeline[cmd[t].user], cmd[t].other)]
        /\ UNCHANGED <<tweets, acked>>
    BY <1>2 DEF RemovePut, PutLine
  <2> QED
    BY <2>2, <2>3, DropsOnTheBoard
<1>3. CASE ~(LinePut(t) \/ RemovePut(t))
  <2>1. UNCHANGED <<tweets, acked, timeline>>
    BY <1>3 DEF RunStart, FollowingGet, FollowingPut, FollowersGet, FollowersPut, LineGet, RecentLast,
                RecentRead, RunStop, UnfollowersGet, UnfollowersPut, UnfollowingGet, UnfollowingPut,
                RemoveGet, StopObsolete
  <2> QED
    BY <2>1, NothingOnTheBoard
<1> QED
  BY <1>1, <1>2, <1>3

LEMMA NextOnTheBoard ==
    ASSUME Inv, DataInv, ReadOfOther, [Next]_vars
    PROVE  Board!Next \/ UNCHANGED Board!boardVars
<1> USE DEF At, Goto, storeVars, userVars, lineVars, queueVars, taskVars, countVars
<1>1. Lines /\ Deliveries
  BY DEF DataInv
<1>2. CASE \/ UNCHANGED vars
           \/ Call
           \/ \E t \in Threads : Abort(t)
           \/ Crash
           \/ \E c \in records : Requeue(c)
  <2>1. UNCHANGED <<tweets, acked, timeline>>
    BY <1>2 DEF vars, Call, BeginTweet, SubmitFollow, Abort, Crash, Requeue
  <2> QED
    BY <2>1, NothingOnTheBoard
<1>3. ASSUME NEW c \in Callers, CallerStep(c) \/ AddFails(c)
      PROVE  Board!Next \/ UNCHANGED Board!boardVars
  <2>1. c \in Threads
    BY Constants
  <2>2. CASE RunTweet(c)
    BY <1>1, <2>1, <2>2, TweetOnTheBoard
  <2>3. CASE Return(c)
    <3>1. pc[c] = "return" /\ cmd[c].op = "tweet"
      BY <2>1, <2>3 DEF Return, Inv, OnCommand
    <3>2. Entry(cmd[c]) \in tweets
      BY <2>1, <3>1 DEF Inv, PastStore
    <3>3. acked' = acked \cup {Entry(cmd[c])} /\ UNCHANGED <<tweets, timeline>>
      BY <2>3 DEF Return
    <3>4. Board!Acknowledge
      BY <3>2, <3>3 DEF Board!Acknowledge
    <3> QED
      BY <3>4 DEF Board!Next
  <2>4. CASE ~(RunTweet(c) \/ Return(c))
    <3>1. UNCHANGED <<tweets, acked, timeline>>
      BY <1>3, <2>4 DEF CallerStep, ReserveGet, ReservePut, ReserveObsolete, AddTweet, AddFails
    <3> QED
      BY <3>1, NothingOnTheBoard
  <2> QED
    BY <2>2, <2>3, <2>4
<1>4. ASSUME NEW w \in Workers, WorkerStep(w)
      PROVE  Board!Next \/ UNCHANGED Board!boardVars
  <2>1. w \in Threads
    BY Constants
  <2>2. CASE RunTweet(w) \/ RunStart(w) \/ RunStop(w)
    BY <1>1, <2>1, <2>2, TweetOnTheBoard, FollowOnTheBoard
  <2>3. CASE Take(w) \/ Finish(w)
    <3>1. UNCHANGED <<tweets, acked, timeline>>
      BY <2>3 DEF Take, Finish
    <3> QED
      BY <3>1, NothingOnTheBoard
  <2> QED
    BY <1>4, <2>2, <2>3 DEF WorkerStep
<1>5. ASSUME NEW k \in tasks, DeliveryStep(k) \/ DeliveryAborts(k)
      PROVE  Board!Next \/ UNCHANGED Board!boardVars
  <2>1. CASE DeliverPut(k)
    <3>1. /\ timeline' = [timeline EXCEPT ![k.to] = InsertTweet(timeline[k.to], k.tweet)]
          /\ UNCHANGED <<tweets, acked>>
      BY <2>1 DEF DeliverPut, PutLine
    <3>2. k.to \in Readers /\ k.tweet \in tweets
      BY <1>1 DEF Deliveries
    <3> QED
      BY <1>1, <3>1, <3>2, InsertsOnTheBoard
  <2>2. CASE ~DeliverPut(k)
    <3>1. UNCHANGED <<tweets, acked, timeline>>
      BY <1>5, <2>2 DEF DeliveryStep, DeliverGet, DeliverObsolete, DeliveryAborts
    <3> QED
      BY <3>1, NothingOnTheBoard
  <2> QED
    BY <2>1, <2>2
<1> QED
  BY <1>2, <1>3, <1>4, <1>5 DEF Next

\* The stores are a board of tweets, whatever runs together, is given up after three
\* attempts, dies or is run again: no step takes a tweet back, gives its id again,
\* acknowledges or shows one that is not there, takes out of a timeline a part of what an
\* author has in it, or changes the order of what it shows (TweetCommand,
\* StartFollowingCommand, StopFollowingCommand, VoldemortTweetService.tweet).
THEOREM BoardIsKept == Spec => KeepsBoard
<1>1. Init => Board!Init
  BY DEF Init, Board!Init
<1>2. Inv /\ DataInv /\ ReadOfOther /\ [Next]_vars => ReadOfOther'
  BY ReadNext DEF DataInv
<1>3. Inv /\ DataInv /\ ReadOfOther /\ [Next]_vars => [Board!Next]_Board!boardVars
  BY NextOnTheBoard
<1> QED
  BY <1>1, <1>2, <1>3, ReadInit, Invariance, DataAlways, PTL DEF Spec, KeepsBoard, Board!Spec
=============================================================================
