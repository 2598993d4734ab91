------------------------------ MODULE Tweeting ------------------------------
(***************************************************************************)
(* Tweets, timelines and the follow graph of one bigbird node over the     *)
(* Voldemort stores: tweet, startFollowing and stopFollowing of            *)
(* VoldemortTweetService, the three commands, the threads that run them    *)
(* and the pool that delivers tweets to followers.                         *)
(*                                                                         *)
(* Every key of a store carries a version.  A client reads a value with    *)
(* its version, changes the value, and puts it back; the put is done only  *)
(* if the version is still the one read, so what is put back is the stored *)
(* value with the change made to it.  A key that is absent has version 0.  *)
(***************************************************************************)
EXTENDS TimelineLists, FiniteSets

CONSTANTS
    Users,           \* accounts; only they are logged in
    Strangers,       \* names without an account
    Nobody,          \* the empty name ""
    None,            \* an absent field, no command
    Callers,         \* threads that call the service
    Workers,         \* threads of commandExecutor
    Ops,             \* what callers do: "tweet", "start", "stop"
    InitialFollows,  \* pairs <<u, v>>: u follows v at first
    RecentLimit,     \* tweets getRecentTweets asks for (20)
    MaxTries,        \* attempts of applyUpdate (3)
    Timeouts,        \* asyncTimeout may expire before the deliveries are done
    MaxPosts,        \* bound: calls of tweet
    MaxFollowCmds,   \* bound: calls of startFollowing and stopFollowing
    RacingPosts,     \* bounds: calls of either kind once two have run together
    RacingFollows,
    MaxCrashes,      \* bound: crashes
    MaxReruns,       \* bound: commands the restore loop queues again
    MaxFaults        \* bound: store operations that fail

Names == Users \cup Strangers
Threads == Callers \cup Workers

ASSUME NamesAssumption ==
    /\ Users \cap Strangers = {} /\ Nobody \notin Names /\ None \notin Names \cup {Nobody}
    /\ \A names \in SUBSET Names : names # None
    /\ Callers \cap Workers = {} /\ InitialFollows \subseteq Users \X Users
ASSUME BoundsAssumption ==
    /\ {RecentLimit, MaxTries} \subseteq Nat \ {0} /\ Timeouts \in BOOLEAN
    /\ {MaxPosts, MaxFollowCmds, RacingPosts, RacingFollows} \subseteq Nat
    /\ {MaxCrashes, MaxReruns, MaxFaults} \subseteq Nat

VARIABLES
    \* store "users"
    last,                   \* lastTweet
    following, followers,   \* the names in the fields, None when the field is missing
    userVer,
    \* store "tweets": the tweets stored; its key is the author and the index
    tweets,
    \* store "friendsTimeline"
    timeline, lineVer,
    \* the command queue
    queue, records,         \* commands waiting for a worker; commands stored
    \* a thread: where it is, its command, its attempts, and what it has read
    pc, cmd, tries, ver, idx, recent,
    \* tweetServiceExecutor: deliveries to do, deliveries that died
    tasks, lost,
    \* history and counters
    acked,                  \* tweets whose tweet() has returned
    calm,                   \* each call was made when all was done, and nobody followed himself
    posts, followCmds, crashes, reruns, faults

userVars   == <<last, following, followers, userVer>>
lineVars   == <<timeline, lineVer>>
queueVars  == <<queue, records>>
taskVars   == <<tasks, lost>>
countVars  == <<calm, posts, followCmds, crashes, reruns, faults>>
storeVars  == <<userVars, tweets, lineVars>>
vars == <<storeVars, queueVars, pc, cmd, tries, ver, idx, recent, taskVars, acked,
          countVars>>

Entries == [author : Users, idx : Nat, date : Nat]
Commands == [op : {"tweet", "start", "stop"}, user : Users, other : Names, idx : Nat, n : Nat]
Pcs == {"idle", "resGet", "resPut", "add", "return", "finish",
        "store", "fan", "ownGet", "ownPut", "await",
        "followingGet", "followingPut", "followersGet", "followersPut",
        "lineGet", "recentLast", "recentRead", "linePut",
        "unfollowersGet", "unfollowersPut", "unfollowingGet", "unfollowingPut",
        "removeGet", "removePut"}
Readers == Users \cup {Nobody}      \* whose timeline a delivery goes to

TypeOK ==
    /\ last \in [Users -> Nat] /\ userVer \in [Users -> Nat]
    /\ following \in [Users -> (SUBSET Names) \cup {None}]
    /\ followers \in [Users -> (SUBSET Users) \cup {None}]
    /\ tweets \subseteq Entries
    /\ timeline \in [Readers -> Seq(Entries)] /\ lineVer \in [Readers -> Nat]
    /\ queue \in Seq(Commands) /\ records \subseteq Commands
    /\ pc \in [Threads -> Pcs] /\ cmd \in [Threads -> Commands \cup {None}]
    /\ tries \in [Threads -> 0 .. MaxTries]
    /\ ver \in [Threads -> Nat] /\ idx \in [Threads -> Nat]
    /\ recent \in [Threads -> Seq(Entries)]
    /\ tasks \subseteq [tweet : Entries, to : Readers, ver : Nat \cup {-1}]
    /\ lost \subseteq [tweet : Entries, to : Readers]
    /\ acked \subseteq Entries
    /\ calm \in BOOLEAN /\ {posts, followCmds, crashes, reruns, faults} \subseteq Nat

-----------------------------------------------------------------------------
(* The fields "following" and "followers": names joined with commas.  An empty  *)
(* field reads back as the empty name.                                          *)

AsSet(field) == IF field = None THEN {} ELSE IF field = {} THEN {Nobody} ELSE field
AsField(names) == names \ {Nobody}

Init ==
    /\ last = [u \in Users |-> 0] /\ userVer = [u \in Users |-> 1]
    /\ following = [u \in Users |->
         LET vs == {v \in Users : <<u, v>> \in InitialFollows} IN IF vs = {} THEN None ELSE vs]
    /\ followers = [v \in Users |->
         LET us == {u \in Users : <<u, v>> \in InitialFollows} IN IF us = {} THEN None ELSE us]
    /\ tweets = {}
    /\ timeline = [u \in Readers |-> <<>>] /\ lineVer = [u \in Readers |-> 0]
    /\ queue = <<>> /\ records = {}
    /\ pc = [t \in Threads |-> "idle"] /\ cmd = [t \in Threads |-> None]
    /\ tries = [t \in Threads |-> 0] /\ ver = [t \in Threads |-> 0]
    /\ idx = [t \in Threads |-> 0] /\ recent = [t \in Threads |-> <<>>]
    /\ tasks = {} /\ lost = {} /\ acked = {}
    /\ calm = TRUE /\ posts = 0 /\ followCmds = 0 /\ crashes = 0 /\ reruns = 0 /\ faults = 0

-----------------------------------------------------------------------------
(* Threads.                                                                     *)

Goto(t, place) == pc' = [pc EXCEPT ![t] = place]

\* The call or task is over, however it ended.
Leave(t) ==
    /\ Goto(t, "idle")
    /\ cmd' = [cmd EXCEPT ![t] = None]
    /\ tries' = [tries EXCEPT ![t] = 0] /\ ver' = [ver EXCEPT ![t] = 0]
    /\ idx' = [idx EXCEPT ![t] = 0] /\ recent' = [recent EXCEPT ![t] = <<>>]

Fault == faults < MaxFaults /\ faults' = faults + 1

Entry(c) == [author |-> c.user, idx |-> c.idx, date |-> c.n]
StartOf(op) == CASE op = "tweet" -> "store"
                 [] op = "start" -> "followingGet"
                 [] op = "stop"  -> "unfollowersGet"

\* The command has run: tweet() returns, a worker goes on to finishCommand.
AfterRun(t) == IF t \in Callers THEN "return" ELSE "finish"

AgainForever(t) ==      \* variation: attempts are counted but not limited
    /\ tries' = [tries EXCEPT ![t] = @ + 1]
    /\ Goto(t, StartOf(cmd[t].op))
    /\ UNCHANGED <<cmd, ver, idx, recent>>

\* applyUpdate caught an ObsoleteVersionException: the command runs again from its start,
\* and after the last attempt it is over as if it had run.
Again(t) ==
    /\ tries' = [tries EXCEPT ![t] = @ + 1]
    /\ Goto(t, IF tries[t] + 1 < MaxTries THEN StartOf(cmd[t].op) ELSE AfterRun(t))
    /\ UNCHANGED <<cmd, ver, idx, recent>>

Bump(versions, key) == [versions EXCEPT ![key] = @ + 1]

\* get: the thread keeps the version of the user or of the timeline it has read.
ReadUser(t, u, next) ==
    /\ ver' = [ver EXCEPT ![t] = userVer[u]]
    /\ Goto(t, next)
    /\ UNCHANGED <<cmd, tries, idx, recent>>
ReadLine(t, u, next) ==
    /\ ver' = [ver EXCEPT ![t] = lineVer[u]]
    /\ Goto(t, next)
    /\ UNCHANGED <<cmd, tries, idx, recent>>

\* put of a timeline.
PutLine(u, list) ==
    /\ timeline' = [timeline EXCEPT ![u] = list]
    /\ lineVer' = Bump(lineVer, u)

\* The places below are reached by a thread that runs a command.
At(t, place) == pc[t] = place

-----------------------------------------------------------------------------
(* VoldemortTweetService: tweet, startFollowing, stopFollowing.                 *)

Quiet == tasks = {} /\ queue = <<>> /\ \A t \in Threads : pc[t] = "idle"
Called(ofOthers) ==
    /\ calm' = (calm /\ Quiet /\ ofOthers)
    /\ calm' \/ (posts' <= RacingPosts /\ followCmds' <= RacingFollows)

BeginTweet(c, u) ==
    /\ At(c, "idle") /\ "tweet" \in Ops /\ posts < MaxPosts
    /\ posts' = posts + 1 /\ UNCHANGED followCmds
    /\ Called(TRUE)
    /\ cmd' = [cmd EXCEPT ![c] =
                 [op |-> "tweet", user |-> u, other |-> u, idx |-> 0, n |-> posts + 1]]
    /\ Goto(c, "resGet")
    /\ UNCHANGED <<storeVars, queueVars, tries, ver, idx, recent, taskVars, acked,
                   crashes, reruns, faults>>

\* The index is reserved by an update of the user that is retried when it is obsolete.
ReserveGet(c) ==
    /\ At(c, "resGet")
    /\ LET u == cmd[c].user IN
       /\ ver' = [ver EXCEPT ![c] = userVer[u]]
       /\ idx' = [idx EXCEPT ![c] = last[u] + 1]
    /\ Goto(c, "resPut")
    /\ UNCHANGED <<storeVars, queueVars, cmd, tries, recent, taskVars, acked, countVars>>

ReserveBlind(c) ==      \* variation: the put does not look at the version
    /\ At(c, "resPut")
    /\ last' = [last EXCEPT ![cmd[c].user] = idx[c]]
    /\ userVer' = Bump(userVer, cmd[c].user)
    /\ cmd' = [cmd EXCEPT ![c].idx = idx[c]]
    /\ Goto(c, "add")
    /\ UNCHANGED <<following, followers, tweets, lineVars, queueVars, tries, ver, idx,
                   recent, taskVars, acked, countVars>>

ReservePut(c) ==
    /\ At(c, "resPut") /\ userVer[cmd[c].user] = ver[c]
    /\ last' = [last EXCEPT ![cmd[c].user] = idx[c]]
    /\ userVer' = Bump(userVer, cmd[c].user)
    /\ cmd' = [cmd EXCEPT ![c].idx = idx[c]]
    /\ tries' = [tries EXCEPT ![c] = 0]
    /\ Goto(c, "add")
    /\ UNCHANGED <<following, followers, tweets, lineVars, queueVars, ver, idx, recent,
                   taskVars, acked, countVars>>

\* After the last attempt tweet() throws a BackendException.
ReserveObsolete(c) ==
    /\ At(c, "resPut") /\ userVer[cmd[c].user] # ver[c]
    /\ IF tries[c] + 1 < MaxTries
         THEN /\ tries' = [tries EXCEPT ![c] = @ + 1]
              /\ Goto(c, "resGet")
              /\ UNCHANGED <<cmd, ver, idx, recent>>
         ELSE Leave(c)
    /\ UNCHANGED <<storeVars, queueVars, taskVars, acked, countVars>>

\* commandQueue.add stores the command and runs it in this thread.
AddTweet(c) ==
    /\ At(c, "add")
    /\ records' = records \cup {cmd[c]}
    /\ Goto(c, "store")
    /\ UNCHANGED <<storeVars, queue, cmd, tries, ver, idx, recent, taskVars, acked,
                   countVars>>

AddFailsQuietly(c) ==   \* variation: the exception is swallowed
    /\ At(c, "add") /\ Fault
    /\ Goto(c, "return")
    /\ UNCHANGED <<storeVars, queueVars, cmd, tries, ver, idx, recent, taskVars, acked,
                   calm, posts, followCmds, crashes, reruns>>

\* A command that cannot be stored: the index stays reserved, tweet() throws.  The
\* record may be there all the same.
AddFails(c) ==
    /\ At(c, "add") /\ Fault
    /\ records' \in {records, records \cup {cmd[c]}}
    /\ Leave(c)
    /\ UNCHANGED <<storeVars, queue, taskVars, acked, calm, posts, followCmds, crashes, reruns>>

Return(c) ==
    /\ At(c, "return")
    /\ acked' = acked \cup {Entry(cmd[c])}
    /\ Leave(c)
    /\ UNCHANGED <<storeVars, queueVars, taskVars, countVars>>

\* addAsync stores the command and queues it for a worker.
SubmitFollow(op, u, v) ==
    /\ op \in Ops \ {"tweet"} /\ followCmds < MaxFollowCmds
    /\ followCmds' = followCmds + 1 /\ UNCHANGED posts
    /\ Called(u # v)
    /\ LET c == [op |-> op, user |-> u, other |-> v, idx |-> 0, n |-> followCmds + 1] IN
       /\ records' = records \cup {c}
       /\ queue' = Append(queue, c)
    /\ UNCHANGED <<storeVars, pc, cmd, tries, ver, idx, recent, taskVars, acked,
                   crashes, reruns, faults>>

-----------------------------------------------------------------------------
(* TweetCommand.                                                                *)

StoredUnder(u, i) == {e \in tweets : e.author = u /\ e.idx = i}

StoreLater(t) ==        \* variation: the tweet is stored after it was delivered
    /\ At(t, "store")
    /\ Goto(t, "fan")
    /\ UNCHANGED <<storeVars, queueVars, cmd, tries, ver, idx, recent, taskVars, acked,
                   countVars>>

StoreTweet(t) ==
    /\ At(t, "store") /\ StoredUnder(cmd[t].user, cmd[t].idx) = {}
    /\ tweets' = tweets \cup {Entry(cmd[t])}
    /\ Goto(t, "fan")
    /\ UNCHANGED <<userVars, lineVars, queueVars, cmd, tries, ver, idx, recent, taskVars,
                   acked, countVars>>

StoreAgain(t) ==        \* variation: the put overwrites
    /\ At(t, "store") /\ StoredUnder(cmd[t].user, cmd[t].idx) # {}
    /\ Goto(t, "fan")
    /\ UNCHANGED <<storeVars, queueVars, cmd, tries, ver, idx, recent, taskVars, acked,
                   countVars>>

StoreForever(t) ==      \* variation: attempts are not counted
    /\ At(t, "store") /\ StoredUnder(cmd[t].user, cmd[t].idx) # {}
    /\ UNCHANGED vars

\* A tweet that is stored already, by an earlier attempt or run, is obsolete: its clock
\* is fresh.
StoreObsolete(t) ==
    /\ At(t, "store") /\ StoredUnder(cmd[t].user, cmd[t].idx) # {}
    /\ Again(t)
    /\ UNCHANGED <<storeVars, queueVars, taskVars, acked, countVars>>

FanOutFollowing(t) ==   \* variation: to those the author follows
    /\ At(t, "fan")
    /\ tasks' = tasks \cup {[tweet |-> Entry(cmd[t]), to |-> f, ver |-> -1] :
                              f \in AsSet(following[cmd[t].user]) \cap Readers}
    /\ Goto(t, "ownGet")
    /\ UNCHANGED <<storeVars, queueVars, cmd, tries, ver, idx, recent, lost, acked,
                   countVars>>

\* One task for each follower the author has now.
FanOut(t) ==
    /\ At(t, "fan")
    /\ tasks' = tasks \cup {[tweet |-> Entry(cmd[t]), to |-> f, ver |-> -1] :
                              f \in AsSet(followers[cmd[t].user])}
    /\ Goto(t, "ownGet")
    /\ UNCHANGED <<storeVars, queueVars, cmd, tries, ver, idx, recent, lost, acked,
                   countVars>>

OwnGet(t) ==
    /\ At(t, "ownGet")
    /\ ReadLine(t, cmd[t].user, "ownPut")
    /\ UNCHANGED <<storeVars, queueVars, taskVars, acked, countVars>>

OwnPut(t) ==
    /\ At(t, "ownPut") /\ lineVer[cmd[t].user] = ver[t]
    /\ PutLine(cmd[t].user, InsertTweet(timeline[cmd[t].user], Entry(cmd[t])))
    /\ Goto(t, "await")
    /\ UNCHANGED <<userVars, tweets, queueVars, cmd, tries, ver, idx, recent, taskVars,
                   acked, countVars>>

OwnObsolete(t) ==
    /\ At(t, "ownPut") /\ lineVer[cmd[t].user] # ver[t]
    /\ Again(t)
    /\ UNCHANGED <<storeVars, queueVars, taskVars, acked, countVars>>

\* The latch: every delivery has been done, or asyncTimeout has passed.  A delivery that
\* died never counts it down.
Counted(t) == \A k \in tasks \cup lost : k.tweet # Entry(cmd[t])
Await(t) ==
    /\ At(t, "await") /\ (Counted(t) \/ Timeouts)
    /\ Goto(t, AfterRun(t))
    /\ UNCHANGED <<storeVars, queueVars, cmd, tries, ver, idx, recent, taskVars, acked,
                   countVars>>

\* A delivery on a thread of tweetServiceExecutor: updateTimeline.
DeliverGet(k) ==
    /\ k.ver = -1
    /\ tasks' = (tasks \ {k}) \cup {[k EXCEPT !.ver = lineVer[k.to]]}
    /\ UNCHANGED <<storeVars, queueVars, pc, cmd, tries, ver, idx, recent, lost, acked,
                   countVars>>

DeliverPut(k) ==
    /\ k.ver # -1 /\ lineVer[k.to] = k.ver
    /\ PutLine(k.to, InsertTweet(timeline[k.to], k.tweet))
    /\ tasks' = tasks \ {k}
    /\ UNCHANGED <<userVars, tweets, queueVars, pc, cmd, tries, ver, idx, recent, lost,
                   acked, countVars>>

\* The exception of an obsolete put ends the delivery; nobody does it again.
DeliverObsolete(k) ==
    /\ k.ver # -1 /\ lineVer[k.to] # k.ver
    /\ tasks' = tasks \ {k}
    /\ lost' = lost \cup {[tweet |-> k.tweet, to |-> k.to]}
    /\ UNCHANGED <<storeVars, queueVars, pc, cmd, tries, ver, idx, recent, acked, countVars>>

-----------------------------------------------------------------------------
(* StartFollowingCommand: three puts, of which none tells that it was obsolete. *)

Unchanged(u, t) == userVer[u] = ver[t]

FollowingGet(t) ==
    /\ At(t, "followingGet")
    /\ ReadUser(t, cmd[t].user, "followingPut")
    /\ UNCHANGED <<storeVars, queueVars, taskVars, acked, countVars>>

FollowingPut(t) ==
    /\ At(t, "followingPut")
    /\ LET u == cmd[t].user IN
       IF Unchanged(u, t)
         THEN /\ following' = [following EXCEPT ![u] = AsField(AsSet(@) \cup {cmd[t].other})]
              /\ userVer' = Bump(userVer, u)
         ELSE UNCHANGED <<following, userVer>>
    /\ Goto(t, "followersGet")
    /\ UNCHANGED <<last, followers, tweets, lineVars, queueVars, cmd, tries, ver, idx,
                   recent, taskVars, acked, countVars>>

\* A name without an account is reported and skipped.
FollowersGet(t) ==
    /\ At(t, "followersGet")
    /\ IF cmd[t].other \in Users
         THEN ReadUser(t, cmd[t].other, "followersPut")
         ELSE Goto(t, "lineGet") /\ UNCHANGED <<cmd, tries, ver, idx, recent>>
    /\ UNCHANGED <<storeVars, queueVars, taskVars, acked, countVars>>

FollowersPut(t) ==
    /\ At(t, "followersPut")
    /\ LET v == cmd[t].other IN
       IF Unchanged(v, t)
         THEN /\ followers' = [followers EXCEPT ![v] = AsField(AsSet(@) \cup {cmd[t].user})]
              /\ userVer' = Bump(userVer, v)
         ELSE UNCHANGED <<followers, userVer>>
    /\ Goto(t, "lineGet")
    /\ UNCHANGED <<last, following, tweets, lineVars, queueVars, cmd, tries, ver, idx,
                   recent, taskVars, acked, countVars>>

LineGet(t) ==
    /\ At(t, "lineGet")
    /\ ReadLine(t, cmd[t].user, "recentLast")
    /\ UNCHANGED <<storeVars, queueVars, taskVars, acked, countVars>>

\* getTweets(other, 0, 20): from the last index down, one read for each.
RecentLast(t) ==
    /\ At(t, "recentLast")
    /\ LET v == cmd[t].other IN
       IF v \notin Users
         THEN Goto(t, AfterRun(t)) /\ UNCHANGED idx
         ELSE /\ idx' = [idx EXCEPT ![t] = last[v]]
              /\ Goto(t, IF last[v] = 0 THEN "linePut" ELSE "recentRead")
    /\ UNCHANGED <<storeVars, queueVars, cmd, tries, ver, recent, taskVars, acked, countVars>>

RecentRead(t) ==
    /\ At(t, "recentRead")
    /\ LET found == SetToSeq(StoredUnder(cmd[t].other, idx[t])) IN
       /\ recent' = [recent EXCEPT ![t] = @ \o found]
       /\ idx' = [idx EXCEPT ![t] = @ - 1]
       /\ Goto(t, IF idx[t] = 1 \/ Len(recent'[t]) = RecentLimit THEN "linePut"
                  ELSE "recentRead")
    /\ UNCHANGED <<storeVars, queueVars, cmd, tries, ver, taskVars, acked, countVars>>

LinePut(t) ==
    /\ At(t, "linePut")
    /\ LET u == cmd[t].user IN
       IF lineVer[u] = ver[t]
         THEN PutLine(u, Merge(timeline[u], recent[t]))
         ELSE UNCHANGED lineVars
    /\ Goto(t, AfterRun(t))
    /\ UNCHANGED <<userVars, tweets, queueVars, cmd, tries, ver, idx, recent, taskVars,
                   acked, countVars>>

-----------------------------------------------------------------------------
(* StopFollowingCommand: three puts; an obsolete one runs the command again.    *)

\* Without the account a NullPointerException ends the task before finishCommand.
UnfollowersGet(t) ==
    /\ At(t, "unfollowersGet")
    /\ IF cmd[t].other \in Users THEN ReadUser(t, cmd[t].other, "unfollowersPut")
                                 ELSE Leave(t)
    /\ UNCHANGED <<storeVars, queueVars, taskVars, acked, countVars>>

UnfollowersPut(t) ==
    /\ At(t, "unfollowersPut") /\ Unchanged(cmd[t].other, t)
    /\ LET v == cmd[t].other IN
       /\ followers' = [followers EXCEPT ![v] = AsField(AsSet(@) \ {cmd[t].user})]
       /\ userVer' = Bump(userVer, v)
    /\ Goto(t, "unfollowingGet")
    /\ UNCHANGED <<last, following, tweets, lineVars, queueVars, cmd, tries, ver, idx,
                   recent, taskVars, acked, countVars>>

UnfollowingGet(t) ==
    /\ At(t, "unfollowingGet")
    /\ ReadUser(t, cmd[t].user, "unfollowingPut")
    /\ UNCHANGED <<storeVars, queueVars, taskVars, acked, countVars>>

UnfollowingSkipped(t) ==    \* variation: the other side is not updated
    /\ At(t, "unfollowingPut")
    /\ Goto(t, "removeGet")
    /\ UNCHANGED <<storeVars, queueVars, cmd, tries, ver, idx, recent, taskVars, acked,
                   countVars>>

UnfollowingPut(t) ==
    /\ At(t, "unfollowingPut") /\ Unchanged(cmd[t].user, t)
    /\ LET u == cmd[t].user IN
       /\ following' = [following EXCEPT ![u] = AsField(AsSet(@) \ {cmd[t].other})]
       /\ userVer' = Bump(userVer, u)
    /\ Goto(t, "removeGet")
    /\ UNCHANGED <<last, followers, tweets, lineVars, queueVars, cmd, tries, ver, idx,
                   recent, taskVars, acked, countVars>>

\* No timeline, nothing to remove.
RemoveGet(t) ==
    /\ At(t, "removeGet")
    /\ LET u == cmd[t].user IN
       ReadLine(t, u, IF lineVer[u] = 0 THEN AfterRun(t) ELSE "removePut")
    /\ UNCHANGED <<storeVars, queueVars, taskVars, acked, countVars>>

RemovePut(t) ==
    /\ At(t, "removePut") /\ lineVer[cmd[t].user] = ver[t]
    /\ PutLine(cmd[t].user, RemoveAuthor(timeline[cmd[t].user], cmd[t].other))
    /\ Goto(t, AfterRun(t))
    /\ UNCHANGED <<userVars, tweets, queueVars, cmd, tries, ver, idx, recent, taskVars,
                   acked, countVars>>

StopObsolete(t) ==
    /\ \/ At(t, "unfollowersPut") /\ ~Unchanged(cmd[t].other, t)
       \/ At(t, "unfollowingPut") /\ ~Unchanged(cmd[t].user, t)
       \/ At(t, "removePut") /\ lineVer[cmd[t].user] # ver[t]
    /\ Again(t)
    /\ UNCHANGED <<storeVars, queueVars, taskVars, acked, countVars>>

-----------------------------------------------------------------------------
(* The queue's workers, as CommandQueue has them, and failures.                 *)

Take(w) ==
    /\ At(w, "idle") /\ queue # <<>>
    /\ queue' = Tail(queue)
    /\ cmd' = [cmd EXCEPT ![w] = Head(queue)]
    /\ Goto(w, StartOf(Head(queue).op))
    /\ UNCHANGED <<storeVars, records, tries, ver, idx, recent, taskVars, acked, countVars>>

Finish(w) ==
    /\ At(w, "finish")
    /\ records' = records \ {cmd[w]}
    /\ Leave(w)
    /\ UNCHANGED <<storeVars, queue, taskVars, acked, countVars>>

\* The process dies and comes back: its threads, its queue and its deliveries are gone.
Crash ==
    /\ crashes < MaxCrashes
    /\ crashes' = crashes + 1
    /\ queue' = <<>> /\ tasks' = {} /\ lost' = {}
    /\ pc' = [t \in Threads |-> "idle"] /\ cmd' = [t \in Threads |-> None]
    /\ tries' = [t \in Threads |-> 0] /\ ver' = [t \in Threads |-> 0]
    /\ idx' = [t \in Threads |-> 0] /\ recent' = [t \in Threads |-> <<>>]
    /\ UNCHANGED <<storeVars, records, acked, calm, posts, followCmds, reruns, faults>>

\* The restore loop queues a stored command again, be it waiting, running or done.
Requeue(c) ==
    /\ crashes > 0 /\ reruns < MaxReruns
    /\ reruns' = reruns + 1
    /\ queue' = Append(queue, c)
    /\ UNCHANGED <<storeVars, records, pc, cmd, tries, ver, idx, recent, taskVars, acked,
                   calm, posts, followCmds, crashes, faults>>

\* A store operation of a thread, or of a delivery, throws.
Abort(t) ==
    /\ pc[t] \notin {"idle", "add", "await", "return"} /\ Fault
    /\ Leave(t)
    /\ UNCHANGED <<storeVars, queueVars, taskVars, acked, calm, posts, followCmds, crashes,
                   reruns>>
DeliveryAborts(k) ==
    /\ Fault
    /\ tasks' = tasks \ {k}
    /\ lost' = lost \cup {[tweet |-> k.tweet, to |-> k.to]}
    /\ UNCHANGED <<storeVars, queueVars, pc, cmd, tries, ver, idx, recent, acked, calm,
                   posts, followCmds, crashes, reruns>>

-----------------------------------------------------------------------------
RunTweet(t) == \/ StoreTweet(t) \/ StoreObsolete(t) \/ FanOut(t)
               \/ OwnGet(t) \/ OwnPut(t) \/ OwnObsolete(t) \/ Await(t)
RunStart(t) == \/ FollowingGet(t) \/ FollowingPut(t) \/ FollowersGet(t) \/ FollowersPut(t)
               \/ LineGet(t) \/ RecentLast(t) \/ RecentRead(t) \/ LinePut(t)
RunStop(t)  == \/ UnfollowersGet(t) \/ UnfollowersPut(t)
               \/ UnfollowingGet(t) \/ UnfollowingPut(t)
               \/ RemoveGet(t) \/ RemovePut(t) \/ StopObsolete(t)

CallerStep(c) == \/ ReserveGet(c) \/ ReservePut(c) \/ ReserveObsolete(c) \/ AddTweet(c)
                 \/ RunTweet(c) \/ Return(c)
WorkerStep(w) == Take(w) \/ RunTweet(w) \/ RunStart(w) \/ RunStop(w) \/ Finish(w)
DeliveryStep(k) == DeliverGet(k) \/ DeliverPut(k) \/ DeliverObsolete(k)
Call == \/ \E c \in Callers, u \in Users : BeginTweet(c, u)
        \/ \E op \in {"start", "stop"}, u \in Users, v \in Names : SubmitFollow(op, u, v)

Next == \/ Call
        \/ \E c \in Callers : CallerStep(c) \/ AddFails(c)
        \/ \E w \in Workers : WorkerStep(w)
        \/ \E k \in tasks : DeliveryStep(k) \/ DeliveryAborts(k)
        \/ \E t \in Threads : Abort(t)
        \/ Crash
        \/ \E c \in records : Requeue(c)

\* Threads and deliveries that can go on do; nobody has to call, and nothing has to fail.
Fairness == /\ \A c \in Callers : WF_vars(CallerStep(c))
            /\ \A w \in Workers : WF_vars(WorkerStep(w))
            /\ WF_vars(\E k \in tasks : DeliveryStep(k))

Spec == Init /\ [][Next]_vars
FairSpec == Spec /\ Fairness

-----------------------------------------------------------------------------
(* What holds whatever runs together, dies or is run again.                     *)

InFlight == {cmd[t] : t \in {t \in Threads : pc[t] \notin {"idle", "resGet", "resPut"}}}
TweetCommands == {c \in records \cup ToSet(queue) \cup InFlight : c.op = "tweet"}
Issued == tweets \cup {Entry(c) : c \in TweetCommands}

\* An id "<author>-<index>" is given to one tweet: no two tweets, stored, being stored or
\* waiting to be run again, share one (tweet, the optimistic update of lastTweet).
IdsUnique ==
    \A a, b \in Issued : a.author = b.author /\ a.idx = b.idx => a = b

\* A reservation is exclusive: what was issued is at most lastTweet, and who has read
\* lastTweet has read the newest value or will fail (tweet, the optimistic update).
IssuedCovered == \A e \in Issued : e.idx \in 1 .. last[e.author]
ReadFresh ==
    \A c \in Callers : At(c, "resPut") =>
        LET u == cmd[c].user IN
        /\ ver[c] <= userVer[u]
        /\ ver[c] = userVer[u] => idx[c] = last[u] + 1
Reservation == IssuedCovered /\ ReadFresh

\* A TweetCommand goes past its put with the tweet stored, whether by itself or by an
\* earlier attempt or run (TweetCommand.execute, a put that was obsolete three times).
PastStore ==
    \A t \in Threads :
        /\ pc[t] \in {"fan", "ownGet", "ownPut", "await", "return"}
        /\ cmd[t].op = "tweet"
        => Entry(cmd[t]) \in tweets

\* Whoever reads down from lastTweet meets every tweet (getTweets).
LastCovers == \A e \in tweets : e.idx \in 1 .. last[e.author]

\* No timeline, and no delivery on its way to one, names a tweet that is not stored: the
\* "Tweet missing" of getFriendsTimeline never happens (TweetCommand's order of steps).
EntriesExist ==
    /\ \A u \in Readers : ToSet(timeline[u]) \subseteq tweets
    /\ \A k \in tasks : k.tweet \in tweets

\* When tweet() has returned without an exception its tweet is stored, though its command
\* may have been given up after the last attempt.
AckedIsStored == acked \subseteq tweets

\* While nobody starts to follow, a tweet enters a timeline at most once, even if its
\* command is run again after a crash (TweetCommand, the fresh clock of its tweet).
ShownOnce ==
    \A u \in Readers : IsInjective(timeline[u])

\* Every call returns, every queued command is taken, every delivery ends.
WorkEnds == ~Quiet ~> Quiet

\* The stores are a board of tweets and a line of them for each reader: no step takes a
\* tweet back or gives its id again, acknowledges one that is not there, shows one that is
\* not there, loses a part of what an author has in a timeline, or changes a timeline's
\* order (TweetCommand, StartFollowingCommand and StopFollowingCommand, whatever runs
\* together).
Board == INSTANCE TweetBoard WITH
    Tweets <- Entries, Authors <- Names, board <- tweets, line <- timeline
KeepsBoard == Board!Spec

-----------------------------------------------------------------------------
(* What holds when calls are made one at a time.                                *)

Follows(u, v) == v \in AsSet(following[u])
HasFollower(v, u) == u \in AsSet(followers[v])

\* u follows v, and v has the follower u.
FollowSymmetric ==
    Quiet => \A u, v \in Users : Follows(u, v) <=> HasFollower(v, u)

\* A stored tweet has reached its author's and its followers' timelines (TweetCommand).
InTimelines(e) ==
    \A u \in Users : u = e.author \/ HasFollower(e.author, u) => e \in ToSet(timeline[u])
Delivered == Quiet => \A e \in tweets : InTimelines(e)

\* A tweet that is stored and whose command has been removed, so that no restart runs it
\* again, has reached its timelines as well (TweetCommand, finishCommand).
FinishedIsDelivered ==
    Quiet => \A e \in tweets : InTimelines(e) \/ \E c \in records : c.op = "tweet" /\ Entry(c) = e

\* A timeline shows its owner's tweets and those of the people the owner follows, and
\* nobody else's (StopFollowingCommand, TweetService.getFriendsTimeline).
OnlyFollowed ==
    Quiet => \A u \in Users : \A e \in ToSet(timeline[u]) :
               e.author = u \/ Follows(u, e.author)

Undisturbed == calm /\ crashes = 0 /\ faults = 0

\* Who follows whom is the same from both sides, as long as nothing ran together and
\* nothing failed (StartFollowingCommand, StopFollowingCommand).
FollowsAgree == Undisturbed => FollowSymmetric

\* As long as nothing ran together and nothing failed, a timeline shows all that its owner
\* and those he follows have tweeted since, and nothing of others (TweetCommand,
\* StopFollowingCommand).
TimelinesRight == Undisturbed => Delivered /\ OnlyFollowed
=============================================================================
