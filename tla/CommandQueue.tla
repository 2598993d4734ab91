---------------------------- MODULE CommandQueue ----------------------------
(***************************************************************************)
(* The durable command queue of one bigbird node: AbstractCommandQueue and *)
(* VoldemortCommandQueue, the two thread pools they are wired to           *)
(* (applicationContext-web.xml), the threads that call add and addAsync,   *)
(* and the "commandQueues" store the records live in.                      *)
(*                                                                         *)
(* A record is stored under "<node>:<id>".  Every command is submitted     *)
(* once, and within one life of the process every id is handed out once,   *)
(* so the command found under a key also identifies the record's version:  *)
(* a Voldemort delete, which removes only what it has read, removes a      *)
(* record exactly when the key still holds the command that was read.      *)
(***************************************************************************)
EXTENDS Integers, Sequences, FiniteSets

CONSTANTS
    Cmds,            \* the commands, each submitted at most once by its own caller
    AsyncCmds,       \* those submitted with addAsync; the others with add
    Workers,         \* core threads of commandExecutor
    None,            \* an absent record or key, and the restore runnable's command
    InitialMaximum,  \* `maximum` of a fresh queue object (100)
    Increment,       \* `increment` (100)
    Threshold,       \* `threshold` (10)
    CharsetFaithful, \* new String(bytes).getBytes() gives the bytes back
    ContextFirst,    \* commandContext is filled before initialize() runs
    StopKinds,       \* how the process may go down: "crash", "shutdown"
    FaultKinds,      \* what may fail: "store", "ack", "read", "exec"
    MaxCallers,      \* bound: calls of add and addAsync in progress together
    MaxId,           \* bound: ids handed out in one life of the process
    MaxRestarts,     \* bound: restarts
    MaxFaults        \* bound: failures of all kinds

ASSUME CmdsAssumption    == AsyncCmds \subseteq Cmds /\ None \notin Cmds /\ None \notin Int
ASSUME NumbersAssumption == /\ InitialMaximum \in Nat /\ Increment \in Nat /\ Threshold \in Nat
                            /\ MaxCallers \in Nat /\ MaxId \in Nat
                            /\ MaxRestarts \in Nat /\ MaxFaults \in Nat
ASSUME FlagsAssumption   == CharsetFaithful \in BOOLEAN /\ ContextFirst \in BOOLEAN

VARIABLES
    \* the store, which outlives the process
    store,              \* id -> command of the record under that id, or None
    pmax, pmin,         \* the keys "<node>:maximum" and "<node>:minimum", None when absent
    \* the process
    phase,              \* "up", "stopping" / "stopped" (in and after shutdown()), "down"
    contextReady,       \* VoldemortTweetService.initialize has filled commandContext
    nextId, maximum, minimum, gettingNextBatch,
    batchQueue,         \* tasks waiting in indexIncrementExecutor
    batchPc, newMax,    \* its single thread, and getNextBatch's newMaximum
    queue,              \* commandExecutor's FIFO of tasks
    wpc, wcmd, wid,     \* per worker: where it is, the command and the id it works on
    wseen,              \* per worker: the record version the delete has read
    cpc, cid,           \* per command: where its caller is, and the id it was given
    \* history
    execs,              \* completed executions of each command
    submitted,          \* the commands submitted in this life of the process
    ran,                \* those executed in it
    restarts, faults

storeVars  == <<store, pmax, pmin>>
lifeVars   == <<phase, contextReady, restarts>>
indexVars  == <<nextId, maximum, minimum, gettingNextBatch>>
batchVars  == <<batchQueue, batchPc, newMax>>
workerVars == <<wpc, wcmd, wid, wseen>>
callerVars == <<cpc, cid, submitted>>
vars == <<storeVars, lifeVars, indexVars, batchVars, queue, workerVars, callerVars,
          execs, ran, faults>>

Ids == 0 .. MaxId
MaybeCmd == Cmds \cup {None}
Tasks == [cmd : MaybeCmd, id : Ids]
RestoreTask == [cmd |-> None, id |-> 0]     \* the runnable initialize() submits

WorkerPcs == {"idle", "exec", "delGet", "delRemove", "minCheck", "minWrite",
              "restoreGet", "restoreAdd"}
CallerPcs == {"new", "put", "enqueue", "execute",
              "accepted", "returned", "rejected", "thrown", "interrupted"}
InCall == {"put", "enqueue", "execute"}
BatchPcs == {"idle", "putMax", "putMin", "raise", "reset"}

OnTask(w) == wpc[w] \in {"exec", "delGet", "delRemove", "minCheck", "minWrite"}

StoreType == /\ store \in [Ids -> MaybeCmd]
             /\ pmax \in Nat \cup {None} /\ pmin \in Nat \cup {None}
LifeType == /\ phase \in {"up", "stopping", "stopped", "down"}
            /\ contextReady \in BOOLEAN /\ restarts \in Nat
IndexType == /\ nextId \in 0 .. (MaxId + 1) /\ maximum \in Nat /\ minimum \in Nat
             /\ gettingNextBatch \in BOOLEAN
BatchType == batchQueue \in Nat /\ batchPc \in BatchPcs /\ newMax \in Nat
WorkerType ==
    /\ wpc \in [Workers -> WorkerPcs] /\ wcmd \in [Workers -> MaybeCmd]
    /\ wid \in [Workers -> Nat] /\ wseen \in [Workers -> MaybeCmd]
    /\ \A w \in Workers : OnTask(w) \/ wpc[w] = "restoreAdd" =>
                            wcmd[w] \in Cmds /\ wid[w] \in Ids
CallerType == /\ cpc \in [Cmds -> CallerPcs] /\ cid \in [Cmds -> Ids]
              /\ submitted \in SUBSET Cmds
HistoryType == execs \in [Cmds -> Nat] /\ ran \in SUBSET Cmds /\ faults \in Nat
TypeOK == /\ StoreType /\ LifeType /\ IndexType /\ BatchType /\ queue \in Seq(Tasks)
          /\ WorkerType /\ CallerType /\ HistoryType

-----------------------------------------------------------------------------
Init ==
    /\ store = [i \in Ids |-> None] /\ pmax = None /\ pmin = None
    /\ phase = "up" /\ contextReady = ContextFirst
    /\ nextId = 0 /\ maximum = InitialMaximum /\ minimum = 0
    /\ gettingNextBatch = FALSE
    /\ batchQueue = 0 /\ batchPc = "idle" /\ newMax = 0
    /\ queue = <<>>
    /\ wpc = [w \in Workers |-> "idle"]
    /\ wcmd = [w \in Workers |-> None]
    /\ wid = [w \in Workers |-> 0]
    /\ wseen = [w \in Workers |-> None]
    /\ cpc = [c \in Cmds |-> "new"]
    /\ cid = [c \in Cmds |-> 0]
    /\ execs = [c \in Cmds |-> 0] /\ ran = {} /\ submitted = {}
    /\ restarts = 0 /\ faults = 0

Running == phase # "down"

\* A failure of one of the given kinds, within the bound.
Fault(kinds) ==
    /\ kinds \cap FaultKinds # {}
    /\ faults < MaxFaults
    /\ faults' = faults + 1

-----------------------------------------------------------------------------
(* The threads that call add and addAsync. *)

BatchAlwaysDue == maximum - Threshold <= nextId   \* variation: the flag is not looked at
\* A new batch of ids is due, and nobody is fetching one.
BatchDue == maximum - Threshold <= nextId /\ ~gettingNextBatch

IdKept == nextId                                  \* variation: ids are not used up
IdAfter == nextId + 1

\* storeRemotely, up to the end of the synchronized getNextId.
GetNextId(c) ==
    /\ Running /\ contextReady
    /\ cpc[c] = "new"
    /\ Cardinality({d \in Cmds : cpc[d] \in InCall}) < MaxCallers
    /\ nextId \in Ids
    /\ cid' = [cid EXCEPT ![c] = nextId]
    /\ nextId' = IdAfter
    /\ gettingNextBatch' = (gettingNextBatch \/ BatchDue)
    /\ batchQueue' = IF BatchDue THEN batchQueue + 1 ELSE batchQueue
    /\ cpc' = [cpc EXCEPT ![c] = "put"]
    /\ submitted' = submitted \cup {c}
    /\ UNCHANGED <<storeVars, lifeVars, maximum, minimum, batchPc, newMax, queue,
                   workerVars, execs, ran, faults>>

\* The put succeeds: add goes on to run the command, addAsync to queue it.  Nobody else puts
\* this key in this life, so no put of it is obsolete.
Put(c) ==
    /\ Running /\ cpc[c] = "put"
    /\ store' = [store EXCEPT ![cid[c]] = c]
    /\ cpc' = [cpc EXCEPT ![c] = IF c \in AsyncCmds THEN "enqueue" ELSE "execute"]
    /\ UNCHANGED <<pmax, pmin, lifeVars, indexVars, batchVars, queue, workerVars,
                   cid, submitted, execs, ran, faults>>

\* Variation: the command is queued before the store has answered.
PutFailsQueued(c) ==
    /\ Running /\ cpc[c] = "put"
    /\ Fault({"store", "ack"})
    /\ queue' = Append(queue, [cmd |-> c, id |-> cid[c]])
    /\ cpc' = [cpc EXCEPT ![c] = "rejected"]
    /\ UNCHANGED <<storeVars, lifeVars, indexVars, batchVars, workerVars, cid, submitted, execs, ran>>

\* The put throws: CannotStoreCommandException.  With "ack" the write was done
\* and only its answer was lost.
PutFails(c) ==
    /\ Running /\ cpc[c] = "put"
    /\ \/ Fault({"store"}) /\ UNCHANGED store
       \/ Fault({"ack"}) /\ store' = [store EXCEPT ![cid[c]] = c]
    /\ cpc' = [cpc EXCEPT ![c] = "rejected"]
    /\ UNCHANGED <<pmax, pmin, lifeVars, indexVars, batchVars, queue, workerVars,
                   cid, submitted, execs, ran>>

\* Variation: addAsync goes on as add does.
EnqueueAndRun(c) ==
    /\ Running /\ cpc[c] = "enqueue"
    /\ queue' = Append(queue, [cmd |-> c, id |-> cid[c]])
    /\ cpc' = [cpc EXCEPT ![c] = "execute"]
    /\ UNCHANGED <<storeVars, lifeVars, indexVars, batchVars, workerVars, cid, submitted,
                   execs, ran, faults>>

\* addCommand in the caller of addAsync, which then returns.
Enqueue(c) ==
    /\ Running /\ cpc[c] = "enqueue"
    /\ queue' = Append(queue, [cmd |-> c, id |-> cid[c]])
    /\ cpc' = [cpc EXCEPT ![c] = "accepted"]
    /\ UNCHANGED <<storeVars, lifeVars, indexVars, batchVars, workerVars, cid, submitted,
                   execs, ran, faults>>

\* add runs the command in its caller; the record is left in the store.
ExecuteInCaller(c) ==
    /\ Running /\ cpc[c] = "execute"
    /\ execs' = [execs EXCEPT ![c] = @ + 1] /\ ran' = ran \cup {c}
    /\ cpc' = [cpc EXCEPT ![c] = "returned"]
    /\ UNCHANGED <<storeVars, lifeVars, indexVars, batchVars, queue, workerVars,
                   cid, submitted, faults>>

ExecuteInCallerThrows(c) ==
    /\ Running /\ cpc[c] = "execute"
    /\ Fault({"exec"})
    /\ cpc' = [cpc EXCEPT ![c] = "thrown"]
    /\ UNCHANGED <<storeVars, lifeVars, indexVars, batchVars, queue, workerVars,
                   cid, submitted, execs, ran>>

-----------------------------------------------------------------------------
(* The worker threads of commandExecutor. *)

\* A worker takes the oldest task; initialize()'s runnable reads `minimum` now.
Take(w) ==
    /\ Running /\ wpc[w] = "idle" /\ queue # <<>>
    /\ queue' = Tail(queue)
    /\ LET restore == Head(queue).cmd = None IN
       /\ wpc' = [wpc EXCEPT ![w] = IF restore THEN "restoreGet" ELSE "exec"]
       /\ wcmd' = [wcmd EXCEPT ![w] = Head(queue).cmd]
       /\ wid' = [wid EXCEPT ![w] = IF restore THEN minimum ELSE Head(queue).id]
    /\ UNCHANGED <<storeVars, lifeVars, indexVars, batchVars, wseen, callerVars,
                   execs, ran, faults>>

Execute(w) ==
    /\ Running /\ wpc[w] = "exec" /\ contextReady
    /\ execs' = [execs EXCEPT ![wcmd[w]] = @ + 1] /\ ran' = ran \cup {wcmd[w]}
    /\ wpc' = [wpc EXCEPT ![w] = "delGet"]
    /\ UNCHANGED <<storeVars, lifeVars, indexVars, batchVars, queue, wcmd, wid,
                   wseen, callerVars, faults>>

\* Variation: finishCommand in a finally block.
ExecuteThrowsFinally(w) ==
    /\ Running /\ wpc[w] = "exec"
    /\ Fault({"exec"})
    /\ wpc' = [wpc EXCEPT ![w] = "delGet"]
    /\ UNCHANGED <<storeVars, lifeVars, indexVars, batchVars, queue, wcmd, wid,
                   wseen, callerVars, execs, ran>>

\* Without its context a command dies of a NullPointerException; it may also
\* fail by itself.  Either way the task ends before finishCommand.
ExecuteThrows(w) ==
    /\ Running /\ wpc[w] = "exec"
    /\ \/ ~contextReady /\ UNCHANGED faults
       \/ Fault({"exec"})
    /\ wpc' = [wpc EXCEPT ![w] = "idle"]
    /\ UNCHANGED <<storeVars, lifeVars, indexVars, batchVars, queue, wcmd, wid,
                   wseen, callerVars, execs, ran>>

\* finishCommand: the client's delete reads the record's version ...
DeleteGet(w) ==
    /\ Running /\ wpc[w] = "delGet"
    /\ wseen' = [wseen EXCEPT ![w] = store[wid[w]]]
    /\ wpc' = [wpc EXCEPT ![w] = "delRemove"]
    /\ UNCHANGED <<storeVars, lifeVars, indexVars, batchVars, queue, wcmd, wid,
                   callerVars, execs, ran, faults>>

\* ... and removes that version if it is still there.
NotRemoved(w) == store      \* variation: the key to delete is not the record's
Removed(w) ==
    IF store[wid[w]] = wseen[w] THEN [store EXCEPT ![wid[w]] = None] ELSE store

DeleteRemove(w) ==
    /\ Running /\ wpc[w] = "delRemove"
    /\ store' = Removed(w)
    /\ wpc' = [wpc EXCEPT ![w] = "minCheck"]
    /\ UNCHANGED <<pmax, pmin, lifeVars, indexVars, batchVars, queue, wcmd, wid,
                   wseen, callerVars, execs, ran, faults>>

\* A delete that throws leaves the task, and `minimum`, where they are.
DeleteFails(w) ==
    /\ Running
    /\ \/ wpc[w] \in {"delGet", "delRemove"} /\ Fault({"store"}) /\ UNCHANGED store
       \/ wpc[w] = "delRemove" /\ Fault({"ack"}) /\ store' = Removed(w)
    /\ wpc' = [wpc EXCEPT ![w] = "idle"]
    /\ UNCHANGED <<pmax, pmin, lifeVars, indexVars, batchVars, queue, wcmd, wid,
                   wseen, callerVars, execs, ran>>

\* `if (minimum <= commandId) minimum = commandId + 1`, under no lock.
MinCheck(w) ==
    /\ Running /\ wpc[w] = "minCheck"
    /\ wpc' = [wpc EXCEPT ![w] = IF minimum <= wid[w] THEN "minWrite" ELSE "idle"]
    /\ UNCHANGED <<storeVars, lifeVars, indexVars, batchVars, queue, wcmd, wid,
                   wseen, callerVars, execs, ran, faults>>

MinWrite(w) ==
    /\ Running /\ wpc[w] = "minWrite"
    /\ minimum' = wid[w] + 1
    /\ wpc' = [wpc EXCEPT ![w] = "idle"]
    /\ UNCHANGED <<storeVars, lifeVars, nextId, maximum, gettingNextBatch, batchVars,
                   queue, wcmd, wid, wseen, callerVars, execs, ran, faults>>

-----------------------------------------------------------------------------
(* The restore runnable, on a worker: for (l = minimum; l < maximum; l++). *)

Record(l) == IF l \in Ids THEN store[l] ELSE None

\* One read of the loop.  A record that does not deserialize is logged and skipped.
Readable(l) == Record(l) # None /\ CharsetFaithful
RestoreGet(w) ==
    /\ Running /\ wpc[w] = "restoreGet"
    /\ \/ /\ wid[w] >= maximum
          /\ wpc' = [wpc EXCEPT ![w] = "idle"]
          /\ UNCHANGED <<wcmd, wid>>
       \/ /\ wid[w] < maximum /\ Readable(wid[w])
          /\ wpc' = [wpc EXCEPT ![w] = "restoreAdd"]
          /\ wcmd' = [wcmd EXCEPT ![w] = Record(wid[w])]
          /\ UNCHANGED wid
       \/ /\ wid[w] < maximum /\ ~Readable(wid[w])
          /\ wid' = [wid EXCEPT ![w] = @ + 1]
          /\ UNCHANGED <<wpc, wcmd>>
    /\ UNCHANGED <<storeVars, lifeVars, indexVars, batchVars, queue, wseen,
                   callerVars, execs, ran, faults>>

RestoreAdd(w) ==
    /\ Running /\ wpc[w] = "restoreAdd"
    /\ queue' = Append(queue, [cmd |-> wcmd[w], id |-> wid[w]])
    /\ wid' = [wid EXCEPT ![w] = @ + 1]
    /\ wpc' = [wpc EXCEPT ![w] = "restoreGet"]
    /\ UNCHANGED <<storeVars, lifeVars, indexVars, batchVars, wcmd, wseen,
                   callerVars, execs, ran, faults>>

\* A read that throws ends the whole runnable.
RestoreFails(w) ==
    /\ Running /\ wpc[w] = "restoreGet" /\ wid[w] < maximum
    /\ Fault({"read"})
    /\ wpc' = [wpc EXCEPT ![w] = "idle"]
    /\ UNCHANGED <<storeVars, lifeVars, indexVars, batchVars, queue, wcmd, wid,
                   wseen, callerVars, execs, ran>>

-----------------------------------------------------------------------------
(* getNextBatch on indexIncrementExecutor's single thread. *)

BatchStart ==
    /\ Running /\ batchPc = "idle" /\ batchQueue > 0
    /\ batchQueue' = batchQueue - 1
    /\ newMax' = maximum + Increment
    /\ batchPc' = "putMax"
    /\ UNCHANGED <<storeVars, lifeVars, indexVars, queue, workerVars, callerVars,
                   execs, ran, faults>>

\* Variation: the old maximum is written.
BatchPutOldMax ==
    /\ Running /\ batchPc = "putMax"
    /\ pmax' = maximum
    /\ batchPc' = "putMin"
    /\ UNCHANGED <<store, pmin, lifeVars, indexVars, batchQueue, newMax, queue,
                   workerVars, callerVars, execs, ran, faults>>

BatchPutMax ==
    /\ Running /\ batchPc = "putMax"
    /\ pmax' = newMax
    /\ batchPc' = "putMin"
    /\ UNCHANGED <<store, pmin, lifeVars, indexVars, batchQueue, newMax, queue,
                   workerVars, callerVars, execs, ran, faults>>

BatchPutMin ==
    /\ Running /\ batchPc = "putMin"
    /\ pmin' = minimum
    /\ batchPc' = "raise"
    /\ UNCHANGED <<store, pmax, lifeVars, indexVars, batchQueue, newMax, queue,
                   workerVars, callerVars, execs, ran, faults>>

\* Between this put and the one before, shutdown() has put both keys: the put is obsolete,
\* and applyUpdate runs getNextBatch's action again.
BatchObsolete ==
    /\ Running /\ batchPc = "putMin"
    /\ phase = "stopped" /\ pmax # newMax
    /\ batchPc' = "putMax"
    /\ UNCHANGED <<storeVars, lifeVars, indexVars, batchQueue, newMax, queue,
                   workerVars, callerVars, execs, ran, faults>>

BatchRaise ==
    /\ Running /\ batchPc = "raise"
    /\ maximum' = newMax
    /\ batchPc' = "reset"
    /\ UNCHANGED <<storeVars, lifeVars, nextId, minimum, gettingNextBatch, batchQueue,
                   newMax, queue, workerVars, callerVars, execs, ran, faults>>

\* Variation: the flag is never cleared.
BatchNoReset ==
    /\ Running /\ batchPc = "reset"
    /\ batchPc' = "idle"
    /\ UNCHANGED <<storeVars, lifeVars, indexVars, batchQueue, newMax, queue,
                   workerVars, callerVars, execs, ran, faults>>

BatchReset ==
    /\ Running /\ batchPc = "reset"
    /\ gettingNextBatch' = FALSE
    /\ batchPc' = "idle"
    /\ UNCHANGED <<storeVars, lifeVars, nextId, maximum, minimum, batchQueue, newMax,
                   queue, workerVars, callerVars, execs, ran, faults>>

\* A put that throws ends the task before it clears gettingNextBatch.
BatchFails ==
    /\ Running
    /\ \/ batchPc \in {"putMax", "putMin"} /\ Fault({"store"}) /\ UNCHANGED <<pmax, pmin>>
       \/ batchPc = "putMax" /\ Fault({"ack"}) /\ pmax' = newMax /\ UNCHANGED pmin
       \/ batchPc = "putMin" /\ Fault({"ack"}) /\ pmin' = minimum /\ UNCHANGED pmax
    /\ batchPc' = "idle"
    /\ UNCHANGED <<store, lifeVars, indexVars, batchQueue, newMax, queue, workerVars,
                   callerVars, execs, ran>>

-----------------------------------------------------------------------------
(* The life of the process. *)

\* VoldemortTweetService.initialize, which Spring calls after commandQueue's.
FillContext ==
    /\ Running /\ ~contextReady
    /\ contextReady' = TRUE
    /\ UNCHANGED <<storeVars, phase, restarts, indexVars, batchVars, queue, workerVars,
                   callerVars, execs, ran, faults>>

\* shutdown(): two puts, while the pools still run.
ShutdownPutMax ==
    /\ phase = "up" /\ "shutdown" \in StopKinds /\ restarts < MaxRestarts
    /\ pmax' = maximum
    /\ phase' = "stopping"
    /\ UNCHANGED <<store, pmin, contextReady, restarts, indexVars, batchVars, queue,
                   workerVars, callerVars, execs, ran, faults>>

\* Variation: the next id is persisted as the minimum.
ShutdownPutNextId ==
    /\ phase = "stopping"
    /\ pmin' = nextId
    /\ phase' = "stopped"
    /\ UNCHANGED <<store, pmax, contextReady, restarts, indexVars, batchVars, queue,
                   workerVars, callerVars, execs, ran, faults>>

ShutdownPutMin ==
    /\ phase = "stopping"
    /\ pmin' = minimum
    /\ phase' = "stopped"
    /\ UNCHANGED <<store, pmax, contextReady, restarts, indexVars, batchVars, queue,
                   workerVars, callerVars, execs, ran, faults>>

\* A put of shutdown() throws: the keys keep what they held.  The store fails, or
\* getNextBatch has put the same key since shutdown() read its version.
ShutdownFails ==
    /\ \/ phase = "up" /\ "shutdown" \in StopKinds /\ restarts < MaxRestarts
       \/ phase = "stopping"
    /\ \/ Fault({"store"})
       \/ /\ batchPc \in {"raise", "reset"} \/ (phase = "up" /\ batchPc = "putMin")
          /\ UNCHANGED faults
    /\ phase' = "stopped"
    /\ UNCHANGED <<storeVars, contextReady, restarts, indexVars, batchVars, queue,
                   workerVars, callerVars, execs, ran>>

\* The process ends, after shutdown() or by dying; its memory and calls are gone.
Stop ==
    /\ \/ phase = "stopped"
       \/ Running /\ "crash" \in StopKinds /\ restarts < MaxRestarts
    /\ phase' = "down"
    /\ contextReady' = FALSE
    /\ nextId' = 0 /\ maximum' = InitialMaximum /\ minimum' = 0
    /\ gettingNextBatch' = FALSE
    /\ batchQueue' = 0 /\ batchPc' = "idle" /\ newMax' = 0
    /\ queue' = <<>>
    /\ wpc' = [w \in Workers |-> "idle"]
    /\ wcmd' = [w \in Workers |-> None]
    /\ wid' = [w \in Workers |-> 0]
    /\ wseen' = [w \in Workers |-> None]
    /\ cpc' = [c \in Cmds |-> IF cpc[c] \in InCall THEN "interrupted" ELSE cpc[c]]
    /\ UNCHANGED <<storeVars, restarts, cid, submitted, execs, ran, faults>>

\* A new process runs initialize(): ids start at 0 again, the interval to restore
\* is read back, and the restore runnable is the pool's first task.
Restart ==
    /\ phase = "down"
    /\ phase' = "up" /\ restarts' = restarts + 1
    /\ submitted' = {} /\ ran' = {}
    /\ contextReady' = ContextFirst
    /\ IF pmax = None
         THEN UNCHANGED <<maximum, minimum, queue>>
         ELSE /\ maximum' = pmax
              /\ minimum' = IF pmin = None THEN minimum ELSE pmin
              /\ queue' = <<RestoreTask>>
    /\ UNCHANGED <<storeVars, nextId, gettingNextBatch, batchVars, workerVars,
                   cpc, cid, execs, faults>>

-----------------------------------------------------------------------------
CallerStep(c) == Put(c) \/ Enqueue(c) \/ ExecuteInCaller(c)
CallerFault(c) == PutFails(c) \/ ExecuteInCallerThrows(c)
WorkerStep(w) == \/ Take(w) \/ Execute(w) \/ ExecuteThrows(w)
                 \/ DeleteGet(w) \/ DeleteRemove(w) \/ MinCheck(w) \/ MinWrite(w)
                 \/ RestoreGet(w) \/ RestoreAdd(w)
WorkerFault(w) == DeleteFails(w) \/ RestoreFails(w)
BatchStep == \/ BatchStart \/ BatchPutMax \/ BatchPutMin \/ BatchObsolete
             \/ BatchRaise \/ BatchReset
LifeStep == \/ FillContext \/ ShutdownPutMax \/ ShutdownPutMin \/ ShutdownFails
            \/ Stop \/ Restart

Next ==
    \/ \E c \in Cmds : GetNextId(c) \/ CallerStep(c) \/ CallerFault(c)
    \/ \E w \in Workers : WorkerStep(w) \/ WorkerFault(w)
    \/ BatchStep \/ BatchFails
    \/ LifeStep

Spec == Init /\ [][Next]_vars

\* A process that was started again has only what is stored to do: nothing is submitted to
\* it, as in CommandQueueTest.
NothingNewAfterRestart == restarts > 0 => \A c \in Cmds : cpc[c] = "new" => cpc'[c] = "new"
RestoringSpec == Init /\ [][Next /\ NothingNewAfterRestart]_vars

-----------------------------------------------------------------------------
(* What makes the queue correct. *)

\* "Persisted reliably": a command whose add or addAsync stored it keeps its record,
\* under its own id, until it has been executed, over all restarts of a process that is given
\* nothing new after them (storeRemotely, getNextId, finishCommand, initialize).
Accepted(c) == cpc[c] \in {"enqueue", "execute", "accepted", "returned", "thrown"}
StoredReliably == \A c \in Cmds : Accepted(c) /\ execs[c] = 0 => store[cid[c]] = c

\* Whatever is submitted, this holds until the process is first restarted: after that, new
\* commands get the ids, and the records, of old ones.
RecordUntilExecuted == restarts = 0 => StoredReliably

\* In no life of the process is a command executed twice, unless it was submitted in that
\* life and the life is not the first: the restore loop may then find its record and queue
\* what addAsync has queued, or add has run, already (initialize, addCommand).
TwiceOnlyIfRestored ==
    [][\A c \in Cmds : c \in ran /\ execs'[c] > execs[c] =>
                         restarts > 0 /\ c \in submitted]_vars

\* CannotStoreCommandException means what it says, now and after every restart: the
\* command has no record and is never executed (add, addAsync, storeRemotely).
RejectedNeverRuns ==
    \A c \in Cmds : cpc[c] = "rejected" =>
        execs[c] = 0 /\ \A i \in Ids : store[i] # c

\* gettingNextBatch stands for the one getNextBatch that is queued or running, so
\* `maximum` is never raised by two tasks at once (getNextId).
OneBatchAtATime ==
    LET inFlight == batchQueue + (IF batchPc = "idle" THEN 0 ELSE 1)
    IN  inFlight <= 1 /\ (inFlight = 1 => gettingNextBatch)

\* `maximum` is persisted before it is used: whenever the process dies, the next one knows
\* the interval it had reached.  Only what a batch adds while shutdown() runs may be unknown
\* to it, and no more than that one batch: shutdown() may write the `maximum` it found over
\* the larger one that getNextBatch has written and not yet set (getNextBatch, shutdown).
UnknownAtMost == IF phase = "up" THEN 0 ELSE Increment
RaisedMaximumIsPersisted ==
    Running /\ maximum > InitialMaximum => pmax # None /\ pmax + UnknownAtMost >= maximum

\* As long as nothing fails, a batch that was asked for is delivered, and the next one can
\* be asked for.
BatchCompletes == gettingNextBatch ~> (~gettingNextBatch \/ faults > 0)

-----------------------------------------------------------------------------
(* Inductive strengthenings, for the proofs. *)

\* In the first life an id belongs to one command: all records and all tasks are where
\* getNextId put them, and there is nothing to restore.
OneOwner ==
    \A c, d \in Cmds : cpc[c] # "new" /\ cpc[d] # "new" /\ cid[c] = cid[d] => c = d
IdsIssued == Running => \A c \in Cmds : cpc[c] # "new" => cid[c] < nextId
RecordsAtHome ==
    \A i \in Ids : store[i] # None =>
        cpc[store[i]] \notin {"new", "put"} /\ cid[store[i]] = i
IsTaskOf(cmd, id) == cmd \in Cmds /\ cpc[cmd] = "accepted" /\ cid[cmd] = id
QueueAtHome == \A k \in DOMAIN queue : IsTaskOf(queue[k].cmd, queue[k].id)
WorkersAtHome ==
    \A w \in Workers :
        /\ wpc[w] \notin {"restoreGet", "restoreAdd"}
        /\ OnTask(w) => IsTaskOf(wcmd[w], wid[w])
        /\ OnTask(w) /\ wpc[w] # "exec" => execs[wcmd[w]] > 0
FirstLifeOK == /\ OneOwner /\ IdsIssued /\ RecordsAtHome /\ QueueAtHome /\ WorkersAtHome
               /\ StoredReliably
FirstLifeInv == restarts = 0 => FirstLifeOK

\* Whatever is stored, queued, being worked on or executed was stored successfully.
Known(c) == cpc[c] \notin {"new", "put", "rejected"}
RecordsKnown == \A i \in Ids : store[i] # None => Known(store[i])
QueueKnown == \A k \in DOMAIN queue : queue[k].cmd # None => Known(queue[k].cmd)
WorkersKnown == \A w \in Workers : OnTask(w) \/ wpc[w] = "restoreAdd" => Known(wcmd[w])
RunsKnown == \A c \in Cmds : execs[c] > 0 => Known(c)
OnlyKnown == RecordsKnown /\ QueueKnown /\ WorkersKnown /\ RunsKnown

\* While getNextBatch runs, the maximum it will set is written before it is set, and
\* shutdown() takes back this batch at most.
BatchWritesAhead ==
    /\ phase = "down" => batchPc = "idle"
    /\ batchPc \in {"putMax", "putMin", "raise"} => newMax = maximum + Increment
    /\ batchPc \in {"putMin", "raise"} => pmax # None /\ pmax + UnknownAtMost >= newMax

\* What may still bring about an execution of c in this life: its tasks, the workers that
\* are about to run it, its caller, and a restore loop that has not passed its id.
InQueue(c) == {k \in DOMAIN queue : queue[k].cmd = c}
AtWork(c) == {w \in Workers : wpc[w] = "exec" /\ wcmd[w] = c}
InCaller(c) == cpc[c] \in {"new", "put", "enqueue", "execute"}
Restoring(w) == wpc[w] \in {"restoreGet", "restoreAdd"}
RestoreAhead(c) == InQueue(None) # {} \/ \E w \in Workers : Restoring(w) /\ wid[w] <= cid[c]
One(condition) == IF condition THEN 1 ELSE 0
Chances(c) == Cardinality(InQueue(c)) + Cardinality(AtWork(c))
              + One(RestoreAhead(c)) + One(InCaller(c))

\* In this life a command is executed, or may still be, at most once, unless it was submitted
\* in a life that restores: TwiceOnlyIfRestored follows.
Single(c) == restarts = 0 \/ (c \notin submitted /\ cpc[c] # "new")
ChancesBounded ==
    \A c \in Cmds : /\ IsFiniteSet(AtWork(c))
                    /\ Single(c) => One(c \in ran) + Chances(c) <= 1
\* `ran` and `submitted` are what they say.
HistoryAgrees ==
    /\ \A c \in ran : execs[c] > 0
    /\ restarts = 0 => \A c \in Cmds : execs[c] > 0 => c \in ran
    /\ \A c \in Cmds : cpc[c] \in InCall => c \in submitted
    /\ \A c \in submitted : cpc[c] # "new"

\* A command that has not been put has left no trace.
Handed(c) == cpc[c] \notin {"new", "put"}
TracesHanded ==
    /\ \A k \in DOMAIN queue : queue[k].cmd # None => Handed(queue[k].cmd)
    /\ \A w \in Workers : OnTask(w) \/ wpc[w] = "restoreAdd" => Handed(wcmd[w])
    /\ \A c \in Cmds : execs[c] > 0 => Handed(c)

\* One restore loop at a time, after a restart; what it has read is at its id.
RestoreInTurn ==
    /\ \A w \in Workers : wpc[w] = "restoreAdd" => cid[wcmd[w]] = wid[w]
    /\ \A v, w \in Workers : Restoring(v) /\ Restoring(w) => v = w
    /\ \A k \in InQueue(None) : k = 1 /\ restarts > 0 /\ \A w \in Workers : ~Restoring(w)
    /\ \A w \in Workers : Restoring(w) => restarts > 0

DownIsEmpty ==
    phase = "down" => /\ queue = <<>> /\ \A w \in Workers : wpc[w] = "idle"
                      /\ \A c \in Cmds : cpc[c] \notin InCall
LivesInv == /\ RecordsAtHome /\ TracesHanded /\ RestoreInTurn /\ DownIsEmpty /\ HistoryAgrees
            /\ ChancesBounded

\* add runs its command in the caller, addAsync queues it.
KindsApart ==
    \A c \in Cmds : /\ cpc[c] \in {"enqueue", "accepted"} => c \in AsyncCmds
                    /\ cpc[c] \in {"execute", "returned", "thrown"} => c \notin AsyncCmds

\* In a life that only restores, a command waits, runs, was run, or is still ahead of the
\* restore loop: one of these at most, and its record is there until it has run.
Waits(c) == \E k \in DOMAIN queue : queue[k].cmd = c
Runs(c) == \E w \in Workers : wpc[w] = "exec" /\ wcmd[w] = c
BeingRestored(c) == \E w \in Workers : wpc[w] = "restoreAdd" /\ wcmd[w] = c
OnePlace(c) ==
    /\ c \in ran => ~Waits(c) /\ ~Runs(c) /\ ~RestoreAhead(c)
    /\ Waits(c) => ~Runs(c) /\ ~RestoreAhead(c)
    /\ Runs(c) => ~RestoreAhead(c)
    /\ \A j, k \in DOMAIN queue : queue[j].cmd = c /\ queue[k].cmd = c => j = k
    /\ \A v, w \in AtWork(c) : v = w
RecordAtHand(c) == Waits(c) \/ Runs(c) \/ BeingRestored(c) => store[cid[c]] = c
TasksAtHome ==
    /\ \A k \in DOMAIN queue : queue[k].cmd # None => cid[queue[k].cmd] = queue[k].id
    /\ \A w \in Workers : OnTask(w) => cid[wcmd[w]] = wid[w]
RanInThisLife == \A w \in Workers : OnTask(w) /\ wpc[w] # "exec" => wcmd[w] \in ran
RestoringOK ==
    /\ OneOwner /\ StoredReliably /\ TasksAtHome /\ RanInThisLife
    /\ \A c \in Cmds : cpc[c] \notin InCall /\ OnePlace(c) /\ RecordAtHand(c)
RestoringInv == restarts > 0 => RestoringOK

-----------------------------------------------------------------------------
(* The queue as its clients see it, for ReliableQueue. *)

Status(c) ==
    IF cpc[c] = "rejected" THEN "refused"
    ELSE IF cpc[c] \in {"new", "put"} THEN "new"
    ELSE IF \E i \in Ids : store[i] = c THEN IF execs[c] = 0 THEN "stored" ELSE "done"
    ELSE IF execs[c] > 0 THEN "forgotten"
    ELSE IF cpc[c] = "interrupted" THEN "new"
    ELSE "lost"

RQ == INSTANCE ReliableQueue WITH
        Background <- AsyncCmds, status <- [c \in Cmds |-> Status(c)],
        runs <- execs, ran <- ran, life <- restarts

\* The queue, with its ids, threads and store, is a ReliableQueue, over the restarts of
\* RestoringSpec too (add, addAsync, addCommand, initialize) ...
RQSafe == RQ!Spec

\* ... that executes what it has accepted and forgets it, unless something fails.
RQFair == <>(faults > 0) \/ RQ!Service
=============================================================================
