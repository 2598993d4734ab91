------------------------ MODULE CommandQueueProofs ------------------------
(***************************************************************************)
(* What holds of CommandQueue for every set of commands and workers, every *)
(* interval size, any number of restarts and failures.                     *)
(***************************************************************************)
EXTENDS CommandQueue, FiniteSetTheorems, TLAPS

LEMMA Constants ==
    /\ AsyncCmds \subseteq Cmds /\ None \notin Cmds /\ None \notin Int
    /\ InitialMaximum \in Nat /\ Increment \in Nat /\ Threshold \in Nat /\ MaxId \in Nat
    /\ CharsetFaithful \in BOOLEAN /\ ContextFirst \in BOOLEAN
BY CmdsAssumption, NumbersAssumption, FlagsAssumption

-----------------------------------------------------------------------------
(* Type correctness.  It is inductive because a worker that is past Take has a   *)
(* command and an id: what RestoreAdd queues is a task, what Execute runs a      *)
(* command.                                                                      *)

LEMMA Frame ==
    ASSUME TypeOK
    PROVE  /\ UNCHANGED storeVars => StoreType'
           /\ UNCHANGED lifeVars => LifeType'
           /\ UNCHANGED indexVars => IndexType'
           /\ UNCHANGED batchVars => BatchType'
           /\ UNCHANGED workerVars => WorkerType'
           /\ UNCHANGED callerVars => CallerType'
           /\ UNCHANGED <<execs, ran, faults>> => HistoryType'
BY DEF TypeOK, StoreType, LifeType, IndexType, BatchType, WorkerType, CallerType,
       HistoryType, storeVars, lifeVars, indexVars, batchVars, workerVars, callerVars, OnTask

THEOREM TypeCorrect == Spec => []TypeOK
<1>1. Init => TypeOK
  <2> SUFFICES ASSUME Init PROVE TypeOK
    OBVIOUS
  <2>1. StoreType
    BY DEF Init, StoreType, MaybeCmd
  <2>2. LifeType
    BY Constants DEF Init, LifeType
  <2>3. IndexType
    <3>1. nextId = 0 /\ maximum = InitialMaximum /\ minimum = 0
      BY DEF Init
    <3>2. gettingNextBatch \in BOOLEAN
      BY DEF Init
    <3> QED
      BY <3>1, <3>2, NumbersAssumption DEF IndexType
  <2>4. BatchType
    BY DEF Init, BatchType, BatchPcs
  <2>5. WorkerType
    BY DEF Init, WorkerType, WorkerPcs, MaybeCmd, OnTask
  <2>6. CallerType
    BY Constants DEF Init, CallerType, CallerPcs, Ids
  <2>7. HistoryType /\ queue \in Seq(Tasks)
    BY DEF Init, HistoryType
  <2> QED
    BY <2>1, <2>2, <2>3, <2>4, <2>5, <2>6, <2>7 DEF TypeOK
<1>2. TypeOK /\ [Next]_vars => TypeOK'
  <2> SUFFICES ASSUME TypeOK, [Next]_vars PROVE TypeOK'
    OBVIOUS
  <2> USE DEF TypeOK, storeVars, lifeVars, indexVars, batchVars, workerVars, callerVars
  <2>1. ASSUME NEW c \in Cmds, GetNextId(c) PROVE TypeOK'
    <3>1. IndexType'
      BY <2>1, Constants DEF GetNextId, IndexType, IdAfter, Ids
    <3>2. BatchType'
      BY <2>1 DEF GetNextId, BatchType
    <3>3. CallerType'
      BY <2>1 DEF GetNextId, CallerType, CallerPcs, IndexType
    <3> QED
      BY <2>1, Frame, <3>1, <3>2, <3>3 DEF GetNextId
  <2>2. ASSUME NEW c \in Cmds, Put(c) PROVE TypeOK'
    <3>1. StoreType'
      BY <2>2 DEF Put, StoreType, CallerType, MaybeCmd
    <3>2. CallerType'
      BY <2>2 DEF Put, CallerType, CallerPcs
    <3> QED
      BY <2>2, Frame, <3>1, <3>2 DEF Put
  <2>3. ASSUME NEW c \in Cmds, PutFails(c) PROVE TypeOK'
    <3>1. StoreType'
      BY <2>3 DEF PutFails, StoreType, CallerType, MaybeCmd
    <3>2. CallerType'
      BY <2>3 DEF PutFails, CallerType, CallerPcs
    <3>3. HistoryType'
      BY <2>3 DEF PutFails, HistoryType, Fault
    <3> QED
      BY <2>3, Frame, <3>1, <3>2, <3>3 DEF PutFails
  <2>4. ASSUME NEW c \in Cmds, Enqueue(c) PROVE TypeOK'
    <3>1. (queue \in Seq(Tasks))'
      BY <2>4 DEF Enqueue, CallerType, Tasks, MaybeCmd
    <3>2. CallerType'
      BY <2>4 DEF Enqueue, CallerType, CallerPcs
    <3> QED
      BY <2>4, Frame, <3>1, <3>2 DEF Enqueue
  <2>5. ASSUME NEW c \in Cmds, ExecuteInCaller(c) PROVE TypeOK'
    <3>1. CallerType'
      BY <2>5 DEF ExecuteInCaller, CallerType, CallerPcs
    <3>2. HistoryType'
      BY <2>5 DEF ExecuteInCaller, HistoryType
    <3> QED
      BY <2>5, Frame, <3>1, <3>2 DEF ExecuteInCaller
  <2>6. ASSUME NEW c \in Cmds, ExecuteInCallerThrows(c) PROVE TypeOK'
    <3>1. CallerType'
      BY <2>6 DEF ExecuteInCallerThrows, CallerType, CallerPcs
    <3>2. HistoryType'
      BY <2>6 DEF ExecuteInCallerThrows, HistoryType, Fault
    <3> QED
      BY <2>6, Frame, <3>1, <3>2 DEF ExecuteInCallerThrows
  <2>7. ASSUME NEW w \in Workers, Take(w) PROVE TypeOK'
    <3>1. (queue \in Seq(Tasks))'
      BY <2>7 DEF Take
    <3>2. WorkerType'
      <4>1. Head(queue) \in Tasks
        BY <2>7 DEF Take
      <4>2. CASE Head(queue).cmd = None
        BY <2>7, <4>2, Constants DEF Take, WorkerType, WorkerPcs, OnTask, MaybeCmd, IndexType
      <4>3. CASE Head(queue).cmd # None
        BY <2>7, <4>1, <4>3, Constants
           DEF Take, WorkerType, WorkerPcs, OnTask, MaybeCmd, Tasks, Ids
      <4> QED
        BY <4>2, <4>3
    <3> QED
      BY <2>7, Frame, <3>1, <3>2 DEF Take
  <2>8. ASSUME NEW w \in Workers, Execute(w) PROVE TypeOK'
    <3>1. WorkerType'
      BY <2>8 DEF Execute, WorkerType, WorkerPcs, OnTask
    <3>2. HistoryType'
      BY <2>8 DEF Execute, HistoryType, WorkerType, OnTask
    <3> QED
      BY <2>8, Frame, <3>1, <3>2 DEF Execute
  <2>9. ASSUME NEW w \in Workers, ExecuteThrows(w) PROVE TypeOK'
    <3>1. WorkerType'
      BY <2>9 DEF ExecuteThrows, WorkerType, WorkerPcs, OnTask
    <3>2. HistoryType'
      BY <2>9 DEF ExecuteThrows, HistoryType, Fault
    <3> QED
      BY <2>9, Frame, <3>1, <3>2 DEF ExecuteThrows
  <2>10. ASSUME NEW w \in Workers, DeleteGet(w) PROVE TypeOK'
    <3>1. WorkerType'
      BY <2>10 DEF DeleteGet, WorkerType, WorkerPcs, OnTask, StoreType
    <3> QED
      BY <2>10, Frame, <3>1 DEF DeleteGet
  <2>11. ASSUME NEW w \in Workers, DeleteRemove(w) PROVE TypeOK'
    <3>1. StoreType'
      BY <2>11 DEF DeleteRemove, StoreType, Removed, MaybeCmd
    <3>2. WorkerType'
      BY <2>11 DEF DeleteRemove, WorkerType, WorkerPcs, OnTask
    <3> QED
      BY <2>11, Frame, <3>1, <3>2 DEF DeleteRemove
  <2>12. ASSUME NEW w \in Workers, DeleteFails(w) PROVE TypeOK'
    <3>1. StoreType'
      BY <2>12 DEF DeleteFails, StoreType, Removed, MaybeCmd
    <3>2. WorkerType'
      BY <2>12 DEF DeleteFails, WorkerType, WorkerPcs, OnTask
    <3>3. HistoryType'
      BY <2>12 DEF DeleteFails, HistoryType, Fault
    <3> QED
      BY <2>12, Frame, <3>1, <3>2, <3>3 DEF DeleteFails
  <2>13. ASSUME NEW w \in Workers, MinCheck(w) PROVE TypeOK'
    <3>1. WorkerType'
      BY <2>13 DEF MinCheck, WorkerType, WorkerPcs, OnTask
    <3> QED
      BY <2>13, Frame, <3>1 DEF MinCheck
  <2>14. ASSUME NEW w \in Workers, MinWrite(w) PROVE TypeOK'
    <3>1. IndexType'
      BY <2>14 DEF MinWrite, IndexType, WorkerType
    <3>2. WorkerType'
      BY <2>14 DEF MinWrite, WorkerType, WorkerPcs, OnTask
    <3> QED
      BY <2>14, Frame, <3>1, <3>2 DEF MinWrite
  <2>15. ASSUME NEW w \in Workers, RestoreGet(w) PROVE TypeOK'
    <3>1. WorkerType'
      <4>1. CASE wid[w] >= maximum
        BY <2>15, <4>1 DEF RestoreGet, IndexType, WorkerType, WorkerPcs, OnTask
      <4>2. CASE wid[w] < maximum /\ Readable(wid[w])
        BY <2>15, <4>2
           DEF RestoreGet, IndexType, WorkerType, WorkerPcs, OnTask, StoreType, MaybeCmd,
               Record, Readable
      <4>3. CASE wid[w] < maximum /\ ~Readable(wid[w])
        BY <2>15, <4>3 DEF RestoreGet, IndexType, WorkerType, WorkerPcs, OnTask
      <4> QED
        BY <2>15, <4>1, <4>2, <4>3 DEF RestoreGet
    <3> QED
      BY <2>15, Frame, <3>1 DEF RestoreGet
  <2>16. ASSUME NEW w \in Workers, RestoreAdd(w) PROVE TypeOK'
    <3>1. (queue \in Seq(Tasks))'
      BY <2>16 DEF RestoreAdd, WorkerType, Tasks, MaybeCmd
    <3>2. WorkerType'
      BY <2>16 DEF RestoreAdd, WorkerType, WorkerPcs, OnTask
    <3> QED
      BY <2>16, Frame, <3>1, <3>2 DEF RestoreAdd
  <2>17. ASSUME NEW w \in Workers, RestoreFails(w) PROVE TypeOK'
    <3>1. WorkerType'
      BY <2>17 DEF RestoreFails, WorkerType, WorkerPcs, OnTask
    <3>2. HistoryType'
      BY <2>17 DEF RestoreFails, HistoryType, Fault
    <3> QED
      BY <2>17, Frame, <3>1, <3>2 DEF RestoreFails
  <2>18. CASE BatchStart
    <3>1. BatchType'
      BY <2>18, Constants DEF BatchStart, BatchType, BatchPcs, IndexType
    <3> QED
      BY <2>18, Frame, <3>1 DEF BatchStart
  <2>19. CASE BatchPutMax
    <3>1. StoreType'
      BY <2>19 DEF BatchPutMax, StoreType, BatchType
    <3>2. BatchType'
      BY <2>19 DEF BatchPutMax, BatchType, BatchPcs
    <3> QED
      BY <2>19, Frame, <3>1, <3>2 DEF BatchPutMax
  <2>20. CASE BatchPutMin
    <3>1. StoreType'
      BY <2>20 DEF BatchPutMin, StoreType, IndexType
    <3>2. BatchType'
      BY <2>20 DEF BatchPutMin, BatchType, BatchPcs
    <3> QED
      BY <2>20, Frame, <3>1, <3>2 DEF BatchPutMin
  <2>20a. CASE BatchObsolete
    <3>1. BatchType'
      BY <2>20a DEF BatchObsolete, BatchType, BatchPcs
    <3> QED
      BY <2>20a, Frame, <3>1 DEF BatchObsolete
  <2>21. CASE BatchRaise
    <3>1. IndexType'
      BY <2>21 DEF BatchRaise, IndexType, BatchType
    <3>2. BatchType'
      BY <2>21 DEF BatchRaise, BatchType, BatchPcs
    <3> QED
      BY <2>21, Frame, <3>1, <3>2 DEF BatchRaise
  <2>22. CASE BatchReset
    <3>1. IndexType'
      BY <2>22 DEF BatchReset, IndexType
    <3>2. BatchType'
      BY <2>22 DEF BatchReset, BatchType, BatchPcs
    <3> QED
      BY <2>22, Frame, <3>1, <3>2 DEF BatchReset
  <2>23. CASE BatchFails
    <3>1. StoreType'
      BY <2>23 DEF BatchFails, StoreType, IndexType, BatchType
    <3>2. BatchType'
      BY <2>23 DEF BatchFails, BatchType, BatchPcs
    <3>3. HistoryType'
      BY <2>23 DEF BatchFails, HistoryType, Fault
    <3> QED
      BY <2>23, Frame, <3>1, <3>2, <3>3 DEF BatchFails
  <2>24. CASE FillContext
    <3>1. LifeType'
      BY <2>24 DEF FillContext, LifeType
    <3> QED
      BY <2>24, Frame, <3>1 DEF FillContext
  <2>25. CASE ShutdownPutMax
    <3>1. StoreType'
      BY <2>25 DEF ShutdownPutMax, StoreType, IndexType
    <3>2. LifeType'
      BY <2>25 DEF ShutdownPutMax, LifeType
    <3> QED
      BY <2>25, Frame, <3>1, <3>2 DEF ShutdownPutMax
  <2>26. CASE ShutdownPutMin
    <3>1. StoreType'
      BY <2>26 DEF ShutdownPutMin, StoreType, IndexType
    <3>2. LifeType'
      BY <2>26 DEF ShutdownPutMin, LifeType
    <3> QED
      BY <2>26, Frame, <3>1, <3>2 DEF ShutdownPutMin
  <2>27. CASE ShutdownFails
    <3>1. LifeType'
      BY <2>27 DEF ShutdownFails, LifeType
    <3>2. HistoryType'
      BY <2>27 DEF ShutdownFails, HistoryType, Fault
    <3> QED
      BY <2>27, Frame, <3>1, <3>2 DEF ShutdownFails
  <2>28. CASE Stop
    <3>1. LifeType'
      BY <2>28 DEF Stop, LifeType
    <3>2. IndexType'
      <4>1. nextId' = 0 /\ maximum' = InitialMaximum /\ minimum' = 0
        BY <2>28 DEF Stop
      <4>2. gettingNextBatch' \in BOOLEAN
        BY <2>28 DEF Stop
      <4> QED
        BY <4>1, <4>2, NumbersAssumption DEF IndexType
    <3>3. BatchType'
      BY <2>28 DEF Stop, BatchType, BatchPcs
    <3>4. (queue \in Seq(Tasks))'
      BY <2>28 DEF Stop
    <3>5. WorkerType'
      BY <2>28 DEF Stop, WorkerType, WorkerPcs, OnTask, MaybeCmd
    <3>6. CallerType'
      BY <2>28 DEF Stop, CallerType, CallerPcs
    <3>7. HistoryType'
      BY <2>28 DEF Stop, HistoryType
    <3> QED
      BY <2>28, Frame, <3>1, <3>2, <3>3, <3>4, <3>5, <3>6, <3>7 DEF Stop
  <2>29. CASE Restart
    <3>1. LifeType'
      BY <2>29, Constants DEF Restart, LifeType
    <3>2. IndexType'
      BY <2>29 DEF Restart, IndexType, StoreType
    <3>3. (queue \in Seq(Tasks))'
      <4>1. CASE pmax = None
        BY <2>29, <4>1 DEF Restart
      <4>2. CASE pmax # None
        <5>1. RestoreTask \in Tasks
          BY Constants DEF RestoreTask, Tasks, MaybeCmd, Ids
        <5> QED
          <6>1. queue' = <<RestoreTask>>
            BY <2>29, <4>2 DEF Restart
          <6> QED
            BY <5>1, <6>1
      <4> QED
        BY <4>1, <4>2
    <3>4. CallerType' /\ HistoryType'
      BY <2>29 DEF Restart, CallerType, HistoryType
    <3> QED
      BY <2>29, Frame, <3>1, <3>2, <3>3, <3>4 DEF Restart
  <2>30. CASE UNCHANGED vars
    BY <2>30, Frame DEF vars
  <2> QED
    BY <2>1, <2>2, <2>3, <2>4, <2>5, <2>6, <2>7, <2>8, <2>9, <2>10, <2>11, <2>12, <2>13, <2>14, <2>15, <2>16, <2>17, <2>18, <2>19, <2>20, <2>20a, <2>21, <2>22, <2>23, <2>24, <2>25, <2>26, <2>27, <2>28, <2>29, <2>30 DEF Next, CallerStep, CallerFault, WorkerStep, WorkerFault,
       BatchStep, LifeStep
<1> QED
  BY <1>1, <1>2, PTL DEF Spec

-----------------------------------------------------------------------------
(* The batch of ids: at most one is fetched at a time, and a raised maximum is   *)
(* persisted before it is used.  Both concern few of the actions.                *)

LEMMA BatchFrame ==
    ASSUME [Next]_vars
    PROVE  \/ \E c \in Cmds : GetNextId(c)
           \/ BatchStep \/ BatchFails \/ Stop
           \/ UNCHANGED <<batchVars, gettingNextBatch>>
<1>1. CASE \E c \in Cmds : GetNextId(c) \/ CallerStep(c) \/ CallerFault(c)
  BY <1>1 DEF CallerStep, CallerFault, indexVars, Put, PutFails, Enqueue, ExecuteInCaller,
       ExecuteInCallerThrows
<1>2. CASE \E w \in Workers : WorkerStep(w)
  BY <1>2 DEF WorkerStep, indexVars, Take, Execute, ExecuteThrows, DeleteGet, DeleteRemove,
       MinCheck, MinWrite, RestoreGet, RestoreAdd
<1>3. CASE \E w \in Workers : WorkerFault(w)
  BY <1>3 DEF WorkerFault, indexVars, DeleteFails, RestoreFails
<1>4. CASE LifeStep
  BY <1>4 DEF LifeStep, indexVars, FillContext, ShutdownPutMax, ShutdownPutMin,
       ShutdownFails, Restart
<1>5. CASE UNCHANGED vars
  BY <1>5 DEF vars, indexVars
<1> QED
  BY <1>1, <1>2, <1>3, <1>4, <1>5 DEF Next

LEMMA IntervalFrame ==
    ASSUME [Next]_vars
    PROVE  \/ BatchStep \/ BatchFails \/ Stop \/ Restart \/ ShutdownPutMax
           \/ /\ UNCHANGED <<pmax, maximum, batchPc, newMax>>
              /\ phase' = "up" => phase = "up"
              /\ phase' = "down" <=> phase = "down"
<1> DEFINE Same == /\ UNCHANGED <<pmax, maximum, batchPc, newMax>>
                   /\ phase' = "up" => phase = "up"
                   /\ phase' = "down" <=> phase = "down"
<1>1. ASSUME NEW c \in Cmds, GetNextId(c) \/ CallerStep(c) \/ CallerFault(c)
      PROVE  Same
  <2>1. CASE GetNextId(c)
    BY <2>1 DEF GetNextId, storeVars, lifeVars
  <2>2. CASE CallerStep(c)
    BY <2>2 DEF CallerStep, indexVars, storeVars, lifeVars, batchVars, Put, Enqueue,
         ExecuteInCaller
  <2>3. CASE CallerFault(c)
    BY <2>3 DEF CallerFault, indexVars, storeVars, lifeVars, batchVars, PutFails,
         ExecuteInCallerThrows
  <2> QED
    BY <1>1, <2>1, <2>2, <2>3
<1>2. ASSUME NEW w \in Workers, WorkerStep(w) \/ WorkerFault(w)
      PROVE  Same
  <2>1. CASE Take(w) \/ Execute(w) \/ ExecuteThrows(w)
    BY <2>1 DEF indexVars, storeVars, lifeVars, batchVars, Take, Execute, ExecuteThrows
  <2>2. CASE DeleteGet(w) \/ DeleteRemove(w) \/ DeleteFails(w)
    BY <2>2 DEF indexVars, storeVars, lifeVars, batchVars, DeleteGet, DeleteRemove,
         DeleteFails
  <2>3. CASE MinCheck(w) \/ MinWrite(w)
    BY <2>3 DEF indexVars, storeVars, lifeVars, batchVars, MinCheck, MinWrite
  <2>4. CASE RestoreGet(w) \/ RestoreAdd(w) \/ RestoreFails(w)
    BY <2>4 DEF indexVars, storeVars, lifeVars, batchVars, RestoreGet, RestoreAdd,
         RestoreFails
  <2> QED
    BY <1>2, <2>1, <2>2, <2>3, <2>4 DEF WorkerStep, WorkerFault
<1>3. CASE FillContext \/ ShutdownPutMin \/ ShutdownFails
  <2>1. Same
    BY <1>3 DEF indexVars, storeVars, batchVars, FillContext, ShutdownPutMin, ShutdownFails
  <2> QED
    BY <2>1
<1>4. CASE UNCHANGED vars
  BY <1>4 DEF vars, indexVars, storeVars, lifeVars, batchVars
<1> QED
  BY <1>1, <1>2, <1>3, <1>4 DEF Next, LifeStep

\* No two getNextBatch tasks are ever queued or running together, whatever the interval
\* sizes, however many threads take ids, and whichever calls fail (getNextId,
\* getNextBatch).
THEOREM BatchExclusion == Spec => []OneBatchAtATime
<1>1. Init => OneBatchAtATime
  BY DEF Init, OneBatchAtATime
<1>2. TypeOK /\ OneBatchAtATime /\ [Next]_vars => OneBatchAtATime'
  <2> SUFFICES ASSUME TypeOK, OneBatchAtATime, [Next]_vars
               PROVE  OneBatchAtATime'
    OBVIOUS
  <2> USE DEF TypeOK, BatchType, OneBatchAtATime, indexVars, batchVars
  <2>1. ASSUME NEW c \in Cmds, GetNextId(c) PROVE OneBatchAtATime'
    <3>1. CASE BatchDue
      <4>1. gettingNextBatch' /\ batchQueue' = batchQueue + 1 /\ batchPc' = batchPc
        BY <2>1, <3>1 DEF GetNextId
      <4>2. ~gettingNextBatch
        BY <3>1 DEF BatchDue
      <4>3. batchQueue = 0 /\ batchPc = "idle"
        BY <4>2
      <4> QED
        BY <4>1, <4>3
    <3>2. CASE ~BatchDue
      <4>1. batchQueue' = batchQueue /\ batchPc' = batchPc
        BY <2>1, <3>2 DEF GetNextId
      <4>2. gettingNextBatch => gettingNextBatch'
        BY <2>1 DEF GetNextId
      <4> QED
        BY <4>1, <4>2
    <3> QED
      BY <3>1, <3>2
  <2>2. CASE BatchStart
    BY <2>2 DEF BatchStart
  <2>3. CASE BatchPutMax
    BY <2>3 DEF BatchPutMax
  <2>4. CASE BatchPutMin
    BY <2>4 DEF BatchPutMin
  <2>4a. CASE BatchObsolete
    BY <2>4a DEF BatchObsolete
  <2>5. CASE BatchRaise
    BY <2>5 DEF BatchRaise
  <2>6. CASE BatchReset
    BY <2>6 DEF BatchReset
  <2>7. CASE BatchFails
    BY <2>7 DEF BatchFails
  <2>8. CASE Stop
    BY <2>8 DEF Stop
  <2>9. CASE UNCHANGED <<batchVars, gettingNextBatch>>
    BY <2>9
  <2> QED
    BY <2>1, <2>2, <2>3, <2>4, <2>4a, <2>5, <2>6, <2>7, <2>8, <2>9, BatchFrame DEF BatchStep
<1> QED
  BY <1>1, <1>2, TypeCorrect, PTL DEF Spec

\* Whenever the process dies, the interval it has been using is known to the next one, but
\* for one batch at most that ran together with shutdown(): `maximum` is only ever raised to
\* a value that was persisted before, and shutdown() may put back the one before that
\* (getNextBatch, shutdown).
THEOREM MaximumPersisted == Spec => []RaisedMaximumIsPersisted
<1> DEFINE Inv == BatchWritesAhead /\ RaisedMaximumIsPersisted
<1>1. Init => Inv
  BY NumbersAssumption DEF Init, BatchWritesAhead, RaisedMaximumIsPersisted, UnknownAtMost
<1>2. TypeOK /\ Inv /\ [Next]_vars => Inv'
  <2> SUFFICES ASSUME TypeOK, Inv, [Next]_vars PROVE Inv'
    OBVIOUS
  <2> USE NumbersAssumption, CmdsAssumption
      DEF TypeOK, StoreType, IndexType, BatchType, BatchWritesAhead,
          RaisedMaximumIsPersisted, UnknownAtMost, storeVars, lifeVars, indexVars, batchVars, Running
  <2>1. CASE BatchStart
    BY <2>1 DEF BatchStart
  <2>2. CASE BatchPutMax
    BY <2>2 DEF BatchPutMax
  <2>3. CASE BatchPutMin
    BY <2>3 DEF BatchPutMin
  <2>3a. CASE BatchObsolete
    BY <2>3a DEF BatchObsolete
  <2>4. CASE BatchRaise
    BY <2>4 DEF BatchRaise
  <2>5. CASE BatchReset
    BY <2>5 DEF BatchReset
  <2>6. CASE BatchFails
    BY <2>6 DEF BatchFails
  <2>7. CASE Stop
    BY <2>7 DEF Stop
  <2>8. CASE Restart
    BY <2>8 DEF Restart
  <2>9. CASE ShutdownPutMax
    BY <2>9 DEF ShutdownPutMax
  <2>10. CASE /\ UNCHANGED <<pmax, maximum, batchPc, newMax>>
              /\ phase' = "up" => phase = "up"
              /\ phase' = "down" <=> phase = "down"
    BY <2>10
  <2> QED
    BY <2>1, <2>2, <2>3, <2>3a, <2>4, <2>5, <2>6, <2>7, <2>8, <2>9, <2>10, IntervalFrame
       DEF BatchStep
<1>3. Inv => RaisedMaximumIsPersisted
  OBVIOUS
<1> QED
  BY <1>1, <1>2, <1>3, TypeCorrect, PTL DEF Spec

-----------------------------------------------------------------------------
(* A command that was refused has no trace, in this life or in a later one.      *)

LEMMA TraceFrame ==
    ASSUME [Next]_vars
    PROVE  \/ \E c \in Cmds : GetNextId(c) \/ CallerStep(c) \/ CallerFault(c)
           \/ \E w \in Workers : WorkerStep(w) \/ WorkerFault(w)
           \/ Stop \/ Restart
           \/ UNCHANGED <<store, queue, execs, wpc, wcmd, cpc>>
BY DEF Next, BatchStep, LifeStep, vars, storeVars, lifeVars, workerVars, callerVars,
       BatchStart, BatchPutMax, BatchPutMin, BatchObsolete,
              BatchRaise, BatchReset, BatchFails,
       FillContext, ShutdownPutMax, ShutdownPutMin, ShutdownFails

\* A step that forgets nothing of what was stored keeps each part whose state it keeps.
LEMMA KnownFrame ==
    ASSUME OnlyKnown, TypeOK, \A c \in Cmds : Known(c) => Known(c)'
    PROVE  /\ UNCHANGED store => RecordsKnown'
           /\ UNCHANGED queue => QueueKnown'
           /\ UNCHANGED <<wpc, wcmd>> => WorkersKnown'
           /\ UNCHANGED execs => RunsKnown'
<1> USE DEF OnlyKnown, TypeOK
<1>1. ASSUME UNCHANGED store PROVE RecordsKnown'
  BY <1>1 DEF RecordsKnown, StoreType, MaybeCmd
<1>2. ASSUME UNCHANGED queue PROVE QueueKnown'
  <2> SUFFICES ASSUME NEW k \in DOMAIN queue, queue[k].cmd # None
               PROVE  Known(queue[k].cmd)'
    BY <1>2 DEF QueueKnown
  <2>1. queue[k] \in Tasks
    OBVIOUS
  <2> QED
    BY <1>2, <2>1 DEF QueueKnown, Tasks, MaybeCmd, Known
<1>3. ASSUME UNCHANGED <<wpc, wcmd>> PROVE WorkersKnown'
  BY <1>3 DEF WorkersKnown, OnTask, WorkerType
<1>4. ASSUME UNCHANGED execs PROVE RunsKnown'
  BY <1>4 DEF RunsKnown
<1> QED
  BY <1>1, <1>2, <1>3, <1>4

\* Where the store does not do a put that it reports as failed, all that is stored, queued or
\* executed has been stored successfully.
LEMMA KnownInvariant ==
    ASSUME "ack" \notin FaultKinds
    PROVE  Spec => []OnlyKnown
<1>1. Init => OnlyKnown
  BY DEF Init, OnlyKnown, RecordsKnown, QueueKnown, WorkersKnown, RunsKnown, OnTask
<1>2. TypeOK /\ OnlyKnown /\ [Next]_vars => OnlyKnown'
  <2> SUFFICES ASSUME TypeOK, OnlyKnown, [Next]_vars PROVE OnlyKnown'
    OBVIOUS
  <2> USE CmdsAssumption DEF TypeOK, OnlyKnown, storeVars, lifeVars, workerVars, callerVars
  <2>1. ASSUME NEW c \in Cmds, GetNextId(c) PROVE OnlyKnown'
    <3>1. \A d \in Cmds : Known(d) => Known(d)'
      BY <2>1 DEF GetNextId, Known, CallerType
    <3> QED
      BY <2>1, <3>1, KnownFrame DEF GetNextId
  <2>2. ASSUME NEW c \in Cmds, Put(c) PROVE OnlyKnown'
    <3>1. \A d \in Cmds : Known(d) => Known(d)'
      BY <2>2 DEF Put, Known, CallerType
    <3>2. RecordsKnown'
      BY <2>2, <3>1 DEF Put, RecordsKnown, StoreType, Known, CallerType, MaybeCmd
    <3> QED
      BY <2>2, <3>1, <3>2, KnownFrame DEF Put
  <2>3. ASSUME NEW c \in Cmds, PutFails(c) PROVE OnlyKnown'
    <3>1. \A d \in Cmds : Known(d) => Known(d)'
      BY <2>3 DEF PutFails, Known, CallerType
    <3>2. RecordsKnown'
      BY <2>3, <3>1 DEF PutFails, RecordsKnown, StoreType, Known, CallerType, MaybeCmd, Fault
    <3> QED
      BY <2>3, <3>1, <3>2, KnownFrame DEF PutFails
  <2>4. ASSUME NEW c \in Cmds, Enqueue(c) PROVE OnlyKnown'
    <3>1. \A d \in Cmds : Known(d) => Known(d)'
      BY <2>4 DEF Enqueue, Known, CallerType
    <3>2. QueueKnown'
      BY <2>4, <3>1 DEF Enqueue, Known, QueueKnown
    <3> QED
      BY <2>4, <3>1, <3>2, KnownFrame DEF Enqueue
  <2>5. ASSUME NEW c \in Cmds, ExecuteInCaller(c) PROVE OnlyKnown'
    <3>1. \A d \in Cmds : Known(d) => Known(d)'
      BY <2>5 DEF ExecuteInCaller, Known, CallerType
    <3>2. RunsKnown'
      BY <2>5, <3>1 DEF ExecuteInCaller, RunsKnown, Known, HistoryType
    <3> QED
      BY <2>5, <3>1, <3>2, KnownFrame DEF ExecuteInCaller
  <2>6. ASSUME NEW c \in Cmds, ExecuteInCallerThrows(c) PROVE OnlyKnown'
    <3>1. \A d \in Cmds : Known(d) => Known(d)'
      BY <2>6 DEF ExecuteInCallerThrows, Known, CallerType
    <3> QED
      BY <2>6, <3>1, KnownFrame DEF ExecuteInCallerThrows
  <2>7. ASSUME NEW w \in Workers, Take(w) PROVE OnlyKnown'
    <3>1. \A d \in Cmds : Known(d) => Known(d)'
      BY <2>7 DEF Take, Known, CallerType
    <3>2. QueueKnown'
      BY <2>7, <3>1 DEF Take, QueueKnown, Known
    <3>3. WorkersKnown'
      <4>1. Head(queue).cmd # None => Known(Head(queue).cmd)
        BY <2>7 DEF Take, QueueKnown
      <4>2. Head(queue) \in Tasks
        BY <2>7 DEF Take
      <4> QED
        BY <2>7, <4>1, <4>2 DEF Take, WorkersKnown, OnTask, Known, WorkerType, Tasks
    <3> QED
      BY <2>7, <3>1, <3>2, <3>3, KnownFrame DEF Take
  <2>8. ASSUME NEW w \in Workers, Execute(w) PROVE OnlyKnown'
    <3>1. \A d \in Cmds : Known(d) => Known(d)'
      BY <2>8 DEF Execute, Known, CallerType
    <3>2. WorkersKnown'
      BY <2>8, <3>1 DEF Execute, WorkersKnown, OnTask, Known, WorkerType
    <3>3. RunsKnown'
      BY <2>8, <3>1 DEF Execute, RunsKnown, WorkersKnown, OnTask, Known, HistoryType
    <3> QED
      BY <2>8, <3>1, <3>2, <3>3, KnownFrame DEF Execute
  <2>9. ASSUME NEW w \in Workers, ExecuteThrows(w) PROVE OnlyKnown'
    <3>1. \A d \in Cmds : Known(d) => Known(d)'
      BY <2>9 DEF ExecuteThrows, Known, CallerType
    <3>2. WorkersKnown'
      BY <2>9, <3>1 DEF ExecuteThrows, WorkersKnown, OnTask, Known, WorkerType
    <3> QED
      BY <2>9, <3>1, <3>2, KnownFrame DEF ExecuteThrows
  <2>10. ASSUME NEW w \in Workers, DeleteGet(w) PROVE OnlyKnown'
    <3>1. \A d \in Cmds : Known(d) => Known(d)'
      BY <2>10 DEF DeleteGet, Known, CallerType
    <3>2. WorkersKnown'
      BY <2>10, <3>1 DEF DeleteGet, WorkersKnown, OnTask, Known, WorkerType
    <3> QED
      BY <2>10, <3>1, <3>2, KnownFrame DEF DeleteGet
  <2>11. ASSUME NEW w \in Workers, DeleteRemove(w) PROVE OnlyKnown'
    <3>1. \A d \in Cmds : Known(d) => Known(d)'
      BY <2>11 DEF DeleteRemove, Known, CallerType
    <3>2. RecordsKnown'
      BY <2>11, <3>1 DEF DeleteRemove, RecordsKnown, Removed, StoreType, Known
    <3>3. WorkersKnown'
      BY <2>11, <3>1 DEF DeleteRemove, WorkersKnown, OnTask, Known, WorkerType
    <3> QED
      BY <2>11, <3>1, <3>2, <3>3, KnownFrame DEF DeleteRemove
  <2>12. ASSUME NEW w \in Workers, DeleteFails(w) PROVE OnlyKnown'
    <3>1. \A d \in Cmds : Known(d) => Known(d)'
      BY <2>12 DEF DeleteFails, Known, CallerType
    <3>2. RecordsKnown'
      BY <2>12, <3>1 DEF DeleteFails, RecordsKnown, Removed, StoreType, Known, Fault
    <3>3. WorkersKnown'
      BY <2>12, <3>1 DEF DeleteFails, WorkersKnown, OnTask, Known, WorkerType
    <3> QED
      BY <2>12, <3>1, <3>2, <3>3, KnownFrame DEF DeleteFails
  <2>13. ASSUME NEW w \in Workers, MinCheck(w) PROVE OnlyKnown'
    <3>1. \A d \in Cmds : Known(d) => Known(d)'
      BY <2>13 DEF MinCheck, Known, CallerType
    <3>2. WorkersKnown'
      BY <2>13, <3>1 DEF MinCheck, WorkersKnown, OnTask, Known, WorkerType
    <3> QED
      BY <2>13, <3>1, <3>2, KnownFrame DEF MinCheck
  <2>14. ASSUME NEW w \in Workers, MinWrite(w) PROVE OnlyKnown'
    <3>1. \A d \in Cmds : Known(d) => Known(d)'
      BY <2>14 DEF MinWrite, Known, CallerType
    <3>2. WorkersKnown'
      BY <2>14, <3>1 DEF MinWrite, WorkersKnown, OnTask, Known, WorkerType
    <3> QED
      BY <2>14, <3>1, <3>2, KnownFrame DEF MinWrite
  <2>15. ASSUME NEW w \in Workers, RestoreGet(w) PROVE OnlyKnown'
    <3>1. \A d \in Cmds : Known(d) => Known(d)'
      BY <2>15 DEF RestoreGet, Known, CallerType
    <3>2. WorkersKnown'
      <4>1. CASE wid[w] < maximum /\ Readable(wid[w])
        BY <2>15, <4>1 DEF RestoreGet, WorkersKnown, OnTask, Known, WorkerType,
                           RecordsKnown, Record, Readable, IndexType
      <4>2. CASE wid[w] >= maximum
        BY <2>15, <4>2 DEF RestoreGet, WorkersKnown, OnTask, Known, WorkerType, IndexType
      <4>3. CASE wid[w] < maximum /\ ~Readable(wid[w])
        BY <2>15, <4>3 DEF RestoreGet, WorkersKnown, OnTask, Known, WorkerType, IndexType
      <4> QED
        BY <2>15, <4>1, <4>2, <4>3 DEF RestoreGet
    <3> QED
      BY <2>15, <3>1, <3>2, KnownFrame DEF RestoreGet
  <2>16. ASSUME NEW w \in Workers, RestoreAdd(w) PROVE OnlyKnown'
    <3>1. \A d \in Cmds : Known(d) => Known(d)'
      BY <2>16 DEF RestoreAdd, Known, CallerType
    <3>2. QueueKnown'
      BY <2>16, <3>1 DEF RestoreAdd, QueueKnown, Known, WorkersKnown
    <3>3. WorkersKnown'
      BY <2>16, <3>1 DEF RestoreAdd, WorkersKnown, OnTask, Known, WorkerType
    <3> QED
      BY <2>16, <3>1, <3>2, <3>3, KnownFrame DEF RestoreAdd
  <2>17. ASSUME NEW w \in Workers, RestoreFails(w) PROVE OnlyKnown'
    <3>1. \A d \in Cmds : Known(d) => Known(d)'
      BY <2>17 DEF RestoreFails, Known, CallerType
    <3>2. WorkersKnown'
      BY <2>17, <3>1 DEF RestoreFails, WorkersKnown, OnTask, Known, WorkerType
    <3> QED
      BY <2>17, <3>1, <3>2, KnownFrame DEF RestoreFails
  <2>18. CASE Stop
    <3>1. \A d \in Cmds : Known(d) => Known(d)'
      BY <2>18 DEF Stop, Known, CallerType, InCall
    <3>2. QueueKnown'
      BY <2>18, <3>1 DEF Stop, QueueKnown
    <3>3. WorkersKnown'
      BY <2>18, <3>1 DEF Stop, WorkersKnown, OnTask
    <3> QED
      BY <2>18, <3>1, <3>2, <3>3, KnownFrame DEF Stop
  <2>19. CASE Restart
    <3>1. \A d \in Cmds : Known(d) => Known(d)'
      BY <2>19 DEF Restart, Known, CallerType
    <3>2. QueueKnown'
      <4>1. CASE pmax = None
        BY <2>19, <4>1, <3>1, KnownFrame DEF Restart
      <4>2. CASE pmax # None
        BY <2>19, <4>2 DEF Restart, QueueKnown, RestoreTask
      <4> QED
        BY <4>1, <4>2
    <3> QED
      BY <2>19, <3>1, <3>2, KnownFrame DEF Restart
  <2>20. CASE UNCHANGED <<store, queue, execs, wpc, wcmd, cpc>>
    BY <2>20, KnownFrame DEF Known
  <2> QED
    BY <2>1, <2>2, <2>3, <2>4, <2>5, <2>6, <2>7, <2>8, <2>9, <2>10,
       <2>11, <2>12, <2>13, <2>14, <2>15, <2>16, <2>17, <2>18, <2>19, <2>20, TraceFrame
    DEF CallerStep, CallerFault, WorkerStep, WorkerFault
<1> QED
  BY <1>1, <1>2, TypeCorrect, PTL DEF Spec

\* When the store does not do a put that it reports as failed, a command whose add or
\* addAsync threw CannotStoreCommandException has no record and is never executed, over
\* any number of restarts (add, addAsync, storeRemotely).
THEOREM RefusalIsFinal ==
    ASSUME "ack" \notin FaultKinds
    PROVE  Spec => []RejectedNeverRuns
<1>1. TypeOK /\ OnlyKnown => RejectedNeverRuns
  BY CmdsAssumption
     DEF TypeOK, HistoryType, OnlyKnown, RecordsKnown, RunsKnown, Known, RejectedNeverRuns
<1> QED
  BY <1>1, KnownInvariant, TypeCorrect, PTL

-----------------------------------------------------------------------------
(* "Persisted reliably", in the first life of the process: getNextId gives every *)
(* command an id of its own, so no put meets another record, and a delete finds   *)
(* only the record of the command that was run.                                   *)

LEMMA HomeFrame ==
    ASSUME [Next]_vars, restarts' = 0, TypeOK
    PROVE  /\ restarts = 0
           /\ \/ \E c \in Cmds : GetNextId(c) \/ CallerStep(c) \/ CallerFault(c)
              \/ \E w \in Workers : WorkerStep(w) \/ WorkerFault(w)
              \/ Stop
              \/ /\ UNCHANGED <<store, queue, execs, workerVars, callerVars, nextId>>
                 /\ Running' => Running
<1>1. ~Restart
  BY DEF Restart, TypeOK, LifeType
<1> QED
  BY <1>1 DEF Next, CallerStep, CallerFault, WorkerStep, WorkerFault, BatchStep, LifeStep,
         vars, storeVars, lifeVars, indexVars, Running, GetNextId, Put, PutFails, Enqueue,
         ExecuteInCaller, ExecuteInCallerThrows, Take, Execute, ExecuteThrows, DeleteGet,
         DeleteRemove, DeleteFails, MinCheck, MinWrite, RestoreGet, RestoreAdd,
         RestoreFails, BatchStart, BatchPutMax, BatchPutMin, BatchObsolete, BatchRaise, BatchReset,
         BatchFails, FillContext, ShutdownPutMax, ShutdownPutMin, ShutdownFails, Stop

\* Each part is kept by a step that keeps what it speaks about.
LEMMA PartsFrame ==
    ASSUME FirstLifeOK, UNCHANGED callerVars
    PROVE  /\ OneOwner'
           /\ UNCHANGED nextId /\ (Running' => Running) => IdsIssued'
           /\ UNCHANGED store => RecordsAtHome'
           /\ UNCHANGED queue => QueueAtHome'
           /\ UNCHANGED <<workerVars, execs>> => WorkersAtHome'
           /\ UNCHANGED <<store, execs>> => StoredReliably'
BY DEF FirstLifeOK, OneOwner, IdsIssued, RecordsAtHome, QueueAtHome, WorkersAtHome,
       StoredReliably, Accepted, IsTaskOf, OnTask, callerVars, workerVars

\* A worker that deletes under its id can meet only the record of its own command,
\* which has been executed.
LEMMA OwnRecordOnly ==
    ASSUME TypeOK, FirstLifeOK, NEW w \in Workers, OnTask(w), wpc[w] # "exec",
           NEW c \in Cmds, store[cid[c]] = c, execs[c] = 0, Removed(w)[cid[c]] # c
    PROVE  FALSE
<1>1. store[wid[w]] = c /\ wid[w] = cid[c]
  BY DEF Removed, TypeOK, StoreType, WorkerType, CallerType
<1>2. cpc[c] # "new"
  BY <1>1, CmdsAssumption DEF FirstLifeOK, RecordsAtHome, TypeOK, CallerType
<1>3. /\ wcmd[w] \in Cmds /\ cid[wcmd[w]] = wid[w] /\ cpc[wcmd[w]] # "new"
      /\ execs[wcmd[w]] > 0
  BY DEF FirstLifeOK, WorkersAtHome, IsTaskOf
<1>4. wcmd[w] = c
  BY <1>1, <1>2, <1>3 DEF FirstLifeOK, OneOwner
<1> QED
  BY <1>3, <1>4

LEMMA FirstLifeStep ==
    ASSUME TypeOK, FirstLifeInv, [Next]_vars
    PROVE  FirstLifeInv'
<1> SUFFICES ASSUME restarts' = 0 PROVE FirstLifeOK'
  BY DEF FirstLifeInv
<1>0. restarts = 0 /\ FirstLifeOK
  BY HomeFrame DEF FirstLifeInv
<1> USE <1>0, CmdsAssumption
    DEF TypeOK, storeVars, lifeVars, indexVars, workerVars, callerVars
<1>1. ASSUME NEW c \in Cmds, GetNextId(c) PROVE FirstLifeOK'
  <2>1. OneOwner'
    BY <1>1 DEF GetNextId, FirstLifeOK, OneOwner, CallerType, IdsIssued, IndexType, Ids, Running
  <2>2. IdsIssued'
    BY <1>1 DEF GetNextId, FirstLifeOK, IdsIssued, Running, CallerType, IndexType, Ids, IdAfter
  <2>3. RecordsAtHome'
    BY <1>1 DEF GetNextId, FirstLifeOK, RecordsAtHome, StoreType, CallerType, MaybeCmd
  <2>4. QueueAtHome'
    BY <1>1 DEF GetNextId, FirstLifeOK, QueueAtHome, IsTaskOf, CallerType
  <2>5. WorkersAtHome'
    BY <1>1 DEF GetNextId, FirstLifeOK, WorkersAtHome, OnTask, IsTaskOf, CallerType, WorkerType, HistoryType
  <2>6. StoredReliably'
    BY <1>1 DEF GetNextId, FirstLifeOK, StoredReliably, Accepted, CallerType, StoreType, HistoryType
  <2> QED
    BY <2>1, <2>2, <2>3, <2>4, <2>5, <2>6 DEF FirstLifeOK
<1>2. ASSUME NEW c \in Cmds, Put(c) PROVE FirstLifeOK'
  <2>1. OneOwner'
    BY <1>2 DEF Put, FirstLifeOK, OneOwner, CallerType
  <2>2. IdsIssued'
    BY <1>2 DEF Put, FirstLifeOK, IdsIssued, Running, CallerType, IndexType, Ids
  <2>3. RecordsAtHome'
    BY <1>2 DEF Put, FirstLifeOK, RecordsAtHome, StoreType, CallerType, MaybeCmd
  <2>4. QueueAtHome'
    BY <1>2 DEF Put, FirstLifeOK, QueueAtHome, IsTaskOf, CallerType
  <2>5. WorkersAtHome'
    BY <1>2 DEF Put, FirstLifeOK, WorkersAtHome, OnTask, IsTaskOf, CallerType, WorkerType, HistoryType
  <2>6. StoredReliably'
    BY <1>2 DEF Put, FirstLifeOK, StoredReliably, Accepted, CallerType, StoreType, HistoryType, RecordsAtHome, OneOwner
  <2> QED
    BY <2>1, <2>2, <2>3, <2>4, <2>5, <2>6 DEF FirstLifeOK
<1>3. ASSUME NEW c \in Cmds, PutFails(c) PROVE FirstLifeOK'
  <2>1. OneOwner'
    BY <1>3 DEF PutFails, FirstLifeOK, OneOwner, CallerType
  <2>2. IdsIssued'
    BY <1>3 DEF PutFails, FirstLifeOK, IdsIssued, Running, CallerType, IndexType, Ids
  <2>3. RecordsAtHome'
    BY <1>3 DEF PutFails, FirstLifeOK, RecordsAtHome, StoreType, CallerType, MaybeCmd, Fault
  <2>4. QueueAtHome'
    BY <1>3 DEF PutFails, FirstLifeOK, QueueAtHome, IsTaskOf, CallerType
  <2>5. WorkersAtHome'
    BY <1>3 DEF PutFails, FirstLifeOK, WorkersAtHome, OnTask, IsTaskOf, CallerType, WorkerType, HistoryType
  <2>6. StoredReliably'
    BY <1>3 DEF PutFails, FirstLifeOK, StoredReliably, Accepted, CallerType, StoreType, HistoryType, RecordsAtHome, OneOwner, Fault
  <2> QED
    BY <2>1, <2>2, <2>3, <2>4, <2>5, <2>6 DEF FirstLifeOK
<1>4. ASSUME NEW c \in Cmds, Enqueue(c) PROVE FirstLifeOK'
  <2>1. OneOwner'
    BY <1>4 DEF Enqueue, FirstLifeOK, OneOwner, CallerType
  <2>2. IdsIssued'
    BY <1>4 DEF Enqueue, FirstLifeOK, IdsIssued, Running, CallerType, IndexType, Ids
  <2>3. RecordsAtHome'
    BY <1>4 DEF Enqueue, FirstLifeOK, RecordsAtHome, StoreType, CallerType, MaybeCmd
  <2>4. QueueAtHome'
    BY <1>4 DEF Enqueue, FirstLifeOK, QueueAtHome, IsTaskOf, CallerType
  <2>5. WorkersAtHome'
    BY <1>4 DEF Enqueue, FirstLifeOK, WorkersAtHome, OnTask, IsTaskOf, CallerType, WorkerType, HistoryType
  <2>6. StoredReliably'
    BY <1>4 DEF Enqueue, FirstLifeOK, StoredReliably, Accepted, CallerType, StoreType, HistoryType
  <2> QED
    BY <2>1, <2>2, <2>3, <2>4, <2>5, <2>6 DEF FirstLifeOK
<1>5. ASSUME NEW c \in Cmds, ExecuteInCaller(c) PROVE FirstLifeOK'
  <2>1. OneOwner'
    BY <1>5 DEF ExecuteInCaller, FirstLifeOK, OneOwner, CallerType
  <2>2. IdsIssued'
    BY <1>5 DEF ExecuteInCaller, FirstLifeOK, IdsIssued, Running, CallerType, IndexType, Ids
  <2>3. RecordsAtHome'
    BY <1>5 DEF ExecuteInCaller, FirstLifeOK, RecordsAtHome, StoreType, CallerType, MaybeCmd
  <2>4. QueueAtHome'
    BY <1>5 DEF ExecuteInCaller, FirstLifeOK, QueueAtHome, IsTaskOf, CallerType
  <2>5. WorkersAtHome'
    BY <1>5 DEF ExecuteInCaller, FirstLifeOK, WorkersAtHome, OnTask, IsTaskOf, CallerType, WorkerType, HistoryType
  <2>6. StoredReliably'
    BY <1>5 DEF ExecuteInCaller, FirstLifeOK, StoredReliably, Accepted, CallerType, StoreType, HistoryType
  <2> QED
    BY <2>1, <2>2, <2>3, <2>4, <2>5, <2>6 DEF FirstLifeOK
<1>6. ASSUME NEW c \in Cmds, ExecuteInCallerThrows(c) PROVE FirstLifeOK'
  <2>1. OneOwner'
    BY <1>6 DEF ExecuteInCallerThrows, FirstLifeOK, OneOwner, CallerType
  <2>2. IdsIssued'
    BY <1>6 DEF ExecuteInCallerThrows, FirstLifeOK, IdsIssued, Running, CallerType, IndexType, Ids
  <2>3. RecordsAtHome'
    BY <1>6 DEF ExecuteInCallerThrows, FirstLifeOK, RecordsAtHome, StoreType, CallerType, MaybeCmd
  <2>4. QueueAtHome'
    BY <1>6 DEF ExecuteInCallerThrows, FirstLifeOK, QueueAtHome, IsTaskOf, CallerType
  <2>5. WorkersAtHome'
    BY <1>6 DEF ExecuteInCallerThrows, FirstLifeOK, WorkersAtHome, OnTask, IsTaskOf, CallerType, WorkerType, HistoryType
  <2>6. StoredReliably'
    BY <1>6 DEF ExecuteInCallerThrows, FirstLifeOK, StoredReliably, Accepted, CallerType, StoreType, HistoryType
  <2> QED
    BY <2>1, <2>2, <2>3, <2>4, <2>5, <2>6 DEF FirstLifeOK
<1>7. ASSUME NEW w \in Workers, Take(w) PROVE FirstLifeOK'
  <2>1. QueueAtHome'
    BY <1>7 DEF Take, FirstLifeOK, QueueAtHome, IsTaskOf, CallerType
  <2>2. WorkersAtHome'
    <3>1. IsTaskOf(Head(queue).cmd, Head(queue).id)
      BY <1>7 DEF Take, FirstLifeOK, QueueAtHome
    <3> QED
      BY <1>7, <3>1 DEF Take, FirstLifeOK, WorkersAtHome, OnTask, IsTaskOf, WorkerType
  <2> QED
    BY <1>7, PartsFrame, <2>1, <2>2 DEF Take, Running, FirstLifeOK
<1>8. ASSUME NEW w \in Workers, Execute(w) PROVE FirstLifeOK'
  <2>1. WorkersAtHome'
    BY <1>8 DEF Execute, FirstLifeOK, WorkersAtHome, OnTask, IsTaskOf, CallerType, WorkerType, HistoryType
  <2>2. StoredReliably'
    BY <1>8 DEF Execute, FirstLifeOK, StoredReliably, Accepted, CallerType, StoreType, HistoryType, WorkersAtHome, IsTaskOf, OnTask
  <2> QED
    BY <1>8, PartsFrame, <2>1, <2>2 DEF Execute, Running, FirstLifeOK
<1>9. ASSUME NEW w \in Workers, ExecuteThrows(w) PROVE FirstLifeOK'
  <2>1. WorkersAtHome'
    BY <1>9 DEF ExecuteThrows, FirstLifeOK, WorkersAtHome, OnTask, IsTaskOf, CallerType, WorkerType, HistoryType
  <2> QED
    BY <1>9, PartsFrame, <2>1 DEF ExecuteThrows, Running, FirstLifeOK
<1>10. ASSUME NEW w \in Workers, DeleteGet(w) PROVE FirstLifeOK'
  <2>1. WorkersAtHome'
    BY <1>10 DEF DeleteGet, FirstLifeOK, WorkersAtHome, OnTask, IsTaskOf, CallerType, WorkerType, HistoryType
  <2> QED
    BY <1>10, PartsFrame, <2>1 DEF DeleteGet, Running, FirstLifeOK
<1>11. ASSUME NEW w \in Workers, DeleteRemove(w) PROVE FirstLifeOK'
  <2>1. RecordsAtHome'
    BY <1>11 DEF DeleteRemove, FirstLifeOK, RecordsAtHome, StoreType, CallerType, MaybeCmd, Removed
  <2>2. WorkersAtHome'
    BY <1>11 DEF DeleteRemove, FirstLifeOK, WorkersAtHome, OnTask, IsTaskOf, CallerType, WorkerType, HistoryType
  <2>3. StoredReliably'
    <3>1. OnTask(w) /\ wpc[w] # "exec" /\ (store' = Removed(w) \/ store' = store)
      BY <1>11 DEF DeleteRemove, OnTask
    <3>2. UNCHANGED <<callerVars, execs>>
      BY <1>11 DEF DeleteRemove
    <3> SUFFICES ASSUME NEW c \in Cmds, Accepted(c), execs[c] = 0
                 PROVE  store'[cid[c]] = c
      BY <3>2 DEF StoredReliably, Accepted
    <3>3. store[cid[c]] = c
      BY DEF FirstLifeOK, StoredReliably
    <3> QED
      BY <3>1, <3>3, OwnRecordOnly
  <2> QED
    BY <1>11, PartsFrame, <2>1, <2>2, <2>3 DEF DeleteRemove, Running, FirstLifeOK
<1>12. ASSUME NEW w \in Workers, DeleteFails(w) PROVE FirstLifeOK'
  <2>1. RecordsAtHome'
    BY <1>12 DEF DeleteFails, FirstLifeOK, RecordsAtHome, StoreType, CallerType, MaybeCmd, Removed, Fault
  <2>2. WorkersAtHome'
    BY <1>12 DEF DeleteFails, FirstLifeOK, WorkersAtHome, OnTask, IsTaskOf, CallerType, WorkerType, HistoryType
  <2>3. StoredReliably'
    <3>1. OnTask(w) /\ wpc[w] # "exec" /\ (store' = Removed(w) \/ store' = store)
      BY <1>12 DEF DeleteFails, OnTask
    <3>2. UNCHANGED <<callerVars, execs>>
      BY <1>12 DEF DeleteFails
    <3> SUFFICES ASSUME NEW c \in Cmds, Accepted(c), execs[c] = 0
                 PROVE  store'[cid[c]] = c
      BY <3>2 DEF StoredReliably, Accepted
    <3>3. store[cid[c]] = c
      BY DEF FirstLifeOK, StoredReliably
    <3> QED
      BY <3>1, <3>3, OwnRecordOnly
  <2> QED
    BY <1>12, PartsFrame, <2>1, <2>2, <2>3 DEF DeleteFails, Running, FirstLifeOK
<1>13. ASSUME NEW w \in Workers, MinCheck(w) PROVE FirstLifeOK'
  <2>1. WorkersAtHome'
    BY <1>13 DEF MinCheck, FirstLifeOK, WorkersAtHome, OnTask, IsTaskOf, CallerType, WorkerType, HistoryType
  <2> QED
    BY <1>13, PartsFrame, <2>1 DEF MinCheck, Running, FirstLifeOK
<1>14. ASSUME NEW w \in Workers, MinWrite(w) PROVE FirstLifeOK'
  <2>1. WorkersAtHome'
    BY <1>14 DEF MinWrite, FirstLifeOK, WorkersAtHome, OnTask, IsTaskOf, CallerType, WorkerType, HistoryType
  <2> QED
    BY <1>14, PartsFrame, <2>1 DEF MinWrite, Running, FirstLifeOK
<1>15. ASSUME NEW w \in Workers, RestoreGet(w) PROVE FirstLifeOK'
  BY <1>15 DEF RestoreGet, FirstLifeOK, WorkersAtHome
<1>16. ASSUME NEW w \in Workers, RestoreAdd(w) PROVE FirstLifeOK'
  BY <1>16 DEF RestoreAdd, FirstLifeOK, WorkersAtHome
<1>17. ASSUME NEW w \in Workers, RestoreFails(w) PROVE FirstLifeOK'
  BY <1>17 DEF RestoreFails, FirstLifeOK, WorkersAtHome
<1>18. CASE Stop
  <2>1. OneOwner'
    BY <1>18 DEF Stop, FirstLifeOK, OneOwner, CallerType, InCall
  <2>2. IdsIssued'
    BY <1>18 DEF Stop, FirstLifeOK, IdsIssued, Running, CallerType, IndexType, Ids, InCall
  <2>3. RecordsAtHome'
    BY <1>18 DEF Stop, FirstLifeOK, RecordsAtHome, StoreType, CallerType, MaybeCmd, InCall
  <2>4. QueueAtHome'
    BY <1>18 DEF Stop, FirstLifeOK, QueueAtHome, IsTaskOf, CallerType, InCall
  <2>5. WorkersAtHome'
    BY <1>18 DEF Stop, FirstLifeOK, WorkersAtHome, OnTask, IsTaskOf, CallerType, WorkerType, HistoryType, InCall
  <2>6. StoredReliably'
    BY <1>18 DEF Stop, FirstLifeOK, StoredReliably, Accepted, CallerType, StoreType, HistoryType, InCall
  <2> QED
    BY <2>1, <2>2, <2>3, <2>4, <2>5, <2>6 DEF FirstLifeOK
<1>19. CASE /\ UNCHANGED <<store, queue, execs, workerVars, callerVars, nextId>>
            /\ Running' => Running
  <2>1. UNCHANGED nextId /\ UNCHANGED store /\ UNCHANGED queue
        /\ UNCHANGED <<workerVars, execs>> /\ UNCHANGED <<store, execs>>
    BY <1>19
  <2>2. UNCHANGED callerVars
    BY <1>19
  <2> QED
    BY <1>19, <2>1, <2>2, PartsFrame DEF FirstLifeOK, Running
<1> QED
  BY <1>1, <1>2, <1>3, <1>4, <1>5, <1>6, <1>7, <1>8, <1>9, <1>10,
     <1>11, <1>12, <1>13, <1>14, <1>15, <1>16, <1>17, <1>18, <1>19, HomeFrame
  DEF CallerStep, CallerFault, WorkerStep, WorkerFault

LEMMA FirstLifeInvariant == Spec => []FirstLifeInv
<1>1. Init => FirstLifeInv
  BY DEF Init, FirstLifeInv, FirstLifeOK, OneOwner, IdsIssued, RecordsAtHome, QueueAtHome,
         WorkersAtHome, OnTask, StoredReliably, Accepted
<1>2. TypeOK /\ FirstLifeInv /\ [Next]_vars => FirstLifeInv'
  BY FirstLifeStep
<1> QED
  BY <1>1, <1>2, TypeCorrect, PTL DEF Spec

\* For any number of commands, callers, workers and failures, at any interval sizes: until
\* the process has been restarted once, the record of every command that add or addAsync
\* stored is in the store until the command has been executed (storeRemotely, getNextId,
\* finishCommand, delete).
THEOREM DurableInFirstLife == Spec => []RecordUntilExecuted
<1>1. FirstLifeInv => RecordUntilExecuted
  BY DEF FirstLifeInv, FirstLifeOK, RecordUntilExecuted
<1> QED
  BY <1>1, FirstLifeInvariant, PTL

-----------------------------------------------------------------------------
(* At most one execution in a life.  A command has chances to be executed: its   *)
(* tasks, the workers about to run it, its caller and the restore loop ahead of   *)
(* it.  Steps use chances up, or turn one into another; a new life gives one, the *)
(* restore loop, to every command that is not submitted in it.                    *)

\* How many of a queue's tasks are of one command.
Places(q, c) == {k \in DOMAIN q : q[k].cmd = c}

LEMMA PlacesFinite ==
    ASSUME NEW q \in Seq(Tasks), NEW c
    PROVE  IsFiniteSet(Places(q, c)) /\ Cardinality(Places(q, c)) \in Nat
<1>1. DOMAIN q = 1 .. Len(q) /\ Len(q) \in Nat
  OBVIOUS
<1>2. IsFiniteSet(1 .. Len(q))
  BY <1>1, FS_Interval
<1>3. Places(q, c) \in SUBSET (1 .. Len(q))
  BY <1>1 DEF Places
<1>4. IsFiniteSet(Places(q, c))
  BY <1>2, <1>3, FS_Subset
<1> QED
  BY <1>4, FS_CardinalityType

LEMMA PlacesAppend ==
    ASSUME NEW q \in Seq(Tasks), NEW t \in Tasks, NEW c
    PROVE  /\ Append(q, t) \in Seq(Tasks)
           /\ t.cmd = c => /\ Places(Append(q, t), c) = Places(q, c) \cup {Len(q) + 1}
                           /\ Cardinality(Places(Append(q, t), c)) = Cardinality(Places(q, c)) + 1
           /\ t.cmd # c => Places(Append(q, t), c) = Places(q, c)
<1> DEFINE n == Len(q)
           new == Append(q, t)
<1>1. /\ n \in Nat /\ DOMAIN q = 1 .. n
      /\ new \in Seq(Tasks) /\ DOMAIN new = 1 .. n + 1
      /\ \A i \in 1 .. n : new[i] = q[i]
      /\ new[n + 1] = t
  OBVIOUS
<1> HIDE DEF n, new
<1>2. \A i : i \in 1 .. n + 1 <=> i \in 1 .. n \/ i = n + 1
  BY <1>1
<1>3. t.cmd # c => Places(new, c) = Places(q, c)
  BY <1>1, <1>2 DEF Places
<1>4. ASSUME t.cmd = c
      PROVE  /\ Places(new, c) = Places(q, c) \cup {n + 1}
             /\ Cardinality(Places(new, c)) = Cardinality(Places(q, c)) + 1
  <2>1. Places(new, c) = Places(q, c) \cup {n + 1}
    BY <1>1, <1>2, <1>4 DEF Places
  <2>2. n + 1 \notin Places(q, c)
    BY <1>1 DEF Places
  <2>3. IsFiniteSet(Places(q, c))
    BY PlacesFinite
  <2> QED
    BY <2>1, <2>2, <2>3, FS_AddElement
<1> QED
  BY <1>1, <1>3, <1>4 DEF n, new

LEMMA PlacesTail ==
    ASSUME NEW q \in Seq(Tasks), q # <<>>, NEW c
    PROVE  /\ Tail(q) \in Seq(Tasks) /\ Head(q) \in Tasks
           /\ Head(q) = q[1] /\ 1 \in DOMAIN q
           /\ \A k \in Places(Tail(q), c) : k + 1 \in Places(q, c) /\ k + 1 # 1
           /\ Head(q).cmd = c => Cardinality(Places(Tail(q), c)) = Cardinality(Places(q, c)) - 1
           /\ Head(q).cmd # c => Cardinality(Places(Tail(q), c)) = Cardinality(Places(q, c))
<1> DEFINE n == Len(q)
           new == Tail(q)
           rest == Places(q, c) \ {1}
<1>1. /\ n \in Nat \ {0} /\ DOMAIN q = 1 .. n
      /\ new \in Seq(Tasks) /\ DOMAIN new = 1 .. n - 1
      /\ \A i \in 1 .. n - 1 : new[i] = q[i + 1]
      /\ Head(q) = q[1] /\ Head(q) \in Tasks
  OBVIOUS
<1> HIDE DEF n, new
<1>2. \A k \in Places(new, c) : k + 1 \in rest
  BY <1>1 DEF Places
<1>3. \A k \in rest : k - 1 \in Places(new, c)
  <2> SUFFICES ASSUME NEW k \in rest PROVE k - 1 \in Places(new, c)
    OBVIOUS
  <2>1. k \in 2 .. n /\ q[k].cmd = c
    BY <1>1 DEF Places
  <2>2. k - 1 \in 1 .. n - 1 /\ new[k - 1] = q[k]
    BY <2>1, <1>1
  <2> QED
    BY <2>1, <2>2, <1>1 DEF Places
<1>4. IsFiniteSet(Places(q, c)) /\ Cardinality(Places(q, c)) \in Nat
  BY PlacesFinite
<1>5. /\ IsFiniteSet(rest)
      /\ Cardinality(rest) = IF 1 \in Places(q, c) THEN Cardinality(Places(q, c)) - 1
                             ELSE Cardinality(Places(q, c))
  BY <1>4, FS_RemoveElement
<1>6. ExistsBijection(rest, Places(new, c))
  <2> DEFINE f == [k \in rest |-> k - 1]
  <2>1. rest \subseteq Int /\ Places(new, c) \subseteq Int
    BY <1>1 DEF Places
  <2>2. f \in [rest -> Places(new, c)]
    BY <1>3
  <2>3. \A a, b \in rest : f[a] = f[b] => a = b
    BY <2>1
  <2>4. \A k \in Places(new, c) : \E a \in rest : f[a] = k
    <3> SUFFICES ASSUME NEW k \in Places(new, c) PROVE \E a \in rest : f[a] = k
      OBVIOUS
    <3>1. k + 1 \in rest /\ f[k + 1] = k
      BY <1>2, <2>1
    <3> QED
      BY <3>1
  <2>5. f \in Bijection(rest, Places(new, c))
    BY <2>2, <2>3, <2>4 DEF Bijection, Injection, Surjection, IsInjective
  <2> QED
    BY <2>5 DEF ExistsBijection
<1>7. Cardinality(Places(new, c)) = Cardinality(rest)
  BY <1>5, <1>6, FS_Bijection
<1>8. 1 \in Places(q, c) <=> Head(q).cmd = c
  BY <1>1 DEF Places
<1>9. \A k \in Places(new, c) : k + 1 \in Places(q, c) /\ k + 1 # 1
  BY <1>2
<1> QED
  BY <1>1, <1>5, <1>7, <1>8, <1>9 DEF n, new

LEMMA LivesFrame ==
    ASSUME [Next]_vars
    PROVE  \/ \E c \in Cmds : GetNextId(c) \/ CallerStep(c) \/ CallerFault(c)
           \/ \E w \in Workers : WorkerStep(w) \/ WorkerFault(w)
           \/ Stop \/ Restart
           \/ /\ UNCHANGED <<store, queue, execs, ran, workerVars, callerVars, restarts>>
              /\ phase' = "down" <=> phase = "down"
BY DEF Next, BatchStep, LifeStep, vars, storeVars, lifeVars, BatchStart, BatchPutMax,
       BatchPutMin, BatchObsolete, BatchRaise, BatchReset, BatchFails, FillContext, ShutdownPutMax,
       ShutdownPutMin, ShutdownFails

\* Once it is stored or refused, a command keeps its id.
HandedNext(c) == cpc'[c] \notin {"new", "put"}

LEMMA HandedFrame ==
    ASSUME TypeOK, [Next]_vars
    PROVE  \A c \in Cmds : Handed(c) => HandedNext(c) /\ cid'[c] = cid[c]
<1> USE DEF TypeOK, CallerType, Handed, HandedNext, callerVars
<1>1. ASSUME NEW d \in Cmds, GetNextId(d) \/ CallerStep(d) \/ CallerFault(d)
      PROVE  \A c \in Cmds : Handed(c) => HandedNext(c) /\ cid'[c] = cid[c]
  BY <1>1 DEF GetNextId, CallerStep, CallerFault, Put, PutFails, Enqueue, ExecuteInCaller,
              ExecuteInCallerThrows
<1>2. ASSUME NEW w \in Workers, WorkerStep(w) \/ WorkerFault(w)
      PROVE  UNCHANGED callerVars
  <2>1. CASE Take(w) \/ Execute(w) \/ ExecuteThrows(w)
    BY <2>1 DEF Take, Execute, ExecuteThrows
  <2>2. CASE DeleteGet(w) \/ DeleteRemove(w) \/ DeleteFails(w)
    BY <2>2 DEF DeleteGet, DeleteRemove, DeleteFails
  <2>3. CASE MinCheck(w) \/ MinWrite(w)
    BY <2>3 DEF MinCheck, MinWrite
  <2>4. CASE RestoreGet(w) \/ RestoreAdd(w) \/ RestoreFails(w)
    BY <2>4 DEF RestoreGet, RestoreAdd, RestoreFails
  <2> QED
    BY <1>2, <2>1, <2>2, <2>3, <2>4 DEF WorkerStep, WorkerFault
<1>3. CASE Stop
  BY <1>3 DEF Stop, InCall
<1>4. CASE Restart
  BY <1>4 DEF Restart
<1> QED
  BY <1>1, <1>2, <1>3, <1>4, LivesFrame

\* `ran` and `submitted` keep agreeing with the rest.
LEMMA HistoryStep ==
    ASSUME TypeOK, DownIsEmpty, HistoryAgrees, [Next]_vars
    PROVE  HistoryAgrees'
<1> USE DEF TypeOK, CallerType, HistoryType, LifeType, HistoryAgrees, InCall, lifeVars, callerVars
<1>1. ASSUME NEW c \in Cmds, GetNextId(c) \/ CallerStep(c) \/ CallerFault(c)
      PROVE  HistoryAgrees'
  <2>1. CASE GetNextId(c)
    BY <2>1 DEF GetNextId
  <2>2. CASE Put(c) \/ PutFails(c) \/ Enqueue(c) \/ ExecuteInCallerThrows(c)
    BY <2>2 DEF Put, PutFails, Enqueue, ExecuteInCallerThrows
  <2>3. CASE ExecuteInCaller(c)
    BY <2>3 DEF ExecuteInCaller
  <2> QED
    BY <1>1, <2>1, <2>2, <2>3 DEF CallerStep, CallerFault
<1>2. ASSUME NEW w \in Workers, WorkerStep(w) \/ WorkerFault(w)
      PROVE  HistoryAgrees'
  <2>1. CASE Execute(w)
    BY <2>1 DEF Execute, WorkerType, OnTask
  <2>2. CASE Take(w) \/ ExecuteThrows(w)
    BY <2>2 DEF Take, ExecuteThrows
  <2>3. CASE DeleteGet(w) \/ DeleteRemove(w) \/ DeleteFails(w)
    BY <2>3 DEF DeleteGet, DeleteRemove, DeleteFails
  <2>4. CASE MinCheck(w) \/ MinWrite(w)
    BY <2>4 DEF MinCheck, MinWrite
  <2>5. CASE RestoreGet(w) \/ RestoreAdd(w) \/ RestoreFails(w)
    BY <2>5 DEF RestoreGet, RestoreAdd, RestoreFails
  <2> QED
    BY <1>2, <2>1, <2>2, <2>3, <2>4, <2>5 DEF WorkerStep, WorkerFault
<1>3. CASE Stop
  BY <1>3 DEF Stop
<1>4. CASE Restart
  BY <1>4 DEF Restart, DownIsEmpty
<1> QED
  BY <1>1, <1>2, <1>3, <1>4, LivesFrame

\* Within a life no command comes to be single that was not.
LEMMA SingleKept ==
    ASSUME TypeOK, [Next]_vars, UNCHANGED restarts
    PROVE  \A c \in Cmds : Single(c)' => Single(c)
<1> USE DEF TypeOK, CallerType, LifeType, Single, InCall, callerVars
<1>1. ASSUME NEW d \in Cmds, GetNextId(d) \/ CallerStep(d) \/ CallerFault(d)
      PROVE  \A c \in Cmds : Single(c)' => Single(c)
  BY <1>1 DEF GetNextId, CallerStep, CallerFault, Put, PutFails, Enqueue, ExecuteInCaller,
              ExecuteInCallerThrows
<1>2. ASSUME NEW w \in Workers, WorkerStep(w) \/ WorkerFault(w)
      PROVE  UNCHANGED callerVars
  <2>1. CASE Take(w) \/ Execute(w) \/ ExecuteThrows(w)
    BY <2>1 DEF Take, Execute, ExecuteThrows
  <2>2. CASE DeleteGet(w) \/ DeleteRemove(w) \/ DeleteFails(w)
    BY <2>2 DEF DeleteGet, DeleteRemove, DeleteFails
  <2>3. CASE MinCheck(w) \/ MinWrite(w)
    BY <2>3 DEF MinCheck, MinWrite
  <2>4. CASE RestoreGet(w) \/ RestoreAdd(w) \/ RestoreFails(w)
    BY <2>4 DEF RestoreGet, RestoreAdd, RestoreFails
  <2> QED
    BY <1>2, <2>1, <2>2, <2>3, <2>4 DEF WorkerStep, WorkerFault
<1>3. CASE Stop
  BY <1>3 DEF Stop
<1>4. ~Restart
  BY DEF Restart
<1> QED
  BY <1>1, <1>2, <1>3, <1>4, LivesFrame

LEMMA InQueueIs == \A c : InQueue(c) = Places(queue, c) /\ InQueue(c)' = Places(queue', c)
BY DEF InQueue, Places

LEMMA TaskTypes ==
    ASSUME TypeOK
    PROVE  \A k \in DOMAIN queue : queue[k] \in Tasks /\ queue[k].cmd \in MaybeCmd
<1>1. \A k \in DOMAIN queue : queue[k] \in Tasks
  BY DEF TypeOK
<1> QED
  BY <1>1 DEF Tasks

\* The parts of LivesInv that say where a command may be, without counting.
Settled == RecordsAtHome /\ TracesHanded /\ RestoreInTurn /\ DownIsEmpty

\* Each part is kept by a step that keeps what it speaks about.
LEMMA SettledFrame ==
    ASSUME TypeOK, Settled, [Next]_vars
    PROVE  /\ UNCHANGED store => RecordsAtHome'
           /\ UNCHANGED <<queue, wpc, wcmd, execs>> => TracesHanded'
           /\ UNCHANGED <<queue, wpc, wcmd, wid, restarts>> => RestoreInTurn'
           /\ Running /\ UNCHANGED phase => DownIsEmpty'
<1> USE HandedFrame, CmdsAssumption
        DEF TypeOK, StoreType, MaybeCmd, WorkerType, Settled, TracesHanded
<1>1. UNCHANGED store => RecordsAtHome'
  BY DEF RecordsAtHome, Handed, HandedNext
<1>2. UNCHANGED <<queue, wpc, wcmd, execs>> => TracesHanded'
  <2> SUFFICES ASSUME UNCHANGED <<queue, wpc, wcmd, execs>> PROVE TracesHanded'
    OBVIOUS
  <2>1. \A k \in DOMAIN queue : queue[k].cmd \in MaybeCmd
    BY TaskTypes
  <2>2. \A k \in DOMAIN queue : queue[k].cmd # None => HandedNext(queue[k].cmd)
    BY <2>1
  <2>3. \A w \in Workers : OnTask(w) \/ wpc[w] = "restoreAdd" => HandedNext(wcmd[w])
    OBVIOUS
  <2>4. \A c \in Cmds : execs[c] > 0 => HandedNext(c)
    OBVIOUS
  <2> QED
    BY <2>2, <2>3, <2>4 DEF OnTask, Handed, HandedNext
<1>3. UNCHANGED <<queue, wpc, wcmd, wid, restarts>> => RestoreInTurn'
  <2> SUFFICES ASSUME UNCHANGED <<queue, wpc, wcmd, wid, restarts>> PROVE RestoreInTurn'
    OBVIOUS
  <2>1. InQueue(None)' = InQueue(None) /\ \A w \in Workers : Restoring(w)' = Restoring(w)
    BY DEF InQueue, Restoring
  <2>2. \A w \in Workers : wpc[w] = "restoreAdd" => cid'[wcmd[w]] = wid[w]
    BY DEF RestoreInTurn
  <2> QED
    BY <2>1, <2>2 DEF RestoreInTurn
<1>4. Running /\ UNCHANGED phase => DownIsEmpty'
  BY DEF Running, DownIsEmpty
<1> QED
  BY <1>1, <1>2, <1>3, <1>4

\* What a step adds to the queue, or gives to a worker, has been handed over.
LEMMA TracesKept ==
    ASSUME TypeOK, TypeOK', Settled, [Next]_vars,
           \A k \in DOMAIN queue' : \/ \E j \in DOMAIN queue : queue'[k].cmd = queue[j].cmd
                                    \/ queue'[k].cmd # None => HandedNext(queue'[k].cmd),
           \A w \in Workers : OnTask(w)' \/ wpc'[w] = "restoreAdd" =>
               \/ (OnTask(w) \/ wpc[w] = "restoreAdd") /\ wcmd'[w] = wcmd[w]
               \/ HandedNext(wcmd'[w]),
           \A c \in Cmds : execs'[c] > 0 => execs[c] > 0 \/ HandedNext(c)
    PROVE  TracesHanded'
<1>1. \A k \in DOMAIN queue : queue[k].cmd # None => HandedNext(queue[k].cmd)
  BY TaskTypes, HandedFrame DEF Settled, TracesHanded, MaybeCmd
<1>2. \A k \in DOMAIN queue' : queue'[k].cmd # None => HandedNext(queue'[k].cmd)
  BY <1>1
<1>3. \A w \in Workers : OnTask(w)' \/ wpc'[w] = "restoreAdd" => HandedNext(wcmd'[w])
  <2>1. \A w \in Workers : OnTask(w) \/ wpc[w] = "restoreAdd" => HandedNext(wcmd[w])
    BY HandedFrame DEF Settled, TracesHanded, TypeOK, WorkerType
  <2> QED
    BY <2>1
<1>4. \A c \in Cmds : execs'[c] > 0 => HandedNext(c)
  BY HandedFrame DEF Settled, TracesHanded
<1> QED
  BY <1>2, <1>3, <1>4 DEF TracesHanded, Handed, HandedNext, OnTask

LEMMA SettledStep ==
    ASSUME TypeOK, TypeOK', Settled, [Next]_vars
    PROVE  Settled'
<1> USE CmdsAssumption
    DEF TypeOK, storeVars, lifeVars, indexVars, workerVars, callerVars
<1>1. ASSUME NEW c \in Cmds, GetNextId(c) PROVE Settled'
  <2>1. /\ UNCHANGED store /\ UNCHANGED <<queue, wpc, wcmd, execs>>
        /\ UNCHANGED <<queue, wpc, wcmd, wid, restarts>> /\ Running /\ UNCHANGED phase
    BY <1>1 DEF GetNextId
  <2> QED
    BY <2>1, SettledFrame DEF Settled
<1>2. ASSUME NEW c \in Cmds, Put(c) PROVE Settled'
  <2>1. /\ UNCHANGED <<queue, wpc, wcmd, execs>> /\ UNCHANGED <<queue, wpc, wcmd, wid, restarts>>
        /\ Running /\ UNCHANGED phase
    BY <1>2 DEF Put
  <2>2. RecordsAtHome'
    BY <1>2 DEF Put, Settled, RecordsAtHome, StoreType, CallerType, MaybeCmd
  <2> QED
    BY <2>1, <2>2, SettledFrame DEF Settled
<1>3. ASSUME NEW c \in Cmds, PutFails(c) PROVE Settled'
  <2>1. /\ UNCHANGED <<queue, wpc, wcmd, execs>> /\ UNCHANGED <<queue, wpc, wcmd, wid, restarts>>
        /\ Running /\ UNCHANGED phase
    BY <1>3 DEF PutFails
  <2>2. RecordsAtHome'
    BY <1>3 DEF PutFails, Fault, Settled, RecordsAtHome, StoreType, CallerType, MaybeCmd
  <2> QED
    BY <2>1, <2>2, SettledFrame DEF Settled
<1>4. ASSUME NEW t \in Tasks, t.cmd # None, queue' = Append(queue, t),
             UNCHANGED restarts, Running
      PROVE  /\ \A w \in Workers : wpc'[w] = "restoreAdd" => cid'[wcmd'[w]] = wid'[w]
             /\ \A w \in Workers : Restoring(w)' <=> Restoring(w)
             => RestoreInTurn'
  <2>1. InQueue(None)' = InQueue(None)
    BY <1>4, PlacesAppend, InQueueIs
  <2> QED
    BY <1>4, <2>1 DEF Settled, RestoreInTurn
<1>5. ASSUME NEW t \in Tasks, queue' = Append(queue, t)
      PROVE  \A k \in DOMAIN queue' : (k \in DOMAIN queue /\ queue'[k] = queue[k])
                                      \/ queue'[k] = t
  BY <1>5
<1>6. ASSUME NEW c \in Cmds, Enqueue(c) PROVE Settled'
  <2> DEFINE t == [cmd |-> c, id |-> cid[c]]
  <2>1. /\ UNCHANGED store /\ Running /\ UNCHANGED phase /\ UNCHANGED restarts
        /\ queue' = Append(queue, t) /\ HandedNext(c) /\ UNCHANGED <<wpc, wcmd, wid, execs>>
    BY <1>6 DEF Enqueue, HandedNext, CallerType
  <2>2. t \in Tasks /\ t.cmd = c
    BY DEF Tasks, MaybeCmd, CallerType
  <2> HIDE DEF t
  <2>3. RestoreInTurn'
    <3>1. \A w \in Workers : wpc'[w] = "restoreAdd" => cid'[wcmd'[w]] = wid'[w]
      BY <1>6 DEF Enqueue, Settled, RestoreInTurn
    <3> QED
      BY <2>1, <2>2, <3>1, <1>4 DEF Restoring
  <2>4. TracesHanded'
    <3>1. \A w \in Workers : OnTask(w)' <=> OnTask(w)
      BY <2>1 DEF OnTask
    <3> QED
      BY <2>1, <2>2, <3>1, <1>5, TracesKept
  <2> QED
    BY <2>1, <2>3, <2>4, SettledFrame DEF Settled
<1>7. ASSUME NEW c \in Cmds, ExecuteInCaller(c) PROVE Settled'
  <2>1. /\ UNCHANGED store /\ UNCHANGED <<queue, wpc, wcmd, wid, restarts>>
        /\ Running /\ UNCHANGED phase /\ execs' = [execs EXCEPT ![c] = @ + 1] /\ HandedNext(c)
    BY <1>7 DEF ExecuteInCaller, HandedNext, CallerType
  <2>2. TracesHanded'
    BY <2>1, TracesKept DEF OnTask, HistoryType
  <2> QED
    BY <2>1, <2>2, SettledFrame DEF Settled
<1>8. ASSUME NEW c \in Cmds, ExecuteInCallerThrows(c) PROVE Settled'
  <2>1. /\ UNCHANGED store /\ UNCHANGED <<queue, wpc, wcmd, execs>>
        /\ UNCHANGED <<queue, wpc, wcmd, wid, restarts>> /\ Running /\ UNCHANGED phase
    BY <1>8 DEF ExecuteInCallerThrows
  <2> QED
    BY <2>1, SettledFrame DEF Settled
<1>9. ASSUME NEW w \in Workers, Take(w) PROVE Settled'
  <2>1. /\ UNCHANGED store /\ Running /\ UNCHANGED phase /\ UNCHANGED restarts
        /\ UNCHANGED <<cid, cpc, execs>> /\ queue # <<>> /\ queue' = Tail(queue)
    BY <1>9 DEF Take
  <2>2. /\ Head(queue) \in Tasks /\ Head(queue) = queue[1] /\ 1 \in DOMAIN queue
        /\ \A k \in InQueue(None)' : k + 1 \in InQueue(None) /\ k + 1 # 1
    BY <2>1, PlacesTail, InQueueIs
  <2>3. InQueue(None)' = {}
    BY <2>2 DEF Settled, RestoreInTurn
  <2>4. Head(queue).cmd = None => 1 \in InQueue(None)
    BY <2>2 DEF InQueue
  <2>5. \A v \in Workers : v # w => /\ wpc'[v] = wpc[v] /\ wcmd'[v] = wcmd[v]
                                    /\ wid'[v] = wid[v]
    BY <1>9 DEF Take, WorkerType
  <2>6. /\ wpc'[w] = IF Head(queue).cmd = None THEN "restoreGet" ELSE "exec"
        /\ wcmd'[w] = Head(queue).cmd
    BY <1>9 DEF Take, WorkerType
  <2>7. RestoreInTurn'
    BY <2>1, <2>3, <2>4, <2>5, <2>6 DEF Settled, RestoreInTurn, Restoring
  <2>8. TracesHanded'
    <3>1. \A k \in DOMAIN queue' : k + 1 \in DOMAIN queue /\ queue'[k] = queue[k + 1]
      BY <2>1
    <3>2. Head(queue).cmd # None => HandedNext(Head(queue).cmd)
      BY <2>1, <2>2 DEF Settled, TracesHanded, Handed, HandedNext
    <3>3. \A v \in Workers : OnTask(v)' \/ wpc'[v] = "restoreAdd" =>
             \/ (OnTask(v) \/ wpc[v] = "restoreAdd") /\ wcmd'[v] = wcmd[v]
             \/ HandedNext(wcmd'[v])
      BY <2>5, <2>6, <3>2 DEF OnTask
    <3> QED
      BY <2>1, <3>1, <3>3, TracesKept
  <2> QED
    BY <2>1, <2>7, <2>8, SettledFrame DEF Settled
<1>10. ASSUME NEW w \in Workers, Execute(w) PROVE Settled'
  <2>1. /\ UNCHANGED store /\ UNCHANGED <<queue, wcmd, wid, cid, cpc, restarts>>
        /\ Running /\ UNCHANGED phase /\ wpc' = [wpc EXCEPT ![w] = "delGet"]
        /\ wpc[w] = "exec" /\ execs' = [execs EXCEPT ![wcmd[w]] = @ + 1]
    BY <1>10 DEF Execute
  <2>2. RestoreInTurn'
    BY <2>1 DEF Settled, RestoreInTurn, Restoring, InQueue, WorkerType
  <2>3. HandedNext(wcmd[w])
    BY <2>1 DEF Settled, TracesHanded, Handed, HandedNext, OnTask
  <2>4. TracesHanded'
    BY <2>1, <2>3, TracesKept DEF OnTask, HistoryType, WorkerType
  <2> QED
    BY <2>1, <2>2, <2>4, SettledFrame DEF Settled
<1>11. ASSUME NEW w \in Workers, UNCHANGED <<queue, wcmd, cid, cpc, execs, restarts>>,
              Running, UNCHANGED phase, RecordsAtHome',
              \A v \in Workers : OnTask(v)' => OnTask(v),
              \A v \in Workers : Restoring(v)' => Restoring(v),
              \A v \in Workers : wpc'[v] = "restoreAdd" => Handed(wcmd[v]) /\ cid[wcmd[v]] = wid'[v]
       PROVE  Settled'
  <2>1. RestoreInTurn'
    BY <1>11 DEF Settled, RestoreInTurn, InQueue
  <2>2. TracesHanded'
    BY <1>11, TracesKept DEF Handed, HandedNext
  <2> QED
    BY <1>11, <2>1, <2>2, SettledFrame DEF Settled
<1>12. ASSUME NEW w \in Workers, \/ ExecuteThrows(w) \/ DeleteGet(w) \/ DeleteRemove(w)
                                 \/ DeleteFails(w) \/ MinCheck(w) \/ MinWrite(w)
                                 \/ RestoreFails(w)
       PROVE  Settled'
  <2>1. /\ UNCHANGED <<queue, wcmd, wid, cid, cpc, execs, restarts>> /\ Running /\ UNCHANGED phase
        /\ \A v \in Workers : v # w => wpc'[v] = wpc[v]
        /\ OnTask(w)' => OnTask(w)
        /\ Restoring(w)' => Restoring(w)
        /\ wpc'[w] # "restoreAdd"
    BY <1>12 DEF ExecuteThrows, DeleteGet, DeleteRemove, DeleteFails, MinCheck, MinWrite,
         RestoreFails, WorkerType, OnTask, Restoring
  <2>2. RecordsAtHome'
    <3>1. store' = store \/ store' = Removed(w)
      BY <1>12 DEF ExecuteThrows, DeleteGet, DeleteRemove, DeleteFails, MinCheck, MinWrite,
           RestoreFails
    <3> QED
      BY <2>1, <3>1 DEF Removed, Settled, RecordsAtHome, StoreType, WorkerType
  <2> QED
    BY <2>1, <2>2, <1>11 DEF OnTask, Restoring, Settled, RestoreInTurn, TracesHanded
<1>13. ASSUME NEW w \in Workers, RestoreGet(w) PROVE Settled'
  <2>1. /\ UNCHANGED <<queue, cid, cpc, execs, restarts, store>> /\ Running /\ UNCHANGED phase
        /\ wpc[w] = "restoreGet"
        /\ \A v \in Workers : v # w => /\ wpc'[v] = wpc[v] /\ wcmd'[v] = wcmd[v]
                                       /\ wid'[v] = wid[v]
    BY <1>13 DEF RestoreGet, WorkerType
  <2>2. \/ wpc'[w] \in {"idle", "restoreGet"}
        \/ /\ wpc'[w] = "restoreAdd" /\ wid[w] \in Ids /\ store[wid[w]] # None
           /\ wcmd'[w] = store[wid[w]] /\ wid'[w] = wid[w]
    BY <1>13 DEF RestoreGet, WorkerType, Readable, Record
  <2>3. wpc'[w] = "restoreAdd" => HandedNext(wcmd'[w]) /\ cid'[wcmd'[w]] = wid'[w]
    BY <2>1, <2>2 DEF Settled, RecordsAtHome, Handed, HandedNext
  <2>4. RestoreInTurn'
    BY <2>1, <2>2, <2>3 DEF Settled, RestoreInTurn, Restoring, InQueue
  <2>5. TracesHanded'
    BY <2>1, <2>2, <2>3, TracesKept DEF OnTask
  <2> QED
    BY <2>1, <2>4, <2>5, SettledFrame DEF Settled
<1>14. ASSUME NEW w \in Workers, RestoreAdd(w) PROVE Settled'
  <2> DEFINE t == [cmd |-> wcmd[w], id |-> wid[w]]
  <2>1. /\ UNCHANGED store /\ Running /\ UNCHANGED phase /\ UNCHANGED restarts
        /\ queue' = Append(queue, t) /\ UNCHANGED <<wcmd, cid, cpc, execs>>
        /\ wpc[w] = "restoreAdd" /\ wpc' = [wpc EXCEPT ![w] = "restoreGet"]
        /\ \A v \in Workers : v # w => wid'[v] = wid[v]
    BY <1>14 DEF RestoreAdd, WorkerType
  <2>2. t \in Tasks /\ t.cmd = wcmd[w] /\ wcmd[w] # None /\ HandedNext(wcmd[w])
    BY <2>1 DEF Tasks, MaybeCmd, WorkerType, Settled, TracesHanded, Handed, HandedNext
  <2> HIDE DEF t
  <2>3. \A v \in Workers : v # w => wpc'[v] = wpc[v]
    BY <2>1 DEF WorkerType
  <2>4. wpc'[w] = "restoreGet"
    BY <2>1 DEF WorkerType
  <2>5. RestoreInTurn'
    <3>1. \A v \in Workers : wpc'[v] = "restoreAdd" => cid'[wcmd'[v]] = wid'[v]
      BY <2>1, <2>3, <2>4 DEF Settled, RestoreInTurn
    <3> QED
      BY <2>1, <2>2, <2>3, <2>4, <3>1, <1>4 DEF Restoring
  <2>6. TracesHanded'
    <3>1. \A v \in Workers : OnTask(v)' \/ wpc'[v] = "restoreAdd" =>
             (OnTask(v) \/ wpc[v] = "restoreAdd") /\ wcmd'[v] = wcmd[v]
      BY <2>1, <2>3, <2>4 DEF OnTask
    <3> QED
      BY <2>1, <2>2, <3>1, <1>5, TracesKept
  <2> QED
    BY <2>1, <2>5, <2>6, SettledFrame DEF Settled
<1>15. CASE Stop
  <2>1. /\ UNCHANGED <<store, cid, execs, restarts>> /\ queue' = <<>>
        /\ \A w \in Workers : wpc'[w] = "idle"
        /\ \A c \in Cmds : cpc'[c] \notin InCall
    BY <1>15 DEF Stop, InCall, CallerType
  <2>2. TracesHanded'
    BY <2>1, TracesKept DEF OnTask
  <2>3. RestoreInTurn' /\ DownIsEmpty'
    BY <2>1 DEF RestoreInTurn, Restoring, InQueue, DownIsEmpty, InCall
  <2> QED
    BY <2>1, <2>2, <2>3, SettledFrame DEF Settled
<1>16. CASE Restart
  <2>1. /\ UNCHANGED <<store, cid, cpc, execs, wpc, wcmd, wid>>
        /\ restarts' = restarts + 1 /\ phase' # "down"
        /\ queue' = <<>> \/ queue' = <<RestoreTask>>
        /\ \A w \in Workers : wpc'[w] = "idle"
    BY <1>16 DEF Restart, Settled, DownIsEmpty
  <2>2. \A k \in DOMAIN queue' : k = 1 /\ queue'[k] = RestoreTask
    <3>1. CASE queue' = <<>>
      BY <3>1
    <3>2. CASE queue' = <<RestoreTask>>
      BY <3>2
    <3> QED
      BY <2>1, <3>1, <3>2
  <2>3. TracesHanded'
    BY <2>1, <2>2, TracesKept DEF OnTask, RestoreTask
  <2>4. RestoreInTurn' /\ DownIsEmpty'
    BY <2>1, <2>2 DEF RestoreInTurn, Restoring, InQueue, DownIsEmpty, LifeType
  <2> QED
    BY <2>1, <2>3, <2>4, SettledFrame DEF Settled
<1>17. CASE /\ UNCHANGED <<store, queue, execs, ran, workerVars, callerVars, restarts>>
            /\ phase' = "down" <=> phase = "down"
  <2>1. /\ UNCHANGED store /\ UNCHANGED <<queue, wpc, wcmd, execs>>
        /\ UNCHANGED <<queue, wpc, wcmd, wid, restarts>>
    BY <1>17
  <2>2. DownIsEmpty'
    BY <1>17 DEF Settled, DownIsEmpty
  <2> QED
    BY <2>1, <2>2, SettledFrame DEF Settled
<1> QED
  BY <1>1, <1>2, <1>3, <1>6, <1>7, <1>8, <1>9, <1>10, <1>12, <1>13, <1>14, <1>15, <1>16, <1>17,
     LivesFrame
  DEF CallerStep, CallerFault, WorkerStep, WorkerFault

Bounded(c) == /\ IsFiniteSet(AtWork(c))
              /\ Single(c) => One(c \in ran) + Chances(c) <= 1

LEMMA ChanceTypes ==
    ASSUME TypeOK, NEW c \in Cmds
    PROVE  /\ Cardinality(InQueue(c)) \in Nat
           /\ One(RestoreAhead(c)) \in {0, 1} /\ One(InCaller(c)) \in {0, 1}
           /\ One(c \in ran) \in {0, 1}
<1>1. Cardinality(InQueue(c)) \in Nat
  BY PlacesFinite, InQueueIs DEF TypeOK
<1> QED
  BY <1>1 DEF One

\* A step that gives a command no new chance leaves it bounded ...
LEMMA BoundedKept ==
    ASSUME TypeOK, TypeOK', NEW c \in Cmds, Bounded(c),
           Single(c)' => Single(c), c \in ran' => c \in ran,
           Cardinality(InQueue(c)') <= Cardinality(InQueue(c)),
           AtWork(c)' \subseteq AtWork(c),
           RestoreAhead(c)' => RestoreAhead(c),
           InCaller(c)' => InCaller(c)
    PROVE  Bounded(c)'
<1>1. IsFiniteSet(AtWork(c)) /\ Cardinality(AtWork(c)) \in Nat
  BY FS_CardinalityType DEF Bounded
<1>2. /\ IsFiniteSet(AtWork(c)') /\ Cardinality(AtWork(c)') \in Nat
      /\ Cardinality(AtWork(c)') <= Cardinality(AtWork(c))
  BY <1>1, FS_Subset, FS_CardinalityType
<1>3. Cardinality(InQueue(c)) \in Nat /\ Cardinality(InQueue(c)') \in Nat
  BY ChanceTypes, PlacesFinite, InQueueIs DEF TypeOK
<1>4. /\ One(RestoreAhead(c))' <= One(RestoreAhead(c)) /\ One(InCaller(c))' <= One(InCaller(c))
      /\ One(c \in ran)' <= One(c \in ran)
  BY DEF One
<1>5. /\ One(RestoreAhead(c)) \in {0, 1} /\ One(InCaller(c)) \in {0, 1}
      /\ One(RestoreAhead(c))' \in {0, 1} /\ One(InCaller(c))' \in {0, 1}
      /\ One(c \in ran) \in {0, 1} /\ One(c \in ran)' \in {0, 1}
  BY DEF One
<1> QED
  BY <1>1, <1>2, <1>3, <1>4, <1>5 DEF Bounded, Chances

\* ... and a command without a trace has at most its caller and a restore loop.
LEMMA NoTrace ==
    ASSUME Settled, HistoryAgrees, NEW c \in Cmds, ~Handed(c), TypeOK
    PROVE  /\ InQueue(c) = {} /\ AtWork(c) = {} /\ execs[c] = 0 /\ c \notin ran
           /\ RestoreAhead(c) => restarts > 0
<1>1. InQueue(c) = {} /\ AtWork(c) = {}
  BY CmdsAssumption DEF Settled, TracesHanded, InQueue, AtWork, OnTask
<1>2. execs[c] = 0
  BY DEF Settled, TracesHanded, TypeOK, HistoryType
<1>3. RestoreAhead(c) => restarts > 0
  BY DEF Settled, RestoreInTurn, RestoreAhead
<1>4. c \notin ran
  BY <1>2 DEF HistoryAgrees
<1> QED
  BY <1>1, <1>2, <1>3, <1>4

LEMMA BoundedStep ==
    ASSUME TypeOK, TypeOK', Settled, Settled', HistoryAgrees, [Next]_vars,
           NEW d \in Cmds, Bounded(d)
    PROVE  Bounded(d)'
<1> USE DEF storeVars, lifeVars, indexVars, workerVars, callerVars
<1> DEFINE q == Cardinality(InQueue(d))
           a == Cardinality(AtWork(d))
           r == One(d \in ran)
<1>0. /\ q \in Nat /\ q' \in Nat /\ a \in Nat
      /\ One(RestoreAhead(d)) \in {0, 1} /\ One(InCaller(d)) \in {0, 1}
      /\ One(RestoreAhead(d))' \in {0, 1} /\ One(InCaller(d))' \in {0, 1}
      /\ r \in {0, 1} /\ r' \in {0, 1}
      /\ IsFiniteSet(AtWork(d))
      /\ Single(d) => r + q + a + One(RestoreAhead(d)) + One(InCaller(d)) <= 1
  <2>1. IsFiniteSet(AtWork(d)) /\ a \in Nat
    BY FS_CardinalityType DEF Bounded
  <2>2. q' \in Nat
    BY PlacesFinite, InQueueIs DEF TypeOK
  <2>3. One(RestoreAhead(d))' \in {0, 1} /\ One(InCaller(d))' \in {0, 1} /\ r' \in {0, 1}
    BY DEF One
  <2>4. q \in Nat /\ r \in {0, 1}
        /\ One(RestoreAhead(d)) \in {0, 1} /\ One(InCaller(d)) \in {0, 1}
    BY ChanceTypes
  <2> QED
    BY <2>1, <2>2, <2>3, <2>4 DEF Bounded, Chances
<1>s. UNCHANGED restarts => (Single(d)' => Single(d))
  BY SingleKept
<1>1. ASSUME NEW c \in Cmds, GetNextId(c) PROVE Bounded(d)'
  <2>1. UNCHANGED <<queue, wpc, wcmd, wid, ran, restarts>>
    BY <1>1 DEF GetNextId
  <2>2. InQueue(d)' = InQueue(d) /\ AtWork(d)' = AtWork(d)
    BY <2>1 DEF InQueue, AtWork
  <2>3. CASE d = c
    <3>1. ~Handed(d) /\ ~Handed(d)' /\ InCaller(d)'
      BY <1>1, <2>3 DEF GetNextId, Handed, InCaller, TypeOK, CallerType
    <3>2. /\ InQueue(d)' = {} /\ AtWork(d)' = {} /\ d \notin ran'
          /\ RestoreAhead(d)' => restarts' > 0
      BY <3>1, <2>1, <2>2, NoTrace DEF RestoreAhead, Settled, RestoreInTurn
    <3>3. IsFiniteSet({}) /\ Cardinality({}) = 0
      BY FS_EmptySet
    <3>4. Single(d)' => restarts' = 0
      BY <1>1, <2>3 DEF Single, GetNextId
    <3>5. Single(d)' => ~RestoreAhead(d)'
      BY <3>2, <3>4
    <3>6. r' = 0 /\ (Single(d)' => One(RestoreAhead(d))' = 0)
      BY <3>2, <3>5 DEF One
    <3> QED
      BY <1>0, <3>2, <3>3, <3>6 DEF Bounded, Chances
  <2>4. CASE d # c
    <3>1. cid'[d] = cid[d] /\ cpc'[d] = cpc[d]
      BY <1>1, <2>4 DEF GetNextId, TypeOK, CallerType
    <3>2. RestoreAhead(d)' = RestoreAhead(d) /\ InCaller(d)' = InCaller(d)
      BY <2>1, <3>1 DEF RestoreAhead, Restoring, InQueue, InCaller
    <3> QED
      BY <1>0, <1>s, <2>1, <2>2, <3>2, BoundedKept
  <2> QED
    BY <2>3, <2>4
<1>2. ASSUME UNCHANGED <<queue, wpc, wcmd, wid, cid, ran, restarts>>,
             InCaller(d)' => InCaller(d)
      PROVE  Bounded(d)'
  <2>1. InQueue(d)' = InQueue(d) /\ AtWork(d)' = AtWork(d) /\ RestoreAhead(d)' = RestoreAhead(d)
    BY <1>2 DEF InQueue, AtWork, RestoreAhead, Restoring
  <2> QED
    BY <1>0, <1>s, <1>2, <2>1, BoundedKept
<1>3. ASSUME NEW c \in Cmds, Put(c) \/ PutFails(c) \/ ExecuteInCallerThrows(c)
      PROVE  Bounded(d)'
  <2>1. UNCHANGED <<queue, wpc, wcmd, wid, cid, ran, restarts>>
    BY <1>3 DEF Put, PutFails, ExecuteInCallerThrows
  <2>2. InCaller(d)' => InCaller(d)
    BY <1>3 DEF Put, PutFails, ExecuteInCallerThrows, InCaller, TypeOK, CallerType
  <2> QED
    BY <2>1, <2>2, <1>2
<1>4. ASSUME NEW c \in Cmds, Enqueue(c) PROVE Bounded(d)'
  <2> DEFINE t == [cmd |-> c, id |-> cid[c]]
  <2>1. /\ UNCHANGED <<wpc, wcmd, wid, cid, ran, restarts>> /\ queue' = Append(queue, t)
        /\ InCaller(c) /\ ~InCaller(c)' /\ (d # c => InCaller(d)' = InCaller(d))
    BY <1>4 DEF Enqueue, InCaller, TypeOK, CallerType
  <2>2. t \in Tasks /\ t.cmd = c /\ c # None
    BY CmdsAssumption DEF Tasks, MaybeCmd, TypeOK, CallerType
  <2> HIDE DEF t
  <2>3. InQueue(None)' = InQueue(None) /\ q' = IF d = c THEN q + 1 ELSE q
    BY <2>1, <2>2, PlacesAppend, InQueueIs DEF TypeOK
  <2>4. AtWork(d)' = AtWork(d) /\ RestoreAhead(d)' = RestoreAhead(d)
    BY <2>1, <2>3 DEF AtWork, RestoreAhead, Restoring
  <2>5. CASE d = c
    BY <1>0, <1>s, <2>1, <2>3, <2>4, <2>5 DEF Bounded, Chances, One
  <2>6. CASE d # c
    BY <1>0, <1>s, <2>1, <2>3, <2>4, <2>6, BoundedKept
  <2> QED
    BY <2>5, <2>6
<1>5. ASSUME NEW c \in Cmds, ExecuteInCaller(c) PROVE Bounded(d)'
  <2>1. /\ UNCHANGED <<queue, wpc, wcmd, wid, cid, restarts>>
        /\ ran' = ran \cup {c}
        /\ InCaller(c) /\ ~InCaller(c)' /\ (d # c => InCaller(d)' = InCaller(d))
    BY <1>5 DEF ExecuteInCaller, InCaller, TypeOK, CallerType, HistoryType
  <2>2. InQueue(d)' = InQueue(d) /\ AtWork(d)' = AtWork(d) /\ RestoreAhead(d)' = RestoreAhead(d)
    BY <2>1 DEF InQueue, AtWork, RestoreAhead, Restoring
  <2> QED
    BY <1>0, <1>s, <2>1, <2>2 DEF Bounded, Chances, One
<1>6. ASSUME NEW w \in Workers, Take(w) PROVE Bounded(d)'
  <2>1. /\ UNCHANGED <<cid, cpc, ran, restarts>> /\ wpc[w] = "idle"
        /\ queue # <<>> /\ queue' = Tail(queue)
        /\ \A v \in Workers : v # w => /\ wpc'[v] = wpc[v] /\ wcmd'[v] = wcmd[v]
                                       /\ wid'[v] = wid[v]
        /\ wpc'[w] = IF Head(queue).cmd = None THEN "restoreGet" ELSE "exec"
        /\ wcmd'[w] = Head(queue).cmd
    BY <1>6 DEF Take, TypeOK, WorkerType
  <2>2. /\ Head(queue) = queue[1] /\ 1 \in DOMAIN queue
        /\ \A k \in InQueue(None)' : k + 1 \in InQueue(None)
        /\ q' = IF Head(queue).cmd = d THEN q - 1 ELSE q
    BY <2>1, PlacesTail, InQueueIs DEF TypeOK
  <2>3. InCaller(d)' = InCaller(d)
    BY <2>1 DEF InCaller
  <2>4. RestoreAhead(d)' => RestoreAhead(d)
    <3>1. CASE Head(queue).cmd = None
      BY <2>2, <3>1 DEF RestoreAhead, InQueue
    <3>2. CASE Head(queue).cmd # None
      BY <2>1, <2>2, <3>2 DEF RestoreAhead, Restoring
    <3> QED
      BY <3>1, <3>2
  <2>5. CASE Head(queue).cmd = d
    <3>1. AtWork(d)' = AtWork(d) \cup {w} /\ w \notin AtWork(d)
      BY <2>1, <2>5, CmdsAssumption DEF AtWork
    <3>2. IsFiniteSet(AtWork(d)') /\ Cardinality(AtWork(d)') = a + 1
      BY <1>0, <3>1, FS_AddElement
    <3>3. One(RestoreAhead(d))' <= One(RestoreAhead(d)) /\ One(InCaller(d))' = One(InCaller(d))
      BY <2>3, <2>4 DEF One
    <3>4. q' = q - 1 /\ r' = r
      BY <2>1, <2>2, <2>5
    <3>5. Single(d)' => r' + (q' + Cardinality(AtWork(d)') + One(RestoreAhead(d))'
                              + One(InCaller(d))') <= 1
      BY <1>0, <1>s, <2>1, <3>2, <3>3, <3>4
    <3> QED
      BY <3>2, <3>5 DEF Bounded, Chances
  <2>6. CASE Head(queue).cmd # d
    <3>1. AtWork(d)' \subseteq AtWork(d)
      BY <2>1, <2>6 DEF AtWork
    <3> QED
      BY <1>0, <1>s, <2>1, <2>2, <2>3, <2>4, <2>6, <3>1, BoundedKept
  <2> QED
    BY <2>5, <2>6
<1>7. ASSUME NEW w \in Workers, Execute(w) PROVE Bounded(d)'
  <2>1. /\ UNCHANGED <<queue, wcmd, wid, cid, cpc, restarts>>
        /\ wpc[w] = "exec" /\ wpc'[w] = "delGet" /\ wcmd[w] \in Cmds
        /\ \A v \in Workers : v # w => wpc'[v] = wpc[v]
        /\ ran' = ran \cup {wcmd[w]}
    BY <1>7 DEF Execute, TypeOK, WorkerType, HistoryType, OnTask
  <2>2. InQueue(d)' = InQueue(d) /\ RestoreAhead(d)' = RestoreAhead(d) /\ InCaller(d)' = InCaller(d)
    <3>1. \A v \in Workers : Restoring(v)' = Restoring(v)
      BY <2>1 DEF Restoring
    <3> QED
      BY <2>1, <3>1 DEF InQueue, RestoreAhead, InCaller
  <2>3. CASE d = wcmd[w]
    <3>1. AtWork(d)' = AtWork(d) \ {w} /\ w \in AtWork(d)
      BY <2>1, <2>3 DEF AtWork
    <3>2. IsFiniteSet(AtWork(d)') /\ Cardinality(AtWork(d)') = a - 1
      BY <1>0, <3>1, FS_RemoveElement
    <3> QED
      <4>1. r' <= r + 1
        BY <1>0
      <4>2. q' = q /\ One(RestoreAhead(d))' = One(RestoreAhead(d))
            /\ One(InCaller(d))' = One(InCaller(d))
        BY <2>2
      <4> QED
        BY <1>0, <1>s, <2>1, <3>2, <4>1, <4>2 DEF Bounded, Chances
  <2>4. CASE d # wcmd[w]
    <3>1. AtWork(d)' \subseteq AtWork(d)
      BY <2>1 DEF AtWork
    <3> QED
      BY <1>0, <1>s, <2>1, <2>2, <2>4, <3>1, BoundedKept
  <2> QED
    BY <2>3, <2>4
<1>8. ASSUME NEW w \in Workers,
             \/ ExecuteThrows(w) \/ DeleteGet(w) \/ DeleteRemove(w) \/ DeleteFails(w)
             \/ MinCheck(w) \/ MinWrite(w) \/ RestoreFails(w) \/ RestoreGet(w)
      PROVE  Bounded(d)'
  <2>1. /\ UNCHANGED <<queue, cid, cpc, ran, restarts>>
        /\ \A v \in Workers : v # w => /\ wpc'[v] = wpc[v] /\ wcmd'[v] = wcmd[v]
                                       /\ wid'[v] = wid[v]
        /\ wpc'[w] # "exec" /\ (Restoring(w)' => Restoring(w) /\ wid'[w] >= wid[w])
        /\ wid[w] \in Nat /\ wid'[w] \in Nat /\ cid[d] \in Nat
    <3>1. CASE ExecuteThrows(w) \/ RestoreFails(w)
      BY <3>1 DEF ExecuteThrows, RestoreFails, TypeOK, WorkerType, CallerType, Restoring, Ids
    <3>2. CASE DeleteGet(w) \/ DeleteRemove(w) \/ DeleteFails(w) \/ MinCheck(w) \/ MinWrite(w)
      BY <3>2 DEF DeleteGet, DeleteRemove, DeleteFails, MinCheck, MinWrite, TypeOK,
           WorkerType, CallerType, Restoring, Ids
    <3>3. CASE RestoreGet(w)
      BY <3>3 DEF RestoreGet, TypeOK, WorkerType, CallerType, Restoring, Ids
    <3> QED
      BY <1>8, <3>1, <3>2, <3>3
  <2>2. InQueue(d)' = InQueue(d) /\ AtWork(d)' \subseteq AtWork(d) /\ InCaller(d)' = InCaller(d)
    BY <2>1 DEF InQueue, AtWork, InCaller
  <2>3. RestoreAhead(d)' => RestoreAhead(d)
    <3>1. \A v \in Workers : v # w => Restoring(v)' = Restoring(v)
      BY <2>1 DEF Restoring
    <3>2. InQueue(None)' = InQueue(None)
      BY <2>1 DEF InQueue
    <3>3. wid'[w] <= cid[d] /\ wid'[w] >= wid[w] => wid[w] <= cid[d]
      BY <2>1
    <3> QED
      BY <2>1, <3>1, <3>2, <3>3 DEF RestoreAhead
  <2> QED
    BY <1>0, <1>s, <2>1, <2>2, <2>3, BoundedKept
<1>9. ASSUME NEW w \in Workers, RestoreAdd(w) PROVE Bounded(d)'
  <2> DEFINE t == [cmd |-> wcmd[w], id |-> wid[w]]
  <2>1. /\ UNCHANGED <<wcmd, cid, cpc, ran, restarts>> /\ queue' = Append(queue, t)
        /\ wpc[w] = "restoreAdd" /\ wpc'[w] = "restoreGet" /\ wid'[w] = wid[w] + 1
        /\ \A v \in Workers : v # w => wpc'[v] = wpc[v] /\ wid'[v] = wid[v]
        /\ wcmd[w] \in Cmds /\ wid[w] \in Nat /\ cid[d] \in Nat
    BY <1>9 DEF RestoreAdd, TypeOK, WorkerType, CallerType, Ids
  <2>2. t \in Tasks /\ t.cmd = wcmd[w] /\ wcmd[w] # None
    BY <2>1, CmdsAssumption DEF Tasks, MaybeCmd, TypeOK, WorkerType
  <2> HIDE DEF t
  <2>3. InQueue(None)' = InQueue(None) /\ q' = IF d = wcmd[w] THEN q + 1 ELSE q
    BY <2>1, <2>2, PlacesAppend, InQueueIs DEF TypeOK
  <2>4. AtWork(d)' = AtWork(d) /\ InCaller(d)' = InCaller(d)
    BY <2>1 DEF AtWork, InCaller
  <2>5. /\ InQueue(None) = {} /\ Restoring(w) /\ Restoring(w)'
        /\ \A v \in Workers : Restoring(v) => v = w
        /\ cid[wcmd[w]] = wid[w]
    BY <2>1 DEF Settled, RestoreInTurn, Restoring
  <2>6. \A v \in Workers : Restoring(v)' => v = w
    BY <2>1, <2>5 DEF Restoring
  <2>7. CASE d = wcmd[w]
    <3>1. RestoreAhead(d)
      BY <2>1, <2>5, <2>7 DEF RestoreAhead
    <3>2. ~RestoreAhead(d)'
      <4>1. ~(wid'[w] <= cid'[d])
        BY <2>1, <2>5, <2>7
      <4> QED
        BY <2>3, <2>5, <2>6, <4>1 DEF RestoreAhead
    <3> QED
      BY <1>0, <1>s, <2>1, <2>3, <2>4, <2>7, <3>1, <3>2 DEF Bounded, Chances, One
  <2>8. CASE d # wcmd[w]
    <3>1. RestoreAhead(d)' => RestoreAhead(d)
      <4>1. wid'[w] <= cid'[d] => wid[w] <= cid[d]
        BY <2>1
      <4> QED
        BY <2>3, <2>5, <2>6, <4>1 DEF RestoreAhead
    <3> QED
      BY <1>0, <1>s, <2>1, <2>3, <2>4, <2>8, <3>1, BoundedKept
  <2> QED
    BY <2>7, <2>8
<1>10. CASE Stop
  <2>1. /\ UNCHANGED <<ran, restarts>> /\ queue' = <<>>
        /\ \A w \in Workers : wpc'[w] = "idle"
        /\ InCaller(d)' => InCaller(d)
    BY <1>10 DEF Stop, InCaller, InCall, TypeOK, CallerType
  <2>2. InQueue(d)' = {} /\ AtWork(d)' = {} /\ ~RestoreAhead(d)'
    BY <2>1 DEF InQueue, AtWork, RestoreAhead, Restoring
  <2>3. q' = 0
    BY <2>2, FS_EmptySet
  <2>4. q' <= q /\ AtWork(d)' \subseteq AtWork(d)
    BY <1>0, <2>2, <2>3
  <2>5. RestoreAhead(d)' => RestoreAhead(d)
    BY <2>2
  <2> QED
    BY <1>s, <2>1, <2>4, <2>5, BoundedKept
<1>11. CASE Restart
  <2>1. /\ UNCHANGED cpc /\ restarts' = restarts + 1 /\ ran' = {}
        /\ queue' = <<>> \/ queue' = <<RestoreTask>>
        /\ \A w \in Workers : wpc'[w] = "idle"
        /\ cpc[d] \notin InCall
    BY <1>11 DEF Restart, Settled, DownIsEmpty
  <2>2. InQueue(d)' = {} /\ AtWork(d)' = {}
    <3>1. CASE queue' = <<>>
      BY <2>1, <3>1 DEF InQueue, AtWork
    <3>2. CASE queue' = <<RestoreTask>>
      <4>1. \A k \in DOMAIN queue' : queue'[k].cmd = None
        BY <3>2 DEF RestoreTask
      <4> QED
        BY <2>1, <4>1, CmdsAssumption DEF InQueue, AtWork
    <3> QED
      BY <2>1, <3>1, <3>2
  <2>3. q' = 0 /\ Cardinality(AtWork(d)') = 0 /\ IsFiniteSet(AtWork(d)') /\ r' = 0
    BY <2>1, <2>2, FS_EmptySet DEF One
  <2>4. Single(d)' => One(InCaller(d))' = 0
    <3>1. restarts' # 0
      BY <2>1 DEF TypeOK, LifeType
    <3>2. Single(d)' => cpc[d] # "new"
      BY <2>1, <3>1 DEF Single
    <3> QED
      BY <2>1, <3>2 DEF InCaller, InCall, One
  <2> QED
    BY <1>0, <2>3, <2>4 DEF Bounded, Chances
<1>12. CASE UNCHANGED <<store, queue, execs, ran, workerVars, callerVars, restarts>>
  BY <1>12, <1>2 DEF InCaller
<1> QED
  BY <1>1, <1>3, <1>4, <1>5, <1>6, <1>7, <1>8, <1>9, <1>10, <1>11, <1>12, LivesFrame
  DEF CallerStep, CallerFault, WorkerStep, WorkerFault

LEMMA LivesInvariant == Spec => []LivesInv
<1>1. Init => LivesInv
  <2> SUFFICES ASSUME Init PROVE LivesInv
    OBVIOUS
  <2>1. /\ \A w \in Workers : ~OnTask(w) /\ ~Restoring(w) /\ wpc[w] = "idle"
        /\ \A c \in Cmds : cpc[c] = "new" /\ execs[c] = 0
        /\ queue = <<>> /\ phase = "up" /\ restarts = 0 /\ ran = {} /\ submitted = {}
        /\ \A i \in Ids : store[i] = None
    BY DEF Init, OnTask, Restoring
  <2>2. \A c : InQueue(c) = {}
    BY <2>1 DEF InQueue
  <2>3. RecordsAtHome /\ TracesHanded /\ RestoreInTurn /\ DownIsEmpty
    BY <2>1, <2>2 DEF RecordsAtHome, TracesHanded, RestoreInTurn, Restoring, DownIsEmpty
  <2>a. HistoryAgrees
    BY <2>1 DEF HistoryAgrees, InCall
  <2>4. ASSUME NEW c \in Cmds PROVE Bounded(c)
    <3>1. AtWork(c) = {} /\ ~RestoreAhead(c)
      BY <2>1, <2>2 DEF AtWork, RestoreAhead
    <3>2. Cardinality({}) = 0 /\ IsFiniteSet({})
      BY FS_EmptySet
    <3>3. One(RestoreAhead(c)) = 0 /\ One(InCaller(c)) \in {0, 1} /\ One(c \in ran) = 0
      BY <2>1, <3>1 DEF One
    <3>4. Chances(c) = One(InCaller(c))
      BY <2>2, <3>1, <3>2, <3>3 DEF Chances
    <3>5. IsFiniteSet(AtWork(c))
      BY <3>1, <3>2
    <3> QED
      BY <3>3, <3>4, <3>5 DEF Bounded
  <2> QED
    BY <2>3, <2>a, <2>4 DEF LivesInv, ChancesBounded, Bounded
<1>2. TypeOK /\ TypeOK' /\ LivesInv /\ [Next]_vars => LivesInv'
  <2> SUFFICES ASSUME TypeOK, TypeOK', LivesInv, [Next]_vars PROVE LivesInv'
    OBVIOUS
  <2>1. Settled /\ HistoryAgrees
    BY DEF LivesInv, Settled
  <2>2. Settled' /\ HistoryAgrees'
    BY <2>1, SettledStep, HistoryStep DEF Settled
  <2>3. \A c \in Cmds : Bounded(c)'
    <3> SUFFICES ASSUME NEW c \in Cmds PROVE Bounded(c)'
      OBVIOUS
    <3>1. Bounded(c)
      BY DEF LivesInv, ChancesBounded, Bounded
    <3> QED
      BY <2>1, <2>2, <3>1, BoundedStep
  <2> QED
    BY <2>2, <2>3 DEF LivesInv, ChancesBounded, Bounded, Settled
<1> QED
  BY <1>1, <1>2, TypeCorrect, PTL DEF Spec

\* However often the process crashes, is shut down and comes back, and whatever fails: in its
\* first life no command is executed twice, and in a later one only a command that was
\* submitted in that life, which the restore loop may queue as well (addCommand, initialize,
\* finishCommand).
THEOREM OncePerLife == Spec => TwiceOnlyIfRestored
<1> DEFINE Once == \A c \in Cmds : c \in ran /\ execs'[c] > execs[c] =>
                                     restarts > 0 /\ c \in submitted
<1>1. TypeOK /\ LivesInv /\ [Next]_vars => [Once]_vars
  <2> SUFFICES ASSUME TypeOK, LivesInv, [Next]_vars,
                      NEW c \in Cmds, c \in ran, execs'[c] > execs[c]
               PROVE  restarts > 0 /\ c \in submitted
    OBVIOUS
  <2>1. execs[c] \in Nat /\ restarts \in Nat
    BY DEF TypeOK, HistoryType, LifeType
  <2>2. AtWork(c) # {} \/ InCaller(c)
    <3>1. ASSUME NEW d \in Cmds, GetNextId(d) \/ CallerStep(d) \/ CallerFault(d)
          PROVE  InCaller(c)
      <4>1. (~GetNextId(d) /\ ~Put(d) /\ ~Enqueue(d) /\ ~CallerFault(d)) \/ UNCHANGED execs
        BY DEF GetNextId, Put, Enqueue, CallerFault, PutFails, ExecuteInCallerThrows
      <4>2. ExecuteInCaller(d)
        BY <2>1, <3>1, <4>1 DEF CallerStep
      <4>3. d = c
        BY <2>1, <4>2 DEF ExecuteInCaller, TypeOK, HistoryType
      <4> QED
        BY <4>2, <4>3 DEF ExecuteInCaller, InCaller
    <3>2. ASSUME NEW w \in Workers, WorkerStep(w) \/ WorkerFault(w)
          PROVE  AtWork(c) # {}
      <4>1. Execute(w)
        <5>1. CASE Take(w) \/ ExecuteThrows(w)
          BY <2>1, <5>1 DEF Take, ExecuteThrows
        <5>2. CASE DeleteGet(w) \/ DeleteRemove(w) \/ DeleteFails(w)
          BY <2>1, <5>2 DEF DeleteGet, DeleteRemove, DeleteFails
        <5>3. CASE MinCheck(w) \/ MinWrite(w)
          BY <2>1, <5>3 DEF MinCheck, MinWrite
        <5>4. CASE RestoreGet(w) \/ RestoreAdd(w) \/ RestoreFails(w)
          BY <2>1, <5>4 DEF RestoreGet, RestoreAdd, RestoreFails
        <5> QED
          BY <3>2, <5>1, <5>2, <5>3, <5>4 DEF WorkerStep, WorkerFault
      <4>2. wcmd[w] = c /\ wpc[w] = "exec"
        BY <2>1, <4>1 DEF Execute, TypeOK, HistoryType, WorkerType, OnTask
      <4> QED
        BY <4>2 DEF AtWork
    <3>3. ~Stop /\ ~Restart
      BY <2>1 DEF Stop, Restart
    <3> QED
      BY <2>1, <3>1, <3>2, <3>3, LivesFrame
  <2>3. ~Single(c)
    <3>1. IsFiniteSet(AtWork(c)) /\ (Single(c) => One(c \in ran) + Chances(c) <= 1)
      BY DEF LivesInv, ChancesBounded
    <3>2. Cardinality(AtWork(c)) \in Nat /\ (AtWork(c) # {} => Cardinality(AtWork(c)) > 0)
      BY <3>1, FS_CardinalityType, FS_EmptySet
    <3>3. One(c \in ran) = 1 /\ (InCaller(c) => One(InCaller(c)) = 1)
      BY DEF One
    <3> QED
      BY <2>2, <3>1, <3>2, <3>3, ChanceTypes DEF Chances
  <2>4. cpc[c] # "new"
    <3>1. execs[c] > 0 /\ Handed(c)
      BY DEF LivesInv, HistoryAgrees, TracesHanded
    <3> QED
      BY <3>1 DEF Handed
  <2> QED
    BY <2>1, <2>3, <2>4 DEF Single
<1> QED
  BY <1>1, LivesInvariant, TypeCorrect, PTL DEF Spec, TwiceOnlyIfRestored

-----------------------------------------------------------------------------
(* Refinement: up to its first restart the queue takes only the steps of         *)
(* ReliableQueue.  A put stores or refuses, an execution is the first one of a   *)
(* stored command, a delete forgets what it has executed; the rest is invisible. *)

LEMMA KindsInvariant == Spec => []KindsApart
<1>1. Init => KindsApart
  BY DEF Init, KindsApart
<1>2. TypeOK /\ KindsApart /\ [Next]_vars => KindsApart'
  <2> SUFFICES ASSUME TypeOK, KindsApart, [Next]_vars PROVE KindsApart'
    OBVIOUS
  <2>1. ASSUME NEW c \in Cmds, GetNextId(c) \/ CallerStep(c) \/ CallerFault(c)
        PROVE  KindsApart'
    BY <2>1 DEF KindsApart, TypeOK, CallerType, CallerStep, CallerFault, GetNextId, Put,
                PutFails, Enqueue, ExecuteInCaller, ExecuteInCallerThrows
  <2>2. CASE UNCHANGED cpc
    BY <2>2 DEF KindsApart
  <2>3. ASSUME NEW w \in Workers, WorkerStep(w) \/ WorkerFault(w)
        PROVE  UNCHANGED cpc
    <3>1. CASE Take(w) \/ Execute(w) \/ ExecuteThrows(w)
      BY <3>1 DEF Take, Execute, ExecuteThrows, callerVars
    <3>2. CASE DeleteGet(w) \/ DeleteRemove(w) \/ DeleteFails(w)
      BY <3>2 DEF DeleteGet, DeleteRemove, DeleteFails, callerVars
    <3>3. CASE MinCheck(w) \/ MinWrite(w)
      BY <3>3 DEF MinCheck, MinWrite, callerVars
    <3>4. CASE RestoreGet(w) \/ RestoreAdd(w) \/ RestoreFails(w)
      BY <3>4 DEF RestoreGet, RestoreAdd, RestoreFails, callerVars
    <3> QED
      BY <2>3, <3>1, <3>2, <3>3, <3>4 DEF WorkerStep, WorkerFault
  <2>4. CASE Stop
    BY <2>4 DEF Stop, KindsApart, InCall, TypeOK, CallerType
  <2>5. CASE Restart
    BY <2>5, <2>2 DEF Restart, callerVars
  <2> QED
    BY <2>1, <2>2, <2>3, <2>4, <2>5, LivesFrame DEF callerVars
<1> QED
  BY <1>1, <1>2, TypeCorrect, PTL DEF Spec

\* A command's status depends on where its caller is, on its executions, and on whether
\* it has a record.
HasRecord(c) == \E i \in Ids : store[i] = c

LEMMA StatusIs ==
    ASSUME NEW c \in Cmds
    PROVE  /\ cpc[c] = "rejected" => Status(c) = "refused"
           /\ cpc[c] \in {"new", "put"} => Status(c) = "new"
           /\ cpc[c] \notin {"rejected", "new", "put"} =>
                /\ HasRecord(c) /\ execs[c] = 0 => Status(c) = "stored"
                /\ HasRecord(c) /\ execs[c] # 0 => Status(c) = "done"
                /\ ~HasRecord(c) /\ execs[c] > 0 => Status(c) = "forgotten"
                /\ ~HasRecord(c) /\ ~(execs[c] > 0) /\ cpc[c] = "interrupted" => Status(c) = "new"
BY DEF Status, HasRecord

LEMMA StatusKept ==
    ASSUME NEW c \in Cmds, execs'[c] = execs[c], HasRecord(c)' <=> HasRecord(c),
           \/ cpc'[c] = cpc[c]
           \/ /\ cpc[c] \notin {"rejected", "new", "put", "interrupted"}
              /\ cpc'[c] \notin {"rejected", "new", "put", "interrupted"}
    PROVE  Status(c)' = Status(c)
BY DEF Status, HasRecord

LEMMA Stutters ==
    ASSUME \A c \in Cmds : Status(c)' = Status(c), UNCHANGED <<execs, ran, restarts>>
    PROVE  UNCHANGED RQ!rqVars
BY DEF RQ!rqVars

LEMMA OneStatus ==
    ASSUME NEW c \in Cmds, \A d \in Cmds : d # c => Status(d)' = Status(d),
           UNCHANGED restarts
    PROVE  /\ Status(c) = "new" /\ Status(c)' = "stored" /\ UNCHANGED <<execs, ran>>
              => RQ!Store(c)
           /\ Status(c) = "new" /\ Status(c)' = "refused" /\ UNCHANGED <<execs, ran>>
              => RQ!Refuse(c)
           /\ /\ Status(c) = "stored" /\ Status(c)' = "done" /\ c \notin ran
              /\ execs' = [execs EXCEPT ![c] = @ + 1] /\ ran' = ran \cup {c}
              => RQ!Run(c)
           /\ /\ c \in AsyncCmds /\ Status(c) = "done" /\ Status(c)' = "forgotten"
              /\ UNCHANGED <<execs, ran>>
              => RQ!Forget(c)
<1> DEFINE S == [d \in Cmds |-> Status(d)]
<1>1. S' = [S EXCEPT ![c] = Status(c)']
  OBVIOUS
<1>2. S[c] = Status(c)
  OBVIOUS
<1> QED
  BY <1>1, <1>2 DEF RQ!Store, RQ!Refuse, RQ!Run, RQ!Forget, RQ!Becomes

\* In the first life a put meets no record of another command.
LEMMA PutElsewhere ==
    ASSUME TypeOK, FirstLifeOK, NEW c \in Cmds, cpc[c] = "put",
           store' = [store EXCEPT ![cid[c]] = c]
    PROVE  /\ HasRecord(c)'
           /\ \A d \in Cmds : d # c => (HasRecord(d)' <=> HasRecord(d))
<1> USE DEF TypeOK, StoreType, CallerType
<1>1. store[cid[c]] \notin Cmds
  BY CmdsAssumption DEF FirstLifeOK, RecordsAtHome, OneOwner
<1>2. /\ cid[c] \in Ids /\ store'[cid[c]] = c
      /\ \A i \in Ids : i # cid[c] => store'[i] = store[i]
  OBVIOUS
<1>3. HasRecord(c)'
  BY <1>2 DEF HasRecord
<1>4. ASSUME NEW d \in Cmds, d # c PROVE HasRecord(d)' <=> HasRecord(d)
  BY <1>1, <1>2, <1>4 DEF HasRecord
<1> QED
  BY <1>3, <1>4

\* An execution about to happen in the first life is the first one.
LEMMA FirstExecution ==
    ASSUME TypeOK, LivesInv, restarts = 0, NEW c \in Cmds,
           AtWork(c) # {} \/ InCaller(c)
    PROVE  c \notin ran /\ execs[c] = 0
<1>1. IsFiniteSet(AtWork(c)) /\ One(c \in ran) + Chances(c) <= 1
  BY DEF LivesInv, ChancesBounded, Single
<1>2. Cardinality(AtWork(c)) \in Nat /\ (AtWork(c) # {} => Cardinality(AtWork(c)) > 0)
  BY <1>1, FS_CardinalityType, FS_EmptySet
<1>3. (InCaller(c) => One(InCaller(c)) = 1) /\ (c \in ran => One(c \in ran) = 1)
  BY DEF One
<1>4. c \notin ran
  BY <1>1, <1>2, <1>3, ChanceTypes DEF Chances
<1> QED
  BY <1>4 DEF LivesInv, HistoryAgrees, TypeOK, HistoryType

\* A delete in the first life removes nothing, or the record of the command it was for.
LEMMA DeleteOwn ==
    ASSUME TypeOK, FirstLifeOK, NEW w \in Workers, OnTask(w), wpc[w] # "exec",
           NEW c \in Cmds, c = wcmd[w], store' = store \/ store' = Removed(w)
    PROVE  \/ store' = store
           \/ /\ cpc[c] = "accepted" /\ execs[c] > 0 /\ HasRecord(c) /\ ~HasRecord(c)'
              /\ \A d \in Cmds : d # c => (HasRecord(d)' <=> HasRecord(d))
<1> USE CmdsAssumption DEF TypeOK, StoreType, WorkerType, MaybeCmd
<1> DEFINE home == wid[w]
<1>1. /\ cpc[c] = "accepted" /\ cid[c] = home /\ home \in Ids
      /\ execs[c] > 0
  BY DEF FirstLifeOK, WorkersAtHome, IsTaskOf
<1>2. store[home] = None \/ store[home] = c
  <2> SUFFICES ASSUME store[home] # None PROVE store[home] = c
    OBVIOUS
  <2>1. store[home] \in Cmds /\ cpc[store[home]] # "new" /\ cid[store[home]] = home
    BY <1>1 DEF FirstLifeOK, RecordsAtHome
  <2> QED
    BY <1>1, <2>1 DEF FirstLifeOK, OneOwner
<1>3. ASSUME store' # store
      PROVE  store[home] = c /\ store' = [store EXCEPT ![home] = None]
  <2>1. store' = [store EXCEPT ![home] = None]
    BY <1>3 DEF Removed
  <2>2. store[home] # None
    BY <1>1, <1>3, <2>1
  <2> QED
    BY <1>2, <2>1, <2>2
<1>4. ASSUME store' # store
      PROVE  /\ HasRecord(c) /\ ~HasRecord(c)'
             /\ \A d \in Cmds : d # c => (HasRecord(d)' <=> HasRecord(d))
  <2>1. /\ store'[home] = None /\ store[home] = c
        /\ \A i \in Ids : i # home => store'[i] = store[i]
    BY <1>1, <1>3, <1>4
  <2>2. \A i \in Ids : store[i] = c => i = home
    BY <1>1 DEF FirstLifeOK, RecordsAtHome
  <2> QED
    BY <1>1, <2>1, <2>2 DEF HasRecord
<1> QED
  BY <1>1, <1>4

LEMMA FirstLifeSimulation ==
    ASSUME TypeOK, FirstLifeInv, LivesInv, KindsApart, [Next]_vars, restarts = 0
    PROVE  RQ!Next \/ UNCHANGED RQ!rqVars
<1>0. FirstLifeOK
  BY DEF FirstLifeInv
<1> USE DEF storeVars, lifeVars, indexVars, workerVars, callerVars
<1>1. ASSUME UNCHANGED <<store, cpc, execs, ran, restarts>> PROVE UNCHANGED RQ!rqVars
  <2>1. \A c \in Cmds : Status(c)' = Status(c)
    BY <1>1, StatusKept DEF HasRecord
  <2> QED
    BY <1>1, <2>1, Stutters
<1>2. ASSUME NEW c \in Cmds, GetNextId(c) PROVE UNCHANGED RQ!rqVars
  <2>1. /\ UNCHANGED <<store, execs, ran, restarts>> /\ cpc[c] = "new" /\ cpc'[c] = "put"
        /\ \A d \in Cmds : d # c => cpc'[d] = cpc[d]
    BY <1>2 DEF GetNextId, TypeOK, CallerType
  <2>2. Status(c) = "new" /\ Status(c)' = "new"
    BY <2>1 DEF Status
  <2>3. \A d \in Cmds : d # c => Status(d)' = Status(d)
    BY <2>1, StatusKept DEF HasRecord
  <2> QED
    BY <2>1, <2>2, <2>3, Stutters
<1>3. ASSUME NEW c \in Cmds, Put(c) PROVE RQ!Store(c)
  <2>1. /\ UNCHANGED <<execs, ran, restarts>> /\ cpc[c] = "put" /\ cpc'[c] \in {"enqueue", "execute"}
        /\ store' = [store EXCEPT ![cid[c]] = c]
        /\ \A d \in Cmds : d # c => cpc'[d] = cpc[d]
    BY <1>3 DEF Put, TypeOK, CallerType
  <2>2. HasRecord(c)' /\ \A d \in Cmds : d # c => (HasRecord(d)' <=> HasRecord(d))
    BY <1>0, <2>1, PutElsewhere
  <2>3. execs[c] = 0
    BY <2>1, FirstExecution DEF InCaller
  <2>4. Status(c) = "new" /\ Status(c)' = "stored"
    BY <2>1, <2>2, <2>3 DEF Status, HasRecord
  <2>5. \A d \in Cmds : d # c => Status(d)' = Status(d)
    BY <2>1, <2>2, StatusKept
  <2> QED
    BY <2>1, <2>4, <2>5, OneStatus
<1>4. ASSUME NEW c \in Cmds, PutFails(c) PROVE RQ!Refuse(c)
  <2>1. /\ UNCHANGED <<execs, ran, restarts>> /\ cpc[c] = "put" /\ cpc'[c] = "rejected"
        /\ store' = store \/ store' = [store EXCEPT ![cid[c]] = c]
        /\ \A d \in Cmds : d # c => cpc'[d] = cpc[d]
    BY <1>4 DEF PutFails, TypeOK, CallerType
  <2>2. \A d \in Cmds : d # c => (HasRecord(d)' <=> HasRecord(d))
    <3>1. CASE store' = store
      BY <3>1 DEF HasRecord
    <3>2. CASE store' = [store EXCEPT ![cid[c]] = c]
      BY <1>0, <2>1, <3>2, PutElsewhere
    <3> QED
      BY <2>1, <3>1, <3>2
  <2>3. Status(c) = "new" /\ Status(c)' = "refused"
    BY <2>1 DEF Status
  <2>4. \A d \in Cmds : d # c => Status(d)' = Status(d)
    BY <2>1, <2>2, StatusKept
  <2> QED
    BY <2>1, <2>3, <2>4, OneStatus
<1>5. ASSUME NEW c \in Cmds, Enqueue(c) \/ ExecuteInCallerThrows(c)
      PROVE  UNCHANGED RQ!rqVars
  <2>1. /\ UNCHANGED <<store, execs, ran, restarts>>
        /\ cpc[c] \in {"enqueue", "execute"} /\ cpc'[c] \in {"accepted", "thrown"}
        /\ \A d \in Cmds : d # c => cpc'[d] = cpc[d]
    BY <1>5 DEF Enqueue, ExecuteInCallerThrows, TypeOK, CallerType
  <2>2. \A d \in Cmds : Status(d)' = Status(d)
    BY <2>1, StatusKept DEF HasRecord
  <2> QED
    BY <2>1, <2>2, Stutters
\* An execution of a stored command, by its caller or by a worker.
<1>6. ASSUME NEW c \in Cmds, Accepted(c), AtWork(c) # {} \/ InCaller(c),
             UNCHANGED <<store, restarts>>, execs' = [execs EXCEPT ![c] = @ + 1],
             ran' = ran \cup {c},
             cpc'[c] \notin {"rejected", "new", "put"},
             \A d \in Cmds : d # c => cpc'[d] = cpc[d]
      PROVE  RQ!Run(c)
  <2>1. execs[c] = 0 /\ execs'[c] = 1 /\ \A d \in Cmds : d # c => execs'[d] = execs[d]
    BY <1>6, FirstExecution DEF TypeOK, HistoryType
  <2>2. store[cid[c]] = c /\ cid[c] \in Ids
    BY <1>0, <1>6, <2>1 DEF FirstLifeOK, StoredReliably, TypeOK, CallerType
  <2>3. HasRecord(c) /\ HasRecord(c)' /\ \A d \in Cmds : HasRecord(d)' <=> HasRecord(d)
    BY <1>6, <2>2 DEF HasRecord
  <2>4. Status(c) = "stored" /\ Status(c)' = "done"
    BY <1>6, <2>1, <2>3 DEF Status, HasRecord, Accepted
  <2>5. \A d \in Cmds : d # c => Status(d)' = Status(d)
    BY <1>6, <2>1, <2>3, StatusKept
  <2>6. c \notin ran
    BY <1>6, FirstExecution
  <2> QED
    BY <1>6, <2>4, <2>5, <2>6, OneStatus
<1>7. ASSUME NEW c \in Cmds, ExecuteInCaller(c) PROVE RQ!Run(c)
  BY <1>6, <1>7 DEF ExecuteInCaller, Accepted, InCaller, TypeOK, CallerType
<1>8. ASSUME NEW w \in Workers, Execute(w) PROVE \E c \in Cmds : RQ!Run(c)
  <2>1. /\ wpc[w] = "exec" /\ UNCHANGED <<store, restarts, cpc>>
        /\ execs' = [execs EXCEPT ![wcmd[w]] = @ + 1] /\ ran' = ran \cup {wcmd[w]}
    BY <1>8 DEF Execute
  <2>2. wcmd[w] \in Cmds /\ cpc[wcmd[w]] = "accepted"
    BY <1>0, <2>1 DEF FirstLifeOK, WorkersAtHome, IsTaskOf, OnTask
  <2>3. AtWork(wcmd[w]) # {}
    BY <2>1 DEF AtWork
  <2> QED
    BY <1>6, <2>1, <2>2, <2>3 DEF Accepted
<1>9. ASSUME NEW w \in Workers, DeleteRemove(w) \/ DeleteFails(w)
      PROVE  RQ!Next \/ UNCHANGED RQ!rqVars
  <2>1. /\ UNCHANGED <<cpc, execs, ran, restarts>> /\ OnTask(w) /\ wpc[w] # "exec"
        /\ store' = store \/ store' = Removed(w)
    BY <1>9 DEF DeleteRemove, DeleteFails, OnTask
  <2>2. CASE store' = store
    BY <2>1, <2>2, <1>1
  <2>3. CASE store' # store
    <3>0. PICK c \in Cmds : c = wcmd[w]
      BY <1>0, <2>1 DEF FirstLifeOK, WorkersAtHome, IsTaskOf
    <3>1. /\ cpc[c] = "accepted" /\ execs[c] > 0
          /\ HasRecord(c) /\ ~HasRecord(c)'
          /\ \A d \in Cmds : d # c => (HasRecord(d)' <=> HasRecord(d))
      BY <1>0, <2>1, <2>3, <3>0, DeleteOwn
    <3>2. Status(c) = "done" /\ Status(c)' = "forgotten"
      BY <2>1, <3>1 DEF Status, HasRecord
    <3>3. \A d \in Cmds : d # c => Status(d)' = Status(d)
      BY <2>1, <3>1, StatusKept
    <3>4. c \in AsyncCmds
      BY <3>1 DEF KindsApart
    <3>5. RQ!Forget(c)
      BY <2>1, <3>1, <3>2, <3>3, <3>4, OneStatus
    <3> QED
      BY <3>5 DEF RQ!Next
  <2> QED
    BY <2>2, <2>3
<1>10. ASSUME NEW w \in Workers, \/ Take(w) \/ ExecuteThrows(w) \/ DeleteGet(w)
                                 \/ MinCheck(w) \/ MinWrite(w)
       PROVE  UNCHANGED RQ!rqVars
  BY <1>1, <1>10 DEF Take, ExecuteThrows, DeleteGet, MinCheck, MinWrite
<1>11. ASSUME NEW w \in Workers, RestoreGet(w) \/ RestoreAdd(w) \/ RestoreFails(w)
       PROVE  FALSE
  BY <1>0, <1>11 DEF FirstLifeOK, WorkersAtHome, RestoreGet, RestoreAdd, RestoreFails
<1>12. CASE Stop
  <2>1. UNCHANGED <<store, execs, ran, restarts>>
    BY <1>12 DEF Stop
  <2>2. ASSUME NEW c \in Cmds PROVE Status(c)' = Status(c)
    <3>1. cpc'[c] = IF cpc[c] \in InCall THEN "interrupted" ELSE cpc[c]
      BY <1>12 DEF Stop
    <3>2. HasRecord(c)' <=> HasRecord(c)
      BY <2>1 DEF HasRecord
    <3>3. CASE cpc[c] \notin InCall
      BY <2>1, <3>1, <3>2, <3>3, StatusKept
    <3>4. CASE cpc[c] = "put"
      <4>1. ~HasRecord(c) /\ execs[c] = 0
        BY <3>4, CmdsAssumption, FirstExecution
           DEF LivesInv, RecordsAtHome, HasRecord, InCaller
      <4> QED
        BY <2>1, <3>1, <3>2, <3>4, <4>1 DEF Status, HasRecord, InCall
    <3>5. CASE cpc[c] \in {"enqueue", "execute"}
      <4>1. execs[c] = 0
        BY <3>5, FirstExecution DEF InCaller
      <4>2. HasRecord(c)
        BY <1>0, <3>5, <4>1
           DEF FirstLifeOK, StoredReliably, Accepted, HasRecord, TypeOK, CallerType
      <4> QED
        BY <2>1, <3>1, <3>2, <3>5, <4>1, <4>2 DEF Status, HasRecord, InCall
    <3> QED
      BY <3>3, <3>4, <3>5 DEF InCall
  <2> QED
    BY <2>1, <2>2, Stutters
<1>13. CASE Restart
  <2>1. UNCHANGED <<store, cpc, execs>> /\ restarts' = restarts + 1 /\ ran' = {}
    BY <1>13 DEF Restart
  <2>2. \A c \in Cmds : Status(c)' = Status(c)
    BY <2>1, StatusKept DEF HasRecord
  <2>3. RQ!ComeBack
    BY <2>1, <2>2 DEF RQ!ComeBack
  <2> QED
    BY <2>3 DEF RQ!Next
<1>14. CASE UNCHANGED <<store, queue, execs, ran, workerVars, callerVars, restarts>>
  BY <1>14, <1>1
<1>15. ASSUME NEW c \in Cmds, GetNextId(c) \/ CallerStep(c) \/ CallerFault(c)
       PROVE  RQ!Next \/ UNCHANGED RQ!rqVars
  BY <1>15, <1>2, <1>3, <1>4, <1>5, <1>7 DEF CallerStep, CallerFault, RQ!Next
<1>16. ASSUME NEW w \in Workers, WorkerStep(w) \/ WorkerFault(w)
       PROVE  RQ!Next \/ UNCHANGED RQ!rqVars
  BY <1>16, <1>8, <1>9, <1>10, <1>11 DEF WorkerStep, WorkerFault, RQ!Next
<1> QED
  BY <1>12, <1>13, <1>14, <1>15, <1>16, LivesFrame

\* Up to its first restart the queue takes the steps of a ReliableQueue.
RQFirstLife == RQ!Init /\ [][restarts = 0 => RQ!Next]_(RQ!rqVars)

\* Refinement: with any number of commands, callers and workers, and with any failures, the
\* queue does until its first restart only what a ReliableQueue does: a command whose put
\* failed is refused and stays so, one that was stored is run once and by its caller or a
\* worker, and forgotten only after that (storeRemotely, addCommand, finishCommand).
THEOREM FirstLifeImplements == Spec => RQFirstLife
<1>1. Init => RQ!Init
  <2> SUFFICES ASSUME Init PROVE RQ!Init
    OBVIOUS
  <2>1. \A c \in Cmds : Status(c) = "new"
    BY DEF Init, Status
  <2> QED
    BY <2>1 DEF Init, RQ!Init
<1>2. TypeOK /\ FirstLifeInv /\ LivesInv /\ KindsApart /\ [Next]_vars
        => [restarts = 0 => RQ!Next]_(RQ!rqVars)
  BY FirstLifeSimulation
<1> QED
  BY <1>1, <1>2, TypeCorrect, FirstLifeInvariant, LivesInvariant, KindsInvariant, PTL
     DEF Spec, RQFirstLife

LEMMA LifeFrame ==
    ASSUME [Next]_vars
    PROVE  \/ ShutdownPutMax \/ ShutdownPutMin \/ ShutdownFails \/ Stop \/ Restart
           \/ UNCHANGED <<phase, restarts>>
<1> USE DEF lifeVars
<1>1. ASSUME NEW c \in Cmds, GetNextId(c) \/ CallerStep(c) \/ CallerFault(c)
      PROVE  UNCHANGED <<phase, restarts>>
  BY <1>1 DEF GetNextId, CallerStep, CallerFault, Put, PutFails, Enqueue, ExecuteInCaller,
              ExecuteInCallerThrows
<1>2. ASSUME NEW w \in Workers, WorkerStep(w) \/ WorkerFault(w)
      PROVE  UNCHANGED <<phase, restarts>>
  <2>1. CASE Take(w) \/ Execute(w) \/ ExecuteThrows(w)
    BY <2>1 DEF Take, Execute, ExecuteThrows
  <2>2. CASE DeleteGet(w) \/ DeleteRemove(w) \/ DeleteFails(w)
    BY <2>2 DEF DeleteGet, DeleteRemove, DeleteFails
  <2>3. CASE MinCheck(w) \/ MinWrite(w)
    BY <2>3 DEF MinCheck, MinWrite
  <2>4. CASE RestoreGet(w) \/ RestoreAdd(w) \/ RestoreFails(w)
    BY <2>4 DEF RestoreGet, RestoreAdd, RestoreFails
  <2> QED
    BY <1>2, <2>1, <2>2, <2>3, <2>4 DEF WorkerStep, WorkerFault
<1>3. CASE BatchStep \/ BatchFails
  BY <1>3 DEF BatchStep, BatchStart, BatchPutMax, BatchPutMin, BatchObsolete,
              BatchRaise, BatchReset, BatchFails
<1>4. CASE FillContext \/ UNCHANGED vars
  BY <1>4 DEF FillContext, vars
<1> QED
  BY <1>1, <1>2, <1>3, <1>4 DEF Next, LifeStep

\* A queue that is never stopped is a ReliableQueue for good.
THEOREM NeverStoppedImplements ==
    ASSUME MaxRestarts = 0
    PROVE  Spec => RQSafe
<1>1. Init => restarts = 0 /\ phase = "up"
  BY DEF Init
<1>2. restarts = 0 /\ phase = "up" /\ [Next]_vars => (restarts = 0 /\ phase = "up")'
  <2> SUFFICES ASSUME restarts = 0, phase = "up", [Next]_vars
               PROVE  restarts' = 0 /\ phase' = "up"
    OBVIOUS
  <2>1. ~(restarts < MaxRestarts)
    OBVIOUS
  <2>2. ~Stop /\ ~Restart /\ ~ShutdownPutMax /\ ~ShutdownPutMin /\ ~ShutdownFails
    BY <2>1 DEF Stop, Restart, ShutdownPutMax, ShutdownPutMin, ShutdownFails
  <2> QED
    BY <2>2, LifeFrame
<1>3. restarts = 0 /\ [restarts = 0 => RQ!Next]_(RQ!rqVars) => [RQ!Next]_(RQ!rqVars)
  OBVIOUS
<1> QED
  BY <1>1, <1>2, <1>3, FirstLifeImplements, PTL DEF Spec, RQFirstLife, RQSafe, RQ!Spec

-----------------------------------------------------------------------------
(* Over restarts.  In a later life that only restores, a command waits, runs,  *)
(* was run, or is still ahead of the restore loop, one of these at most; its   *)
(* record is there as long as it waits or runs, so a delete finds no other     *)
(* command's record, and a command that has not been run is still stored.      *)

\* After a restart, no caller makes a step.
LEMMA LaterFrame ==
    ASSUME TypeOK, restarts > 0, RestoringOK, [Next]_vars, NothingNewAfterRestart
    PROVE  /\ \A c \in Cmds : cpc'[c] = cpc[c]
           /\ UNCHANGED cid
           /\ \/ \E w \in Workers : WorkerStep(w) \/ WorkerFault(w)
              \/ Stop \/ Restart
              \/ UNCHANGED <<store, queue, execs, workerVars, callerVars, ran, restarts>>
<1> USE DEF callerVars
<1>1. ASSUME NEW c \in Cmds, GetNextId(c) \/ CallerStep(c) \/ CallerFault(c)
      PROVE  FALSE
  <2>1. cpc[c] \in {"new", "put", "enqueue", "execute"}
    BY <1>1 DEF GetNextId, CallerStep, CallerFault, Put, PutFails, Enqueue, ExecuteInCaller,
                ExecuteInCallerThrows
  <2>2. cpc[c] = "new"
    BY <2>1 DEF RestoringOK, InCall
  <2>3. GetNextId(c)
    BY <1>1, <2>2 DEF CallerStep, CallerFault, Put, PutFails, Enqueue, ExecuteInCaller,
                      ExecuteInCallerThrows
  <2>4. cpc'[c] = "put"
    BY <2>3 DEF GetNextId, TypeOK, CallerType
  <2> QED
    BY <2>2, <2>4 DEF NothingNewAfterRestart
<1>2. ASSUME NEW w \in Workers, WorkerStep(w) \/ WorkerFault(w)
      PROVE  UNCHANGED callerVars
  <2>1. CASE Take(w) \/ Execute(w) \/ ExecuteThrows(w)
    BY <2>1 DEF Take, Execute, ExecuteThrows
  <2>2. CASE DeleteGet(w) \/ DeleteRemove(w) \/ DeleteFails(w)
    BY <2>2 DEF DeleteGet, DeleteRemove, DeleteFails
  <2>3. CASE MinCheck(w) \/ MinWrite(w)
    BY <2>3 DEF MinCheck, MinWrite
  <2>4. CASE RestoreGet(w) \/ RestoreAdd(w) \/ RestoreFails(w)
    BY <2>4 DEF RestoreGet, RestoreAdd, RestoreFails
  <2> QED
    BY <1>2, <2>1, <2>2, <2>3, <2>4 DEF WorkerStep, WorkerFault
<1>3. CASE Stop
  BY <1>3 DEF Stop, RestoringOK
<1>4. CASE Restart
  BY <1>4 DEF Restart
<1>5. CASE BatchStep \/ BatchFails
  BY <1>5 DEF BatchStep, BatchStart, BatchPutMax, BatchPutMin, BatchObsolete,
              BatchRaise, BatchReset, BatchFails,
              storeVars, lifeVars
<1>6. CASE FillContext \/ ShutdownPutMax \/ ShutdownPutMin \/ ShutdownFails \/ UNCHANGED vars
  BY <1>6 DEF FillContext, ShutdownPutMax, ShutdownPutMin, ShutdownFails, vars, storeVars, lifeVars
<1> QED
  BY <1>1, <1>2, <1>3, <1>4, <1>5, <1>6 DEF Next, LifeStep

\* The store of a later life changes only under the delete of a command that has run.
StoreKeptFor(c) == store[cid[c]] = c => store'[cid[c]] = c

\* A command that comes to no new place stays in one place, and its record at hand.
LEMMA PlaceKept ==
    ASSUME NEW c, OnePlace(c), RecordAtHand(c), UNCHANGED cid,
           c \in ran' => c \in ran,
           \A k \in DOMAIN queue' : queue'[k].cmd = c =>
               \E j \in DOMAIN queue : queue[j].cmd = c,
           \A j, k \in DOMAIN queue' : queue'[j].cmd = c /\ queue'[k].cmd = c => j = k,
           \A w \in Workers : wpc'[w] = "exec" /\ wcmd'[w] = c => wpc[w] = "exec" /\ wcmd[w] = c,
           RestoreAhead(c)' => RestoreAhead(c),
           BeingRestored(c)' => BeingRestored(c),
           Waits(c) \/ Runs(c) \/ BeingRestored(c) => StoreKeptFor(c)
    PROVE  OnePlace(c)' /\ RecordAtHand(c)'
<1>1. (Waits(c)' => Waits(c)) /\ (Runs(c)' => Runs(c))
  BY DEF Waits, Runs
<1>2. \A v, w \in AtWork(c)' : v = w
  BY DEF AtWork, OnePlace
<1>3. OnePlace(c)'
  BY <1>1, <1>2 DEF OnePlace
<1>4. RecordAtHand(c)'
  BY <1>1 DEF RecordAtHand, StoreKeptFor
<1> QED
  BY <1>3, <1>4

\* What a later life keeps, from the facts that a worker's step can disturb.
LEMMA LaterParts ==
    ASSUME RestoringOK,
           \A c \in Cmds : cpc'[c] = cpc[c], UNCHANGED cid,
           \A c \in Cmds : execs[c] > 0 => execs'[c] > 0,
           TypeOK, TypeOK',
           \A c \in Cmds : execs'[c] = 0 => StoreKeptFor(c),
           TasksAtHome', RanInThisLife',
           \A c \in Cmds : OnePlace(c)' /\ RecordAtHand(c)'
    PROVE  RestoringInv'
<1>1. OneOwner'
  BY DEF RestoringOK, OneOwner
<1>2. StoredReliably'
  <2> SUFFICES ASSUME NEW c \in Cmds, Accepted(c)', execs'[c] = 0
               PROVE  store'[cid'[c]] = c
    BY DEF StoredReliably
  <2>1. Accepted(c)
    BY DEF Accepted
  <2>2. execs[c] = 0
    <3>1. execs[c] \in Nat
      BY DEF TypeOK, HistoryType
    <3>2. ~(execs[c] > 0)
      OBVIOUS
    <3> QED
      BY <3>1, <3>2
  <2>3. store[cid[c]] = c
    BY <2>1, <2>2 DEF RestoringOK, StoredReliably
  <2> QED
    BY <2>3 DEF StoreKeptFor
<1>3. \A c \in Cmds : cpc'[c] \notin InCall
  BY DEF RestoringOK
<1> QED
  BY <1>1, <1>2, <1>3 DEF RestoringInv, RestoringOK

\* In a later life a delete under a worker's id finds only the record of the command the
\* worker has run.
LEMMA LaterDelete ==
    ASSUME TypeOK, Settled, RestoringOK, NEW w \in Workers, OnTask(w), wpc[w] # "exec",
           NEW c \in Cmds, c # wcmd[w], store' = store \/ store' = Removed(w)
    PROVE  StoreKeptFor(c)
<1> USE CmdsAssumption DEF TypeOK, StoreType, WorkerType, CallerType, MaybeCmd
<1>1. wcmd[w] \in Cmds /\ wid[w] \in Ids /\ cid[wcmd[w]] = wid[w] /\ cpc[wcmd[w]] # "new"
  BY DEF RestoringOK, TasksAtHome, Settled, TracesHanded, Handed
<1>2. ASSUME store[cid[c]] = c PROVE cid[c] # wid[w]
  <2>1. cid[c] \in Ids /\ cpc[c] # "new"
    BY <1>2 DEF Settled, RecordsAtHome
  <2> QED
    BY <1>1, <2>1 DEF RestoringOK, OneOwner
<1> QED
  BY <1>1, <1>2 DEF StoreKeptFor, Removed

\* A command that was run is not being restored.
LEMMA RanIsPast ==
    ASSUME TypeOK, Settled, NEW c \in Cmds, OnePlace(c), c \in ran
    PROVE  ~Waits(c) /\ ~Runs(c) /\ ~BeingRestored(c)
<1>1. ~BeingRestored(c)
  <2> SUFFICES ASSUME NEW w \in Workers, wpc[w] = "restoreAdd", wcmd[w] = c
               PROVE  FALSE
    BY DEF BeingRestored
  <2>1. Restoring(w) /\ wid[w] <= cid[c]
    BY DEF Settled, RestoreInTurn, Restoring, TypeOK, CallerType, WorkerType, Ids
  <2> QED
    BY <2>1 DEF OnePlace, RestoreAhead
<1> QED
  BY <1>1 DEF OnePlace

\* A restart finds what is stored, and nothing in memory.
LEMMA RestartRestores ==
    ASSUME TypeOK, Settled, Restart, OneOwner, StoredReliably
    PROVE  RestoringInv'
<1> USE CmdsAssumption DEF storeVars, workerVars, callerVars
<1>1. /\ UNCHANGED <<store, cid, cpc, execs, wpc, wcmd>> /\ ran' = {}
      /\ queue' = <<>> \/ queue' = <<RestoreTask>>
      /\ \A w \in Workers : wpc'[w] = "idle"
      /\ \A c \in Cmds : cpc[c] \notin InCall
  BY DEF Restart, Settled, DownIsEmpty
<1>2. \A k \in DOMAIN queue' : k = 1 /\ queue'[k].cmd = None
  <2>1. CASE queue' = <<>>
    BY <2>1
  <2>2. CASE queue' = <<RestoreTask>>
    BY <2>2 DEF RestoreTask
  <2> QED
    BY <1>1, <2>1, <2>2
<1>3. \A c \in Cmds : OnePlace(c)' /\ RecordAtHand(c)'
  BY <1>1, <1>2 DEF OnePlace, RecordAtHand, Waits, Runs, BeingRestored, AtWork
<1>4. TasksAtHome' /\ RanInThisLife'
  BY <1>1, <1>2 DEF TasksAtHome, RanInThisLife, OnTask
<1>5. OneOwner' /\ StoredReliably'
  BY <1>1 DEF OneOwner, StoredReliably, Accepted
<1> QED
  BY <1>1, <1>3, <1>4, <1>5 DEF RestoringInv, RestoringOK

LEMMA LaterStep ==
    ASSUME TypeOK, TypeOK', Settled, HistoryAgrees, RestoringInv, restarts > 0,
           [Next]_vars, NothingNewAfterRestart
    PROVE  RestoringInv'
<1> USE CmdsAssumption
    DEF storeVars, lifeVars, indexVars, workerVars, callerVars
<1>0. RestoringOK /\ \A c \in Cmds : OnePlace(c) /\ RecordAtHand(c)
  BY DEF RestoringInv, RestoringOK
<1>a. (\A c \in Cmds : cpc'[c] = cpc[c]) /\ UNCHANGED cid
  BY <1>0, LaterFrame
\* Steps of one worker that leave the queue and the commands' executions alone.
<1>1. ASSUME NEW w \in Workers,
             \/ ExecuteThrows(w) \/ DeleteGet(w) \/ DeleteRemove(w) \/ DeleteFails(w)
             \/ MinCheck(w) \/ MinWrite(w) \/ RestoreFails(w)
      PROVE  RestoringInv'
  <2>1. /\ UNCHANGED <<queue, wcmd, wid, execs, ran>>
        /\ \A v \in Workers : v # w => wpc'[v] = wpc[v]
        /\ OnTask(w)' => OnTask(w) /\ wpc[w] # "exec"
        /\ ~Restoring(w)' /\ wpc'[w] # "exec"
    BY <1>1 DEF ExecuteThrows, DeleteGet, DeleteRemove, DeleteFails, MinCheck, MinWrite,
         RestoreFails, TypeOK, WorkerType, OnTask, Restoring
  <2>2. store' = store \/ (OnTask(w) /\ wpc[w] # "exec" /\ store' = Removed(w))
    BY <1>1 DEF ExecuteThrows, DeleteGet, DeleteRemove, DeleteFails, MinCheck, MinWrite,
         RestoreFails, OnTask
  <2>3. ASSUME NEW c \in Cmds, c \notin ran PROVE StoreKeptFor(c)
    <3>1. CASE store' = store
      BY <3>1 DEF StoreKeptFor
    <3>2. CASE OnTask(w) /\ wpc[w] # "exec" /\ store' = Removed(w)
      <4>1. c # wcmd[w]
        BY <1>0, <2>3, <3>2 DEF RestoringOK, RanInThisLife
      <4> QED
        BY <1>0, <3>2, <4>1, LaterDelete
    <3> QED
      BY <2>2, <3>1, <3>2
  <2>4. ASSUME NEW c \in Cmds PROVE OnePlace(c)' /\ RecordAtHand(c)'
    <3>1. Waits(c) \/ Runs(c) \/ BeingRestored(c) => StoreKeptFor(c)
      BY <1>0, <2>3, RanIsPast
    <3>2. RestoreAhead(c)' => RestoreAhead(c)
      BY <1>a, <2>1 DEF RestoreAhead, Restoring, InQueue
    <3>3. BeingRestored(c)' => BeingRestored(c)
      BY <2>1 DEF BeingRestored, Restoring
    <3>4. \A v \in Workers : wpc'[v] = "exec" /\ wcmd'[v] = c => wpc[v] = "exec" /\ wcmd[v] = c
      BY <2>1
    <3> QED
      BY <1>0, <1>a, <2>1, <3>1, <3>2, <3>3, <3>4, PlaceKept DEF OnePlace
  <2>5. TasksAtHome'
    BY <1>0, <1>a, <2>1 DEF RestoringOK, TasksAtHome, OnTask
  <2>6. RanInThisLife'
    BY <1>0, <2>1 DEF RestoringOK, RanInThisLife, OnTask
  <2>7. \A c \in Cmds : execs'[c] = 0 => StoreKeptFor(c)
    BY <2>1, <2>3 DEF HistoryAgrees
  <2> QED
    BY <1>0, <1>a, <2>1, <2>4, <2>5, <2>6, <2>7, LaterParts
<1>2. ASSUME NEW w \in Workers, Take(w) PROVE RestoringInv'
  <2>1. /\ UNCHANGED <<store, execs, ran>>
        /\ wpc[w] = "idle" /\ queue # <<>> /\ queue' = Tail(queue)
        /\ \A v \in Workers : v # w => /\ wpc'[v] = wpc[v] /\ wcmd'[v] = wcmd[v]
                                       /\ wid'[v] = wid[v]
        /\ wpc'[w] = IF Head(queue).cmd = None THEN "restoreGet" ELSE "exec"
        /\ wcmd'[w] = Head(queue).cmd
        /\ Head(queue).cmd # None => wid'[w] = Head(queue).id
    BY <1>2 DEF Take, TypeOK, WorkerType
  <2>2. /\ Head(queue) = queue[1] /\ 1 \in DOMAIN queue /\ Head(queue) \in Tasks
        /\ \A k \in DOMAIN queue' : /\ k + 1 \in DOMAIN queue /\ k + 1 # 1 /\ k \in Int
                                    /\ queue'[k] = queue[k + 1]
    BY <2>1 DEF TypeOK
  <2>3. \A k \in DOMAIN queue' : queue'[k].cmd # None
    BY <2>2 DEF Settled, RestoreInTurn, InQueue
  <2>4. ASSUME NEW c \in Cmds PROVE OnePlace(c)' /\ RecordAtHand(c)'
    <3>1. RestoreAhead(c)' => RestoreAhead(c)
      <4>1. CASE Head(queue).cmd = None
        BY <2>2, <4>1 DEF RestoreAhead, InQueue
      <4>2. CASE Head(queue).cmd # None
        BY <1>a, <2>1, <2>3, <4>2 DEF RestoreAhead, Restoring, InQueue
      <4> QED
        BY <4>1, <4>2
    <3>2. \A j, k \in DOMAIN queue' : queue'[j].cmd = c /\ queue'[k].cmd = c => j = k
      <4> SUFFICES ASSUME NEW j \in DOMAIN queue', NEW k \in DOMAIN queue',
                          queue'[j].cmd = c, queue'[k].cmd = c
                   PROVE  j = k
        OBVIOUS
      <4>1. j + 1 = k + 1
        BY <1>0, <2>2 DEF OnePlace
      <4> QED
        BY <2>2, <4>1
    <3>3. \A k \in DOMAIN queue' : queue'[k].cmd = c => \E j \in DOMAIN queue : queue[j].cmd = c
      BY <2>2
    <3>4. BeingRestored(c)' => BeingRestored(c)
      BY <2>1 DEF BeingRestored
    <3>5. CASE Head(queue).cmd # c
      <4>1. \A v \in Workers : wpc'[v] = "exec" /\ wcmd'[v] = c => wpc[v] = "exec" /\ wcmd[v] = c
        BY <2>1, <3>5
      <4> QED
        BY <1>0, <1>a, <2>1, <3>1, <3>2, <3>3, <3>4, <4>1, PlaceKept DEF StoreKeptFor
    <3>6. CASE Head(queue).cmd = c
      <4>1. Waits(c) /\ \A j \in DOMAIN queue : queue[j].cmd = c => j = 1
        BY <1>0, <2>2, <3>6 DEF Waits, OnePlace
      <4>2. ~Waits(c)'
        BY <2>2, <4>1 DEF Waits
      <4>3. c \notin ran' /\ ~RestoreAhead(c)' /\ ~Runs(c)
        BY <1>0, <2>1, <3>1, <4>1 DEF OnePlace
      <4>4. \A v, u \in AtWork(c)' : v = u
        BY <2>1, <4>3 DEF AtWork, Runs
      <4>5. store'[cid'[c]] = c
        BY <1>0, <1>a, <2>1, <4>1 DEF RecordAtHand
      <4> QED
        BY <3>2, <4>2, <4>3, <4>4, <4>5 DEF OnePlace, RecordAtHand
    <3> QED
      BY <3>5, <3>6
  <2>5. TasksAtHome'
    <3>1. \A k \in DOMAIN queue' : cid'[queue'[k].cmd] = queue'[k].id
      BY <1>0, <1>a, <2>2, <2>3 DEF RestoringOK, TasksAtHome
    <3>2. \A v \in Workers : OnTask(v)' => cid'[wcmd'[v]] = wid'[v]
      BY <1>0, <1>a, <2>1, <2>2 DEF RestoringOK, TasksAtHome, OnTask
    <3> QED
      BY <3>1, <3>2 DEF TasksAtHome
  <2>6. RanInThisLife'
    BY <1>0, <2>1 DEF RestoringOK, RanInThisLife, OnTask
  <2> QED
    BY <1>0, <1>a, <2>1, <2>4, <2>5, <2>6, LaterParts DEF StoreKeptFor
<1>3. ASSUME NEW w \in Workers, Execute(w) PROVE RestoringInv'
  <2>1. /\ UNCHANGED <<store, queue, wcmd, wid>>
        /\ wpc[w] = "exec" /\ wpc'[w] = "delGet" /\ wcmd[w] \in Cmds
        /\ \A v \in Workers : v # w => wpc'[v] = wpc[v]
        /\ ran' = ran \cup {wcmd[w]}
        /\ \A c \in Cmds : execs'[c] = IF c = wcmd[w] THEN execs[c] + 1 ELSE execs[c]
        /\ \A c \in Cmds : execs[c] \in Nat
    BY <1>3 DEF Execute, TypeOK, WorkerType, HistoryType, OnTask
  <2>2. ASSUME NEW c \in Cmds PROVE OnePlace(c)' /\ RecordAtHand(c)'
    <3>1. RestoreAhead(c)' => RestoreAhead(c)
      BY <1>a, <2>1 DEF RestoreAhead, Restoring, InQueue
    <3>2. BeingRestored(c)' => BeingRestored(c)
      BY <2>1 DEF BeingRestored
    <3>3. \A v \in Workers : wpc'[v] = "exec" /\ wcmd'[v] = c => wpc[v] = "exec" /\ wcmd[v] = c
      BY <2>1
    <3>4. CASE c # wcmd[w]
      <4>1. c \in ran' => c \in ran
        BY <2>1, <3>4
      <4> QED
        BY <1>0, <1>a, <2>1, <3>1, <3>2, <3>3, <4>1, PlaceKept DEF StoreKeptFor, OnePlace
    <3>5. CASE c = wcmd[w]
      <4>1. Runs(c) /\ w \in AtWork(c)
        BY <2>1, <3>5 DEF Runs, AtWork
      <4>2. ~Waits(c) /\ ~RestoreAhead(c) /\ AtWork(c) = {w}
        BY <1>0, <4>1 DEF OnePlace
      <4>3. AtWork(c)' = {} /\ ~Runs(c)'
        BY <2>1, <3>5, <4>2 DEF AtWork, Runs
      <4>4. ~Waits(c)'
        BY <2>1, <4>2 DEF Waits
      <4>5. ~BeingRestored(c)'
        BY <3>2, <1>0, <1>a, <4>2 DEF BeingRestored, RestoreAhead, Restoring, Settled, RestoreInTurn,
                               TypeOK, CallerType, Ids, WorkerType
      <4> QED
        BY <3>1, <4>2, <4>3, <4>4, <4>5 DEF OnePlace, RecordAtHand, Waits
    <3> QED
      BY <3>4, <3>5
  <2>3. TasksAtHome'
    BY <1>0, <1>a, <2>1 DEF RestoringOK, TasksAtHome, OnTask
  <2>4. RanInThisLife'
    BY <1>0, <2>1 DEF RestoringOK, RanInThisLife, OnTask
  <2>5. \A c \in Cmds : execs[c] > 0 => execs'[c] > 0
    BY <2>1
  <2> QED
    BY <1>0, <1>a, <2>1, <2>2, <2>3, <2>4, <2>5, LaterParts DEF StoreKeptFor
<1>4. ASSUME NEW w \in Workers, RestoreGet(w) PROVE RestoringInv'
  <2>1. /\ UNCHANGED <<store, queue, execs, ran>>
        /\ wpc[w] = "restoreGet" /\ wpc'[w] \in {"idle", "restoreGet", "restoreAdd"}
        /\ \A v \in Workers : v # w => /\ wpc'[v] = wpc[v] /\ wcmd'[v] = wcmd[v]
                                       /\ wid'[v] = wid[v]
        /\ wid'[w] \in {wid[w], wid[w] + 1} /\ wid[w] \in Nat
        /\ wpc'[w] = "restoreAdd" => /\ wid[w] \in Ids /\ store[wid[w]] # None
                                     /\ wcmd'[w] = store[wid[w]]
    BY <1>4 DEF RestoreGet, TypeOK, WorkerType, Readable, Record
  <2>2. ASSUME NEW c \in Cmds PROVE OnePlace(c)' /\ RecordAtHand(c)'
    <3>1. RestoreAhead(c)' => RestoreAhead(c)
      <4>1. wid'[w] <= cid[c] => wid[w] <= cid[c]
        BY <2>1 DEF TypeOK, CallerType, Ids
      <4> QED
        BY <1>a, <2>1, <4>1 DEF RestoreAhead, Restoring, InQueue
    <3>2. \A v \in Workers : wpc'[v] = "exec" /\ wcmd'[v] = c => wpc[v] = "exec" /\ wcmd[v] = c
      BY <2>1
    <3>3. (Waits(c)' => Waits(c)) /\ (Runs(c)' => Runs(c)) /\ \A v, u \in AtWork(c)' : v = u
      BY <1>0, <2>1, <3>2 DEF Waits, Runs, AtWork, OnePlace
    <3>4. OnePlace(c)'
      BY <1>0, <2>1, <3>1, <3>3 DEF OnePlace
    <3>5. BeingRestored(c)' => BeingRestored(c) \/ store[cid[c]] = c
      BY <2>1 DEF BeingRestored, Settled, RecordsAtHome
    <3> QED
      BY <1>0, <1>a, <2>1, <3>3, <3>4, <3>5 DEF RecordAtHand
  <2>3. TasksAtHome' /\ RanInThisLife'
    BY <1>0, <1>a, <2>1 DEF RestoringOK, TasksAtHome, RanInThisLife, OnTask
  <2> QED
    BY <1>0, <1>a, <2>1, <2>2, <2>3, LaterParts DEF StoreKeptFor
<1>5. ASSUME NEW w \in Workers, RestoreAdd(w) PROVE RestoringInv'
  <2> DEFINE t == [cmd |-> wcmd[w], id |-> wid[w]]
             n == Len(queue)
  <2>1. /\ UNCHANGED <<store, wcmd, execs, ran>>
        /\ queue' = Append(queue, t)
        /\ wpc[w] = "restoreAdd" /\ wpc'[w] = "restoreGet" /\ wid'[w] = wid[w] + 1
        /\ \A v \in Workers : v # w => wpc'[v] = wpc[v] /\ wid'[v] = wid[v]
        /\ wcmd[w] \in Cmds /\ wid[w] \in Nat /\ cid[wcmd[w]] = wid[w]
    BY <1>5 DEF RestoreAdd, TypeOK, WorkerType, Settled, RestoreInTurn
  <2>2. /\ n + 1 \notin DOMAIN queue
        /\ \A k \in DOMAIN queue' : (k \in DOMAIN queue /\ queue'[k] = queue[k]) \/ k = n + 1
        /\ n + 1 \in DOMAIN queue' /\ queue'[n + 1] = t
    BY <2>1 DEF TypeOK
  <2>3. t.cmd = wcmd[w] /\ t.id = wid[w]
    OBVIOUS
  <2> HIDE DEF t, n
  <2>4. ASSUME NEW c \in Cmds PROVE OnePlace(c)' /\ RecordAtHand(c)'
    <3>1. RestoreAhead(c)' => RestoreAhead(c)
      <4>1. wid'[w] <= cid[c] => wid[w] <= cid[c]
        BY <2>1 DEF TypeOK, CallerType, Ids
      <4>2. InQueue(None)' \subseteq InQueue(None)
        BY <2>1, <2>2, <2>3 DEF InQueue
      <4> QED
        BY <1>a, <2>1, <4>1, <4>2 DEF RestoreAhead, Restoring
    <3>2. BeingRestored(c)' => BeingRestored(c)
      BY <2>1 DEF BeingRestored
    <3>3. \A v \in Workers : wpc'[v] = "exec" /\ wcmd'[v] = c => wpc[v] = "exec" /\ wcmd[v] = c
      BY <2>1
    <3>4. CASE c # wcmd[w]
      <4>1. \A k \in DOMAIN queue' : queue'[k].cmd = c => k \in DOMAIN queue /\ queue[k].cmd = c
        BY <2>2, <2>3, <3>4
      <4>2. /\ \A k \in DOMAIN queue' : queue'[k].cmd = c =>
                  \E j \in DOMAIN queue : queue[j].cmd = c
            /\ \A j, k \in DOMAIN queue' : queue'[j].cmd = c /\ queue'[k].cmd = c => j = k
        BY <1>0, <4>1 DEF OnePlace
      <4> QED
        BY <1>0, <1>a, <2>1, <3>1, <3>2, <3>3, <4>2, PlaceKept DEF StoreKeptFor
    <3>5. CASE c = wcmd[w]
      <4>1. BeingRestored(c) /\ RestoreAhead(c) /\ store[cid[c]] = c
        BY <1>0, <2>1, <3>5 DEF BeingRestored, RestoreAhead, Restoring, RecordAtHand
      <4>2. c \notin ran /\ ~Waits(c) /\ ~Runs(c)
        BY <1>0, <4>1 DEF OnePlace
      <4>3. \A k \in DOMAIN queue' : queue'[k].cmd = c => k = n + 1
        BY <2>2, <4>2 DEF Waits
      <4>4. ~RestoreAhead(c)'
        <5>1. /\ InQueue(None) = {}
              /\ \A v \in Workers : Restoring(v) => v = w
          BY <2>1 DEF Settled, RestoreInTurn, Restoring
        <5>2. InQueue(None)' = {}
          BY <2>1, <2>2, <2>3, <5>1 DEF InQueue
        <5>3. \A v \in Workers : Restoring(v)' => v = w
          BY <2>1, <5>1 DEF Restoring
        <5>4. ~(wid'[w] <= cid'[c])
          BY <1>a, <2>1, <3>5
        <5> QED
          BY <5>2, <5>3, <5>4 DEF RestoreAhead
      <4>5. ~Runs(c)' /\ AtWork(c)' = {}
        BY <2>1, <4>2, <3>3 DEF Runs, AtWork
      <4> QED
        BY <1>a, <2>1, <4>1, <4>2, <4>3, <4>4, <4>5 DEF OnePlace, RecordAtHand
    <3> QED
      BY <3>4, <3>5
  <2>5. TasksAtHome'
    <3>1. \A k \in DOMAIN queue' : queue'[k].cmd # None => cid'[queue'[k].cmd] = queue'[k].id
      BY <1>0, <1>a, <2>1, <2>2, <2>3 DEF RestoringOK, TasksAtHome
    <3>2. \A v \in Workers : OnTask(v)' => cid'[wcmd'[v]] = wid'[v]
      BY <1>0, <1>a, <2>1 DEF RestoringOK, TasksAtHome, OnTask
    <3> QED
      BY <3>1, <3>2 DEF TasksAtHome
  <2>6. RanInThisLife'
    BY <1>0, <2>1 DEF RestoringOK, RanInThisLife, OnTask
  <2> QED
    BY <1>0, <1>a, <2>1, <2>4, <2>5, <2>6, LaterParts DEF StoreKeptFor
\* Nothing is left in memory when the process goes down ...
<1>6. CASE Stop
  <2>1. /\ UNCHANGED <<store, execs>> /\ queue' = <<>>
        /\ \A w \in Workers : wpc'[w] = "idle"
    BY <1>6 DEF Stop
  <2>2. \A c \in Cmds : OnePlace(c)' /\ RecordAtHand(c)'
    BY <2>1 DEF OnePlace, RecordAtHand, Waits, Runs, RestoreAhead, BeingRestored, AtWork,
                InQueue, Restoring
  <2>3. TasksAtHome' /\ RanInThisLife'
    BY <2>1 DEF TasksAtHome, RanInThisLife, OnTask
  <2>4. OneOwner' /\ StoredReliably' /\ \A c \in Cmds : cpc'[c] \notin InCall
    BY <1>0, <1>a, <2>1 DEF RestoringOK, OneOwner, StoredReliably, Accepted
  <2> QED
    BY <2>1, <2>2, <2>3, <2>4 DEF RestoringInv, RestoringOK
<1>7. CASE UNCHANGED <<store, queue, execs, workerVars, callerVars, ran, restarts>>
  <2>1. \A c \in Cmds : OnePlace(c)' /\ RecordAtHand(c)'
    BY <1>0, <1>7 DEF OnePlace, RecordAtHand, Waits, Runs, RestoreAhead, BeingRestored, AtWork,
                InQueue, Restoring
  <2>2. TasksAtHome' /\ RanInThisLife'
    BY <1>0, <1>7 DEF RestoringOK, TasksAtHome, RanInThisLife, OnTask
  <2>3. OneOwner' /\ StoredReliably' /\ \A c \in Cmds : cpc'[c] \notin InCall
    BY <1>0, <1>7 DEF RestoringOK, OneOwner, StoredReliably, Accepted
  <2> QED
    BY <2>1, <2>2, <2>3 DEF RestoringInv, RestoringOK
\* ... and a new life begins with nothing but the restore runnable.
<1>8. CASE Restart
  BY <1>0, <1>8, RestartRestores DEF RestoringOK
<1> QED
  BY <1>0, <1>1, <1>2, <1>3, <1>4, <1>5, <1>6, <1>7, <1>8, LaterFrame DEF WorkerStep, WorkerFault

LEMMA RestoringStep ==
    ASSUME TypeOK, TypeOK', FirstLifeInv, LivesInv, RestoringInv,
           [Next /\ NothingNewAfterRestart]_vars
    PROVE  RestoringInv'
<1>1. [Next]_vars /\ Settled /\ HistoryAgrees /\ restarts \in Nat
  BY DEF LivesInv, Settled, TypeOK, LifeType
<1>2. CASE restarts > 0
  <2>1. NothingNewAfterRestart
    BY DEF NothingNewAfterRestart, vars, callerVars
  <2> QED
    BY <1>1, <1>2, <2>1, LaterStep
<1>3. CASE restarts = 0
  <2>1. CASE Restart
    BY <1>1, <1>3, <2>1, RestartRestores DEF FirstLifeInv, FirstLifeOK
  <2>2. CASE ~Restart
    <3>1. UNCHANGED restarts
      BY <1>1, <2>2, LifeFrame DEF ShutdownPutMax, ShutdownPutMin, ShutdownFails, Stop
    <3> QED
      BY <1>3, <3>1 DEF RestoringInv
  <2> QED
    BY <2>1, <2>2
<1> QED
  BY <1>1, <1>2, <1>3

LEMMA RestoringIsQueue == RestoringSpec => Spec
<1>1. [Next /\ NothingNewAfterRestart]_vars => [Next]_vars
  OBVIOUS
<1> QED
  BY <1>1, PTL DEF RestoringSpec, Spec

LEMMA RestoringInvariant == RestoringSpec => []RestoringInv
<1>1. Init => RestoringInv
  BY DEF Init, RestoringInv
<1>2. /\ TypeOK /\ TypeOK' /\ FirstLifeInv /\ LivesInv /\ RestoringInv
      /\ [Next /\ NothingNewAfterRestart]_vars
      => RestoringInv'
  BY RestoringStep
<1> QED
  BY <1>1, <1>2, RestoringIsQueue, TypeCorrect, FirstLifeInvariant, LivesInvariant, PTL
     DEF RestoringSpec

\* For any number of commands, workers, callers, crashes, shutdowns and failures: as long as a
\* process that was started again is given nothing new to do, every command that was ever
\* stored by add or addAsync keeps its record, under its own id, until it has been executed
\* (storeRemotely, finishCommand, initialize).
THEOREM DurableThroughout == RestoringSpec => []StoredReliably
<1>1. TypeOK /\ FirstLifeInv /\ RestoringInv => StoredReliably
  BY DEF TypeOK, LifeType, FirstLifeInv, FirstLifeOK, RestoringInv, RestoringOK
<1> QED
  BY <1>1, RestoringIsQueue, TypeCorrect, FirstLifeInvariant, RestoringInvariant, PTL

-----------------------------------------------------------------------------
(* Refinement over restarts: a worker's execution is a Run, possibly one more  *)
(* of a command that was run in an earlier life and whose record stayed; a     *)
(* delete forgets, of the commands that add ran too; Restart is ComeBack.      *)

\* The steps of ReliableQueue that only a later life takes.
LEMMA LaterStatus ==
    ASSUME NEW c \in Cmds, \A d \in Cmds : d # c => Status(d)' = Status(d),
           UNCHANGED restarts
    PROVE  /\ /\ Status(c) \in {"stored", "done"} /\ Status(c)' = "done" /\ c \notin ran
              /\ execs' = [execs EXCEPT ![c] = @ + 1] /\ ran' = ran \cup {c}
              => RQ!Run(c)
           /\ /\ restarts > 0 /\ Status(c) = "done" /\ Status(c)' = "forgotten"
              /\ UNCHANGED <<execs, ran>>
              => RQ!Forget(c)
<1> DEFINE S == [d \in Cmds |-> Status(d)]
<1>1. S' = [S EXCEPT ![c] = Status(c)']
  OBVIOUS
<1>2. S[c] = Status(c)
  OBVIOUS
<1> QED
  BY <1>1, <1>2 DEF RQ!Run, RQ!Forget, RQ!Becomes

LEMMA LaterSimulation ==
    ASSUME TypeOK, LivesInv, RestoringInv, OnlyKnown, restarts > 0,
           [Next]_vars, NothingNewAfterRestart
    PROVE  RQ!Next \/ UNCHANGED RQ!rqVars
<1> USE CmdsAssumption DEF storeVars, lifeVars, indexVars, workerVars, callerVars
<1>0. RestoringOK /\ Settled
  BY DEF RestoringInv, LivesInv, Settled
<1>a. \A c \in Cmds : cpc'[c] = cpc[c]
  BY <1>0, LaterFrame
<1>1. ASSUME UNCHANGED <<store, execs, ran, restarts>> PROVE UNCHANGED RQ!rqVars
  BY <1>1, <1>a, StatusKept, Stutters DEF HasRecord
<1>2. ASSUME NEW w \in Workers, Execute(w) PROVE \E c \in Cmds : RQ!Run(c)
  <2>1. /\ UNCHANGED <<store, restarts>> /\ wpc[w] = "exec" /\ wcmd[w] \in Cmds
        /\ execs' = [execs EXCEPT ![wcmd[w]] = @ + 1] /\ ran' = ran \cup {wcmd[w]}
    BY <1>2 DEF Execute, TypeOK, WorkerType, OnTask
  <2>2. PICK c \in Cmds : c = wcmd[w]
    BY <2>1
  <2>3. Known(c) /\ store[cid[c]] = c /\ w \in AtWork(c)
    BY <1>0, <2>1, <2>2
       DEF OnlyKnown, WorkersKnown, OnTask, RestoringOK, RecordAtHand, Runs, AtWork
  <2>4. c \notin ran
    BY <1>0, <2>1, <2>2 DEF RestoringOK, OnePlace, Runs
  <2>5. /\ execs[c] \in Nat /\ execs'[c] = execs[c] + 1
        /\ \A d \in Cmds : d # c => execs'[d] = execs[d]
    BY <2>1, <2>2 DEF TypeOK, HistoryType
  <2>6. \A d \in Cmds : HasRecord(d)' <=> HasRecord(d)
    BY <2>1 DEF HasRecord
  <2>7. HasRecord(c)
    BY <2>3 DEF HasRecord, TypeOK, CallerType
  <2>8. Status(c) \in {"stored", "done"} /\ Status(c)' = "done"
    BY <1>a, <2>3, <2>5, <2>6, <2>7 DEF Status, HasRecord, Known
  <2>9. \A d \in Cmds : d # c => Status(d)' = Status(d)
    BY <1>a, <2>5, <2>6, StatusKept
  <2> QED
    BY <2>1, <2>2, <2>4, <2>8, <2>9, LaterStatus
<1>3. ASSUME NEW w \in Workers, DeleteRemove(w) \/ DeleteFails(w)
      PROVE  RQ!Next \/ UNCHANGED RQ!rqVars
  <2>1. /\ UNCHANGED <<execs, ran, restarts>> /\ OnTask(w) /\ wpc[w] # "exec"
        /\ store' = store \/ store' = Removed(w)
    BY <1>3 DEF DeleteRemove, DeleteFails, OnTask
  <2>2. CASE store' = store
    BY <2>1, <2>2, <1>1
  <2>3. CASE store' # store
    <3>0. PICK c \in Cmds : c = wcmd[w]
      BY <2>1 DEF TypeOK, WorkerType
    <3>1. /\ store' = [store EXCEPT ![wid[w]] = None] /\ wid[w] \in Ids /\ cid[c] = wid[w]
          /\ store[wid[w]] # None /\ store[wid[w]] \in Cmds /\ execs[c] > 0
      BY <1>0, <2>1, <2>3, <3>0 DEF Removed, TypeOK, StoreType, WorkerType, MaybeCmd, RestoringOK,
                               TasksAtHome, RanInThisLife, LivesInv, HistoryAgrees
    <3>2. store[wid[w]] = c
      <4>1. cpc[store[wid[w]]] # "new" /\ cid[store[wid[w]]] = wid[w]
        BY <1>0, <3>1 DEF Settled, RecordsAtHome
      <4>2. cpc[c] # "new"
        BY <1>0, <2>1, <3>0 DEF Settled, TracesHanded, Handed
      <4> QED
        BY <1>0, <3>1, <4>1, <4>2 DEF RestoringOK, OneOwner
    <3>3. Known(c)
      BY <3>1, <3>2 DEF OnlyKnown, RecordsKnown
    <3>4. HasRecord(c) /\ ~HasRecord(c)'
      <4>1. HasRecord(c)
        BY <3>1, <3>2 DEF HasRecord
      <4>2. \A i \in Ids : store[i] = c => i = wid[w]
        BY <1>0, <3>1 DEF Settled, RecordsAtHome
      <4>3. \A i \in Ids : store'[i] # c
        BY <3>1, <4>2 DEF TypeOK, StoreType
      <4> QED
        BY <4>1, <4>3 DEF HasRecord
    <3>5. \A d \in Cmds : d # c => (HasRecord(d)' <=> HasRecord(d))
      BY <3>1, <3>2 DEF HasRecord, TypeOK, StoreType
    <3>6. Status(c) = "done" /\ Status(c)' = "forgotten"
      BY <1>a, <2>1, <3>1, <3>3, <3>4 DEF Status, HasRecord, Known, TypeOK, HistoryType
    <3>7. \A d \in Cmds : d # c => Status(d)' = Status(d)
      BY <1>a, <2>1, <3>5, StatusKept
    <3>8. RQ!Forget(c)
      BY <2>1, <3>6, <3>7, LaterStatus
    <3> QED
      BY <3>8 DEF RQ!Next
  <2> QED
    BY <2>2, <2>3
<1>4. ASSUME NEW w \in Workers, \/ Take(w) \/ ExecuteThrows(w) \/ DeleteGet(w)
                                \/ MinCheck(w) \/ MinWrite(w) \/ RestoreGet(w)
                                \/ RestoreAdd(w) \/ RestoreFails(w)
      PROVE  UNCHANGED RQ!rqVars
  <2>1. CASE Take(w) \/ ExecuteThrows(w) \/ DeleteGet(w) \/ MinCheck(w) \/ MinWrite(w)
    BY <1>1, <2>1 DEF Take, ExecuteThrows, DeleteGet, MinCheck, MinWrite
  <2>2. CASE RestoreGet(w) \/ RestoreAdd(w) \/ RestoreFails(w)
    BY <1>1, <2>2 DEF RestoreGet, RestoreAdd, RestoreFails
  <2> QED
    BY <1>4, <2>1, <2>2
<1>5. CASE Stop
  BY <1>1, <1>5 DEF Stop
<1>6. CASE Restart
  <2>1. UNCHANGED <<store, cpc, execs>> /\ restarts' = restarts + 1 /\ ran' = {}
    BY <1>6 DEF Restart
  <2>2. \A c \in Cmds : Status(c)' = Status(c)
    BY <2>1, StatusKept DEF HasRecord
  <2>3. RQ!ComeBack
    BY <2>1, <2>2 DEF RQ!ComeBack
  <2> QED
    BY <2>3 DEF RQ!Next
<1> QED
  BY <1>0, <1>1, <1>2, <1>3, <1>4, <1>5, <1>6, LaterFrame
  DEF WorkerStep, WorkerFault, RQ!Next

\* Refinement: however often the process crashes or is shut down and comes back, with any
\* number of commands, callers and workers, the queue does only what a ReliableQueue does:
\* what was refused is never run, what was stored is run at most once in each life, and
\* forgotten only once it was run.  Nothing new is submitted after a restart, and the store
\* does no put or delete that it reports as failed.
THEOREM RestartsImplement ==
    ASSUME "ack" \notin FaultKinds
    PROVE  RestoringSpec => RQSafe
<1>1. Init => RQ!Init
  <2> SUFFICES ASSUME Init PROVE RQ!Init
    OBVIOUS
  <2>1. \A c \in Cmds : Status(c) = "new"
    BY DEF Init, Status
  <2> QED
    BY <2>1 DEF Init, RQ!Init
<1>2. /\ TypeOK /\ FirstLifeInv /\ LivesInv /\ KindsApart /\ RestoringInv /\ OnlyKnown
      /\ [Next /\ NothingNewAfterRestart]_vars
      => [RQ!Next]_(RQ!rqVars)
  <2> SUFFICES ASSUME TypeOK, FirstLifeInv, LivesInv, KindsApart, RestoringInv, OnlyKnown,
                      [Next /\ NothingNewAfterRestart]_vars
               PROVE  RQ!Next \/ UNCHANGED RQ!rqVars
    OBVIOUS
  <2>1. [Next]_vars /\ NothingNewAfterRestart
    BY DEF NothingNewAfterRestart, vars, callerVars
  <2>2. CASE restarts = 0
    BY <2>1, <2>2, FirstLifeSimulation
  <2>3. CASE restarts > 0
    BY <2>1, <2>3, LaterSimulation
  <2> QED
    BY <2>2, <2>3 DEF TypeOK, LifeType
<1> QED
  BY <1>1, <1>2, RestoringIsQueue, TypeCorrect, FirstLifeInvariant, LivesInvariant,
     KindsInvariant, KnownInvariant, RestoringInvariant, PTL
     DEF RestoringSpec, RQSafe, RQ!Spec
=============================================================================
