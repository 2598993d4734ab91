---------------------------- MODULE MCQueueLives ----------------------------
(* One life of the process in which calls run together and fail, or several lives as   *)
(* CommandQueueTest has them.                                                           *)
EXTENDS CommandQueue

CONSTANT Waiter     \* the one worker of the tests

\* The tests make one call at a time, stop the queue with shutdown, start it again and
\* submit nothing more (testCommandsNeverGetExecuted).
VARIABLE tested

InCallNow == {c \in Cmds : cpc[c] \in InCall}
LivesNext ==
    /\ Next /\ UNCHANGED tested
    /\ IF tested
         THEN /\ NothingNewAfterRestart /\ Cardinality(InCallNow') <= 1 /\ faults' = 0
              /\ \A w \in Workers \ {Waiter} : wpc'[w] = "idle"
         ELSE phase' = "up"
LivesSpec == Init /\ tested \in BOOLEAN /\ [][LivesNext]_<<vars, tested>>
\* Threads of a live process run, in the tests one worker, and a process that went down is
\* started again.  Nobody has to submit a command, stop the process, or fail.
Fairness ==
    /\ \A c \in Cmds : WF_vars(CallerStep(c))
    /\ \A w \in Workers : WF_vars((tested => w = Waiter) /\ WorkerStep(w))
    /\ WF_vars(BatchStep)
    /\ WF_vars(FillContext) /\ WF_vars(ShutdownPutMin)
    /\ WF_vars(phase = "stopped" /\ Stop) /\ WF_vars(Restart)
FairLives == LivesSpec /\ Fairness

\* In the tests every command accepted by addAsync is in the end executed and its record
\* deleted, by a later process if need be (AbstractCommandQueue's restore).
RestoredAndFinished ==
    \A c \in AsyncCmds :
        tested /\ cpc[c] = "accepted" ~> (execs[c] > 0 /\ store[cid[c]] # c)
=============================================================================
