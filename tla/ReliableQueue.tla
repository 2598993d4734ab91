---------------------------- MODULE ReliableQueue ---------------------------
(***************************************************************************)
(* What the comment of AbstractCommandQueue promises to those who submit   *)
(* commands, with no ids, threads or store: a command is either refused or *)
(* stored; a stored one is kept until it has been executed, is executed,   *)
(* and may be executed again, once in each life of the machine; one that   *)
(* threads in the background have executed is in the end forgotten.  After *)
(* a restart these threads execute what others have submitted as well.     *)
(***************************************************************************)
EXTENDS Naturals

CONSTANTS Cmds,        \* the commands
          Background   \* those that background threads execute (addAsync)

VARIABLES status,      \* what has become of each command
          runs,        \* how often it was executed
          ran,         \* the commands executed in this life
          life         \* how often the machine came back
rqVars == <<status, runs, ran, life>>

Statuses == {"new", "refused", "stored", "done", "forgotten"}

RQTypeOK == /\ status \in [Cmds -> Statuses] /\ runs \in [Cmds -> Nat]
            /\ ran \in SUBSET Cmds /\ life \in Nat

Init == /\ status = [c \in Cmds |-> "new"]
        /\ runs = [c \in Cmds |-> 0]
        /\ ran = {} /\ life = 0

Becomes(c, s) == status' = [status EXCEPT ![c] = s]

Store(c)  == status[c] = "new" /\ Becomes(c, "stored") /\ UNCHANGED <<runs, ran, life>>
Refuse(c) == status[c] = "new" /\ Becomes(c, "refused") /\ UNCHANGED <<runs, ran, life>>

Run(c) == /\ status[c] \in {"stored", "done"}
          /\ c \notin ran
          /\ Becomes(c, "done")
          /\ runs' = [runs EXCEPT ![c] = @ + 1] /\ ran' = ran \cup {c}
          /\ UNCHANGED life

Forget(c) == /\ c \in Background \/ life > 0
             /\ status[c] = "done"
             /\ Becomes(c, "forgotten")
             /\ UNCHANGED <<runs, ran, life>>

ComeBack == life' = life + 1 /\ ran' = {} /\ UNCHANGED <<status, runs>>

Next == \/ \E c \in Cmds : Store(c) \/ Refuse(c) \/ Run(c) \/ Forget(c)
        \/ ComeBack

Spec == Init /\ [][Next]_rqVars

\* Stored commands are executed, and those executed in the background forgotten.
Service == \A c \in Cmds : /\ WF_rqVars(status[c] = "stored" /\ Run(c))
                           /\ WF_rqVars(c \in Background /\ Forget(c))
FairSpec == Spec /\ Service
=============================================================================
