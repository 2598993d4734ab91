\* Three callers, two workers and two failed calls; or one of each, and two restarts.
SPECIFICATION FairLives
CONSTANTS
  None = None
  Cmds = {a, b, c}
  AsyncCmds = {a, b}
  Workers = {w1, w2}
  Waiter = w1
  InitialMaximum = 3
  Increment = 2
  Threshold = 1
  CharsetFaithful = TRUE
  ContextFirst = TRUE
  StopKinds = {"shutdown"}
  FaultKinds = {"store", "ack", "exec"}
  MaxCallers = 3
  MaxId = 2
  MaxRestarts = 2
  MaxFaults = 2
INVARIANTS
  StoredReliably
PROPERTIES
  RQSafe
  RQFair
  BatchCompletes
  RestoredAndFinished
CHECK_DEADLOCK FALSE
