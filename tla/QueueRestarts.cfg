\* Two restarts, after crashes and orderly shutdowns, one failed call, and the bean
\* order of applicationContext-web.xml.
SPECIFICATION Spec
CONSTANTS
  None = None
  Cmds = {a, b}
  AsyncCmds = {a}
  Workers = {w1, w2}
  InitialMaximum = 1
  Increment = 1
  Threshold = 1
  CharsetFaithful = TRUE
  ContextFirst = FALSE
  StopKinds = {"crash", "shutdown"}
  FaultKinds = {"store", "exec", "read"}
  MaxCallers = 2
  MaxId = 1
  MaxRestarts = 2
  MaxFaults = 1
INVARIANTS
  RejectedNeverRuns
  OneBatchAtATime
  
PROPERTIES
  TwiceOnlyIfRestored
SYMMETRY Symmetry
CHECK_DEADLOCK FALSE
