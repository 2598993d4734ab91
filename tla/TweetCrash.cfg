\* A crash after the tweet is stored; its command is run again, gives up and is removed.
SPECIFICATION Spec
CONSTANTS
  a = a
  b = b
  Users = {a, b}
  Strangers = {}
  Nobody = Nobody
  None = None
  Callers = {c1}
  Workers = {w1}
  Ops = {"tweet"}
  InitialFollows <- BFollowsA
  RecentLimit = 2
  MaxInTimeline = 3
  Extends <- NoPairs
  MaxTries = 3
  Timeouts = TRUE
  MaxPosts = 1
  MaxFollowCmds = 0
  RacingPosts = 1
  RacingFollows = 0
  MaxCrashes = 1
  MaxReruns = 1
  MaxFaults = 0
INVARIANTS
  FinishedIsDelivered
CHECK_DEADLOCK FALSE
