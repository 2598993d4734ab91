\* Two callers and a worker: two tweets and a follow command in every order, and longer
\* histories of one call at a time, as VoldemortTweetTest makes them.
SPECIFICATION Spec
CONSTANTS
  a = a
  b = b
  RacingPosts = 2
  RacingFollows = 1
  Users = {a, b}
  Strangers = {s}
  Nobody = Nobody
  None = None
  Callers = {c1, c2}
  Workers = {w1}
  Ops = {"tweet", "start", "stop"}
  InitialFollows <- NoPairs
  RecentLimit = 3
  MaxInTimeline = 4
  Extends <- NoPairs
  MaxTries = 3
  Timeouts = TRUE
  MaxPosts = 3
  MaxFollowCmds = 3
  MaxCrashes = 0
  MaxReruns = 0
  MaxFaults = 0
INVARIANTS
  TypeOK
  IdsUnique
  FollowsAgree
  TimelinesRight
PROPERTIES
  KeepsBoard
SYMMETRY SymmetryOfUsers
CHECK_DEADLOCK FALSE
