\* Two tweets to a follower, a crash, commands run again, a failed call.
SPECIFICATION FairSpec
CONSTANTS
  a = a
  b = b
  Users = {a, b}
  Strangers = {}
  Nobody = Nobody
  None = None
  Callers = {c1, c2}
  Workers = {w1}
  Ops = {"tweet"}
  InitialFollows <- BFollowsA
  RecentLimit = 2
  MaxInTimeline = 3
  Extends <- NoPairs
  MaxTries = 3
  Timeouts = TRUE
  MaxPosts = 2
  MaxFollowCmds = 0
  RacingPosts = 2
  RacingFollows = 0
  MaxCrashes = 1
  MaxReruns = 1
  MaxFaults = 1
INVARIANTS
  AckedIsStored
  ShownOnce
PROPERTIES
  WorkEnds
CHECK_DEADLOCK FALSE
