\* Two authors; a timeline that can reach its limit, and getRecentTweets that can miss tweets.
SPECIFICATION ViewSpec
CONSTANTS
  a = a
  b = b
  Authors = {a, b}
  MaxInTimeline = 4
  Extends <- Plain
  RecentLimit = 2
  MaxIndex = 3
INVARIANTS
  RunAgainBelowLimit
  ShowsWhatIsDue
PROPERTIES
  OrderKept
