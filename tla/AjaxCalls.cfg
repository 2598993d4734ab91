\* Two requests of every kind, each made anywhere; one callback throws, two aborts.
SPECIFICATION FairSpec
CONSTANTS
  Reqs = {r1, r2}
  Settings <- MCSettings
  None = None
  MaxThrows = 1
  MaxAborts = 2
INVARIANTS
  ActiveCounts
  OneAnswer
PROPERTIES
  PollingEnds
CHECK_DEADLOCK FALSE
