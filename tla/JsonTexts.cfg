\* Four values, three calls, each inside an earlier one or after it.
SPECIFICATION Spec
CONSTANTS
  Values <- MCValues
  Spaces = {0, 2}
  Selected <- MCSelected
  Dropped = {"password", "1"}
  MaxCalls = 3
INVARIANTS
  
  RevivedThroughout
CHECK_DEADLOCK FALSE
