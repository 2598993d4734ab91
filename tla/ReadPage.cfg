\* A page of at most four tweets, three threads of the pool, an array of three.
SPECIFICATION Spec
CONSTANTS
  Pool = {t1, t2, t3}
  MaxLength = 4
  Starts = {0, 1, 2}
  Counts = {2, 4}
  Capacity = 3
  Dates <- DatesOfPlaces
  MaxFaults = 1
INVARIANTS
  AnswerIsOfThePage
  OnlyRacesLose
SYMMETRY Symmetry
CHECK_DEADLOCK FALSE
