SPECIFICATION FairSpec
CONSTANTS
  Run = {r1, r2}
  Row = {1, 3}
  Psid <- TwoOfOne
  Limit = 1
  MaxStops = 1
CHECK_DEADLOCK FALSE
INVARIANTS AnomalyIsWarned
PROPERTIES StopStops RowClassified
