SPECIFICATION MCSpec
CONSTANTS
  Run = {r1}
  Row = {1, 2, 3}
  state_p = 20
  state_c = 3
  state_m = 1
  Factors = {0, 2}
  Score = {5, 10, 101}
  MaxStops = 2
  MaxErrors = 2
  Stored = {1, 2, 3, 4}
  First = 3
  Stages <- TwoStages
  Last = 5
  MaxFaults = 1
CHECK_DEADLOCK FALSE
INVARIANTS CommitsAgree EndsClassified WarnedOnce
PROPERTIES AnomaliesAnswered StateStops RowsGetClassified
