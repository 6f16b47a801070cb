SPECIFICATION MCSpec
CONSTANTS
  Pid = {1, 2}
  MaxFlt = 1
  MaxCalls = 3
  Rounds = 3
  Mod = {m1, m2, m3}
  MaxModCalls = 2
  Proc = {1, 2}
  Cut = 2
  Lag = 1
  MaxReports = 5
  MaxConns = 2
  MaxChanges = 1
  MaxFaults = 1
SYMMETRY ModSymmetry
CHECK_DEADLOCK FALSE
INVARIANTS Conserved RowsAreRight
  ModuleNoFalseAlarm ModuleHiddenIsReported FeedNoFalseAlarm FeedHiddenIsWarned
