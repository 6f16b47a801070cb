SPECIFICATION Spec
CONSTANTS
  MaxPid = 2
  Kworker = {1}
  PipeCap = 2
  MaxCalls = 2
  Rounds = 2
CHECK_DEADLOCK FALSE
INVARIANTS LossExplained NoFalseAlarm HiddenIsReported
