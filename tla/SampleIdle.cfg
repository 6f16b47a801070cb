SPECIFICATION Spec
CONSTANTS
  Pid = {1, 2}
  MaxFlt = 1
  MaxCalls = 3
  Rounds = 3
CHECK_DEADLOCK FALSE
INVARIANTS IdleNotInserted
