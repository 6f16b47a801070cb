SPECIFICATION FairSpec
CONSTANTS
  a1 = a1
  a2 = a2
  NoAddr = NoAddr
  SyscallLen = 4
  Addr <- MCAddr
  Sign <- PlainSign
  Vcpus <- OneVcpu
  CheckPeriod = 2
  PipeCap = 1
  FatherMayDie = TRUE
  MayBeKilled = TRUE
  MaxLives = 2
CHECK_DEADLOCK FALSE
INVARIANTS RestoredWhenStopped ArmedUnlessStepping HookAgeBounded
PROPERTIES TrappedGetsOn
