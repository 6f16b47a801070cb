SPECIFICATION Spec
CONSTANTS
  a1 = a1
  a2 = a2
  NoAddr = NoAddr
  SyscallLen = 4
  Addr <- MCAddr
  Sign <- SharedSign
  Vcpus <- OneVcpu
  CheckPeriod = 3
  PipeCap = 1
  FatherMayDie = FALSE
  MayBeKilled = FALSE
  MaxLives = 1
CHECK_DEADLOCK FALSE
INVARIANTS InterruptRecoversEntry
