SPECIFICATION FairSpec
CONSTANTS
  a1 = a1
  a2 = a2
  NoAddr = NoAddr
  SyscallLen = 4
  Addr <- MCAddr
  Sign <- PlainSign
  Vcpus <- OneVcpu
  CheckPeriod = 3
  PipeCap = 1
  FatherMayDie = TRUE
  MayBeKilled = FALSE
  MaxLives = 1
CHECK_DEADLOCK FALSE
PROPERTIES InterruptStops
