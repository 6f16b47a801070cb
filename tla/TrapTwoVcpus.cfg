SPECIFICATION FairSpec
CONSTANTS
  a1 = a1
  a2 = a2
  NoAddr = NoAddr
  SyscallLen = 4
  Addr <- MCAddr
  Sign <- PlainSign
  Vcpus <- TwoVcpus
  CheckPeriod = 1
  PipeCap = 1
  FatherMayDie = FALSE
  MayBeKilled = FALSE
  MaxLives = 1
CHECK_DEADLOCK FALSE
INVARIANTS RestoredWhenStopped
PROPERTIES InterruptStops
