SPECIFICATION Spec
CONSTANTS
  n1 = n1
  n2 = n2
  g1 = g1
  g2 = g2
  g3 = g3
  None = None
  NoPgd = NoPgd
  MaxPid = 2
  Names <- TwoNames
  Pgds <- ThreePgds
  KernelPgds <- NoMm
SYMMETRY Interchangeable
CHECK_DEADLOCK FALSE
INVARIANTS ListAndFile CreditedToCaller CleanExitLeavesNoNode
PROPERTIES IsTable
