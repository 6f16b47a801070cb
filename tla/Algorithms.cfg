SPECIFICATION MCSpec
CONSTANTS
  MaxPid = 4
  Pid <- MCPid
  LayerPid = {0, 1, 2, 3}
  Missing = 9
  MaxLength = 4
  N = 4
  Places = {1, 2, 3}
  Dist = {0, 1, 2}
  K = 2
  Point <- MCPoint
  Slot = {s1, s2, s3, s4, s5}
  Oldest = s1
  ListHead = head
  MaxChanges = 5
CHECK_DEADLOCK FALSE
INVARIANTS MergeIsRight LayerIsDepth KNearest ScoresAreRight WalkReadsStayers
PROPERTIES Terminates WalkEnds
