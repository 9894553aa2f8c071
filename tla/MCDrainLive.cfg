SPECIFICATION FairSpec
CONSTANTS
  Node = {n1, n2}
  Pod = {1}
  Template <- Mixed
  ForceDrain = FALSE
  IgnoreDaemonSets = TRUE
  DeleteEmptyDirData = FALSE
  MaxUid = 2
  MaxGen = 2
  MaxFaults = 1
PROPERTIES
  CancelledDrainsEnd
  DrainsAreReported
CHECK_DEADLOCK FALSE
