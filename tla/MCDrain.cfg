SPECIFICATION Spec
CONSTANTS
  Node = {n1, n2}
  Pod = {1, 2}
  Template <- Managing
  ForceDrain = FALSE
  IgnoreDaemonSets = TRUE
  DeleteEmptyDirData = FALSE
  MaxUid = 3
  MaxGen = 2
  MaxFaults = 1
SYMMETRY Symmetry
INVARIANTS
  TypeOK
  DrainedMeansGone
  RefusalLeavesNoCordon
CHECK_DEADLOCK FALSE
