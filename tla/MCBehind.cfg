SPECIFICATION Spec
CONSTANTS
  Kind = {k1, k2, k3}
  Answer <- MCAnswer
  Limit = 3
  Slots = 2
  Buf = 1
  MaxKinds = 2
  ListLimit = 2
  MaxListKeys = 3
  MaxLines = 3
  TailLines = 2
  LogBuf = 1
  MaxFaults = 2
  Torn = TRUE
  MaxForwards = 2
  MaxClusters = 2
  MaxSelections = 3
  MaxKeys = 4
INVARIANTS
  TailedStreamIsTheLog
  ForwardsAreAccountedFor
  LoginsStayHome
PROPERTIES
  EndIsTrue
  EverythingEnds
CHECK_DEADLOCK FALSE
