SPECIFICATION Spec
CONSTANTS
  Workload = {w}
  PodName = {p1, p2}
  Service = {s}
  NodeName = {n}
  Verb = {"delete", "drain", "scale", "restart", "forward"}
  MaxAsks = 3
  MaxInbox = 3
SYMMETRY Symmetry
INVARIANTS
  ScalesWhatWasNamed
CHECK_DEADLOCK FALSE
