SPECIFICATION Spec
CONSTANTS
  Context = {c1, c2, c3}
  Uses = {"search", "namespaces"}
  MaxOpens = 3
  MaxSwitches = 3
SYMMETRY Symmetry
VIEW Future
INVARIANTS
  LiveIsCurrent
PROPERTIES
  LastAskedWins
CHECK_DEADLOCK FALSE
