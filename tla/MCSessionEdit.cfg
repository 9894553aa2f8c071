SPECIFICATION Spec
CONSTANTS
  Context = {c1, c2}
  Uses = {"edit"}
  MaxOpens = 2
  MaxSwitches = 1
SYMMETRY Symmetry
INVARIANTS
  EditsStayHome
CHECK_DEADLOCK FALSE
