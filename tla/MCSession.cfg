SPECIFICATION Spec
CONSTANTS
  Context = {c1, c2}
  Uses = {"view", "logs", "exec", "cordon", "delete", "scale", "drain", "forward", "edit", "children", "relations", "unhealthy", "resource", "usage", "namespaces"}
  MaxOpens = 2
  MaxSwitches = 1
SYMMETRY Symmetry
VIEW Future
INVARIANTS
  TypeOK
  SurfacesShowCurrent
  PromptedWritesStayHome
CHECK_DEADLOCK FALSE
