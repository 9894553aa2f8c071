CONSTANTS
  Context = {c1, c2}
  Namespace = {"default"}
  Kind = {"pods", "nodes"}
  Landing = "pods"
  Extras = {"nodes"}
  Found <- MCFound
  Served <- MCServed
  MaxActs = 2
  MaxSaves = 2
  MaxStarts = 1
  Themes = {"t1", "t2"}
  Default = "t1"
  MaxPicks = 2
  Updaters = {"u1", "u2"}
  MaxBuild = 2
SPECIFICATION Spec
SYMMETRY Symmetry
INVARIANTS
  SavesCarryOneAnother
  PicksStayWritten
  BinaryIsWhole
PROPERTIES
  MemoryYields
CHECK_DEADLOCK FALSE
