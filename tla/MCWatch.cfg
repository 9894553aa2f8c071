SPECIFICATION Spec
CONSTANTS
  Uid = {u1, u2}
  Row = {r1}
  Absent = Absent
  MaxRV = 2
  Buf = 1
  MaxFaults = 2
SYMMETRY Symmetry
INVARIANTS
  TypeOK
  TableIsSnapshot
PROPERTIES
  PromiseSpec
