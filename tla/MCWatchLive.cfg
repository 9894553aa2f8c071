SPECIFICATION FairSpec
CONSTANTS
  Uid = {u1}
  Row = {r1}
  Absent = Absent
  MaxRV = 2
  Buf = 1
  MaxFaults = 2
PROPERTIES
  CatchesUp
  NothingLeaks
