CONSTANTS
  Lists = {l1}
  Items = {i1, i2}
  Requests = {r1, r2}
  MaxBegun = 4
  MaxPos = 1
  MaxFaults = 2
SPECIFICATION FairSpec
INVARIANTS
  TypeOK
  OneRunner
  ItemOnce
  InOrder
  EditsKept
PROPERTIES
  OutcomeTellsItems
  RunEnds
CHECK_DEADLOCK FALSE
