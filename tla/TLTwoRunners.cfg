CONSTANTS
  Lists = {l1}
  Items = {i1}
  Requests = {r1, r2}
  MaxBegun = 3
  MaxPos = 0
  MaxFaults = 0
SPECIFICATION Spec
SYMMETRY MCSymmetry
INVARIANT OneGoroutine
CHECK_DEADLOCK FALSE
