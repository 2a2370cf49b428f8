CONSTANTS
  Conversations = {k1}
  Recorders = {r1, r2}
  Rollbackers = {b1}
  Paths = {p1, p2}
  Contents = {a}
  MaxSeq = 3
SPECIFICATION Spec
SYMMETRY MCSymmetry
INVARIANTS
  TypeOK
  OpsOnPredecessor
PROPERTY
  ImplementsLog
CHECK_DEADLOCK FALSE
