CONSTANTS
  NTurns = 2
  MaxRounds = 2
  MaxBatch = 1
  Cuts = {}
SPECIFICATION Spec
INVARIANT ActiveSession
CHECK_DEADLOCK FALSE
