CONSTANTS
  NTurns = 2
  MaxRounds = 2
  MaxBatch = 2
  Cuts = {1}
SPECIFICATION FairSpec
INVARIANTS
  TypeOK
  ToldTruth
  BridgeInPlace
PROPERTY TurnEnds
CHECK_DEADLOCK FALSE
