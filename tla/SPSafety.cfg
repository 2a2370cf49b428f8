CONSTANTS
  NPosts = 2
  Generators = {g1}
  Deciders = {d1, d2}
  MaxOpen = 2
  MaxAsks = 2
  Quoting <- MCAny
  Connected = TRUE
  Interrupts = TRUE
SPECIFICATION FairSpec
INVARIANTS
  TypeOK
  OneYesOnePost
  ApprovedInHand
PROPERTIES
  OnlyWanted
  ReplySettles
CHECK_DEADLOCK FALSE
