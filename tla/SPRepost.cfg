CONSTANTS
  NPosts = 1
  Generators = {g1}
  Deciders = {d1}
  MaxOpen = 1
  MaxAsks = 2
  Quoting <- MCQuoted
  Connected = TRUE
  Interrupts = FALSE
SPECIFICATION Spec
PROPERTY PublishedNotReposted
CHECK_DEADLOCK FALSE
