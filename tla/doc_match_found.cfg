SPECIFICATION FairSpec
CONSTANTS
  Size = 3
  Entries <- SomeRoutes
  Dests <- Addresses
  Masked <- BitAnd
CHECK_DEADLOCK FALSE
PROPERTY MatchIsFound
