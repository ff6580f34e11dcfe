SPECIFICATION FairSpec
CONSTANTS
  Clients = {a, b}
  server = server
  MaxMoves = 3
  MaxStarts = 2
  Body <- Positions3
  Lossy = FALSE
  Duplicating = FALSE
CHECK_DEADLOCK FALSE
INVARIANTS
  TypeOK
  OwnPositions
PROPERTIES
  InStep
  GoesOn
