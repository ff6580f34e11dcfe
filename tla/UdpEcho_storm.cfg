SPECIFICATION Spec
CONSTANTS
  Clients = {a, b}
  server = server
  MaxLines = 2
  Body <- Lines2
  Lossy = TRUE
  Duplicating = TRUE
  Kills = TRUE
CHECK_DEADLOCK FALSE
SYMMETRY Symmetry
INVARIANTS
  OwnAnswers
