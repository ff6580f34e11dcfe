SPECIFICATION Spec
CONSTANTS
  Clients = {a, b}
  server = server
  MaxLines = 2
  Body <- Lines2
  Lossy = FALSE
  Duplicating = FALSE
  Kills = TRUE
CHECK_DEADLOCK FALSE
PROPERTIES
  EchoesWhatCame
