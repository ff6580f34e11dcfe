SPECIFICATION FairSpec
CONSTANTS
  Clients = {a, b}
  server = server
  MaxLines = 3
  Body <- Lines3
  Lossy = FALSE
  Duplicating = FALSE
  Kills = FALSE
CHECK_DEADLOCK FALSE
INVARIANTS
  TypeOK
  InStep
  EchoesAwaited
PROPERTIES
  ImplementsEcho
  SentIsAnswered
