SPECIFICATION Spec
CONSTANTS
  Clients = {a, b}
  Backlog = 1
  Cut = {b}
  MsgSize = 3
  Lines <- SomeLines
  Junk <- SomeJunk
  MaxLines = 2
CHECK_DEADLOCK FALSE
INVARIANTS
  EchoesEverything
