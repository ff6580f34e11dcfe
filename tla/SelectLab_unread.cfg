SPECIFICATION FairSpec
CONSTANTS
  Clients = {a, b}
  Backlog = 1
  Cut = {}
  MsgSize = 1
  MaxClients = 1
  MaxLines = 1
CHECK_DEADLOCK FALSE
PROPERTIES
  LinesRead
