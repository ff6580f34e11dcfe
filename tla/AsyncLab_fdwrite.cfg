SPECIFICATION FairSpec
CONSTANTS
  Clients = {a}
  serverSocket = serverSocket
  MsgSize = 2
  SendSlots = 2
  Cap = 2
  Backlog = 1
  EagerClose = FALSE
  MaxKeys = 2
CHECK_DEADLOCK FALSE
PROPERTIES
  SendBufDrains
