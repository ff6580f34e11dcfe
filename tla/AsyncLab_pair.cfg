SPECIFICATION FairSpec
CONSTANTS
  Clients = {a, b}
  serverSocket = serverSocket
  MsgSize = 1
  SendSlots = 1
  Cap = 1
  Backlog = 1
  EagerClose = FALSE
  MaxKeys = 1
CHECK_DEADLOCK FALSE
INVARIANTS
  TypeOK
  NoStrayMessages
PROPERTIES
  ServerDiesOfReset
  LeavesDrained
  WelcomeArrives
  ClosedClientsLeave
  ServerDrains
  QuittersEnd
