SPECIFICATION Spec
CONSTANTS
  Clients = {a}
  serverSocket = serverSocket
  MsgSize = 2
  SendSlots = 2
  Cap = 3
  Backlog = 1
  EagerClose = TRUE
  MaxKeys = 4
CHECK_DEADLOCK FALSE
INVARIANTS
  BuffersBounded
  OnlyWelcome
  KeypressesInOrder
  NothingLost
  ReadsAnnounced
PROPERTIES
  ImplementsKeyStream
