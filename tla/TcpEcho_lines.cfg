SPECIFICATION FairSpec
CONSTANTS
  Clients = {a, b}
  Backlog = 1
  Cut = {a}
  MsgSize = 3
  HelloSize = 2
  MaxLines = 2
CHECK_DEADLOCK FALSE
INVARIANTS
  TypeOK
  EchoKept
  NoMutualWait
  ExitsAfterQuit
PROPERTIES
  AnswerComes
  ImplementsEcho
