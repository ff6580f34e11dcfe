SPECIFICATION FairSpec
CONSTANTS
  Clients = {a, b}
  Backlog = 1
  Cut = {}
  HeaderSize = 2
  Base = 3
  Sizes <- SomeSizes
  MaxRead = 9
  Wordy = {b}
CHECK_DEADLOCK FALSE
INVARIANTS
  TypeOK
  LinesPrinted
  HeadersInStep
  NoMutualWait
PROPERTIES
  HeaderComesBack
