SPECIFICATION FairSpec
CONSTANTS
  Port <- ShiftApart
  Shift = 100
  Committed = {30010}
  Foreign = {30210}
  MaxWaiting = 2
  MaxStarting = 2
  Nothing = Nothing
INVARIANTS
  TypeOK
  SocketsKept
  PortsKeepRunning
PROPERTIES
  StaleSocketsClose
  ServicesServed
