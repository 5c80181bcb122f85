SPECIFICATION Spec
CONSTANTS
  Port <- PocPort
  Shift = 100
  Committed = {30010}
  Foreign = {}
  MaxWaiting = 2
  MaxStarting = 2
  Nothing = Nothing
INVARIANTS
  RegisteredPortsRun
