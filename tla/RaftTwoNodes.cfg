SPECIFICATION Spec
CONSTANTS
  n1 = n1
  n2 = n2
  c1 = c1
  c2 = c2
  Nil = Nil
  Node = {n1, n2}
  Cmd = {c1, c2}
  FetchId = {1}
  MaxElections = 2
  MaxCalls = 2
  MaxLog = 2
  MaxRestarts = 1
  MaxEvents = 4
SYMMETRY Symmetry
INVARIANTS
  TypeOK
  StableLogsAgree
  ObjectsLoggedOnce
  LeaderHasMajority
  EntriesConfirmed
  FetchedEntryIsSendersEntry
PROPERTIES
  ImplementsReplicatedLog
CHECK_DEADLOCK FALSE
