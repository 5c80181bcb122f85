SPECIFICATION Spec
CONSTANTS
  n1 = n1
  n2 = n2
  n3 = n3
  n4 = n4
  c1 = c1
  Nil = Nil
  Node = {n1, n2, n3, n4}
  Cmd = {c1}
  FetchId = {}
  MaxElections = 1
  MaxCalls = 1
  MaxLog = 1
  MaxRestarts = 0
  MaxEvents = 2
SYMMETRY Symmetry
INVARIANTS
  LeaderHasMajority
  EntriesConfirmed
CHECK_DEADLOCK FALSE
