SPECIFICATION Spec
CONSTANTS
  n1 = n1
  n2 = n2
  c1 = c1
  c2 = c2
  Nil = Nil
  Node = {n1, n2}
  Cmd = {c1, c2}
  FetchId = {1, 2}
  MaxElections = 1
  MaxCalls = 3
  MaxLog = 3
  MaxRestarts = 0
  MaxEvents = 3
SYMMETRY Symmetry
INVARIANTS
  CatchUpAgrees
CHECK_DEADLOCK FALSE
