SPECIFICATION Spec
CONSTANTS
  n1 = n1
  n2 = n2
  c1 = c1
  Nil = Nil
  Node = {n1, n2}
  Cmd = {c1}
  FetchId = {1}
  MaxElections = 2
  MaxCalls = 3
  MaxLog = 3
  MaxRestarts = 0
  MaxEvents = 3
SYMMETRY Symmetry
INVARIANTS
  ForwardedWritesHaveQuorum
CHECK_DEADLOCK FALSE
