SPECIFICATION Spec
CONSTANTS
  n1 = n1
  n2 = n2
  n3 = n3
  Nil = Nil
  Node = {n1, n2, n3}
  Cmd = {}
  FetchId = {1}
  MaxElections = 2
  MaxCalls = 0
  MaxLog = 0
  MaxRestarts = 0
  MaxEvents = 2
SYMMETRY Symmetry
INVARIANTS
  OneVotePerTerm
CHECK_DEADLOCK FALSE
