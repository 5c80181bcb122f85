SPECIFICATION FairSpec
CONSTANTS
  n1 = n1
  n2 = n2
  c1 = c1
  c2 = c2
  Nil = Nil
  Node = {n1, n2}
  Cmd = {c1, c2}
  FetchId = {1}
  MaxElections = 1
  MaxCalls = 2
  MaxLog = 2
  MaxRestarts = 0
  MaxEvents = 3
PROPERTIES
  EveryWriteAnswered
  MembersCatchUp
CHECK_DEADLOCK FALSE
