SPECIFICATION FairSpec
CONSTANTS
  n1 = n1
  n2 = n2
  Nil = Nil
  Node = {n1, n2}
  Cmd = {}
  FetchId = {1}
  MaxElections = 2
  MaxCalls = 0
  MaxLog = 0
  MaxRestarts = 0
  MaxEvents = 2
PROPERTIES
  DeposedLeaderStepsDown
CHECK_DEADLOCK FALSE
