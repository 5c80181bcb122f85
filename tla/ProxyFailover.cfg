SPECIFICATION FairSpec
CONSTANTS
  s1 = s1
  s2 = s2
  r1 = r1
  r2 = r2
  k1 = k1
  Nil = Nil
  Site = {s1, s2}
  Front = {s1}
  Request = {r1, r2}
  KNode = {k1}
  LargeRequest = {r2}
  LargeAnswer = {r2}
  MaxLists = 2
  MaxEnds = 1
INVARIANTS
  TypeOK
  RefusedWithoutAnswer
  ClientsAttended
PROPERTIES
  ImplementsFailover
  ClientsHearBack
CHECK_DEADLOCK FALSE
