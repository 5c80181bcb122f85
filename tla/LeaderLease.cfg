SPECIFICATION Spec
CONSTANTS
  p1 = p1
  p2 = p2
  Nil = Nil
  Peer = {p1, p2}
  TTL = 12
  HB = 3
  Round = 1
  Delay = 2
  MaxLost = 1
SYMMETRY PeerSymmetry
INVARIANTS
  TypeOK
  SilenceNoticed
PROPERTIES
  LiveLeaderKept
