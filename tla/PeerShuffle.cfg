SPECIFICATION Spec
CONSTANTS
  g1 = g1
  g2 = g2
  Nobody = Nobody
  p1 = p1
  p2 = p2
  p3 = p3
  Goroutine = {g1, g2}
  Peer = {p1, p2, p3}
  PeerIps <- ThreePeers
SYMMETRY GoroutineSymmetry
INVARIANTS
  TypeOK
  PeersKept
