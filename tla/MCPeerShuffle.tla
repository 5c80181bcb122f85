---------------------------- MODULE MCPeerShuffle ----------------------------
EXTENDS PeerShuffle, TLC

CONSTANTS g1, g2, p1, p2, p3

TwoPeers   == <<p1, p2>>
ThreePeers == <<p1, p2, p3>>

GoroutineSymmetry == Permutations(Goroutine)
=============================================================================
