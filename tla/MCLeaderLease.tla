---------------------------- MODULE MCLeaderLease ----------------------------
EXTENDS LeaderLease, TLC

CONSTANTS p1, p2

PeerSymmetry == Permutations(Peer)

=============================================================================
