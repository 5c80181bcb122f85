------------------------------ MODULE MCRaft ------------------------------
EXTENDS Raft, TLC

Symmetry == Permutations(Node) \cup Permutations(Cmd)
=============================================================================
