------------------------- MODULE MCClusterAnnounce -------------------------
EXTENDS ClusterAnnounce

\* The node port of the service the CLI creates, alone or with one whose node
\* port is the first one's proxy port.
PocPort    == {30010}
ShiftApart == {30010, 30110}
=============================================================================
