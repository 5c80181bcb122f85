--------------------------- MODULE MCProxyFailover ---------------------------
EXTENDS ProxyFailover

CONSTANTS s1, s2, r1, r2, k1

=============================================================================
