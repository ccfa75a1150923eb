---------------------------- MODULE MCGraphEngine ----------------------------
EXTENDS GraphEngine

CONSTANTS k1, k2, k3, k4

MCKeys == {k1, k2, k3, k4}
=============================================================================
