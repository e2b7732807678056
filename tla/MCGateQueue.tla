----------------------------- MODULE MCGateQueue -----------------------------
EXTENDS GateQueue

CONSTANTS j1, j2, w1, w2

=============================================================================
