-------------------------- MODULE MCPendingChanges --------------------------
EXTENDS PendingChanges

CONSTANTS e1, a, b, q1, q2, t1, t2
=============================================================================
