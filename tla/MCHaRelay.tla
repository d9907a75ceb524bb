----------------------------- MODULE MCHaRelay -----------------------------
EXTENDS HaRelay

CONSTANTS n1, n2
=============================================================================
