----------------------------- MODULE MCTillCaches -----------------------------
EXTENDS TillCaches

CONSTANTS v1, s1
=============================================================================
