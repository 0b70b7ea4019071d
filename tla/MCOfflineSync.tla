---------------------------- MODULE MCOfflineSync ----------------------------
EXTENDS OfflineSync, TLC

CONSTANTS a, b, c, s1, s2, m1, m2

MCKeys == TillKeys
Symm ==
    UNION {Permutations({a, b, c}), Permutations({s1, s2}), Permutations({m1, m2})}
=============================================================================
