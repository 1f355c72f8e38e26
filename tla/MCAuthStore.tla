------------------------------ MODULE MCAuthStore ------------------------------
EXTENDS AuthStore, TLC

CONSTANTS u1, t1, t2, t3, c1, c2

Symmetry == Permutations(Tokens) \cup Permutations(Calls)
=============================================================================
