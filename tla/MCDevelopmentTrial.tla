------------------------- MODULE MCDevelopmentTrial -------------------------
EXTENDS DevelopmentTrial, TLC

CONSTANTS t1, p1, b1, c1, e1, e2, r1, r2

ThePermitOf == t1 :> p1
TheBudgetOf == t1 :> b1
TheNumberOf == t1 :> 1
TheTotal == b1 :> 1
TheFixed == p1 :> 1

Symmetry == Permutations({e1, e2}) \cup Permutations({r1, r2})
=============================================================================
