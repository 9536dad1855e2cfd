-------------------------- MODULE MCTrialAdmission --------------------------
EXTENDS TrialAdmission, TLC

CONSTANTS t1, t2, t3, p1, b1, b2, c1, c2

\* Two trials of two budgets compete for the one slot of a permit; a trial of
\* the synthetic controls wants the number that one of them has.
ThePermitOf == (t1 :> p1) @@ (t2 :> p1) @@ (t3 :> NoPermit)
TheBudgetOf == (t1 :> b1) @@ (t2 :> b2) @@ (t3 :> b2)
TheNumberOf == (t1 :> 1) @@ (t2 :> 1) @@ (t3 :> 1)
TheTotal == (b1 :> 1) @@ (b2 :> 1)
TheFixed == p1 :> 1
=============================================================================
