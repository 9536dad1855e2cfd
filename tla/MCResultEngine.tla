--------------------------- MODULE MCResultEngine ---------------------------
(* One development trial, one control, and everybody who writes for them.     *)
EXTENDS ResultEngine, TLC

CONSTANTS t1, t2, p1, b1, b2, c1, e1, e2, g1, g2, r1, r2

ThePermitOf == t1 :> p1 @@ t2 :> NoPermit
TheBudgetOf == t1 :> b1 @@ t2 :> b2
TheNumberOf == t1 :> 1 @@ t2 :> 1
TheTotal == b1 :> 1 @@ b2 :> 1
TheFixed == p1 :> 1

\* Bound: the trials of the two kinds are looked at one at a time, the control
\* without permits.  They share the tables of the ledger and no row of them.
OneKind == ~ (b2 \in budgets /\ (b1 \in budgets \/ Issued(p1)))

Symmetry == Permutations({e1, e2}) \cup Permutations({g1, g2}) \cup Permutations({r1, r2})
=============================================================================
