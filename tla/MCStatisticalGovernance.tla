----------------------- MODULE MCStatisticalGovernance -----------------------
EXTENDS StatisticalGovernance, TLC

CONSTANTS p1, o1, o2

\* The proposal must be admitted early.  Hashes are ordered against identifiers.
TheValidUntil == p1 :> 2
TheHashes == [h \in Hypotheses |-> 4 - h]

\* Every window closes at the time it opens, and before the next one opens.
TheStarts == <<2, 3, 4>>
TheEnds == <<2, 3, 4>>

Symmetry == Permutations({o1, o2})
=============================================================================
