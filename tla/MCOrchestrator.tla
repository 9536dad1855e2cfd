--------------------------- MODULE MCOrchestrator ---------------------------
EXTENDS Orchestrator, TLC

CONSTANTS w1, w2

\* RetryDelay for two attempts.
DelayOne == <<1>>

WorkerSymmetry == Permutations({w1, w2})
=============================================================================
