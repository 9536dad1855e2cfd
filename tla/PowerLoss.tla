----------------------------- MODULE PowerLoss -----------------------------
(***************************************************************************)
(* The orchestrator on a machine that can lose power.  A committed ledger  *)
(* transaction survives (journal DELETE, synchronous EXTRA); a linked      *)
(* artifact survives once its directory was synced, which publish_canonical *)
(* does after its own link and on no other path: neither an artifact that  *)
(* was found in place nor one whose publisher died or failed between link  *)
(* and fsync is synced by whoever adopts it.                               *)
(***************************************************************************)
EXTENDS Orchestrator

VARIABLE synced     \* artifacts whose directory entry is on stable storage

powerVars == <<log, claims, receipts, artifacts, source, clock,
               pc, wnow, held, payload, failure, synced>>

PowerInit == Init /\ synced = {}

\* The fsync follows the worker's own link; a worker that fails or dies in
\* between leaves the link unsynced.
SyncAfterLink(w) ==
    synced' = IF pc[w] = "publish" /\ pc'[w] = "done"
              THEN synced \cup (artifacts' \ artifacts) ELSE synced

LosePower ==
    /\ \E lost \in SUBSET (artifacts \ synced) : artifacts' = artifacts \ lost
    /\ pc' = [w \in Workers |-> "idle"]
    /\ wnow' = [w \in Workers |-> 0]
    /\ held' = [w \in Workers |-> NoClaim]
    /\ payload' = [w \in Workers |-> 0]
    /\ failure' = [w \in Workers |-> "NONE"]
    /\ UNCHANGED <<ledger, source, clock, synced>>

PowerNext ==
    \/ \E w \in Workers : Step(w) /\ SyncAfterLink(w)
    \/ \E now \in CallerTimes :
          (Operator(now) \/ \E w \in Workers : Recover(w, now)) /\ UNCHANGED synced
    \/ (SourceChanges \/ ClockTicks) /\ UNCHANGED synced
    \/ LosePower

PowerSpec == PowerInit /\ [][PowerNext]_powerVars

\* "Filesystem publication and SQLite receipt persistence are separate
\* recoverable durability boundaries": a receipt the ledger accepted has its
\* artifact on disk, also after a loss of power.
ReceiptKeepsArtifact ==
    \A r \in Runs : \A i \in DOMAIN receipts[r] : ReadBack(r, i)
=============================================================================
