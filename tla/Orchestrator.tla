---------------------------- MODULE Orchestrator ----------------------------
(***************************************************************************)
(* The durable observation orchestrator (offchain/orchestration): several  *)
(* foreground worker processes call tick() against one SQLite ledger and   *)
(* one directory of immutable artifacts.                                   *)
(*                                                                         *)
(* Every ledger mutation is one BEGIN IMMEDIATE transaction, hence one     *)
(* action here; between the transactions of a tick, and between the        *)
(* filesystem calls of a step, any other process may run.  A tick is       *)
(*   Recover -> ClaimOne -> Prepare -> Publish -> Finalize{Success,Failure} *)
(* and may stop anywhere (Abandon).  The caller passes the time of a tick  *)
(* explicitly and the whole tick uses that one value, however long it      *)
(* runs: wnow[w] is chosen in Recover and is stale from then on.           *)
(***************************************************************************)
EXTENDS WorkflowHistory, FiniteSetsExt

CONSTANTS Runs,         \* run ids; natural numbers, ordered as the ids are
          Workers,      \* worker processes, each with its own worker_id
          Lease,        \* lease_duration in seconds
          Skew,         \* bound on the error of a caller's clock
          MaxSource,    \* bound: states the observed research ledger goes through
          MaxTime,      \* bound on the clock, for TLC
          Slack,        \* bound: how far the clock runs ahead of the ledger
          NoClaim       \* held by a worker without a claim

ASSUME RunsAssumption == Runs \subseteq Nat
ASSUME LeaseAssumption == Lease \in Nat \ {0}
ASSUME SkewAssumption == Skew \in Nat
ASSUME BoundsAssumption == MaxSource \in Nat \ {0} /\ MaxTime \in Nat /\ Slack \in Nat

VARIABLES
    log,        \* [Runs -> Seq(Event)]: workflow_events; <<>> is no such run
    claims,     \* workflow_claims: a set of rows
    receipts,   \* [Runs -> Seq(Receipt)]: workflow_receipts, in step order
    artifacts,  \* files runs/<run>/<step>/result.json that exist
    source,     \* state of the research ledger a capture would observe now
    clock,      \* true time
    pc,         \* what each worker process is doing
    wnow,       \* the explicit time of the worker's current tick
    held,       \* the claim its tick works under, or NoClaim
    payload,    \* content it wants to publish or has published; 0 is none
    failure     \* reason token of its failed action, or "NONE"

ledger == <<log, claims, receipts>>
worker == <<pc, wnow, held, payload, failure>>
vars == <<log, claims, receipts, artifacts, source, clock,
          pc, wnow, held, payload, failure>>

Claim == [run: Runs, step: Steps, attempt: Nat \ {0}, epoch: Nat,
          worker: Workers, claimedAt: Nat, expires: Nat]
Receipt == [step: Steps, version: Nat, at: Nat]
Artifact == [run: Runs, step: Steps, version: Nat]

\* The content of an artifact is the version of the source it derives from:
\* the verification and the manifest are functions of the accepted snapshot.

ASSUME NoClaimAssumption == NoClaim \notin Claim

ClaimsOf(r) == {c \in claims : c.run = r}
Exists(r, s) == \E a \in artifacts : a.run = r /\ a.step = s
Created(r) == log[r] # <<>>
Status(r) == StatusOf(log[r], ClaimsOf(r) # {})
CurrentStep(r) == Len(receipts[r]) + 1
\* Plausible bug: only reported failures use up an attempt, lost leases do not.
NextAttemptFailuresOnly(r) ==
    1 + Cardinality({i \in DOMAIN log[r] : /\ log[r][i].type = "STEP_ATTEMPT_FAILED"
                                            /\ log[r][i].step = CurrentStep(r)})

NextAttempt(r) == ClaimedAttempts(log[r], CurrentStep(r)) + 1
RequestedAt(r) == log[r][1].at

\* _append_event: the time may not precede the run's latest event, and the
\* history is bounded; otherwise the transaction rolls back.
CanAppend(r, n, now) ==
    /\ Len(log[r]) + n <= MaxEvents
    /\ log[r] # <<>> => now >= LastEvent(log[r]).at

----------------------------------------------------------------------------
\* The times a caller may pass: its clock is off by at most Skew.
CallerTimes == {t \in (clock - Skew)..(clock + Skew) : t >= 0}

\* Beyond every deadline and time stamp of the ledger, later times satisfy the
\* same comparisons, except with the time of a tick that has not claimed yet:
\* Slack lets the clock leave such a tick behind.
Horizon ==
    Skew + Slack + Max({0} \cup {c.expires : c \in claims}
                   \cup {LastEvent(log[r]).at : r \in {q \in Runs : Created(q)}}
                   \cup {LastEvent(log[r]).notBefore : r \in {q \in Runs : Created(q)}})

Init ==
    /\ log = [r \in Runs |-> <<>>]
    /\ claims = {}
    /\ receipts = [r \in Runs |-> <<>>]
    /\ artifacts = {}
    /\ source = 1
    /\ clock = 0
    /\ pc = [w \in Workers |-> "idle"]
    /\ wnow = [w \in Workers |-> 0]
    /\ held = [w \in Workers |-> NoClaim]
    /\ payload = [w \in Workers |-> 0]
    /\ failure = [w \in Workers |-> "NONE"]

\* The observed research ledger is mutable and belongs to other programs.
SourceChanges ==
    /\ source < MaxSource
    /\ source' = source + 1
    /\ UNCHANGED <<log, claims, receipts, artifacts, clock, worker>>

ClockTicks ==
    /\ clock < MaxTime
    /\ clock < Horizon
    /\ clock' = clock + 1
    /\ UNCHANGED <<log, claims, receipts, artifacts, source, worker>>

----------------------------------------------------------------------------
(* Operator commands.                                                      *)

\* create_run: a repeated request for the same run changes nothing, one with
\* other inputs is refused; neither is a step.
CreateRun(r, at) ==
    /\ ~Created(r)
    /\ CanAppend(r, 1, at)
    /\ log' = [log EXCEPT ![r] = <<RunEvent("RUN_CREATED", at)>>]
    /\ UNCHANGED <<claims, receipts, artifacts, source, clock, worker>>

\* Plausible bug: the run is ended at once, over the claim of a working step.
CancelRunOverClaim(r, at) ==
    /\ Created(r) /\ ~Terminated(log[r]) /\ CanAppend(r, 2, at)
    /\ log' = [log EXCEPT ![r] = @ \o <<RunEvent("RUN_CANCEL_REQUESTED", at),
                                        RunEvent("RUN_CANCELLED", at)>>]
    /\ UNCHANGED <<claims, receipts, artifacts, source, clock, worker>>

CancelRun(r, at) ==
    LET request == IF CancelRequested(log[r]) THEN <<>>
                   ELSE <<RunEvent("RUN_CANCEL_REQUESTED", at)>>
        settle == IF ClaimsOf(r) = {} THEN <<RunEvent("RUN_CANCELLED", at)>> ELSE <<>>
    IN  /\ Created(r)
        /\ ~Terminated(log[r])
        /\ CanAppend(r, Len(request \o settle), at)
        /\ request \o settle # <<>>
        /\ log' = [log EXCEPT ![r] = @ \o request \o settle]
        /\ UNCHANGED <<claims, receipts, artifacts, source, clock, worker>>

----------------------------------------------------------------------------
(* recover_expired_claims: one transaction over every claim.               *)

\* Plausible bug: the allowance for wrong clocks is made in favour of the recovery.
ExpiredEarly(now) == {c \in claims : c.expires <= now + Skew}

Expired(now) == {c \in claims : c.expires <= now}

RecoveryEvents(c, now) ==
    <<StepEvent("STEP_LEASE_EXPIRED", c, now, "LEASE_EXPIRED")>> \o
    << CASE CancelRequested(log[c.run]) -> RunEvent("RUN_CANCELLED", now)
         [] ~CancelRequested(log[c.run]) /\ c.attempt < MaxAttempts ->
                RetryEvent(c, now, "LEASE_EXPIRED")
         [] OTHER -> StepEvent("RUN_FAILED", c, now, "LEASE_EXPIRED") >>

\* One claim from the future, or one expired claim whose run has a later
\* event, raises CLOCK_REGRESSION and rolls back the recovery of all.
RecoveryAccepted(now) ==
    /\ \A c \in claims : now >= c.claimedAt
    /\ \A c \in Expired(now) : CanAppend(c.run, 2, now)

RecoverExpired(now) ==
    /\ RecoveryAccepted(now)
    /\ log' = [r \in Runs |->
                  IF \E c \in Expired(now) : c.run = r
                  THEN log[r] \o RecoveryEvents(CHOOSE c \in Expired(now) : c.run = r, now)
                  ELSE log[r]]
    /\ claims' = claims \ Expired(now)
    /\ UNCHANGED <<receipts, artifacts, source, clock>>

\* The recover command of the CLI.
OperatorRecover(now) ==
    /\ Expired(now) # {}
    /\ RecoverExpired(now)
    /\ UNCHANGED worker

----------------------------------------------------------------------------
(* tick(worker_id, now).                                                   *)

\* The end of a tick, however it ends.
Rest(w) ==
    /\ pc' = [pc EXCEPT ![w] = "idle"]
    /\ wnow' = [wnow EXCEPT ![w] = 0]
    /\ held' = [held EXCEPT ![w] = NoClaim]
    /\ payload' = [payload EXCEPT ![w] = 0]
    /\ failure' = [failure EXCEPT ![w] = "NONE"]

\* A tick first recovers; if that recovered anything the tick is over.
Recover(w, now) ==
    /\ pc[w] = "idle"
    /\ RecoverExpired(now)
    /\ IF Expired(now) # {}
       THEN UNCHANGED worker
       ELSE /\ pc' = [pc EXCEPT ![w] = "scanned"]
            /\ wnow' = [wnow EXCEPT ![w] = now]
            /\ UNCHANGED <<held, payload, failure>>

Runnable(now) ==
    {r \in Runs :
        /\ Created(r)
        /\ ClaimsOf(r) = {}
        /\ ~Terminated(log[r])
        /\ ~CancelRequested(log[r])
        /\ Status(r) = "WAITING_RETRY" => now >= LastEvent(log[r]).notBefore
        /\ CurrentStep(r) \in Steps}

\* ORDER BY requested_at, run_id.
ComesFirst(r, rs) ==
    \A q \in rs : \/ RequestedAt(r) < RequestedAt(q)
                  \/ RequestedAt(r) = RequestedAt(q) /\ r <= q

NewClaim(w, r, now) ==
    [run |-> r, step |-> CurrentStep(r), attempt |-> NextAttempt(r),
     epoch |-> Len(log[r]) + 1, worker |-> w, claimedAt |-> now,
     expires |-> now + Lease]

\* Only the first runnable run is considered: if its latest event is later
\* than now the transaction fails, whatever comes behind it.
ClaimOne(w) ==
    /\ pc[w] = "scanned"
    /\ \E r \in Runnable(wnow[w]) :
        /\ ComesFirst(r, Runnable(wnow[w]))
        /\ CanAppend(r, 1, wnow[w])
        /\ LET c == NewClaim(w, r, wnow[w])
           IN  /\ log' = [log EXCEPT ![r] =
                             Append(@, StepEvent("STEP_CLAIMED", c, wnow[w], "NONE"))]
               /\ claims' = claims \cup {c}
               /\ held' = [held EXCEPT ![w] = c]
    /\ pc' = [pc EXCEPT ![w] = "prepare"]
    /\ UNCHANGED <<receipts, artifacts, source, clock, wnow, payload, failure>>

\* No runnable run (IDLE), or CLOCK_REGRESSION on the first one.
ClaimNothing(w) ==
    /\ pc[w] = "scanned"
    /\ \A r \in Runnable(wnow[w]) :
        ComesFirst(r, Runnable(wnow[w])) => ~CanAppend(r, 1, wnow[w])
    /\ Rest(w)
    /\ UNCHANGED <<ledger, artifacts, source, clock>>

Fails(w, reason) ==
    /\ pc' = [pc EXCEPT ![w] = "failed"]
    /\ failure' = [failure EXCEPT ![w] = reason]
    /\ payload' = [payload EXCEPT ![w] = 0]

\* _read_receipt_artifact: the bytes on disk are those of the receipt.
ReadBack(r, i) == [run |-> r, step |-> i, version |-> receipts[r][i].version] \in artifacts

\* _execute up to publication.  A capture that finds its artifact adopts it;
\* otherwise it observes the source now.  The later steps read back the
\* artifacts of the receipts so far (a missing or different one is an error,
\* among ExecuteFails) and derive their content from the first.
\* Plausible bug: a later step observes the source again.
PrepareAnew(w) ==
    /\ pc[w] = "prepare"
    /\ payload' = [payload EXCEPT ![w] = source]
    /\ pc' = [pc EXCEPT ![w] = "publish"]
    /\ UNCHANGED <<ledger, artifacts, source, clock, wnow, held, failure>>

Prepare(w) ==
    /\ pc[w] = "prepare"
    /\ LET r == held[w].run
           s == held[w].step
       IN  \/ /\ s = 1 /\ Exists(r, s)
              /\ \E a \in artifacts : /\ a.run = r /\ a.step = s
                                      /\ payload' = [payload EXCEPT ![w] = a.version]
              /\ pc' = [pc EXCEPT ![w] = "done"]
           \/ /\ s = 1 /\ ~Exists(r, s)
              /\ payload' = [payload EXCEPT ![w] = source]
              /\ pc' = [pc EXCEPT ![w] = "publish"]
           \/ /\ s > 1
              /\ \A i \in 1..(s - 1) : ReadBack(r, i)
              /\ payload' = [payload EXCEPT ![w] = receipts[r][1].version]
              /\ pc' = [pc EXCEPT ![w] = "publish"]
    /\ UNCHANGED <<ledger, artifacts, source, clock, wnow, held, failure>>

\* Whatever _execute raises but a lost publication race.
ExecuteFails(w, reason) ==
    /\ pc[w] \in {"prepare", "publish"}
    /\ reason \in {"TEMPORARILY_UNAVAILABLE", "INTEGRITY_FAILURE"}
    /\ Fails(w, reason)
    /\ UNCHANGED <<ledger, artifacts, source, clock, wnow, held>>

\* publish_canonical: link(2) of a complete temporary file, so the first
\* publisher wins; whoever comes later accepts equal bytes and refuses others.
\* Plausible bug: os.replace, which overwrites, in place of os.link.
PublishReplacing(w) ==
    /\ pc[w] = "publish"
    /\ LET mine == [run |-> held[w].run, step |-> held[w].step, version |-> payload[w]]
       IN  artifacts' = {a \in artifacts : a.run # mine.run \/ a.step # mine.step}
                           \cup {mine}
    /\ pc' = [pc EXCEPT ![w] = "done"]
    /\ UNCHANGED <<ledger, source, clock, wnow, held, payload, failure>>

Publish(w) ==
    /\ pc[w] = "publish"
    /\ LET mine == [run |-> held[w].run, step |-> held[w].step, version |-> payload[w]]
       IN  IF ~Exists(mine.run, mine.step)
           THEN /\ artifacts' = artifacts \cup {mine}
                /\ \/ pc' = [pc EXCEPT ![w] = "done"] /\ UNCHANGED <<payload, failure>>
                   \/ Fails(w, "TEMPORARILY_UNAVAILABLE")    \* no fsync of the directory
           ELSE /\ UNCHANGED artifacts
                /\ IF mine \in artifacts
                   THEN pc' = [pc EXCEPT ![w] = "done"] /\ UNCHANGED <<payload, failure>>
                   ELSE Fails(w, "ARTIFACT_CONFLICT")
    /\ UNCHANGED <<ledger, source, clock, wnow, held>>

\* _verify_fencing: the ledger still holds exactly the claim of this tick.
Fenced(w) ==
    /\ held[w] \in claims
    /\ wnow[w] < held[w].expires
    /\ wnow[w] >= held[w].claimedAt

\* _finalize_success: receipt, STEP_SUCCEEDED, end of the claim and the run's
\* end, if it ends, in one transaction.
\* Plausible bug: a success completes the run though it was to be cancelled.
SuccessEventsForgetCancel(c, now) ==
    <<StepEvent("STEP_SUCCEEDED", c, now, "NONE")>> \o
    (IF c.step = NSteps THEN <<RunEvent("RUN_COMPLETED", now)>> ELSE <<>>)

\* Plausible bug: the last step is not recognised (one past the end).
SuccessEventsPastEnd(c, now) ==
    <<StepEvent("STEP_SUCCEEDED", c, now, "NONE")>> \o
    (CASE CancelRequested(log[c.run]) -> <<RunEvent("RUN_CANCELLED", now)>>
       [] ~CancelRequested(log[c.run]) /\ c.step = NSteps + 1 ->
              <<RunEvent("RUN_COMPLETED", now)>>
       [] OTHER -> <<>>)

SuccessEvents(c, now) ==
    <<StepEvent("STEP_SUCCEEDED", c, now, "NONE")>> \o
    (CASE CancelRequested(log[c.run]) -> <<RunEvent("RUN_CANCELLED", now)>>
       [] ~CancelRequested(log[c.run]) /\ c.step = NSteps ->
              <<RunEvent("RUN_COMPLETED", now)>>
       [] OTHER -> <<>>)

\* Plausible bug: the outcome of a failure ignores a requested cancellation.
FailureEventsForgetCancel(c, reason, now) ==
    <<StepEvent("STEP_ATTEMPT_FAILED", c, now, reason),
      IF reason \in Retryable /\ c.attempt < MaxAttempts THEN RetryEvent(c, now, reason)
      ELSE StepEvent("RUN_FAILED", c, now, reason)>>

FailureEvents(c, reason, now) ==
    <<StepEvent("STEP_ATTEMPT_FAILED", c, now, reason)>> \o
    << CASE CancelRequested(log[c.run]) -> RunEvent("RUN_CANCELLED", now)
         [] /\ ~CancelRequested(log[c.run])
            /\ reason \in Retryable /\ c.attempt < MaxAttempts -> RetryEvent(c, now, reason)
         [] OTHER -> StepEvent("RUN_FAILED", c, now, reason) >>

FinalEvents(w) ==
    IF pc[w] = "done" THEN SuccessEvents(held[w], wnow[w])
                      ELSE FailureEvents(held[w], failure[w], wnow[w])

Accepted(w) == Fenced(w) /\ CanAppend(held[w].run, Len(FinalEvents(w)), wnow[w])

\* The part _finalize_success and _finalize_failure share.
EndAttempt(w) ==
    /\ Accepted(w)
    /\ log' = [log EXCEPT ![held[w].run] = @ \o FinalEvents(w)]
    /\ claims' = claims \ {held[w]}
    /\ Rest(w)
    /\ UNCHANGED <<artifacts, source, clock>>

FinalizeSuccess(w) ==
    /\ pc[w] = "done"
    /\ EndAttempt(w)
    /\ receipts' = [receipts EXCEPT ![held[w].run] =
           Append(@, [step |-> held[w].step, version |-> payload[w], at |-> wnow[w]])]

\* Retry, or the end of the run.
FinalizeFailure(w) ==
    /\ pc[w] = "failed"
    /\ EndAttempt(w)
    /\ UNCHANGED receipts

\* STALE_FENCING_TOKEN or CLOCK_REGRESSION: the finalization rolls back and
\* tick raises; a claim that is still there waits for its lease to end.
FinalizeRejected(w) ==
    /\ pc[w] \in {"done", "failed"}
    /\ ~Accepted(w)
    /\ Rest(w)
    /\ UNCHANGED <<ledger, artifacts, source, clock>>

\* The process dies, is interrupted, or finds the database busy: BEGIN
\* IMMEDIATE fails and tick raises.  Nothing of the tick survives but what it
\* committed and published.
Abandon(w) ==
    /\ pc[w] # "idle"
    /\ Rest(w)
    /\ UNCHANGED <<ledger, artifacts, source, clock>>

----------------------------------------------------------------------------
Operator(now) ==
    \/ \E r \in Runs : CreateRun(r, now) \/ CancelRun(r, now)
    \/ OperatorRecover(now)

Step(w) ==
    \/ ClaimOne(w) \/ ClaimNothing(w)
    \/ Prepare(w) \/ Publish(w)
    \/ \E reason \in Reason : ExecuteFails(w, reason)
    \/ FinalizeSuccess(w) \/ FinalizeFailure(w) \/ FinalizeRejected(w)
    \/ Abandon(w)

Next ==
    \/ \E now \in CallerTimes : Operator(now) \/ \E w \in Workers : Recover(w, now)
    \/ \E w \in Workers : Step(w)
    \/ SourceChanges
    \/ ClockTicks

Spec == Init /\ [][Next]_vars
\* What the code's scheduling gives: a worker process that is running goes on
\* or dies, and is started again; not every tick dies before it has claimed;
\* and time passes.
Fairness ==
    /\ \A w \in Workers : /\ WF_vars(Step(w)) /\ SF_vars(ClaimOne(w))
                          /\ WF_vars(\E now \in CallerTimes : Recover(w, now))
    /\ WF_vars(ClockTicks)

FairSpec == Spec /\ Fairness

----------------------------------------------------------------------------
(* Properties.                                                             *)

TypeOK ==
    /\ log \in [Runs -> Seq(Event)]
    /\ claims \subseteq Claim
    /\ receipts \in [Runs -> Seq(Receipt)]
    /\ artifacts \subseteq Artifact
    /\ source \in Nat
    /\ clock \in Nat
    /\ pc \in [Workers -> {"idle", "scanned", "prepare", "publish", "done", "failed"}]
    /\ wnow \in [Workers -> Nat]
    /\ held \in [Workers -> Claim \cup {NoClaim}]
    /\ payload \in [Workers -> Nat]
    /\ failure \in [Workers -> Reason]

\* Whatever workers, cancellations, recoveries and crashes do, every run can
\* be read back: its stored history passes the replay check that guards each
\* later use of the run.
HistoryReplayable ==
    \A r \in Runs : Created(r) => ValidHistory(log[r], receipts[r], ClaimsOf(r))

\* One file per run and step, and each accepted receipt names the content
\* that is on disk.
AcceptedArtifactStands ==
    /\ \A a, b \in artifacts : a.run = b.run /\ a.step = b.step => a = b
    /\ \A r \in Runs : \A i \in DOMAIN receipts[r] :
          [run |-> r, step |-> i, version |-> receipts[r][i].version] \in artifacts

\* Everything a run ever accepts or publishes after its first step derives
\* from the one snapshot its first receipt accepted, even what a worker that
\* lost its lease publishes.
OneLineage ==
    \A r \in Runs :
        /\ \A i \in DOMAIN receipts[r] : receipts[r][i].version = receipts[r][1].version
        /\ \A a \in artifacts :
              a.run = r /\ a.step > 1 =>
                  receipts[r] # <<>> /\ a.version = receipts[r][1].version

----------------------------------------------------------------------------
(* What makes the properties above inductive.                              *)

Working(w) == pc[w] \in {"prepare", "publish", "done", "failed"}

\* workflow_claims has run_id as its primary key.
OneClaimPerRun == \A c, d \in claims : c.run = d.run => c = d

\* A claim row is for the step after the receipts of a run that is under way.
ClaimsAreCurrent ==
    \A c \in claims :
        c.step = CurrentStep(c.run) /\ Created(c.run) /\ ~Terminated(log[c.run])

\* A worker, late or not, holds a claim that was granted when its run had the
\* receipts of all earlier steps; what it wants to publish for a later step
\* derives from the first receipt; and what it reports as done is on disk.
Granted(w) ==
    Working(w) =>
        held[w] \in Claim /\ Len(receipts[held[w].run]) >= held[w].step - 1

Derived(w) ==
    pc[w] \in {"publish", "done"} /\ held[w].step > 1 =>
        payload[w] = receipts[held[w].run][1].version

Published(w) ==
    pc[w] = "done" =>
        [run |-> held[w].run, step |-> held[w].step, version |-> payload[w]] \in artifacts

WorkersSound == \A w \in Workers : Granted(w) /\ Derived(w) /\ Published(w)

Inv ==
    /\ TypeOK
    /\ AcceptedArtifactStands /\ OneLineage
    /\ OneClaimPerRun /\ ClaimsAreCurrent
    /\ WorkersSound

\* A worker has a step to itself for its whole lease: its attempt is taken away
\* after that and not before, and no result of it is accepted after.
LeasesKept(h) ==
    \A i \in DOMAIN h : \A j \in OpenClaims(h, i) :
        h[i].type \in AttemptEnd =>
            (h[i].type = "STEP_LEASE_EXPIRED" <=> h[i].at >= h[j].at + Lease)

\* Where a run stands between two transactions: it has ended; or it waits for
\* an attempt, the first of its step or one more; or the latest attempt of its
\* current step is claimed.  A step takes at most StepBudget events.
StepBudget == 3 * MaxAttempts - 1
EventLimit == 1 + NSteps * StepBudget + 2

Tries(h, rs) == ClaimedAttempts(h, Len(rs) + 1)

AtRest(h, rs) ==
    /\ Len(rs) < NSteps /\ ~CancelRequested(h)
    /\ \/ /\ LastEvent(h).type \in {"RUN_CREATED", "STEP_SUCCEEDED"}
          /\ Tries(h, rs) = 0
       \/ /\ LastEvent(h).type = "STEP_RETRY_SCHEDULED"
          /\ Tries(h, rs) = LastEvent(h).attempt /\ Tries(h, rs) < MaxAttempts
    /\ Len(h) <= 1 + Len(rs) * StepBudget + 3 * Tries(h, rs)

UnderClaim(h, rs, c) ==
    /\ Len(rs) < NSteps /\ LastEvent(h).type \in {"STEP_CLAIMED", "RUN_CANCEL_REQUESTED"}
    /\ c.step = Len(rs) + 1 /\ c.attempt = Tries(h, rs) /\ c.expires = c.claimedAt + Lease
    /\ Len(h) <= 1 + Len(rs) * StepBudget + 3 * Tries(h, rs) - 2
                  + (IF CancelRequested(h) THEN 1 ELSE 0)

RunSound(h, rs, cs) ==
    /\ ValidHistory(h, rs, cs) /\ LeasesKept(h)
    /\ Len(rs) <= NSteps /\ Tries(h, rs) <= MaxAttempts
    /\ \A i \in DOMAIN h : h[i].type = "STEP_CLAIMED" => h[i].step <= Len(rs) + 1
    /\ \/ cs = {} /\ Terminated(h) /\ Len(h) <= EventLimit
       \/ cs = {} /\ AtRest(h, rs)
       \/ \E c \in cs : cs = {c} /\ UnderClaim(h, rs, c)

RunStands(r) ==
    \/ Created(r) /\ RunSound(log[r], receipts[r], ClaimsOf(r))
    \/ ~Created(r) /\ receipts[r] = <<>> /\ ClaimsOf(r) = {}

HistoryInv == Inv /\ \A r \in Runs : RunStands(r)

----------------------------------------------------------------------------
\* A run that has ended is never touched again, by no worker however late.
TerminalIsFinal ==
    [][\A r \in Runs :
          Created(r) /\ Terminated(log[r]) =>
              /\ log'[r] = log[r] /\ receipts'[r] = receipts[r]
              /\ {c \in claims' : c.run = r} = {}]_vars

\* A worker has a step to itself for its whole lease, by the clocks of those
\* who call: no recovery takes the attempt away before the lease ends, and no
\* result is accepted after.
LeaseHonoured == \A r \in Runs : LeasesKept(log[r])

\* The view an operator has of the runs behaves as ObservationRun says.
RunView(r) ==
    IF Created(r)
    THEN [status |-> Status(r), done |-> Len(receipts[r]),
          tries |-> ClaimedAttempts(log[r], CurrentStep(r)),
          cancel |-> CancelRequested(log[r])]
    ELSE [status |-> "UNKNOWN", done |-> 0, tries |-> 0, cancel |-> FALSE]

Abstract == INSTANCE ObservationRun WITH runs <- [r \in Runs |-> RunView(r)]

RefinesObservationRun == Abstract!Spec

\* No history comes near MAX_EVENTS_PER_RUN: the registration, per step at
\* most three events for each attempt, a cancellation request and its end.
EventBudget ==
    \A r \in Runs : Len(log[r]) <= 2 + NSteps * (3 * MaxAttempts - 1) + 1

\* Every run ends, though workers die, hang past their leases and call with
\* clocks that disagree.
EveryRunEnds == \A r \in Runs : Created(r) ~> Created(r) /\ Terminated(log[r])

\* A requested cancellation takes effect: the run ends, and as cancelled.
CancellationHonoured ==
    \A r \in Runs :
        Created(r) /\ CancelRequested(log[r]) ~>
            Created(r) /\ LastEvent(log[r]).type = "RUN_CANCELLED"

\* "The first successfully published and verified snapshot artifact becomes
\* authoritative for that run.  Every later replay verifies and reuses its
\* exact bytes": so no attempt is lost to the artifact of another one.
FirstArtifactAuthoritative ==
    \A r \in Runs : \A i \in DOMAIN log[r] : log[r][i].reason # "ARTIFACT_CONFLICT"
=============================================================================
