-------------------------- MODULE WorkflowHistory --------------------------
(***************************************************************************)
(* The event history of one observation run, as the ledger stores it       *)
(* (table workflow_events) and as it reads it back: the status that        *)
(* WorkflowLedger._snapshot derives from a history, and the replay check   *)
(* WorkflowLedger._validate_history makes before any use of a run.         *)
(* Nothing here is a state machine: h is a sequence of events, rs the      *)
(* receipts of the same run in step order, cs its rows of workflow_claims. *)
(***************************************************************************)
EXTENDS Integers, Sequences, FiniteSets

CONSTANTS NSteps,       \* compiled steps of the workflow (3 in the code)
          MaxAttempts,  \* attempts per step (3)
          RetryDelay,   \* seconds to wait after attempt 1, 2, ... (5, 30)
          MaxEvents     \* MAX_EVENTS_PER_RUN (1000)

ASSUME StepsAssumption == NSteps \in Nat \ {0}
ASSUME AttemptsAssumption == MaxAttempts \in Nat \ {0}
ASSUME DelayAssumption == RetryDelay \in [1..(MaxAttempts - 1) -> Nat]
ASSUME EventsAssumption == MaxEvents \in Nat

Steps == 1..NSteps

AttemptEnd == {"STEP_SUCCEEDED", "STEP_ATTEMPT_FAILED", "STEP_LEASE_EXPIRED"}
AttemptLost == {"STEP_ATTEMPT_FAILED", "STEP_LEASE_EXPIRED"}
TerminalEvent == {"RUN_COMPLETED", "RUN_FAILED", "RUN_CANCELLED"}
EventType == AttemptEnd \cup TerminalEvent \cup
    {"RUN_CREATED", "RUN_CANCEL_REQUESTED", "STEP_CLAIMED", "STEP_RETRY_SCHEDULED"}

\* Failure tokens, by what _finalize_failure tells apart: in _RETRYABLE or not.
\* ARTIFACT_CONFLICT is not retryable either and keeps its name because the
\* documentation speaks about it.
Retryable == {"TEMPORARILY_UNAVAILABLE", "LEASE_EXPIRED"}
Reason == Retryable \cup {"INTEGRITY_FAILURE", "ARTIFACT_CONFLICT", "NONE"}

\* A NULL step, attempt or not_before_at is 0.
Event == [type: EventType, step: Nat, attempt: Nat, at: Nat,
          notBefore: Nat, reason: Reason]

RunEvent(type, at) ==
    [type |-> type, step |-> 0, attempt |-> 0, at |-> at,
     notBefore |-> 0, reason |-> "NONE"]

StepEvent(type, c, at, reason) ==
    [type |-> type, step |-> c.step, attempt |-> c.attempt, at |-> at,
     notBefore |-> 0, reason |-> reason]

RetryEvent(c, at, reason) ==
    [StepEvent("STEP_RETRY_SCHEDULED", c, at, reason)
        EXCEPT !.notBefore = at + RetryDelay[c.attempt]]

LastEvent(h) == h[Len(h)]

CancelRequested(h) == \E i \in DOMAIN h : h[i].type = "RUN_CANCEL_REQUESTED"

ClaimedAttempts(h, s) ==
    Cardinality({i \in DOMAIN h : h[i].type = "STEP_CLAIMED" /\ h[i].step = s})

Terminated(h) == LastEvent(h).type \in TerminalEvent

\* _snapshot: the status is derived, in this order, from the last event and
\* from whether the run has a claim row.
StatusOf(h, claimed) ==
    LET last == LastEvent(h).type
        terminal == [RUN_COMPLETED |-> "COMPLETED", RUN_FAILED |-> "FAILED",
                     RUN_CANCELLED |-> "CANCELLED"]
    IN  IF last \in TerminalEvent THEN terminal[last]
        ELSE IF last = "STEP_RETRY_SCHEDULED" THEN "WAITING_RETRY"
        ELSE IF claimed THEN "RUNNING" ELSE "PENDING"

----------------------------------------------------------------------------
(* The replay check.  The loop of _validate_history carries active,        *)
(* successful, attempt_counts and cancel_pending; here each is a function  *)
(* of the prefix before event i.                                           *)

OpenClaims(h, i) ==
    {j \in 1..(i - 1) : /\ h[j].type = "STEP_CLAIMED"
                        /\ \A k \in (j + 1)..(i - 1) : h[k].type \notin AttemptEnd}

Before(h, i, type) == {j \in 1..(i - 1) : h[j].type = type}

AllowedAt(h, rs, i) ==
    LET e == h[i]
        open == OpenClaims(h, i)
        pending == Before(h, i, "RUN_CANCEL_REQUESTED") # {}
        done == Cardinality(Before(h, i, "STEP_SUCCEEDED"))
        claimed == {j \in Before(h, i, "STEP_CLAIMED") : h[j].step = e.step}
        SameAttempt(d) == e.step = d.step /\ e.attempt = d.attempt
        After(types) == i > 1 /\ h[i - 1].type \in types
    IN  CASE e.type = "RUN_CREATED" -> i = 1 /\ e = RunEvent("RUN_CREATED", e.at)
          [] e.type = "RUN_CANCEL_REQUESTED" -> i > 1 /\ ~pending
          [] e.type = "STEP_CLAIMED" ->
                /\ open = {} /\ ~pending
                /\ done < NSteps /\ e.step = done + 1
                /\ e.attempt = Cardinality(claimed) + 1
                /\ e.attempt <= MaxAttempts
                /\ e.notBefore = 0
                /\ After({"RUN_CREATED", "STEP_RETRY_SCHEDULED", "STEP_SUCCEEDED"})
                /\ h[i - 1].type = "STEP_RETRY_SCHEDULED" => e.at >= h[i - 1].notBefore
          [] e.type \in AttemptLost ->
                open # {} /\ (\A j \in open : SameAttempt(h[j])) /\ e.notBefore = 0
          [] e.type = "STEP_RETRY_SCHEDULED" ->
                /\ After(AttemptLost) /\ SameAttempt(h[i - 1])
                /\ e.attempt \in 1..(MaxAttempts - 1)
                /\ e.notBefore = e.at + RetryDelay[e.attempt]
          [] e.type = "STEP_SUCCEEDED" ->
                /\ open # {} /\ (\A j \in open : SameAttempt(h[j]))
                /\ e.notBefore = 0
                /\ \E r \in {rs[k] : k \in DOMAIN rs} : r.step = e.step /\ r.at = e.at
          [] e.type = "RUN_COMPLETED" -> open = {} /\ ~pending /\ done = NSteps
          [] e.type = "RUN_FAILED" ->
                /\ open = {} /\ After(AttemptLost) /\ SameAttempt(h[i - 1])
                /\ h[i - 1].type = "STEP_LEASE_EXPIRED" => e.attempt = MaxAttempts
          [] e.type = "RUN_CANCELLED" -> open = {} /\ pending

\* A requested cancellation with no attempt open is finished at once.
CancelSettledAt(h, i) ==
    /\ \E j \in 1..i : h[j].type = "RUN_CANCEL_REQUESTED"
    /\ OpenClaims(h, i + 1) = {}
    /\ h[i].type \notin TerminalEvent \cup AttemptEnd
    => i < Len(h) /\ h[i + 1].type = "RUN_CANCELLED"

ValidHistory(h, rs, cs) ==
    LET open == OpenClaims(h, Len(h) + 1)
        successes == Before(h, Len(h) + 1, "STEP_SUCCEEDED")
    IN  /\ Len(h) \in 1..MaxEvents
        /\ \A i \in 2..Len(h) : h[i - 1].at <= h[i].at
        /\ \A i \in 2..Len(h) : h[i - 1].type \notin TerminalEvent
        /\ \A i \in 1..Len(h) : AllowedAt(h, rs, i) /\ CancelSettledAt(h, i)
        /\ Len(rs) = Cardinality(successes)
        /\ \A j \in successes : h[j].step = Cardinality(Before(h, j + 1, "STEP_SUCCEEDED"))
        /\ \A i \in 1..Len(rs) : rs[i].step = i
        /\ (open = {}) <=> (cs = {})
        /\ \A c \in cs, j \in open :
              /\ c.step = h[j].step /\ c.attempt = h[j].attempt
              /\ c.claimedAt = h[j].at /\ c.epoch = j
=============================================================================
