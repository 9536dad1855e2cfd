------------------------- MODULE OrchestratorProofs -------------------------
(***************************************************************************)
(* Proofs about the orchestrator, for any number of runs, workers, steps   *)
(* and attempts, any lease and any clock error: what accepted artifacts    *)
(* mean, that an ended run is never touched again, that every history can  *)
(* be read back within its budget and keeps the leases, and that the runs  *)
(* behave as ObservationRun says.                                          *)
(***************************************************************************)
EXTENDS Orchestrator, FiniteSetTheorems, SequenceTheorems, TLAPS

(***************************************************************************)
(* Events and the short sequences of them that a transaction appends.      *)
(***************************************************************************)

\* Events of a run as a whole, of a step and of a scheduled retry are events.
LEMMA RunEventType ==
    ASSUME NEW type \in EventType, NEW at \in Nat
    PROVE  RunEvent(type, at) \in Event
BY DEF RunEvent, Event, Reason

\* An event about a claimed step.
LEMMA StepEventType ==
    ASSUME NEW type \in EventType, NEW c \in Claim, NEW at \in Nat, NEW reason \in Reason
    PROVE  StepEvent(type, c, at, reason) \in Event
BY DEF StepEvent, Event, Claim, Steps

\* A retry is scheduled only after an attempt for which a delay is configured.
LEMMA RetryEventType ==
    ASSUME NEW c \in Claim, c.attempt < MaxAttempts, NEW at \in Nat, NEW reason \in Reason
    PROVE  RetryEvent(c, at, reason) \in Event
<1>1. c.attempt \in 1..(MaxAttempts - 1)
  BY AttemptsAssumption DEF Claim
<1>2. at + RetryDelay[c.attempt] \in Nat
  BY <1>1, DelayAssumption, AttemptsAssumption
<1>3. RetryEvent(c, at, reason) =
        [type |-> "STEP_RETRY_SCHEDULED", step |-> c.step, attempt |-> c.attempt,
         at |-> at, notBefore |-> at + RetryDelay[c.attempt], reason |-> reason]
  BY DEF RetryEvent, StepEvent
<1>. QED
  BY <1>2, <1>3 DEF Event, EventType, Claim, Steps

\* A sequence of two events, as most transactions append.
LEMMA PairType ==
    ASSUME NEW S, NEW a \in S, NEW b \in S
    PROVE  /\ <<a>> \o <<b>> \in Seq(S)
           /\ Len(<<a>> \o <<b>>) = 2
           /\ (<<a>> \o <<b>>)[2] = b
OBVIOUS

\* What recover_expired_claims appends for one claim.
LEMMA RecoveryEventsType ==
    ASSUME NEW c \in Claim, NEW now \in Nat
    PROVE  RecoveryEvents(c, now) \in Seq(Event)
<1>. DEFINE end == CASE CancelRequested(log[c.run]) -> RunEvent("RUN_CANCELLED", now)
                     [] ~CancelRequested(log[c.run]) /\ c.attempt < MaxAttempts ->
                            RetryEvent(c, now, "LEASE_EXPIRED")
                     [] OTHER -> StepEvent("RUN_FAILED", c, now, "LEASE_EXPIRED")
<1>1. StepEvent("STEP_LEASE_EXPIRED", c, now, "LEASE_EXPIRED") \in Event
  BY StepEventType DEF EventType, AttemptEnd, Reason, Retryable
<1>2. end \in Event
  <2>1. CASE CancelRequested(log[c.run])
    BY <2>1, RunEventType DEF EventType, TerminalEvent
  <2>2. CASE ~CancelRequested(log[c.run]) /\ c.attempt < MaxAttempts
    BY <2>2, RetryEventType DEF Reason, Retryable
  <2>3. CASE ~CancelRequested(log[c.run]) /\ ~(c.attempt < MaxAttempts)
    BY <2>3, StepEventType DEF EventType, TerminalEvent, Reason, Retryable
  <2>. QED
    BY <2>1, <2>2, <2>3
<1>. QED
  BY <1>1, <1>2, PairType DEF RecoveryEvents

\* What _finalize_failure appends.
LEMMA FailureEventsType ==
    ASSUME NEW c \in Claim, NEW reason \in Reason, NEW now \in Nat
    PROVE  FailureEvents(c, reason, now) \in Seq(Event)
<1>. DEFINE end == CASE CancelRequested(log[c.run]) -> RunEvent("RUN_CANCELLED", now)
                     [] /\ ~CancelRequested(log[c.run])
                        /\ reason \in Retryable /\ c.attempt < MaxAttempts ->
                            RetryEvent(c, now, reason)
                     [] OTHER -> StepEvent("RUN_FAILED", c, now, reason)
<1>1. StepEvent("STEP_ATTEMPT_FAILED", c, now, reason) \in Event
  BY StepEventType DEF EventType, AttemptEnd
<1>2. end \in Event
  <2>1. CASE CancelRequested(log[c.run])
    BY <2>1, RunEventType DEF EventType, TerminalEvent
  <2>2. CASE ~CancelRequested(log[c.run]) /\ reason \in Retryable /\ c.attempt < MaxAttempts
    BY <2>2, RetryEventType
  <2>3. CASE ~CancelRequested(log[c.run]) /\ ~(reason \in Retryable /\ c.attempt < MaxAttempts)
    BY <2>3, StepEventType DEF EventType, TerminalEvent
  <2>. QED
    BY <2>1, <2>2, <2>3
<1>. QED
  BY <1>1, <1>2, PairType DEF FailureEvents

\* What _finalize_success appends.
LEMMA SuccessEventsType ==
    ASSUME NEW c \in Claim, NEW now \in Nat
    PROVE  SuccessEvents(c, now) \in Seq(Event)
<1>. DEFINE end == CASE CancelRequested(log[c.run]) -> <<RunEvent("RUN_CANCELLED", now)>>
                     [] ~CancelRequested(log[c.run]) /\ c.step = NSteps ->
                            <<RunEvent("RUN_COMPLETED", now)>>
                     [] OTHER -> <<>>
<1>1. <<StepEvent("STEP_SUCCEEDED", c, now, "NONE")>> \in Seq(Event)
  BY StepEventType DEF EventType, AttemptEnd, Reason
<1>2. end \in Seq(Event)
  <2>1. RunEvent("RUN_CANCELLED", now) \in Event /\ RunEvent("RUN_COMPLETED", now) \in Event
    BY RunEventType DEF EventType, TerminalEvent
  <2>2. CASE CancelRequested(log[c.run])
    BY <2>1, <2>2
  <2>3. CASE ~CancelRequested(log[c.run]) /\ c.step = NSteps
    BY <2>1, <2>3
  <2>4. CASE ~CancelRequested(log[c.run]) /\ c.step # NSteps
    BY <2>4
  <2>. QED
    BY <2>2, <2>3, <2>4
<1>. QED
  BY <1>1, <1>2, ConcatProperties DEF SuccessEvents

\* The number of attempts claimed for a step, next to which _claim_one numbers its own.
LEMMA ClaimedAttemptsType ==
    ASSUME NEW h \in Seq(Event), NEW s
    PROVE  ClaimedAttempts(h, s) \in Nat
<1>. DEFINE begun == {i \in DOMAIN h : h[i].type = "STEP_CLAIMED" /\ h[i].step = s}
<1>1. IsFiniteSet(1..Len(h))
  BY FS_Interval
<1>2. begun \in SUBSET (1..Len(h))
  OBVIOUS
<1>3. IsFiniteSet(begun)
  BY <1>1, <1>2, FS_Subset
<1>. QED
  BY <1>3, FS_CardinalityType DEF ClaimedAttempts

\* The latest event of a run that was just created.
LEMMA SingletonLast ==
    ASSUME NEW e
    PROVE  LastEvent(<<e>>) = e
BY DEF LastEvent

\* Appending events to a history leaves the last of them as its latest event.
LEMMA ExtendHistory ==
    ASSUME NEW h \in Seq(Event), NEW more \in Seq(Event), more # <<>>
    PROVE  /\ h \o more \in Seq(Event)
           /\ h \o more # <<>>
           /\ LastEvent(h \o more) = LastEvent(more)
<1>1. Len(more) \in Nat \ {0}
  BY EmptySeq
<1>2. Len(h \o more) = Len(h) + Len(more) /\ Len(h) \in Nat
  BY ConcatProperties, LenProperties
<1>3. (h \o more)[Len(h) + Len(more)] = more[Len(more)]
  BY <1>1, <1>2, ConcatProperties
<1>. QED
  BY <1>1, <1>2, <1>3, ConcatProperties, EmptySeq DEF LastEvent

(***************************************************************************)
(* Steps that leave the workers' part of the state alone.                  *)
(***************************************************************************)

\* A caller's time is a natural number, whatever the error of its clock.
LEMMA TimeType ==
    ASSUME TypeOK, NEW now \in CallerTimes
    PROVE  now \in Nat
BY SkewAssumption DEF TypeOK, CallerTimes

\* A worker that goes on as it was, or gives up, stays sound while artifacts
\* and receipts only grow.
LEMMA WorkerStaysSound ==
    ASSUME Inv, NEW w \in Workers,
           \A r \in Runs : /\ Len(receipts[r]) <= Len(receipts'[r])
                           /\ receipts[r] # <<>> => receipts'[r][1] = receipts[r][1],
           receipts' \in [Runs -> Seq(Receipt)],
           artifacts \subseteq artifacts',
           \/ ~Working(w)'
           \/ pc'[w] = "failed" /\ Working(w) /\ held'[w] = held[w]
           \/ pc'[w] = pc[w] /\ held'[w] = held[w] /\ payload'[w] = payload[w]
    PROVE  Granted(w)' /\ Derived(w)' /\ Published(w)'
<1>1. CASE ~Working(w)'
  BY <1>1 DEF Working, Granted, Derived, Published
<1>2. CASE Working(w) /\ held'[w] = held[w]
  <2>. DEFINE r == held[w].run
  <2>1. held[w] \in Claim /\ Len(receipts[r]) >= held[w].step - 1
    BY <1>2 DEF Inv, WorkersSound, Granted
  <2>2. r \in Runs /\ held[w].step \in Nat
    BY <2>1 DEF Claim, Steps
  <2>3. Len(receipts[r]) \in Nat /\ Len(receipts'[r]) \in Nat
    BY <2>2 DEF Inv, TypeOK
  <2>4. Granted(w)'
    <3>1. Len(receipts'[r]) >= held[w].step - 1
      BY <2>1, <2>2, <2>3
    <3>. QED
      BY <1>2, <2>1, <3>1 DEF Granted, Claim
  <2>5. CASE pc'[w] = "failed"
    BY <2>4, <2>5 DEF Derived, Published
  <2>6. CASE pc'[w] = pc[w] /\ payload'[w] = payload[w]
    <3>1. ASSUME held[w].step > 1
          PROVE  receipts[r] # <<>>
      BY <2>1, <2>2, <2>3, <3>1
    <3>2. Derived(w)'
      <4>1. SUFFICES ASSUME pc[w] \in {"publish", "done"}, held[w].step > 1
                     PROVE  payload[w] = receipts'[r][1].version
        BY <1>2, <2>6 DEF Derived
      <4>2. payload[w] = receipts[r][1].version
        BY <4>1 DEF Inv, WorkersSound, Derived
      <4>3. receipts'[r][1] = receipts[r][1]
        BY <2>2, <3>1, <4>1
      <4>. QED
        BY <4>2, <4>3
    <3>3. Published(w)'
      BY <1>2, <2>6 DEF Inv, WorkersSound, Published
    <3>. QED
      BY <2>4, <3>2, <3>3
  <2>. QED
    BY <1>1, <1>2, <2>4, <2>5, <2>6
<1>. QED
  BY <1>1, <1>2 DEF Working

\* Receipts, artifacts and what depends on them alone.
LEMMA ArtifactsStay ==
    ASSUME Inv, UNCHANGED <<receipts, artifacts>>
    PROVE  AcceptedArtifactStands' /\ OneLineage'
BY DEF Inv, AcceptedArtifactStands, OneLineage

\* Nor does what workers hold change if nothing they refer to does.
LEMMA WorkersStay ==
    ASSUME Inv, UNCHANGED <<receipts, artifacts, pc, held, payload>>
    PROVE  WorkersSound'
BY DEF Inv, WorkersSound, Granted, Derived, Published, Working

\* Time and the observed research ledger move on.
LEMMA BackgroundInv ==
    ASSUME Inv, SourceChanges \/ ClockTicks
    PROVE  Inv'
<1>1. UNCHANGED <<log, claims, receipts, artifacts, pc, wnow, held, payload, failure>>
  BY DEF SourceChanges, ClockTicks, worker
<1>2. TypeOK'
  BY <1>1 DEF Inv, TypeOK, SourceChanges, ClockTicks
<1>3. OneClaimPerRun' /\ ClaimsAreCurrent'
  BY <1>1 DEF Inv, OneClaimPerRun, ClaimsAreCurrent, CurrentStep, Created, Terminated
<1>. QED
  BY <1>1, <1>2, <1>3, ArtifactsStay, WorkersStay DEF Inv

(***************************************************************************)
(* Operator commands.                                                      *)
(***************************************************************************)

\* create_run keeps the invariant.
LEMMA CreateRunInv ==
    ASSUME Inv, NEW r \in Runs, NEW at \in Nat, CreateRun(r, at)
    PROVE  Inv'
<1>1. UNCHANGED <<claims, receipts, artifacts, source, clock, pc, wnow, held, payload, failure>>
  BY DEF CreateRun, worker
<1>2. RunEvent("RUN_CREATED", at) \in Event
  BY RunEventType DEF EventType
<1>3. TypeOK'
  <2>1. log' \in [Runs -> Seq(Event)]
    BY <1>2 DEF CreateRun, Inv, TypeOK
  <2>. QED
    BY <1>1, <2>1 DEF Inv, TypeOK
<1>4. OneClaimPerRun'
  BY <1>1 DEF Inv, OneClaimPerRun
<1>5. ClaimsAreCurrent'
  <2>. SUFFICES ASSUME NEW c \in claims
                PROVE  c.step = CurrentStep(c.run)' /\ Created(c.run)' /\ ~Terminated(log[c.run])'
    BY <1>1 DEF ClaimsAreCurrent
  <2>1. c.step = CurrentStep(c.run) /\ Created(c.run) /\ ~Terminated(log[c.run])
    BY DEF Inv, ClaimsAreCurrent
  <2>2. c.run \in Runs /\ c.run # r
    BY <2>1 DEF Inv, TypeOK, Claim, CreateRun
  <2>3. log'[c.run] = log[c.run]
    BY <2>2 DEF CreateRun, Inv, TypeOK
  <2>. QED
    BY <1>1, <2>1, <2>3 DEF CurrentStep, Created, Terminated
<1>. QED
  BY <1>1, <1>3, <1>4, <1>5, ArtifactsStay, WorkersStay DEF Inv

\* cancel_run keeps the invariant, with or without a claim in its way.
LEMMA CancelRunInv ==
    ASSUME Inv, NEW r \in Runs, NEW at \in Nat, CancelRun(r, at)
    PROVE  Inv'
<1>. DEFINE request == IF CancelRequested(log[r]) THEN <<>>
                       ELSE <<RunEvent("RUN_CANCEL_REQUESTED", at)>>
            settle == IF ClaimsOf(r) = {} THEN <<RunEvent("RUN_CANCELLED", at)>> ELSE <<>>
<1>1. UNCHANGED <<claims, receipts, artifacts, source, clock, pc, wnow, held, payload, failure>>
  BY DEF CancelRun, worker
<1>2. request \in Seq(Event) /\ settle \in Seq(Event)
  <2>1. RunEvent("RUN_CANCEL_REQUESTED", at) \in Event /\ RunEvent("RUN_CANCELLED", at) \in Event
    BY RunEventType DEF EventType, TerminalEvent
  <2>. QED
    BY <2>1
<1>3. /\ log[r] \in Seq(Event) /\ request \o settle \in Seq(Event)
      /\ request \o settle # <<>>
      /\ log' = [log EXCEPT ![r] = log[r] \o (request \o settle)]
  <2>1. log[r] \in Seq(Event) /\ request \o settle \in Seq(Event)
    BY <1>2, ConcatProperties DEF Inv, TypeOK
  <2>2. log' = [log EXCEPT ![r] = (log[r] \o request) \o settle] /\ request \o settle # <<>>
    BY DEF CancelRun
  <2>3. (log[r] \o request) \o settle = log[r] \o (request \o settle)
    <3>1. \A s, t, u \in Seq(Event) : (s \o t) \o u = s \o (t \o u)
      BY ConcatAssociative
    <3>. HIDE DEF request, settle
    <3>. QED
      BY <1>2, <2>1, <3>1
  <2>. QED
    BY <2>1, <2>2, <2>3
<1>4. TypeOK'
  <2>1. log' \in [Runs -> Seq(Event)]
    BY <1>3, ConcatProperties DEF Inv, TypeOK
  <2>. QED
    BY <1>1, <2>1 DEF Inv, TypeOK
<1>5. OneClaimPerRun'
  BY <1>1 DEF Inv, OneClaimPerRun
<1>6. ClaimsAreCurrent'
  <2>. SUFFICES ASSUME NEW c \in claims
                PROVE  c.step = CurrentStep(c.run)' /\ Created(c.run)' /\ ~Terminated(log[c.run])'
    BY <1>1 DEF ClaimsAreCurrent
  <2>1. /\ c.step = CurrentStep(c.run) /\ Created(c.run) /\ ~Terminated(log[c.run])
        /\ c.run \in Runs
    BY DEF Inv, TypeOK, Claim, ClaimsAreCurrent
  <2>2. CASE c.run # r
    <3>1. log'[c.run] = log[c.run]
      BY <1>3, <2>1, <2>2 DEF Inv, TypeOK
    <3>. QED
      BY <1>1, <2>1, <3>1 DEF CurrentStep, Created, Terminated
  <2>3. CASE c.run = r
    <3>1. settle = <<>>
      BY <2>3 DEF ClaimsOf
    <3>2. request \o settle = request
      BY <1>2, <3>1, ConcatEmptySeq
    <3>3. request = <<RunEvent("RUN_CANCEL_REQUESTED", at)>>
      BY <1>3, <3>2
    <3>4. LastEvent(request \o settle) = RunEvent("RUN_CANCEL_REQUESTED", at)
      BY <3>2, <3>3, SingletonLast
    <3>5. log'[r] = log[r] \o (request \o settle)
      BY <1>3 DEF Inv, TypeOK
    <3>. HIDE DEF request, settle
    <3>6. log'[r] # <<>> /\ LastEvent(log'[r]) = LastEvent(request \o settle)
      BY <1>3, <3>5, ExtendHistory
    <3>7. LastEvent(log'[r]).type = "RUN_CANCEL_REQUESTED"
      BY <3>4, <3>6 DEF RunEvent
    <3>. QED
      BY <1>1, <2>1, <2>3, <3>6, <3>7 DEF CurrentStep, Created, Terminated, TerminalEvent
  <2>. QED
    BY <2>2, <2>3
<1>. QED
  BY <1>1, <1>4, <1>5, <1>6, ArtifactsStay, WorkersStay DEF Inv

(***************************************************************************)
(* Recovery.                                                               *)
(***************************************************************************)

\* recover_expired_claims takes rows away and touches no run but theirs.
LEMMA RecoveryInv ==
    ASSUME Inv, NEW now \in Nat, RecoverExpired(now)
    PROVE  /\ log' \in [Runs -> Seq(Event)]
           /\ claims' \subseteq claims
           /\ OneClaimPerRun' /\ ClaimsAreCurrent'
<1>1. claims' \subseteq claims /\ receipts' = receipts
  BY DEF RecoverExpired
<1>2. ASSUME NEW r \in Runs
      PROVE  log'[r] \in Seq(Event)
  <2>1. log[r] \in Seq(Event)
    BY DEF Inv, TypeOK
  <2>2. CASE \E c \in Expired(now) : c.run = r
    <3>. DEFINE c == CHOOSE x \in Expired(now) : x.run = r
    <3>1. c \in Claim
      BY <2>2 DEF Inv, TypeOK, Expired
    <3>2. log'[r] = log[r] \o RecoveryEvents(c, now)
      BY <2>2 DEF RecoverExpired
    <3>. QED
      BY <2>1, <3>1, <3>2, RecoveryEventsType, ConcatProperties
  <2>3. CASE ~(\E c \in Expired(now) : c.run = r)
    BY <2>1, <2>3 DEF RecoverExpired
  <2>. QED
    BY <2>2, <2>3
<1>3. log' \in [Runs -> Seq(Event)]
  <2>1. log' = [r \in Runs |-> log'[r]]
    BY DEF RecoverExpired
  <2>. QED
    BY <1>2, <2>1
<1>4. OneClaimPerRun'
  BY <1>1 DEF Inv, OneClaimPerRun
<1>5. ClaimsAreCurrent'
  <2>. SUFFICES ASSUME NEW c \in claims'
                PROVE  c.step = CurrentStep(c.run)' /\ Created(c.run)' /\ ~Terminated(log[c.run])'
    BY DEF ClaimsAreCurrent
  <2>1. /\ c.step = CurrentStep(c.run) /\ Created(c.run) /\ ~Terminated(log[c.run])
        /\ c.run \in Runs
    BY <1>1 DEF Inv, TypeOK, Claim, ClaimsAreCurrent
  <2>2. ~\E d \in Expired(now) : d.run = c.run
    BY <1>1 DEF Inv, OneClaimPerRun, RecoverExpired, Expired
  <2>3. log'[c.run] = log[c.run]
    BY <2>1, <2>2 DEF RecoverExpired
  <2>. QED
    BY <1>1, <2>1, <2>3 DEF CurrentStep, Created, Terminated
<1>. QED
  BY <1>1, <1>3, <1>4, <1>5

\* Recovery by the operator or at the start of a tick keeps the invariant.
LEMMA RecoverInv ==
    ASSUME Inv, NEW now \in Nat,
           OperatorRecover(now) \/ \E w \in Workers : Recover(w, now)
    PROVE  Inv'
<1>1. RecoverExpired(now)
  BY DEF OperatorRecover, Recover
<1>2. UNCHANGED <<receipts, artifacts, source, clock>>
  BY <1>1 DEF RecoverExpired
<1>3. TypeOK'
  <2>1. /\ pc' \in [Workers -> {"idle", "scanned", "prepare", "publish", "done", "failed"}]
        /\ wnow' \in [Workers -> Nat]
        /\ UNCHANGED <<held, payload, failure>>
    BY DEF OperatorRecover, Recover, worker, Inv, TypeOK
  <2>. QED
    BY <1>1, <1>2, <2>1, RecoveryInv DEF Inv, TypeOK
<1>4. WorkersSound'
  <2>. SUFFICES ASSUME NEW v \in Workers
                PROVE  Granted(v)' /\ Derived(v)' /\ Published(v)'
    BY DEF WorkersSound
  <2>1. \/ ~Working(v)'
        \/ pc'[v] = pc[v] /\ held'[v] = held[v] /\ payload'[v] = payload[v]
    BY DEF OperatorRecover, Recover, worker, Inv, TypeOK, Working
  <2>2. \A r \in Runs : Len(receipts[r]) <= Len(receipts'[r])
    BY <1>2 DEF Inv, TypeOK
  <2>. QED
    BY <1>2, <1>3, <2>1, <2>2, WorkerStaysSound DEF TypeOK
<1>. QED
  BY <1>1, <1>2, <1>3, <1>4, RecoveryInv, ArtifactsStay DEF Inv

(***************************************************************************)
(* A worker's tick.                                                        *)
(***************************************************************************)

\* A worker at the end of its tick.
LEMMA RestTypes ==
    ASSUME TypeOK, NEW w \in Workers, Rest(w)
    PROVE  /\ pc' \in [Workers -> {"idle", "scanned", "prepare", "publish", "done", "failed"}]
           /\ wnow' \in [Workers -> Nat]
           /\ held' \in [Workers -> Claim \cup {NoClaim}]
           /\ payload' \in [Workers -> Nat]
           /\ failure' \in [Workers -> Reason]
           /\ pc'[w] = "idle"
           /\ \A v \in Workers \ {w} :
                 pc'[v] = pc[v] /\ held'[v] = held[v] /\ payload'[v] = payload[v]
BY DEF TypeOK, Rest, Reason

\* IDLE, CLOCK_REGRESSION, a rejected finalization or a crash.
LEMMA GivesUpInv ==
    ASSUME Inv, NEW w \in Workers,
           ClaimNothing(w) \/ FinalizeRejected(w) \/ Abandon(w)
    PROVE  Inv'
<1>1. Rest(w) /\ UNCHANGED <<log, claims, receipts, artifacts, source, clock>>
  BY DEF ClaimNothing, FinalizeRejected, Abandon, ledger
<1>2. TypeOK'
  BY <1>1, RestTypes DEF Inv, TypeOK
<1>3. OneClaimPerRun' /\ ClaimsAreCurrent'
  BY <1>1 DEF Inv, OneClaimPerRun, ClaimsAreCurrent, CurrentStep, Created, Terminated
<1>4. WorkersSound'
  <2>. SUFFICES ASSUME NEW v \in Workers
                PROVE  Granted(v)' /\ Derived(v)' /\ Published(v)'
    BY DEF WorkersSound
  <2>1. \/ ~Working(v)'
        \/ pc'[v] = pc[v] /\ held'[v] = held[v] /\ payload'[v] = payload[v]
    BY <1>1, RestTypes DEF Inv, Working
  <2>2. \A r \in Runs : Len(receipts[r]) <= Len(receipts'[r])
    BY <1>1 DEF Inv, TypeOK
  <2>. QED
    BY <1>1, <1>2, <2>1, <2>2, WorkerStaysSound DEF TypeOK
<1>. QED
  BY <1>1, <1>2, <1>3, <1>4, ArtifactsStay DEF Inv

\* _claim_one keeps the invariant: the new row is for the step after the receipts.
LEMMA ClaimOneInv ==
    ASSUME Inv, NEW w \in Workers, ClaimOne(w)
    PROVE  Inv'
<1>1. PICK r \in Runnable(wnow[w]) :
        /\ CanAppend(r, 1, wnow[w])
        /\ LET c == NewClaim(w, r, wnow[w])
           IN  /\ log' = [log EXCEPT ![r] =
                             Append(@, StepEvent("STEP_CLAIMED", c, wnow[w], "NONE"))]
               /\ claims' = claims \cup {c}
               /\ held' = [held EXCEPT ![w] = c]
  BY DEF ClaimOne
<1>. DEFINE c == NewClaim(w, r, wnow[w])
            e == StepEvent("STEP_CLAIMED", c, wnow[w], "NONE")
<1>2. /\ UNCHANGED <<receipts, artifacts, source, clock, wnow, payload, failure>>
      /\ pc' = [pc EXCEPT ![w] = "prepare"]
  BY DEF ClaimOne
<1>3. /\ r \in Runs /\ Created(r) /\ ~Terminated(log[r])
      /\ ClaimsOf(r) = {} /\ CurrentStep(r) \in Steps
  BY DEF Runnable
<1>4. log[r] \in Seq(Event) /\ wnow[w] \in Nat /\ Len(log[r]) \in Nat
  BY <1>3 DEF Inv, TypeOK
<1>5. c \in Claim
  <2>1. NextAttempt(r) \in Nat \ {0}
    BY <1>4, ClaimedAttemptsType DEF NextAttempt
  <2>2. wnow[w] + Lease \in Nat
    BY <1>4, LeaseAssumption
  <2>. QED
    BY <1>3, <1>4, <2>1, <2>2 DEF NewClaim, Claim
<1>6. c.run = r /\ c.step = CurrentStep(r)
  BY DEF NewClaim
<1>7. e \in Event
  BY <1>4, <1>5, StepEventType DEF EventType, Reason
<1>. HIDE DEF c, e
<1>8. log' = [log EXCEPT ![r] = Append(log[r], e)]
  BY <1>1 DEF c, e
<1>9. claims' = claims \cup {c} /\ held' = [held EXCEPT ![w] = c]
  BY <1>1 DEF c
<1>10. TypeOK'
  <2>1. log' \in [Runs -> Seq(Event)]
    <3>1. Append(log[r], e) \in Seq(Event)
      BY <1>4, <1>7, AppendProperties
    <3>. QED
      BY <1>8, <3>1 DEF Inv, TypeOK
  <2>2. claims' \subseteq Claim
    BY <1>5, <1>9 DEF Inv, TypeOK
  <2>3. held' \in [Workers -> Claim \cup {NoClaim}]
    BY <1>5, <1>9 DEF Inv, TypeOK
  <2>4. pc' \in [Workers -> {"idle", "scanned", "prepare", "publish", "done", "failed"}]
    BY <1>2 DEF Inv, TypeOK
  <2>. QED
    BY <1>2, <2>1, <2>2, <2>3, <2>4 DEF Inv, TypeOK
<1>11. OneClaimPerRun'
  BY <1>3, <1>6, <1>9 DEF Inv, OneClaimPerRun, ClaimsOf
<1>12. ClaimsAreCurrent'
  <2>1. log'[r] # <<>> /\ LastEvent(log'[r]) = e
    BY <1>3, <1>4, <1>7, <1>8 DEF LastEvent, Inv, TypeOK
  <2>2. e.type = "STEP_CLAIMED"
    BY DEF e, StepEvent
  <2>. SUFFICES ASSUME NEW d \in claims'
                PROVE  d.step = CurrentStep(d.run)' /\ Created(d.run)' /\ ~Terminated(log[d.run])'
    BY DEF ClaimsAreCurrent
  <2>3. CASE d = c
    BY <1>2, <1>6, <2>1, <2>2, <2>3 DEF CurrentStep, Created, Terminated, TerminalEvent
  <2>4. CASE d \in claims
    <3>1. d.run \in Runs /\ d.run # r
      BY <1>3, <2>4 DEF ClaimsOf, Inv, TypeOK, Claim
    <3>2. log'[d.run] = log[d.run]
      BY <1>8, <3>1 DEF Inv, TypeOK
    <3>. QED
      BY <1>2, <2>4, <3>2 DEF Inv, ClaimsAreCurrent, CurrentStep, Created, Terminated
  <2>. QED
    BY <1>9, <2>3, <2>4
<1>13. WorkersSound'
  <2>. SUFFICES ASSUME NEW v \in Workers
                PROVE  Granted(v)' /\ Derived(v)' /\ Published(v)'
    BY DEF WorkersSound
  <2>1. CASE v = w
    <3>1. pc'[w] = "prepare" /\ held'[w] = c
      BY <1>2, <1>9 DEF Inv, TypeOK
    <3>2. Len(receipts[r]) \in Nat /\ c.step = Len(receipts[r]) + 1
      BY <1>3, <1>6 DEF CurrentStep, Inv, TypeOK
    <3>. QED
      BY <1>2, <1>5, <1>6, <2>1, <3>1, <3>2 DEF Granted, Derived, Published, Claim
  <2>2. CASE v # w
    <3>1. pc'[v] = pc[v] /\ held'[v] = held[v] /\ payload'[v] = payload[v]
      BY <1>2, <1>9, <2>2 DEF Inv, TypeOK
    <3>2. \A q \in Runs : Len(receipts[q]) <= Len(receipts'[q])
      BY <1>2 DEF Inv, TypeOK
    <3>. QED
      BY <1>2, <1>10, <3>1, <3>2, WorkerStaysSound DEF TypeOK
  <2>. QED
    BY <2>1, <2>2
<1>. QED
  BY <1>2, <1>10, <1>11, <1>12, <1>13, ArtifactsStay DEF Inv

\* _execute up to publication keeps the invariant: later steps derive from the first.
LEMMA PrepareInv ==
    ASSUME Inv, NEW w \in Workers, Prepare(w)
    PROVE  Inv'
<1>. DEFINE r == held[w].run
            s == held[w].step
<1>1. /\ pc[w] = "prepare"
      /\ UNCHANGED <<log, claims, receipts, artifacts, source, clock, wnow, held, failure>>
  BY DEF Prepare, ledger
<1>2. held[w] \in Claim /\ r \in Runs /\ s \in Nat
  BY <1>1 DEF Inv, WorkersSound, Granted, Working, Claim, Steps
<1>. DEFINE Prepared(n, p) ==
              /\ payload' = [payload EXCEPT ![w] = n] /\ pc' = [pc EXCEPT ![w] = p]
              /\ s > 1 => n = receipts[r][1].version
              /\ p = "done" => [run |-> r, step |-> s, version |-> n] \in artifacts
<1>3. PICK n \in Nat, p \in {"publish", "done"} : Prepared(n, p)
  <2>1. CASE s = 1 /\ Exists(r, s)
    <3>1. PICK a \in artifacts : /\ a.run = r /\ a.step = s
                                 /\ payload' = [payload EXCEPT ![w] = a.version]
      BY <2>1 DEF Prepare
    <3>2. pc' = [pc EXCEPT ![w] = "done"]
      BY <2>1 DEF Prepare
    <3>3. a = [run |-> r, step |-> s, version |-> a.version] /\ a.version \in Nat
      BY <3>1 DEF Inv, TypeOK, Artifact
    <3>4. Prepared(a.version, "done")
      BY <2>1, <3>1, <3>2, <3>3
    <3>. QED
      BY <3>3, <3>4
  <2>2. CASE s = 1 /\ ~Exists(r, s)
    <3>1. payload' = [payload EXCEPT ![w] = source] /\ pc' = [pc EXCEPT ![w] = "publish"]
      BY <2>2 DEF Prepare
    <3>2. source \in Nat
      BY DEF Inv, TypeOK
    <3>3. Prepared(source, "publish")
      BY <2>2, <3>1
    <3>. QED
      BY <3>2, <3>3
  <2>3. CASE s > 1
    <3>1. /\ \A i \in 1..(s - 1) : ReadBack(r, i)
          /\ payload' = [payload EXCEPT ![w] = receipts[r][1].version]
          /\ pc' = [pc EXCEPT ![w] = "publish"]
      BY <2>3 DEF Prepare
    <3>2. [run |-> r, step |-> 1, version |-> receipts[r][1].version] \in artifacts
      BY <1>2, <2>3, <3>1 DEF ReadBack
    <3>3. receipts[r][1].version \in Nat
      BY <3>2 DEF Inv, TypeOK, Artifact
    <3>4. Prepared(receipts[r][1].version, "publish")
      BY <3>1
    <3>. QED
      BY <3>3, <3>4
  <2>. QED
    BY <2>1, <2>2, <2>3 DEF Prepare
<1>4. TypeOK'
  <2>1. payload' \in [Workers -> Nat]
    BY <1>3 DEF Inv, TypeOK
  <2>2. pc' \in [Workers -> {"idle", "scanned", "prepare", "publish", "done", "failed"}]
    BY <1>3 DEF Inv, TypeOK
  <2>. QED
    BY <1>1, <2>1, <2>2 DEF Inv, TypeOK
<1>5. OneClaimPerRun' /\ ClaimsAreCurrent'
  BY <1>1 DEF Inv, OneClaimPerRun, ClaimsAreCurrent, CurrentStep, Created, Terminated
<1>6. WorkersSound'
  <2>. SUFFICES ASSUME NEW v \in Workers
                PROVE  Granted(v)' /\ Derived(v)' /\ Published(v)'
    BY DEF WorkersSound
  <2>1. CASE v = w
    <3>1. pc'[w] = p /\ payload'[w] = n /\ held'[w] = held[w]
      BY <1>1, <1>3 DEF Inv, TypeOK
    <3>2. Granted(w)'
      <4>1. Working(w) /\ Granted(w)
        BY <1>1 DEF Inv, WorkersSound, Working
      <4>. QED
        BY <1>1, <3>1, <4>1 DEF Granted
    <3>3. Derived(w)' /\ Published(w)'
      BY <1>1, <1>3, <3>1 DEF Derived, Published
    <3>. QED
      BY <2>1, <3>2, <3>3
  <2>2. CASE v # w
    <3>1. pc'[v] = pc[v] /\ held'[v] = held[v] /\ payload'[v] = payload[v]
      BY <1>1, <1>3, <2>2 DEF Inv, TypeOK
    <3>2. \A q \in Runs : Len(receipts[q]) <= Len(receipts'[q])
      BY <1>1 DEF Inv, TypeOK
    <3>. QED
      BY <1>1, <1>4, <3>1, <3>2, WorkerStaysSound DEF TypeOK
  <2>. QED
    BY <2>1, <2>2
<1>. QED
  BY <1>1, <1>4, <1>5, <1>6, ArtifactsStay DEF Inv

\* A worker whose action has failed, with artifacts as they were or one more.
LEMMA FailsWorkers ==
    ASSUME Inv, NEW w \in Workers, Working(w), NEW reason \in Reason, Fails(w, reason),
           UNCHANGED <<receipts, held>>, artifacts \subseteq artifacts'
    PROVE  /\ pc' \in [Workers -> {"idle", "scanned", "prepare", "publish", "done", "failed"}]
           /\ payload' \in [Workers -> Nat] /\ failure' \in [Workers -> Reason]
           /\ WorkersSound'
<1>1. /\ pc' \in [Workers -> {"idle", "scanned", "prepare", "publish", "done", "failed"}]
      /\ payload' \in [Workers -> Nat] /\ failure' \in [Workers -> Reason]
  BY DEF Fails, Inv, TypeOK
<1>2. ASSUME NEW v \in Workers
      PROVE  Granted(v)' /\ Derived(v)' /\ Published(v)'
  <2>1. \/ pc'[v] = "failed" /\ Working(v) /\ held'[v] = held[v]
        \/ pc'[v] = pc[v] /\ held'[v] = held[v] /\ payload'[v] = payload[v]
    BY DEF Fails, Inv, TypeOK
  <2>2. \A r \in Runs : Len(receipts[r]) <= Len(receipts'[r])
    BY DEF Inv, TypeOK
  <2>3. receipts' \in [Runs -> Seq(Receipt)]
    BY DEF Inv, TypeOK
  <2>. QED
    BY <2>1, <2>2, <2>3, WorkerStaysSound
<1>. QED
  BY <1>1, <1>2 DEF WorkersSound

\* A failed action keeps the invariant.
LEMMA ExecuteFailsInv ==
    ASSUME Inv, NEW w \in Workers, NEW reason \in Reason, ExecuteFails(w, reason)
    PROVE  Inv'
<1>1. /\ Working(w) /\ Fails(w, reason)
      /\ UNCHANGED <<log, claims, receipts, artifacts, source, clock, wnow, held>>
  BY DEF ExecuteFails, Working, ledger
<1>2. TypeOK' /\ WorkersSound'
  BY <1>1, FailsWorkers DEF Inv, TypeOK
<1>3. OneClaimPerRun' /\ ClaimsAreCurrent'
  BY <1>1 DEF Inv, OneClaimPerRun, ClaimsAreCurrent, CurrentStep, Created, Terminated
<1>. QED
  BY <1>1, <1>2, <1>3, ArtifactsStay DEF Inv

\* publish_canonical keeps the invariant: a file is added only where there is none.
LEMMA PublishInv ==
    ASSUME Inv, NEW w \in Workers, Publish(w)
    PROVE  Inv'
<1>. DEFINE mine == [run |-> held[w].run, step |-> held[w].step, version |-> payload[w]]
<1>1. /\ pc[w] = "publish" /\ Working(w)
      /\ UNCHANGED <<log, claims, receipts, source, clock, wnow, held>>
  BY DEF Publish, ledger, Working
<1>2. mine \in Artifact /\ mine.run = held[w].run /\ mine.step = held[w].step
  BY <1>1 DEF Inv, TypeOK, WorkersSound, Granted, Claim, Artifact
<1>3. /\ \/ artifacts' = artifacts
         \/ artifacts' = artifacts \cup {mine} /\ ~Exists(mine.run, mine.step)
      /\ \/ /\ pc' = [pc EXCEPT ![w] = "done"] /\ UNCHANGED <<payload, failure>>
            /\ mine \in artifacts'
         \/ \E reason \in Reason : Fails(w, reason)
  BY DEF Publish, Reason, Retryable
<1>. HIDE DEF mine
<1>4. artifacts \subseteq artifacts' /\ artifacts' \subseteq Artifact
  BY <1>2, <1>3 DEF Inv, TypeOK
<1>5. TypeOK' /\ WorkersSound'
  <2>1. CASE \E reason \in Reason : Fails(w, reason)
    BY <1>1, <1>4, <2>1, FailsWorkers DEF Inv, TypeOK
  <2>2. CASE /\ pc' = [pc EXCEPT ![w] = "done"] /\ UNCHANGED <<payload, failure>>
             /\ mine \in artifacts'
    <3>1. pc' \in [Workers -> {"idle", "scanned", "prepare", "publish", "done", "failed"}]
      BY <2>2 DEF Inv, TypeOK
    <3>2. TypeOK'
      BY <1>1, <1>4, <2>2, <3>1 DEF Inv, TypeOK
    <3>3. ASSUME NEW v \in Workers
          PROVE  Granted(v)' /\ Derived(v)' /\ Published(v)'
      <4>1. CASE v = w
        <5>1. Granted(w) /\ Derived(w)
          BY DEF Inv, WorkersSound
        <5>2. Granted(w)' /\ Derived(w)'
          BY <1>1, <2>2, <5>1 DEF Granted, Derived
        <5>3. Published(w)'
          BY <1>1, <2>2 DEF Published, mine
        <5>. QED
          BY <4>1, <5>2, <5>3
      <4>2. CASE v # w
        <5>1. pc'[v] = pc[v] /\ held'[v] = held[v] /\ payload'[v] = payload[v]
          BY <1>1, <2>2, <4>2 DEF Inv, TypeOK
        <5>2. \A q \in Runs : Len(receipts[q]) <= Len(receipts'[q])
          BY <1>1 DEF Inv, TypeOK
        <5>. QED
          BY <1>1, <1>4, <3>2, <5>1, <5>2, WorkerStaysSound DEF TypeOK
      <4>. QED
        BY <4>1, <4>2
    <3>. QED
      BY <3>2, <3>3 DEF WorkersSound
  <2>. QED
    BY <1>3, <2>1, <2>2
<1>6. OneClaimPerRun' /\ ClaimsAreCurrent'
  BY <1>1 DEF Inv, OneClaimPerRun, ClaimsAreCurrent, CurrentStep, Created, Terminated
<1>7. AcceptedArtifactStands'
  <2>1. ASSUME NEW a \in artifacts', NEW b \in artifacts', a.run = b.run, a.step = b.step
        PROVE  a = b
    BY <1>2, <1>3, <2>1 DEF Inv, AcceptedArtifactStands, Exists
  <2>2. \A r \in Runs : \A i \in DOMAIN receipts'[r] :
          [run |-> r, step |-> i, version |-> receipts'[r][i].version] \in artifacts'
    BY <1>1, <1>4 DEF Inv, AcceptedArtifactStands
  <2>. QED
    BY <2>1, <2>2 DEF AcceptedArtifactStands
<1>8. OneLineage'
  <2>1. ASSUME NEW r \in Runs
        PROVE  \A i \in DOMAIN receipts'[r] :
                  receipts'[r][i].version = receipts'[r][1].version
    BY <1>1 DEF Inv, OneLineage
  <2>2. ASSUME NEW r \in Runs, NEW a \in artifacts', a.run = r, a.step > 1
        PROVE  receipts'[r] # <<>> /\ a.version = receipts'[r][1].version
    <3>1. CASE a \in artifacts
      BY <1>1, <2>2, <3>1 DEF Inv, OneLineage
    <3>2. CASE a = mine
      <4>1. r = held[w].run /\ held[w].step > 1 /\ a.version = payload[w]
        BY <1>2, <2>2, <3>2 DEF mine
      <4>2. payload[w] = receipts[r][1].version
        BY <1>1, <4>1 DEF Inv, WorkersSound, Derived
      <4>3. Len(receipts[r]) >= held[w].step - 1 /\ held[w].step \in Nat
        BY <1>1, <4>1 DEF Inv, WorkersSound, Granted, Claim, Steps
      <4>4. receipts[r] # <<>>
        BY <4>1, <4>3
      <4>. QED
        BY <1>1, <4>1, <4>2, <4>4
    <3>. QED
      BY <1>3, <2>2, <3>1, <3>2
  <2>. QED
    BY <2>1, <2>2 DEF OneLineage
<1>. QED
  BY <1>5, <1>6, <1>7, <1>8 DEF Inv

(***************************************************************************)
(* The end of an attempt, accepted.                                        *)
(***************************************************************************)

\* The ledger side of an accepted finalization, success or failure.
LEMMA EndAttemptLedger ==
    ASSUME Inv, NEW w \in Workers, Working(w), EndAttempt(w),
           NEW c, c = held[w],
           \A q \in Runs \ {c.run} : receipts'[q] = receipts[q]
    PROVE  /\ c \in claims /\ c \in Claim
           /\ log' \in [Runs -> Seq(Event)] /\ claims' \subseteq claims
           /\ OneClaimPerRun' /\ ClaimsAreCurrent'
<1>1. c \in claims /\ c \in Claim
  BY DEF EndAttempt, Accepted, Fenced, Inv, TypeOK
<1>2. FinalEvents(w) \in Seq(Event)
  BY <1>1, SuccessEventsType, FailureEventsType DEF FinalEvents, Inv, TypeOK
<1>3. c.run \in Runs /\ log[c.run] \in Seq(Event)
  BY <1>1 DEF Claim, Inv, TypeOK
<1>4. log' = [log EXCEPT ![c.run] = log[c.run] \o FinalEvents(w)] /\ claims' = claims \ {c}
  BY DEF EndAttempt
<1>5. log' \in [Runs -> Seq(Event)]
  <2>1. log[c.run] \o FinalEvents(w) \in Seq(Event)
    BY <1>2, <1>3, ConcatProperties
  <2>. QED
    BY <1>3, <1>4, <2>1 DEF Inv, TypeOK
<1>6. OneClaimPerRun'
  BY <1>4 DEF Inv, OneClaimPerRun
<1>7. ClaimsAreCurrent'
  <2>. SUFFICES ASSUME NEW d \in claims'
                PROVE  d.step = CurrentStep(d.run)' /\ Created(d.run)' /\ ~Terminated(log[d.run])'
    BY DEF ClaimsAreCurrent
  <2>1. d \in claims /\ d.run \in Runs \ {c.run}
    BY <1>1, <1>4 DEF Inv, TypeOK, OneClaimPerRun, Claim
  <2>2. log'[d.run] = log[d.run] /\ receipts'[d.run] = receipts[d.run]
    BY <1>4, <2>1 DEF Inv, TypeOK
  <2>. QED
    BY <2>1, <2>2 DEF Inv, ClaimsAreCurrent, CurrentStep, Created, Terminated
<1>. QED
  BY <1>1, <1>4, <1>5, <1>6, <1>7

\* _finalize_failure keeps the invariant.
LEMMA FinalizeFailureInv ==
    ASSUME Inv, NEW w \in Workers, FinalizeFailure(w)
    PROVE  Inv'
<1>1. /\ Working(w) /\ EndAttempt(w) /\ Rest(w)
      /\ UNCHANGED <<receipts, artifacts, source, clock>>
  BY DEF FinalizeFailure, EndAttempt, Working
<1>2. /\ log' \in [Runs -> Seq(Event)] /\ claims' \subseteq claims
      /\ OneClaimPerRun' /\ ClaimsAreCurrent'
  BY <1>1, EndAttemptLedger
<1>3. TypeOK'
  BY <1>1, <1>2, RestTypes DEF Inv, TypeOK
<1>4. WorkersSound'
  <2>. SUFFICES ASSUME NEW v \in Workers
                PROVE  Granted(v)' /\ Derived(v)' /\ Published(v)'
    BY DEF WorkersSound
  <2>1. \/ ~Working(v)'
        \/ pc'[v] = pc[v] /\ held'[v] = held[v] /\ payload'[v] = payload[v]
    BY <1>1, RestTypes DEF Inv, Working
  <2>2. \A r \in Runs : Len(receipts[r]) <= Len(receipts'[r])
    BY <1>1 DEF Inv, TypeOK
  <2>. QED
    BY <1>1, <1>3, <2>1, <2>2, WorkerStaysSound DEF TypeOK
<1>. QED
  BY <1>1, <1>2, <1>3, <1>4, ArtifactsStay DEF Inv

\* _finalize_success keeps the invariant: the fenced claim is current, so the
\* receipt comes next, and what it names is on disk and of the run's lineage.
LEMMA FinalizeSuccessInv ==
    ASSUME Inv, NEW w \in Workers, FinalizeSuccess(w)
    PROVE  Inv'
<1>. DEFINE c == held[w]
            r == c.run
            new == [step |-> c.step, version |-> payload[w], at |-> wnow[w]]
<1>1. /\ pc[w] = "done" /\ Working(w) /\ EndAttempt(w) /\ Rest(w)
      /\ receipts' = [receipts EXCEPT ![r] = Append(receipts[r], new)]
      /\ UNCHANGED <<artifacts, source, clock>>
  BY DEF FinalizeSuccess, EndAttempt, Working
<1>2. \A q \in Runs \ {r} : receipts'[q] = receipts[q]
  BY <1>1 DEF Inv, TypeOK
<1>3. /\ c \in claims /\ c \in Claim
      /\ log' \in [Runs -> Seq(Event)] /\ claims' \subseteq claims
      /\ OneClaimPerRun' /\ ClaimsAreCurrent'
  BY <1>1, <1>2, EndAttemptLedger
<1>4. /\ r \in Runs /\ receipts[r] \in Seq(Receipt) /\ Len(receipts[r]) \in Nat
      /\ c.step = Len(receipts[r]) + 1
  BY <1>3 DEF Claim, Inv, TypeOK, ClaimsAreCurrent, CurrentStep
<1>5. new \in Receipt /\ new.version = payload[w]
  BY <1>3 DEF Claim, Inv, TypeOK, Receipt
<1>. HIDE DEF new
<1>6. /\ receipts'[r] \in Seq(Receipt)
      /\ Len(receipts'[r]) = Len(receipts[r]) + 1
      /\ \A i \in 1..Len(receipts[r]) : receipts'[r][i] = receipts[r][i]
      /\ receipts'[r][Len(receipts[r]) + 1] = new
  <2>1. receipts'[r] = Append(receipts[r], new)
    BY <1>1, <1>4 DEF Inv, TypeOK
  <2>. QED
    BY <1>4, <1>5, <2>1, AppendProperties
<1>7. DOMAIN receipts'[r] = 1..(Len(receipts[r]) + 1) /\ DOMAIN receipts[r] = 1..Len(receipts[r])
  BY <1>4, <1>6, LenProperties
<1>8. TypeOK'
  <2>1. receipts' \in [Runs -> Seq(Receipt)]
    BY <1>1, <1>4, <1>5, AppendProperties DEF Inv, TypeOK
  <2>. QED
    BY <1>1, <1>3, <2>1, RestTypes DEF Inv, TypeOK
<1>9. WorkersSound'
  <2>. SUFFICES ASSUME NEW v \in Workers
                PROVE  Granted(v)' /\ Derived(v)' /\ Published(v)'
    BY DEF WorkersSound
  <2>1. \/ ~Working(v)'
        \/ pc'[v] = pc[v] /\ held'[v] = held[v] /\ payload'[v] = payload[v]
    BY <1>1, RestTypes DEF Inv, Working
  <2>2. ASSUME NEW q \in Runs
        PROVE  /\ Len(receipts[q]) <= Len(receipts'[q])
               /\ receipts[q] # <<>> => receipts'[q][1] = receipts[q][1]
    <3>1. CASE q # r
      BY <1>2, <3>1 DEF Inv, TypeOK
    <3>2. CASE q = r
      <4>1. receipts[r] # <<>> => 1 \in 1..Len(receipts[r])
        BY <1>4
      <4>. QED
        BY <1>4, <1>6, <3>2, <4>1
    <3>. QED
      BY <3>1, <3>2
  <2>. QED
    BY <1>1, <1>8, <2>1, <2>2, WorkerStaysSound DEF TypeOK
<1>10. [run |-> r, step |-> c.step, version |-> payload[w]] \in artifacts
  BY <1>1 DEF Inv, WorkersSound, Published
<1>11. AcceptedArtifactStands'
  <2>1. ASSUME NEW q \in Runs, NEW i \in DOMAIN receipts'[q]
        PROVE  [run |-> q, step |-> i, version |-> receipts'[q][i].version] \in artifacts'
    <3>1. CASE q # r
      BY <1>1, <1>2, <3>1 DEF Inv, AcceptedArtifactStands
    <3>2. CASE q = r /\ i \in DOMAIN receipts[r]
      BY <1>1, <1>4, <1>6, <1>7, <3>2 DEF Inv, AcceptedArtifactStands
    <3>3. CASE q = r /\ i = Len(receipts[r]) + 1
      BY <1>1, <1>4, <1>5, <1>6, <1>10, <3>3
    <3>. QED
      BY <1>4, <1>7, <3>1, <3>2, <3>3
  <2>2. \A a, b \in artifacts' : a.run = b.run /\ a.step = b.step => a = b
    BY <1>1 DEF Inv, AcceptedArtifactStands
  <2>. QED
    BY <2>1, <2>2 DEF AcceptedArtifactStands
<1>12. OneLineage'
  <2>1. ASSUME receipts[r] # <<>>
        PROVE  payload[w] = receipts[r][1].version /\ receipts'[r][1] = receipts[r][1]
    <3>1. c.step > 1 /\ 1 \in 1..Len(receipts[r])
      BY <1>4, <2>1
    <3>. QED
      BY <1>1, <1>6, <3>1 DEF Inv, WorkersSound, Derived
  <2>2. ASSUME NEW q \in Runs, NEW i \in DOMAIN receipts'[q]
        PROVE  receipts'[q][i].version = receipts'[q][1].version
    <3>1. CASE q # r
      BY <1>2, <3>1 DEF Inv, OneLineage
    <3>2. CASE q = r /\ receipts[r] = <<>>
      <4>1. i = 1
        BY <1>4, <1>7, <3>2
      <4>. QED
        BY <4>1
    <3>3. CASE q = r /\ receipts[r] # <<>> /\ i \in DOMAIN receipts[r]
      <4>1. receipts'[r][i] = receipts[r][i]
        BY <1>6, <1>7, <3>3
      <4>. QED
        BY <1>4, <2>1, <3>3, <4>1 DEF Inv, OneLineage
    <3>4. CASE q = r /\ receipts[r] # <<>> /\ i = Len(receipts[r]) + 1
      BY <1>5, <1>6, <2>1, <3>4
    <3>. QED
      BY <1>4, <1>7, <3>1, <3>2, <3>3, <3>4
  <2>3. ASSUME NEW q \in Runs, NEW a \in artifacts', a.run = q, a.step > 1
        PROVE  receipts'[q] # <<>> /\ a.version = receipts'[q][1].version
    <3>1. receipts[q] # <<>> /\ a.version = receipts[q][1].version
      BY <1>1, <2>3 DEF Inv, OneLineage
    <3>2. CASE q # r
      BY <1>2, <3>1, <3>2
    <3>3. CASE q = r
      BY <1>4, <1>6, <2>1, <3>1, <3>3
    <3>. QED
      BY <3>2, <3>3
  <2>. QED
    BY <2>2, <2>3 DEF OneLineage
<1>. QED
  BY <1>3, <1>8, <1>9, <1>11, <1>12 DEF Inv

(***************************************************************************)
(* The invariant.                                                          *)
(***************************************************************************)

\* An empty ledger satisfies the invariant.
LEMMA InitInv == Init => Inv
<1>. SUFFICES ASSUME Init
              PROVE  Inv
  OBVIOUS
<1>1. TypeOK
  BY DEF Init, TypeOK, Reason
<1>2. AcceptedArtifactStands /\ OneLineage
  BY DEF Init, AcceptedArtifactStands, OneLineage
<1>3. OneClaimPerRun /\ ClaimsAreCurrent /\ WorkersSound
  BY DEF Init, OneClaimPerRun, ClaimsAreCurrent, WorkersSound,
         Granted, Derived, Published, Working
<1>. QED
  BY <1>1, <1>2, <1>3 DEF Inv

\* Every step, of whatever actor, keeps the invariant.
LEMMA NextInv == Inv /\ [Next]_vars => Inv'
<1>. SUFFICES ASSUME Inv, [Next]_vars
              PROVE  Inv'
  OBVIOUS
<1>1. ASSUME NEW now \in CallerTimes, Operator(now)
      PROVE  Inv'
  <2>1. now \in Nat
    BY TimeType DEF Inv
  <2>. QED
    BY <1>1, <2>1, CreateRunInv, CancelRunInv, RecoverInv DEF Operator
<1>2. ASSUME NEW now \in CallerTimes, NEW w \in Workers, Recover(w, now)
      PROVE  Inv'
  <2>1. now \in Nat
    BY TimeType DEF Inv
  <2>. QED
    BY <1>2, <2>1, RecoverInv
<1>3. ASSUME NEW w \in Workers, Step(w)
      PROVE  Inv'
  BY <1>3, ClaimOneInv, GivesUpInv, PrepareInv, PublishInv, ExecuteFailsInv,
     FinalizeSuccessInv, FinalizeFailureInv DEF Step
<1>4. CASE SourceChanges \/ ClockTicks
  BY <1>4, BackgroundInv
<1>5. CASE UNCHANGED vars
  <2>1. UNCHANGED <<log, claims, receipts, artifacts, source, clock,
                    pc, wnow, held, payload, failure>>
    BY <1>5 DEF vars
  <2>2. TypeOK'
    BY <2>1 DEF Inv, TypeOK
  <2>3. OneClaimPerRun' /\ ClaimsAreCurrent'
    BY <2>1 DEF Inv, OneClaimPerRun, ClaimsAreCurrent, CurrentStep, Created, Terminated
  <2>. QED
    BY <2>1, <2>2, <2>3, ArtifactsStay, WorkersStay DEF Inv
<1>. QED
  BY <1>1, <1>2, <1>3, <1>4, <1>5 DEF Next

\* In every reachable state the ledger, the artifact directory and the workers
\* agree: the rows of workflow_claims are the one current step of a run under
\* way, and what a worker, however late, is about to publish fits the receipts.
THEOREM Soundness == Spec => []Inv
BY InitInv, NextInv, PTL DEF Spec

\* Every variable keeps its type: in particular the ledger holds only events,
\* claims and receipts the schema admits.
THEOREM TypeCorrect == Spec => []TypeOK
<1>1. Inv => TypeOK
  BY DEF Inv
<1>. QED
  BY <1>1, Soundness, PTL

\* No artifact is ever replaced, and every accepted receipt names the content
\* that is on disk (_publish, publish_canonical, _finalize_success).
THEOREM ArtifactSafety == Spec => []AcceptedArtifactStands
<1>1. Inv => AcceptedArtifactStands
  BY DEF Inv
<1>. QED
  BY <1>1, Soundness, PTL

\* All receipts of a run, and all it publishes after its first step, derive
\* from the one snapshot the first receipt accepted (_action_input, _verify,
\* _publish), whichever attempt publishes it.
THEOREM LineageSafety == Spec => []OneLineage
<1>1. Inv => OneLineage
  BY DEF Inv
<1>. QED
  BY <1>1, Soundness, PTL

(***************************************************************************)
(* A run that has ended stays as it is.                                    *)
(***************************************************************************)

\* The end of an attempt writes to the history of its own run only.
LEMMA OthersUntouched ==
    ASSUME TypeOK, NEW w \in Workers, NEW r \in Runs, EndAttempt(w),
           held[w] \in Claim, held[w].run # r
    PROVE  log'[r] = log[r]
BY DEF EndAttempt, TypeOK

\* No step touches a run that has ended.
LEMMA EndedRunStays ==
    ASSUME Inv, [Next]_vars, NEW r \in Runs, Created(r), Terminated(log[r])
    PROVE  /\ log'[r] = log[r] /\ receipts'[r] = receipts[r]
           /\ {c \in claims' : c.run = r} = {}
<1>1. \A c \in claims : c.run # r /\ c \in Claim
  BY DEF Inv, TypeOK, ClaimsAreCurrent
<1>2. ASSUME UNCHANGED <<log, claims, receipts>>
      PROVE  /\ log'[r] = log[r] /\ receipts'[r] = receipts[r]
             /\ {c \in claims' : c.run = r} = {}
  BY <1>1, <1>2
<1>3. ASSUME NEW now, RecoverExpired(now)
      PROVE  /\ log'[r] = log[r] /\ receipts'[r] = receipts[r]
             /\ {c \in claims' : c.run = r} = {}
  BY <1>1, <1>3 DEF RecoverExpired, Expired
<1>4. ASSUME NEW now \in CallerTimes, Operator(now)
      PROVE  /\ log'[r] = log[r] /\ receipts'[r] = receipts[r]
             /\ {c \in claims' : c.run = r} = {}
  <2>1. ASSUME NEW q \in Runs, CreateRun(q, now) \/ CancelRun(q, now)
        PROVE  q # r /\ log'[r] = log[r] /\ UNCHANGED <<claims, receipts>>
    BY <2>1 DEF CreateRun, CancelRun, Inv, TypeOK
  <2>. QED
    BY <1>1, <1>3, <1>4, <2>1 DEF Operator, OperatorRecover
<1>5. ASSUME NEW now, NEW w \in Workers, Recover(w, now)
      PROVE  /\ log'[r] = log[r] /\ receipts'[r] = receipts[r]
             /\ {c \in claims' : c.run = r} = {}
  BY <1>3, <1>5 DEF Recover
<1>6. ASSUME NEW w \in Workers, Step(w)
      PROVE  /\ log'[r] = log[r] /\ receipts'[r] = receipts[r]
             /\ {c \in claims' : c.run = r} = {}
  <2>1. CASE ClaimOne(w)
    <3>1. PICK q \in Runnable(wnow[w]) :
            /\ log' = [log EXCEPT ![q] =
                          Append(@, StepEvent("STEP_CLAIMED", NewClaim(w, q, wnow[w]),
                                              wnow[w], "NONE"))]
            /\ claims' = claims \cup {NewClaim(w, q, wnow[w])}
      BY <2>1 DEF ClaimOne
    <3>2. q # r
      BY <3>1 DEF Runnable
    <3>3. NewClaim(w, q, wnow[w]).run = q
      BY DEF NewClaim
    <3>4. log'[r] = log[r] /\ receipts'[r] = receipts[r]
      BY <2>1, <3>1, <3>2 DEF ClaimOne, Inv, TypeOK
    <3>. QED
      BY <1>1, <3>1, <3>2, <3>3, <3>4
  <2>2. CASE ClaimNothing(w) \/ FinalizeRejected(w) \/ Abandon(w)
    BY <1>2, <2>2 DEF ClaimNothing, FinalizeRejected, Abandon, ledger
  <2>3. CASE Prepare(w) \/ Publish(w) \/ \E reason \in Reason : ExecuteFails(w, reason)
    BY <1>2, <2>3 DEF Prepare, Publish, ExecuteFails, ledger
  <2>4. CASE FinalizeSuccess(w) \/ FinalizeFailure(w)
    <3>1. EndAttempt(w) /\ held[w] \in claims /\ claims' = claims \ {held[w]}
      BY <2>4 DEF FinalizeSuccess, FinalizeFailure, EndAttempt, Accepted, Fenced
    <3>2. held[w].run # r /\ held[w] \in Claim
      BY <1>1, <3>1
    <3>3. log'[r] = log[r]
      BY <3>1, <3>2, OthersUntouched DEF Inv
    <3>4. receipts'[r] = receipts[r]
      BY <2>4, <3>2 DEF FinalizeSuccess, FinalizeFailure, Inv, TypeOK
    <3>. QED
      BY <1>1, <3>1, <3>3, <3>4
  <2>. QED
    BY <1>6, <2>1, <2>2, <2>3, <2>4 DEF Step
<1>7. CASE SourceChanges \/ ClockTicks \/ UNCHANGED vars
  BY <1>2, <1>7 DEF SourceChanges, ClockTicks, vars
<1>. QED
  BY <1>4, <1>5, <1>6, <1>7 DEF Next

\* Once the last event of a run is terminal no transaction of any process
\* touches the run again: no event, no receipt and no claim, even if a worker
\* that lost its lease comes back with a result (_verify_fencing, _claim_one).
THEOREM TerminalFinality == Spec => TerminalIsFinal
<1>1. Inv /\ [Next]_vars =>
        [\A r \in Runs :
            Created(r) /\ Terminated(log[r]) =>
                /\ log'[r] = log[r] /\ receipts'[r] = receipts[r]
                /\ {c \in claims' : c.run = r} = {}]_vars
  BY EndedRunStays
<1>. QED
  BY <1>1, Soundness, PTL DEF Spec, TerminalIsFinal

(***************************************************************************)
(* What a history says of its prefix, and what one more event changes.     *)
(***************************************************************************)

\* The attempts a worker may still be at, and the steps that have succeeded, as
\* the replay check has counted them when it reaches the end of a history.
Open(h) == OpenClaims(h, Len(h) + 1)
Done(h) == Cardinality(Before(h, Len(h) + 1, "STEP_SUCCEEDED"))

\* One more event leaves the events before it where they are.
LEMMA OneMoreEvent ==
    ASSUME NEW h \in Seq(Event), NEW e \in Event
    PROVE  /\ Append(h, e) \in Seq(Event) /\ Append(h, e) # <<>>
           /\ Len(h) \in Nat /\ Len(Append(h, e)) = Len(h) + 1
           /\ DOMAIN h = 1..Len(h) /\ DOMAIN Append(h, e) = 1..(Len(h) + 1)
           /\ Append(h, e)[Len(h) + 1] = e /\ LastEvent(Append(h, e)) = e
           /\ \A i \in 1..Len(h) : Append(h, e)[i] = h[i]
BY AppendProperties, LenProperties DEF LastEvent

\* The replay check reads no event later than the one it is at: what it carries
\* at an event is what it carried there before the history grew.
LEMMA PrefixStands ==
    ASSUME NEW h \in Seq(Event), NEW e \in Event, NEW i \in 1..(Len(h) + 1)
    PROVE  /\ OpenClaims(Append(h, e), i) = OpenClaims(h, i)
           /\ \A t : Before(Append(h, e), i, t) = Before(h, i, t)
<1>. DEFINE g == Append(h, e)
<1>1. Len(h) \in Nat /\ \A j \in 1..(i - 1) : g[j] = h[j]
  BY OneMoreEvent
<1>. HIDE DEF g
<1>2. \A t : Before(g, i, t) = Before(h, i, t)
  BY <1>1 DEF Before
<1>3. \A j \in 1..(i - 1) : \A k \in (j + 1)..(i - 1) : g[k] = h[k]
  BY <1>1
<1>4. OpenClaims(g, i) = OpenClaims(h, i)
  BY <1>1, <1>3 DEF OpenClaims
<1>. QED
  BY <1>2, <1>4 DEF g

\* So an event that the check admitted stays admitted, and the other way round.
LEMMA AllowedStands ==
    ASSUME NEW h \in Seq(Event), NEW e \in Event, NEW i \in 1..Len(h), NEW rs
    PROVE  AllowedAt(Append(h, e), rs, i) <=> AllowedAt(h, rs, i)
<1>. DEFINE g == Append(h, e)
<1>1. /\ Len(h) \in Nat /\ i \in 1..(Len(h) + 1)
      /\ g[i] = h[i] /\ \A j \in 1..(i - 1) : g[j] = h[j]
      /\ i > 1 => g[i - 1] = h[i - 1]
  BY OneMoreEvent
<1>2. OpenClaims(g, i) = OpenClaims(h, i) /\ \A t : Before(g, i, t) = Before(h, i, t)
  BY <1>1, PrefixStands
<1>3. \A j \in OpenClaims(h, i) : g[j] = h[j]
  BY <1>1 DEF OpenClaims
<1>. HIDE DEF g
<1>4. {j \in Before(g, i, "STEP_CLAIMED") : g[j].step = h[i].step}
        = {j \in Before(h, i, "STEP_CLAIMED") : h[j].step = h[i].step}
  BY <1>1, <1>2 DEF Before
<1>5. AllowedAt(g, rs, i) <=> AllowedAt(h, rs, i)
  BY <1>1, <1>2, <1>3, <1>4 DEF AllowedAt
<1>. QED
  BY <1>5 DEF g

\* What an event adds to a set of positions of its kind.
LEMMA OneMoreBefore ==
    ASSUME NEW h \in Seq(Event), NEW e \in Event, NEW t
    PROVE  /\ IsFiniteSet(Before(h, Len(h) + 1, t))
           /\ Cardinality(Before(h, Len(h) + 1, t)) \in Nat
           /\ Cardinality(Before(Append(h, e), Len(h) + 2, t)) =
                 Cardinality(Before(h, Len(h) + 1, t)) + (IF e.type = t THEN 1 ELSE 0)
<1>. DEFINE g == Append(h, e)
            n == Len(h)
            b == Before(h, n + 1, t)
<1>1. n \in Nat /\ g[n + 1] = e /\ \A j \in 1..n : g[j] = h[j]
  BY OneMoreEvent
<1>2. b \in SUBSET (1..n)
  BY <1>1 DEF Before
<1>. HIDE DEF b
<1>3. IsFiniteSet(b) /\ Cardinality(b) \in Nat /\ n + 1 \notin b
  <2>1. IsFiniteSet(1..n)
    BY <1>1, FS_Interval
  <2>2. IsFiniteSet(b)
    BY <1>2, <2>1, FS_Subset
  <2>. QED
    BY <1>1, <1>2, <2>2, FS_CardinalityType
<1>4. (n + 2) - 1 = n + 1 /\ (n + 1) - 1 = n
  BY <1>1
<1>. HIDE DEF g, n
<1>5. Before(g, n + 2, t) = IF e.type = t THEN b \cup {n + 1} ELSE b
  BY <1>1, <1>4 DEF Before, b
<1>6. Cardinality(b \cup {n + 1}) = Cardinality(b) + 1
  BY <1>3, FS_AddElement
<1>7. Cardinality(Before(g, n + 2, t)) = Cardinality(b) + (IF e.type = t THEN 1 ELSE 0)
  BY <1>3, <1>5, <1>6
<1>. QED
  BY <1>3, <1>7 DEF g, n, b

\* What one more event changes in the figures the properties speak of.
LEMMA DigestGrows ==
    ASSUME NEW h \in Seq(Event), NEW e \in Event
    PROVE  LET g == Append(h, e)
           IN  /\ Open(g) = IF e.type \in AttemptEnd THEN {}
                            ELSE IF e.type = "STEP_CLAIMED" THEN Open(h) \cup {Len(h) + 1}
                            ELSE Open(h)
               /\ Done(h) \in Nat
               /\ Done(g) = Done(h) + (IF e.type = "STEP_SUCCEEDED" THEN 1 ELSE 0)
               /\ CancelRequested(g) <=> CancelRequested(h) \/ e.type = "RUN_CANCEL_REQUESTED"
               /\ Terminated(g) <=> e.type \in TerminalEvent
<1>. DEFINE g == Append(h, e)
            n == Len(h)
<1>1. /\ n \in Nat /\ Len(g) = n + 1 /\ g[n + 1] = e /\ \A j \in 1..n : g[j] = h[j]
      /\ DOMAIN h = 1..n /\ DOMAIN g = 1..(n + 1) /\ LastEvent(g) = e
  BY OneMoreEvent
<1>2. (n + 1) + 1 = n + 2 /\ (n + 2) - 1 = n + 1 /\ (n + 1) - 1 = n
  BY <1>1
<1>3. Done(h) \in Nat /\ Done(g) = Done(h) + (IF e.type = "STEP_SUCCEEDED" THEN 1 ELSE 0)
  BY <1>1, <1>2, OneMoreBefore DEF Done
<1>. HIDE DEF g, n
<1>4. CancelRequested(g) <=> CancelRequested(h) \/ e.type = "RUN_CANCEL_REQUESTED"
  BY <1>1 DEF CancelRequested
<1>5. Open(g) = {j \in 1..(n + 1) : /\ g[j].type = "STEP_CLAIMED"
                                    /\ \A k \in (j + 1)..(n + 1) : g[k].type \notin AttemptEnd}
  BY <1>1, <1>2 DEF Open, OpenClaims, n
<1>6. Open(h) = {j \in 1..n : /\ h[j].type = "STEP_CLAIMED"
                              /\ \A k \in (j + 1)..n : h[k].type \notin AttemptEnd}
  BY <1>1, <1>2 DEF Open, OpenClaims, n
<1>7. CASE e.type \in AttemptEnd
  <2>1. \A j \in 1..n : n + 1 \in (j + 1)..(n + 1)
    BY <1>1
  <2>2. e.type # "STEP_CLAIMED"
    BY <1>7 DEF AttemptEnd
  <2>3. Open(g) = {}
    BY <1>1, <1>5, <1>7, <2>1, <2>2
  <2>. QED
    BY <1>1, <1>3, <1>4, <1>7, <2>3 DEF Terminated, g
<1>8. CASE e.type \notin AttemptEnd
  <2>1. ASSUME NEW j \in 1..n
        PROVE  j \in Open(g) <=> j \in Open(h)
    <3>1. g[j] = h[j] /\ j \in 1..(n + 1) /\ \A k \in (j + 1)..n : g[k] = h[k]
      BY <1>1
    <3>2. (j + 1)..(n + 1) = (j + 1)..n \cup {n + 1}
      BY <1>1
    <3>. QED
      BY <1>1, <1>5, <1>6, <1>8, <3>1, <3>2
  <2>2. n + 1 \in Open(g) <=> e.type = "STEP_CLAIMED"
    BY <1>1, <1>5, <1>8
  <2>3. Open(g) \subseteq 1..n \cup {n + 1} /\ Open(h) \subseteq 1..n
    BY <1>1, <1>5, <1>6
  <2>. HIDE DEF g
  <2>4. Open(g) = IF e.type = "STEP_CLAIMED" THEN Open(h) \cup {n + 1} ELSE Open(h)
    <3>1. CASE e.type = "STEP_CLAIMED"
      BY <2>1, <2>2, <2>3, <3>1
    <3>2. CASE e.type # "STEP_CLAIMED"
      <4>1. Open(g) \subseteq 1..n
        BY <2>2, <2>3, <3>2
      <4>. QED
        BY <2>1, <2>3, <3>2, <4>1
    <3>. QED
      BY <3>1, <3>2
  <2>. QED
    BY <1>1, <1>3, <1>4, <1>8, <2>4 DEF Terminated, g, n
<1>. QED
  BY <1>7, <1>8

\* The attempts of a step, one more with a claim of it.
LEMMA TriesGrow ==
    ASSUME NEW h \in Seq(Event), NEW e \in Event, NEW s
    PROVE  /\ ClaimedAttempts(h, s) \in Nat
           /\ ClaimedAttempts(Append(h, e), s) =
                ClaimedAttempts(h, s) + (IF e.type = "STEP_CLAIMED" /\ e.step = s THEN 1 ELSE 0)
<1>. DEFINE g == Append(h, e)
            n == Len(h)
            b == {i \in DOMAIN h : h[i].type = "STEP_CLAIMED" /\ h[i].step = s}
            b2 == {i \in DOMAIN g : g[i].type = "STEP_CLAIMED" /\ g[i].step = s}
<1>1. /\ n \in Nat /\ g[n + 1] = e /\ \A j \in 1..n : g[j] = h[j]
      /\ DOMAIN h = 1..n /\ DOMAIN g = 1..(n + 1)
  BY OneMoreEvent
<1>2. b \in SUBSET (1..n)
  BY <1>1
<1>. HIDE DEF b
<1>3. IsFiniteSet(b) /\ Cardinality(b) \in Nat /\ n + 1 \notin b
  <2>1. IsFiniteSet(1..n)
    BY <1>1, FS_Interval
  <2>2. IsFiniteSet(b)
    BY <1>2, <2>1, FS_Subset
  <2>. QED
    BY <1>1, <1>2, <2>2, FS_CardinalityType
<1>. HIDE DEF g, n
<1>4. b2 = IF e.type = "STEP_CLAIMED" /\ e.step = s THEN b \cup {n + 1} ELSE b
  BY <1>1 DEF b
<1>. HIDE DEF b2
<1>5. Cardinality(b \cup {n + 1}) = Cardinality(b) + 1
  BY <1>3, FS_AddElement
<1>6. Cardinality(b2) =
        Cardinality(b) + (IF e.type = "STEP_CLAIMED" /\ e.step = s THEN 1 ELSE 0)
  BY <1>3, <1>4, <1>5
<1>. QED
  BY <1>3, <1>6 DEF ClaimedAttempts, g, b, b2

(***************************************************************************)
(* Which event the replay check admits as the next one.                    *)
(***************************************************************************)

\* What the check has at hand when it reaches the event after a history.
LEMMA AtTheEnd ==
    ASSUME NEW h \in Seq(Event), NEW e \in Event
    PROVE  LET g == Append(h, e)
               i == Len(h) + 1
           IN  /\ i \in Nat /\ g[i] = e /\ (i > 1 <=> h # <<>>)
               /\ h # <<>> => g[i - 1] = LastEvent(h)
               /\ OpenClaims(g, i) = Open(h) /\ \A j \in Open(h) : g[j] = h[j]
               /\ Before(g, i, "RUN_CANCEL_REQUESTED") # {} <=> CancelRequested(h)
               /\ Cardinality(Before(g, i, "STEP_SUCCEEDED")) = Done(h)
               /\ Cardinality({j \in Before(g, i, "STEP_CLAIMED") : g[j].step = e.step})
                     = ClaimedAttempts(h, e.step)
<1>. DEFINE g == Append(h, e)
            n == Len(h)
            i == n + 1
<1>1. /\ n \in Nat /\ g[i] = e /\ \A j \in 1..n : g[j] = h[j]
      /\ DOMAIN h = 1..n /\ i - 1 = n /\ (h # <<>> <=> n # 0)
  BY OneMoreEvent, EmptySeq
<1>2. OpenClaims(g, i) = OpenClaims(h, i) /\ \A t : Before(g, i, t) = Before(h, i, t)
  BY <1>1, PrefixStands
<1>. HIDE DEF g, n
<1>3. h # <<>> => g[i - 1] = LastEvent(h)
  BY <1>1 DEF LastEvent, n
<1>4. \A j \in OpenClaims(h, i) : g[j] = h[j]
  BY <1>1 DEF OpenClaims
<1>5. Before(h, i, "RUN_CANCEL_REQUESTED") # {} <=> CancelRequested(h)
  BY <1>1 DEF Before, CancelRequested
<1>6. {j \in Before(g, i, "STEP_CLAIMED") : g[j].step = e.step}
        = {j \in DOMAIN h : h[j].type = "STEP_CLAIMED" /\ h[j].step = e.step}
  BY <1>1 DEF Before
<1>7. /\ OpenClaims(g, i) = Open(h) /\ \A j \in Open(h) : g[j] = h[j]
      /\ Cardinality(Before(g, i, "STEP_SUCCEEDED")) = Done(h)
      /\ Cardinality({j \in Before(g, i, "STEP_CLAIMED") : g[j].step = e.step})
            = ClaimedAttempts(h, e.step)
  BY <1>2, <1>4, <1>6 DEF Open, Done, ClaimedAttempts, n
<1>8. i \in Nat /\ (i > 1 <=> h # <<>>)
  BY <1>1
<1>9. Before(g, i, "RUN_CANCEL_REQUESTED") # {} <=> CancelRequested(h)
  BY <1>2, <1>5
<1>. QED
  BY <1>1, <1>3, <1>7, <1>8, <1>9 DEF g, n

\* create_run: a registration is the first event of its run.
LEMMA RegistrationAllowed ==
    ASSUME NEW at \in Nat, NEW rs
    PROVE  AllowedAt(<<RunEvent("RUN_CREATED", at)>>, rs, 1)
<1>. DEFINE e == RunEvent("RUN_CREATED", at)
            g == <<e>>
<1>1. g[1] = e /\ e.type = "RUN_CREATED" /\ e.at = at
  BY DEF RunEvent
<1>2. g[1].type = "RUN_CREATED" /\ g[1] = RunEvent("RUN_CREATED", g[1].at)
  BY <1>1
<1>. HIDE DEF e, g
<1>3. AllowedAt(g, rs, 1)
  BY <1>2 DEF AllowedAt, AttemptLost
<1>. QED
  BY <1>3 DEF e, g

\* _claim_one: an attempt begins when nothing is claimed and no cancellation
\* waits, at the step after the successes and with the next number; a retry
\* waits for its delay.
LEMMA ClaimAllowed ==
    ASSUME NEW h \in Seq(Event), NEW e \in Event, NEW rs, e.type = "STEP_CLAIMED",
           h # <<>>, Open(h) = {}, ~CancelRequested(h), Done(h) < NSteps,
           e.step = Done(h) + 1, e.attempt = ClaimedAttempts(h, e.step) + 1,
           e.attempt <= MaxAttempts, e.notBefore = 0,
           LastEvent(h).type \in {"RUN_CREATED", "STEP_RETRY_SCHEDULED", "STEP_SUCCEEDED"},
           LastEvent(h).type = "STEP_RETRY_SCHEDULED" => e.at >= LastEvent(h).notBefore
    PROVE  AllowedAt(Append(h, e), rs, Len(h) + 1)
<1>. DEFINE g == Append(h, e)
            i == Len(h) + 1
            claimed == {j \in Before(g, i, "STEP_CLAIMED") : g[j].step = e.step}
<1>1. /\ g[i] = e /\ i > 1 /\ g[i - 1] = LastEvent(h) /\ OpenClaims(g, i) = {}
      /\ Before(g, i, "RUN_CANCEL_REQUESTED") = {}
      /\ Cardinality(Before(g, i, "STEP_SUCCEEDED")) = Done(h)
      /\ e.attempt = Cardinality(claimed) + 1
  BY AtTheEnd
<1>. HIDE DEF g, i
<1>2. AllowedAt(g, rs, i)
  BY <1>1 DEF AllowedAt, AttemptLost
<1>. QED
  BY <1>2 DEF g, i

\* An event ends the attempt that is under way.
EndsOpenAttempt(h, e) ==
    /\ Open(h) # {} /\ e.notBefore = 0
    /\ \A j \in Open(h) : e.step = h[j].step /\ e.attempt = h[j].attempt

\* _finalize_failure, recover_expired_claims: the attempt under way is lost.
LEMMA LossAllowed ==
    ASSUME NEW h \in Seq(Event), NEW e \in Event, NEW rs,
           e.type \in AttemptLost, EndsOpenAttempt(h, e)
    PROVE  AllowedAt(Append(h, e), rs, Len(h) + 1)
<1>. DEFINE g == Append(h, e)
            i == Len(h) + 1
<1>1. /\ g[i] = e /\ OpenClaims(g, i) # {} /\ e.notBefore = 0
      /\ \A j \in OpenClaims(g, i) : e.step = g[j].step /\ e.attempt = g[j].attempt
  <2>1. g[i] = e /\ OpenClaims(g, i) = Open(h) /\ \A j \in Open(h) : g[j] = h[j]
    BY AtTheEnd
  <2>. HIDE DEF g, i
  <2>. QED
    BY <2>1 DEF EndsOpenAttempt
<1>. HIDE DEF g, i
<1>2. AllowedAt(g, rs, i)
  BY <1>1 DEF AllowedAt, AttemptLost
<1>. QED
  BY <1>2 DEF g, i

\* _finalize_success: the attempt under way succeeds, with a receipt of its time.
LEMMA SuccessAllowed ==
    ASSUME NEW h \in Seq(Event), NEW e \in Event, NEW rs,
           e.type = "STEP_SUCCEEDED", EndsOpenAttempt(h, e),
           \E r \in {rs[k] : k \in DOMAIN rs} : r.step = e.step /\ r.at = e.at
    PROVE  AllowedAt(Append(h, e), rs, Len(h) + 1)
<1>. DEFINE g == Append(h, e)
            i == Len(h) + 1
<1>1. /\ g[i] = e /\ OpenClaims(g, i) # {} /\ e.notBefore = 0
      /\ \A j \in OpenClaims(g, i) : e.step = g[j].step /\ e.attempt = g[j].attempt
  <2>1. g[i] = e /\ OpenClaims(g, i) = Open(h) /\ \A j \in Open(h) : g[j] = h[j]
    BY AtTheEnd
  <2>. HIDE DEF g, i
  <2>. QED
    BY <2>1 DEF EndsOpenAttempt
<1>. HIDE DEF g, i
<1>2. AllowedAt(g, rs, i)
  BY <1>1 DEF AllowedAt, AttemptLost
<1>. QED
  BY <1>2 DEF g, i

\* A retry is scheduled for the attempt just lost, while there is one to spare.
LEMMA RetryAllowed ==
    ASSUME NEW h \in Seq(Event), NEW e \in Event, NEW rs, e.type = "STEP_RETRY_SCHEDULED",
           h # <<>>, LastEvent(h).type \in AttemptLost,
           e.step = LastEvent(h).step, e.attempt = LastEvent(h).attempt,
           e.attempt \in 1..(MaxAttempts - 1), e.notBefore = e.at + RetryDelay[e.attempt]
    PROVE  AllowedAt(Append(h, e), rs, Len(h) + 1)
BY AtTheEnd DEF AllowedAt, AttemptLost

\* A run fails with the attempt just lost, for a lost lease with the last one.
LEMMA RunFailedAllowed ==
    ASSUME NEW h \in Seq(Event), NEW e \in Event, NEW rs, e.type = "RUN_FAILED",
           h # <<>>, LastEvent(h).type \in AttemptLost, Open(h) = {},
           e.step = LastEvent(h).step, e.attempt = LastEvent(h).attempt,
           LastEvent(h).type = "STEP_LEASE_EXPIRED" => e.attempt = MaxAttempts
    PROVE  AllowedAt(Append(h, e), rs, Len(h) + 1)
BY AtTheEnd DEF AllowedAt, AttemptLost

\* A run completes with its last success, if no cancellation waits.
LEMMA CompletionAllowed ==
    ASSUME NEW h \in Seq(Event), NEW e \in Event, NEW rs, e.type = "RUN_COMPLETED",
           Open(h) = {}, ~CancelRequested(h), Done(h) = NSteps
    PROVE  AllowedAt(Append(h, e), rs, Len(h) + 1)
BY AtTheEnd DEF AllowedAt, AttemptLost

\* cancel_run: one request for a run, and its effect once nothing is claimed.
LEMMA CancellationAllowed ==
    ASSUME NEW h \in Seq(Event), NEW e \in Event, NEW rs, h # <<>>,
           \/ e.type = "RUN_CANCEL_REQUESTED" /\ ~CancelRequested(h)
           \/ e.type = "RUN_CANCELLED" /\ CancelRequested(h) /\ Open(h) = {}
    PROVE  AllowedAt(Append(h, e), rs, Len(h) + 1)
BY AtTheEnd DEF AllowedAt, AttemptLost

(***************************************************************************)
(* Histories that can be read back but for their end, and how they grow.   *)
(***************************************************************************)

\* A history that passes the replay check up to what the check asks of its end:
\* its length, the claim row, the receipts and a cancellation left to settle.
Whole(h, rs) ==
    /\ h \in Seq(Event) /\ h # <<>> /\ rs \in Seq(Receipt)
    /\ \A i \in 2..Len(h) : h[i - 1].at <= h[i].at
    /\ \A i \in 2..Len(h) : h[i - 1].type \notin TerminalEvent
    /\ \A i \in 1..Len(h) : AllowedAt(h, rs, i)
    /\ \A i \in 1..(Len(h) - 1) : CancelSettledAt(h, i)
    /\ \A j \in Before(h, Len(h) + 1, "STEP_SUCCEEDED") :
          h[j].step = Cardinality(Before(h, j + 1, "STEP_SUCCEEDED"))
    /\ \A i \in 1..Len(rs) : rs[i].step = i
    /\ \A i \in DOMAIN h : h[i].type = "STEP_CLAIMED" => h[i].step <= Len(rs) + 1
    /\ LeasesKept(h)

\* What the steps of a transaction have to show of the event they append.
Continues(h, rs, e) ==
    /\ ~Terminated(h) /\ LastEvent(h).at <= e.at
    /\ AllowedAt(Append(h, e), rs, Len(h) + 1)
    /\ CancelRequested(h) /\ Open(h) = {} /\ LastEvent(h).type \notin AttemptEnd =>
          e.type = "RUN_CANCELLED"
    /\ e.type = "STEP_SUCCEEDED" => e.step = Done(h) + 1
    /\ e.type = "STEP_CLAIMED" => e.step <= Len(rs) + 1
    /\ e.type \in AttemptEnd =>
          \A j \in Open(h) : e.type = "STEP_LEASE_EXPIRED" <=> e.at >= h[j].at + Lease

\* Such an event leaves a history that can be read back.
LEMMA WholeGrows ==
    ASSUME NEW h, NEW rs, Whole(h, rs), NEW e \in Event, Continues(h, rs, e)
    PROVE  Whole(Append(h, e), rs)
<1>. DEFINE g == Append(h, e)
            n == Len(h)
<1>1. h \in Seq(Event) /\ h # <<>> /\ rs \in Seq(Receipt) /\ n \in Nat \ {0}
  BY EmptySeq DEF Whole
<1>2. /\ g \in Seq(Event) /\ g # <<>> /\ Len(g) = n + 1 /\ g[n + 1] = e
      /\ \A i \in 1..n : g[i] = h[i]
      /\ DOMAIN h = 1..n /\ DOMAIN g = 1..(n + 1) /\ LastEvent(h) = h[n]
  BY <1>1, OneMoreEvent DEF LastEvent
<1>3. \A i \in 1..(n + 1) : /\ OpenClaims(g, i) = OpenClaims(h, i)
                            /\ \A t : Before(g, i, t) = Before(h, i, t)
  BY <1>1, PrefixStands
<1>4. \A i \in 1..n : AllowedAt(g, rs, i) <=> AllowedAt(h, rs, i)
  BY <1>1, AllowedStands
<1>5. Cardinality(Before(g, n + 2, "STEP_SUCCEEDED"))
         = Done(h) + (IF e.type = "STEP_SUCCEEDED" THEN 1 ELSE 0)
  BY <1>1, OneMoreBefore DEF Done
<1>6. Open(h) = OpenClaims(h, n + 1) /\ (n + 1) + 1 = n + 2 /\ (n + 2) - 1 = n + 1
  BY <1>1 DEF Open
<1>7. AllowedAt(g, rs, n + 1)
  BY DEF Continues
<1>. HIDE DEF g, n
<1>8. \A i \in 2..(n + 1) : g[i - 1].at <= g[i].at
  <2>. SUFFICES ASSUME NEW i \in 2..(n + 1)
                PROVE  g[i - 1].at <= g[i].at
    OBVIOUS
  <2>1. CASE i = n + 1
    BY <1>1, <1>2, <2>1 DEF Continues
  <2>2. CASE i \in 2..n
    BY <1>1, <1>2, <2>2 DEF Whole, n
  <2>. QED
    BY <1>1, <2>1, <2>2
<1>9. \A i \in 2..(n + 1) : g[i - 1].type \notin TerminalEvent
  <2>. SUFFICES ASSUME NEW i \in 2..(n + 1)
                PROVE  g[i - 1].type \notin TerminalEvent
    OBVIOUS
  <2>1. CASE i = n + 1
    BY <1>1, <1>2, <2>1 DEF Continues, Terminated
  <2>2. CASE i \in 2..n
    BY <1>1, <1>2, <2>2 DEF Whole, n
  <2>. QED
    BY <1>1, <2>1, <2>2
<1>10. \A i \in 1..(n + 1) : AllowedAt(g, rs, i)
  <2>1. \A i \in 1..n : AllowedAt(g, rs, i)
    BY <1>4 DEF Whole, n
  <2>. QED
    BY <1>1, <1>7, <2>1
<1>11. \A i \in 1..n : CancelSettledAt(g, i)
  <2>. SUFFICES ASSUME NEW i \in 1..n
                PROVE  CancelSettledAt(g, i)
    OBVIOUS
  <2>1. /\ i + 1 \in 1..(n + 1) /\ OpenClaims(g, i + 1) = OpenClaims(h, i + 1)
        /\ g[i] = h[i] /\ \A j \in 1..i : g[j] = h[j]
    BY <1>1, <1>2, <1>3
  <2>2. CASE i = n
    <3>1. (\E j \in 1..i : h[j].type = "RUN_CANCEL_REQUESTED") <=> CancelRequested(h)
      BY <1>2, <2>2 DEF CancelRequested
    <3>. QED
      BY <1>1, <1>2, <1>6, <2>1, <2>2, <3>1 DEF CancelSettledAt, Continues
  <2>3. CASE i \in 1..(n - 1)
    <3>1. CancelSettledAt(h, i)
      BY <2>3 DEF Whole, n
    <3>2. i + 1 \in 1..n /\ g[i + 1] = h[i + 1] /\ i < Len(g)
      BY <1>1, <1>2, <2>3
    <3>. QED
      BY <2>1, <3>1, <3>2 DEF CancelSettledAt
  <2>. QED
    BY <1>1, <2>2, <2>3
<1>12. \A j \in Before(g, n + 2, "STEP_SUCCEEDED") :
          g[j].step = Cardinality(Before(g, j + 1, "STEP_SUCCEEDED"))
  <2>. SUFFICES ASSUME NEW j \in Before(g, n + 2, "STEP_SUCCEEDED")
                PROVE  g[j].step = Cardinality(Before(g, j + 1, "STEP_SUCCEEDED"))
    OBVIOUS
  <2>1. j \in 1..(n + 1) /\ g[j].type = "STEP_SUCCEEDED"
    BY <1>6 DEF Before
  <2>2. CASE j = n + 1
    BY <1>2, <1>5, <1>6, <2>1, <2>2 DEF Continues
  <2>3. CASE j \in 1..n
    <3>1. j + 1 \in 1..(n + 1) /\ g[j] = h[j]
      BY <1>1, <1>2, <2>3
    <3>2. j \in Before(h, n + 1, "STEP_SUCCEEDED")
      BY <1>1, <2>1, <2>3, <3>1 DEF Before
    <3>3. h[j].step = Cardinality(Before(h, j + 1, "STEP_SUCCEEDED"))
      BY <3>2 DEF Whole, n
    <3>. QED
      BY <1>3, <3>1, <3>3
  <2>. QED
    BY <1>1, <2>1, <2>2, <2>3
<1>13. \A i \in 1..(n + 1) : g[i].type = "STEP_CLAIMED" => g[i].step <= Len(rs) + 1
  <2>. SUFFICES ASSUME NEW i \in 1..(n + 1), g[i].type = "STEP_CLAIMED"
                PROVE  g[i].step <= Len(rs) + 1
    OBVIOUS
  <2>1. CASE i = n + 1
    BY <1>2, <2>1 DEF Continues
  <2>2. CASE i \in 1..n
    BY <1>2, <2>2 DEF Whole
  <2>. QED
    BY <1>1, <2>1, <2>2
<1>14. LeasesKept(g)
  <2>. SUFFICES ASSUME NEW i \in 1..(n + 1), NEW j \in OpenClaims(g, i), g[i].type \in AttemptEnd
                PROVE  g[i].type = "STEP_LEASE_EXPIRED" <=> g[i].at >= g[j].at + Lease
    BY <1>2 DEF LeasesKept
  <2>1. j \in OpenClaims(h, i) /\ j \in 1..n /\ g[j] = h[j]
    BY <1>1, <1>2, <1>3 DEF OpenClaims
  <2>2. CASE i = n + 1
    BY <1>2, <1>6, <2>1, <2>2 DEF Continues
  <2>3. CASE i \in 1..n
    BY <1>2, <2>1, <2>3 DEF Whole, LeasesKept
  <2>. QED
    BY <1>1, <2>2, <2>3
<1>15. \A i \in 1..Len(rs) : rs[i].step = i
  BY DEF Whole
<1>16. Whole(g, rs)
  <2>1. /\ g \in Seq(Event) /\ g # <<>> /\ rs \in Seq(Receipt) /\ Len(g) = n + 1
        /\ DOMAIN g = 1..(n + 1) /\ Len(g) + 1 = n + 2 /\ Len(g) - 1 = n
    BY <1>1, <1>2
  <2>. QED
    BY <1>8, <1>9, <1>10, <1>11, <1>12, <1>13, <1>14, <1>15, <2>1 DEF Whole
<1>. QED
  BY <1>16 DEF g

\* A receipt for the next step takes nothing away from a history.
LEMMA WholeWithReceipt ==
    ASSUME NEW h, NEW rs, Whole(h, rs), NEW x \in Receipt, x.step = Len(rs) + 1
    PROVE  Whole(h, Append(rs, x))
<1>. DEFINE qs == Append(rs, x)
            n == Len(rs)
<1>1. /\ rs \in Seq(Receipt) /\ n \in Nat /\ qs \in Seq(Receipt) /\ Len(qs) = n + 1
      /\ DOMAIN rs = 1..n /\ DOMAIN qs = 1..(n + 1)
      /\ qs[n + 1] = x /\ \A i \in 1..n : qs[i] = rs[i]
  BY AppendProperties, LenProperties DEF Whole
<1>. HIDE DEF qs, n
<1>2. {rs[k] : k \in DOMAIN rs} \subseteq {qs[k] : k \in DOMAIN qs}
  BY <1>1
<1>3. ASSUME NEW i \in 1..Len(h) PROVE AllowedAt(h, qs, i)
  <2>1. AllowedAt(h, rs, i)
    BY DEF Whole
  <2>2. h[i] \in Event
    BY DEF Whole
  <2>3. h[i].type \in EventType
    BY <2>2 DEF Event
  <2>4. CASE h[i].type # "STEP_SUCCEEDED"
    BY <2>1, <2>3, <2>4 DEF AllowedAt, AttemptLost, EventType, AttemptEnd, TerminalEvent
  <2>5. CASE h[i].type = "STEP_SUCCEEDED"
    BY <1>2, <2>1, <2>5 DEF AllowedAt, AttemptLost
  <2>. QED
    BY <2>4, <2>5
<1>4. \A i \in 1..Len(qs) : qs[i].step = i
  BY <1>1 DEF Whole, n
<1>5. \A i \in DOMAIN h : h[i].type = "STEP_CLAIMED" => h[i].step <= Len(qs) + 1
  <2>. SUFFICES ASSUME NEW i \in DOMAIN h, h[i].type = "STEP_CLAIMED"
                PROVE  h[i].step <= Len(qs) + 1
    OBVIOUS
  <2>1. h[i] \in Event
    BY DEF Whole
  <2>2. h[i].step <= n + 1 /\ h[i].step \in Nat
    BY <2>1 DEF Whole, n, Event
  <2>. QED
    BY <1>1, <2>2
<1>6. Whole(h, qs)
  BY <1>1, <1>3, <1>4, <1>5 DEF Whole
<1>. QED
  BY <1>6 DEF qs

(***************************************************************************)
(* What a transaction leaves of one run: h is its history, rs its receipts *)
(* and cs its rows of workflow_claims.                                     *)
(***************************************************************************)

\* What an operator can see of a run, as RunView gives it.
View(h, rs, cs) ==
    [status |-> StatusOf(h, cs # {}), done |-> Len(rs),
     tries |-> Tries(h, rs), cancel |-> CancelRequested(h)]

\* The status of a run follows from its latest event and its claim row.
LEMMA StatusFacts ==
    ASSUME NEW h, NEW claimed
    PROVE  /\ LastEvent(h).type = "RUN_COMPLETED" => StatusOf(h, claimed) = "COMPLETED"
           /\ LastEvent(h).type = "RUN_FAILED" => StatusOf(h, claimed) = "FAILED"
           /\ LastEvent(h).type = "RUN_CANCELLED" => StatusOf(h, claimed) = "CANCELLED"
           /\ LastEvent(h).type = "STEP_RETRY_SCHEDULED" => StatusOf(h, claimed) = "WAITING_RETRY"
           /\ LastEvent(h).type \notin TerminalEvent \cup {"STEP_RETRY_SCHEDULED"} =>
                 StatusOf(h, claimed) = (IF claimed THEN "RUNNING" ELSE "PENDING")
BY DEF StatusOf, TerminalEvent

\* The events a step may still take, with the products named.
LEMMA Budget ==
    ASSUME NEW d \in Nat, d < NSteps
    PROVE  \E x, y, z \in Nat :
              /\ x = d * StepBudget /\ y = (d + 1) * StepBudget /\ z = NSteps * StepBudget
              /\ y = x + 3 * MaxAttempts - 1 /\ y <= z
<1>1. PICK k \in Nat : k = StepBudget /\ k = 3 * MaxAttempts - 1
  BY AttemptsAssumption DEF StepBudget
<1>2. PICK n \in Nat : n = NSteps /\ d + 1 <= n
  BY StepsAssumption
<1>3. d * k \in Nat /\ (d + 1) * k \in Nat /\ n * k \in Nat /\ (d + 1) * k = d * k + k
  OBVIOUS
<1>4. PICK m \in Nat : n = (d + 1) + m
  BY <1>2
<1>5. n * k = (d + 1) * k + m * k /\ m * k \in Nat
  BY <1>4
<1>6. (d + 1) * k <= n * k
  BY <1>3, <1>5
<1>. QED
  BY <1>1, <1>2, <1>3, <1>6

\* What is known of a run that is sound.
LEMMA SoundFacts ==
    ASSUME NEW h \in Seq(Event), NEW rs \in Seq(Receipt), NEW cs, RunSound(h, rs, cs)
    PROVE  /\ Whole(h, rs) /\ Len(rs) = Done(h) /\ Len(rs) \in Nat /\ Len(rs) <= NSteps
           /\ h # <<>> /\ Len(h) \in Nat /\ Len(h) <= MaxEvents
           /\ Tries(h, rs) \in Nat /\ Tries(h, rs) <= MaxAttempts
           /\ (Open(h) = {} <=> cs = {})
           /\ CancelRequested(h) /\ Open(h) = {} => Terminated(h)
           /\ \A c \in cs, j \in Open(h) :
                 /\ c.step = h[j].step /\ c.attempt = h[j].attempt /\ c.claimedAt = h[j].at
           /\ ClaimedAttempts(h, Len(rs) + 2) = 0
<1>1. /\ ValidHistory(h, rs, cs) /\ LeasesKept(h) /\ Len(rs) <= NSteps
      /\ Tries(h, rs) <= MaxAttempts
      /\ \A i \in DOMAIN h : h[i].type = "STEP_CLAIMED" => h[i].step <= Len(rs) + 1
  BY DEF RunSound
<1>2. /\ Len(h) \in Nat /\ Len(h) <= MaxEvents /\ h # <<>>
      /\ Len(rs) = Done(h) /\ Len(rs) \in Nat
      /\ (Open(h) = {} <=> cs = {})
  BY <1>1, EventsAssumption DEF ValidHistory, Done, Open
<1>3. Whole(h, rs)
  BY <1>1, <1>2 DEF ValidHistory, Whole
<1>4. Tries(h, rs) \in Nat
  BY ClaimedAttemptsType DEF Tries
<1>5. CancelRequested(h) /\ Open(h) = {} => Terminated(h)
  BY <1>2 DEF RunSound, AtRest
<1>6. \A c \in cs, j \in Open(h) :
         c.step = h[j].step /\ c.attempt = h[j].attempt /\ c.claimedAt = h[j].at
  BY <1>1 DEF ValidHistory, Open
<1>7. ClaimedAttempts(h, Len(rs) + 2) = 0
  <2>1. ASSUME NEW i \in DOMAIN h, h[i].type = "STEP_CLAIMED", h[i].step = Len(rs) + 2
        PROVE  FALSE
    BY <1>1, <1>2, <2>1
  <2>2. {i \in DOMAIN h : h[i].type = "STEP_CLAIMED" /\ h[i].step = Len(rs) + 2} = {}
    BY <2>1
  <2>. QED
    BY <2>2, FS_EmptySet DEF ClaimedAttempts
<1>. QED
  BY <1>1, <1>2, <1>3, <1>4, <1>5, <1>6, <1>7

\* Whatever the end of a history, what the replay check asks of it.
LEMMA ValidAgain ==
    ASSUME NEW h, NEW rs, NEW cs, Whole(h, rs), Len(rs) = Done(h), Len(h) <= MaxEvents,
           CancelRequested(h) /\ Open(h) = {} => Terminated(h),
           (Open(h) = {} <=> cs = {}),
           \A c \in cs, j \in Open(h) :
              /\ c.step = h[j].step /\ c.attempt = h[j].attempt
              /\ c.claimedAt = h[j].at /\ c.epoch = j
    PROVE  ValidHistory(h, rs, cs)
<1>. DEFINE n == Len(h)
<1>1. /\ h \in Seq(Event) /\ n \in Nat \ {0} /\ DOMAIN h = 1..n
      /\ n \in 1..MaxEvents
  BY EmptySeq, EventsAssumption DEF Whole
<1>. HIDE DEF n
<1>2. \A i \in 1..n : AllowedAt(h, rs, i) /\ CancelSettledAt(h, i)
  <2>1. \A i \in 1..n : AllowedAt(h, rs, i)
    BY DEF Whole, n
  <2>2. \A i \in 1..(n - 1) : CancelSettledAt(h, i)
    BY DEF Whole, n
  <2>3. (\E j \in 1..n : h[j].type = "RUN_CANCEL_REQUESTED") => CancelRequested(h)
    BY <1>1 DEF CancelRequested
  <2>4. CancelSettledAt(h, n)
    BY <1>1, <2>3 DEF CancelSettledAt, Open, Terminated, LastEvent, n
  <2>. QED
    BY <1>1, <2>1, <2>2, <2>4
<1>3. /\ \A i \in 2..n : h[i - 1].at <= h[i].at
      /\ \A i \in 2..n : h[i - 1].type \notin TerminalEvent
      /\ \A j \in Before(h, n + 1, "STEP_SUCCEEDED") :
            h[j].step = Cardinality(Before(h, j + 1, "STEP_SUCCEEDED"))
      /\ \A i \in 1..Len(rs) : rs[i].step = i
      /\ Len(rs) = Cardinality(Before(h, n + 1, "STEP_SUCCEEDED"))
  BY DEF Whole, Done, n
<1>. QED
  BY <1>1, <1>2, <1>3 DEF ValidHistory, Open, n

\* What makes a run sound again at the end of a transaction without a claim.
LEMMA SoundWithoutClaim ==
    ASSUME NEW h, NEW rs, Whole(h, rs), Len(rs) = Done(h), Len(h) <= MaxEvents,
           Len(rs) <= NSteps, Tries(h, rs) <= MaxAttempts, Open(h) = {},
           AtRest(h, rs) \/ (Terminated(h) /\ Len(h) <= EventLimit)
    PROVE  RunSound(h, rs, {})
<1>1. CancelRequested(h) /\ Open(h) = {} => Terminated(h)
  BY DEF AtRest
<1>2. ValidHistory(h, rs, {})
  BY <1>1, ValidAgain
<1>. QED
  BY <1>2 DEF RunSound, Whole

\* And with one.
LEMMA SoundWithClaim ==
    ASSUME NEW h, NEW rs, Whole(h, rs), Len(rs) = Done(h), Len(h) <= MaxEvents,
           Len(rs) <= NSteps, Tries(h, rs) <= MaxAttempts, Open(h) # {},
           NEW c, UnderClaim(h, rs, c),
           \A j \in Open(h) : /\ c.step = h[j].step /\ c.attempt = h[j].attempt
                              /\ c.claimedAt = h[j].at /\ c.epoch = j
    PROVE  RunSound(h, rs, {c})
<1>1. ValidHistory(h, rs, {c})
  BY ValidAgain
<1>. QED
  BY <1>1 DEF RunSound, Whole

\* How the views of a run are related by an attempt that begins.
LEMMA BeginView ==
    ASSUME NEW st \in {"PENDING", "WAITING_RETRY"}, NEW d, NEW t, NEW c \in BOOLEAN, ~c,
           NEW a, NEW b,
           a = [status |-> st, done |-> d, tries |-> t, cancel |-> c],
           b = [status |-> "RUNNING", done |-> d, tries |-> t + 1, cancel |-> c]
    PROVE  Abstract!Begin(a, b)
<1>. DEFINE m == [a EXCEPT !.status = "RUNNING"]
<1>1. [a EXCEPT !.status = "RUNNING", !.tries = t + 1] = [m EXCEPT !.tries = t + 1]
  OBVIOUS
<1>2. m = [status |-> "RUNNING", done |-> d, tries |-> t, cancel |-> c]
  OBVIOUS
<1>. HIDE DEF m
<1>3. [m EXCEPT !.tries = t + 1] = b
  BY <1>2
<1>4. a.status = st /\ a.tries = t /\ ~a.cancel
  OBVIOUS
<1>. QED
  BY <1>1, <1>3, <1>4 DEF Abstract!Begin

\* By a cancellation, of a run that waits or one that is at work.
LEMMA CancelView ==
    ASSUME NEW st, NEW u, NEW d, NEW t, NEW c, NEW e, NEW a, NEW b,
           a = [status |-> st, done |-> d, tries |-> t, cancel |-> c], ~c,
           b = [status |-> u, done |-> d, tries |-> t, cancel |-> e], e = TRUE,
           \/ st = "RUNNING" /\ u = "RUNNING"
           \/ st \in {"PENDING", "WAITING_RETRY"} /\ u = "CANCELLED"
    PROVE  Abstract!Cancel(a, b)
<1>. DEFINE m == [a EXCEPT !.cancel = e]
<1>1. [a EXCEPT !.cancel = e, !.status = u] = [m EXCEPT !.status = u]
  OBVIOUS
<1>2. m = [status |-> st, done |-> d, tries |-> t, cancel |-> e]
  BY ONLY a = [status |-> st, done |-> d, tries |-> t, cancel |-> c]
<1>. HIDE DEF m
<1>3. [m EXCEPT !.status = u] = [status |-> u, done |-> d, tries |-> t, cancel |-> e]
  BY ONLY <1>2
<1>4. [a EXCEPT !.cancel = TRUE, !.status = u] = b
  BY <1>1, <1>3
<1>5. a.status = st /\ ~a.cancel
  OBVIOUS
<1>6. CASE st = "RUNNING" /\ u = "RUNNING"
  <2>1. b = m
    BY <1>2, <1>6
  <2>. QED
    BY <1>5, <1>6, <2>1 DEF Abstract!Cancel, m
<1>7. CASE st \in {"PENDING", "WAITING_RETRY"} /\ u = "CANCELLED"
  BY <1>4, <1>5, <1>7 DEF Abstract!Cancel
<1>. QED
  BY <1>6, <1>7

\* By an attempt that is lost.
LEMMA LoseView ==
    ASSUME NEW u, NEW d, NEW t, NEW c \in BOOLEAN, NEW a, NEW b,
           a = [status |-> "RUNNING", done |-> d, tries |-> t, cancel |-> c],
           b = [status |-> u, done |-> d, tries |-> t, cancel |-> c],
           \/ c /\ u = "CANCELLED"
           \/ ~c /\ u = "FAILED"
           \/ ~c /\ t < MaxAttempts /\ u = "WAITING_RETRY"
    PROVE  Abstract!Lose(a, b)
<1>1. b = [a EXCEPT !.status = b.status]
  OBVIOUS
<1>2. a.status = "RUNNING" /\ a.cancel = c /\ a.tries = t /\ b.status = u
  OBVIOUS
<1>. QED
  BY <1>1, <1>2 DEF Abstract!Lose

\* By an attempt that succeeds.
LEMMA SucceedView ==
    ASSUME NEW u, NEW d, NEW t, NEW c \in BOOLEAN, NEW a, NEW b,
           a = [status |-> "RUNNING", done |-> d, tries |-> t, cancel |-> c],
           b = [status |-> u, done |-> d + 1, tries |-> 0, cancel |-> c],
           \/ c /\ u = "CANCELLED"
           \/ ~c /\ d + 1 = NSteps /\ u = "COMPLETED"
           \/ ~c /\ d + 1 < NSteps /\ u = "PENDING"
    PROVE  Abstract!Succeed(a, b)
<1>. DEFINE m == [a EXCEPT !.status = u]
            n == [m EXCEPT !.done = d + 1]
<1>1. [a EXCEPT !.status = u, !.done = d + 1, !.tries = 0] = [n EXCEPT !.tries = 0]
  OBVIOUS
<1>2. m = [status |-> u, done |-> d, tries |-> t, cancel |-> c]
  OBVIOUS
<1>. HIDE DEF m
<1>3. n = [status |-> u, done |-> d + 1, tries |-> t, cancel |-> c]
  BY <1>2
<1>. HIDE DEF n
<1>4. [n EXCEPT !.tries = 0] = b
  BY <1>3
<1>5. a.status = "RUNNING" /\ a.cancel = c /\ a.done = d /\ b.status = u
  OBVIOUS
<1>. QED
  BY <1>1, <1>4, <1>5 DEF Abstract!Succeed

\* create_run leaves a run that waits for the first attempt of its first step.
LEMMA CreationSound ==
    ASSUME NEW at \in Nat, 1 <= MaxEvents
    PROVE  LET h == <<RunEvent("RUN_CREATED", at)>>
           IN  /\ RunSound(h, <<>>, {})
               /\ View(h, <<>>, {}) = [status |-> "PENDING", done |-> 0, tries |-> 0,
                                       cancel |-> FALSE]
<1>. DEFINE e == RunEvent("RUN_CREATED", at)
            h == <<e>>
<1>1. e \in Event
  BY RunEventType DEF EventType
<1>2. e.type = "RUN_CREATED" /\ e.at = at /\ LastEvent(h) = e
  BY SingletonLast DEF RunEvent
<1>3. AllowedAt(h, <<>>, 1)
  BY RegistrationAllowed
<1>. HIDE DEF e
<1>4. h \in Seq(Event) /\ h # <<>> /\ Len(h) = 1 /\ DOMAIN h = {1} /\ h[1] = e
  BY <1>1
<1>. HIDE DEF h
<1>5. 1..(1 - 1) = {} /\ (1 + 1) - 1 = 1 /\ 1..1 = {1} /\ 2..1 = {} /\ 1..0 = {}
  OBVIOUS
<1>6. Open(h) = {} /\ OpenClaims(h, 1) = {}
  BY <1>2, <1>4, <1>5 DEF Open, OpenClaims
<1>7. Before(h, Len(h) + 1, "STEP_SUCCEEDED") = {}
  BY <1>2, <1>4, <1>5 DEF Before
<1>8. Done(h) = 0
  BY <1>7, FS_EmptySet DEF Done
<1>9. ~CancelRequested(h) /\ ~Terminated(h)
  BY <1>2, <1>4 DEF CancelRequested, Terminated, TerminalEvent
<1>10. ClaimedAttempts(h, 1) = 0
  <2>1. {i \in DOMAIN h : h[i].type = "STEP_CLAIMED" /\ h[i].step = 1} = {}
    BY <1>2, <1>4
  <2>. QED
    BY <2>1, FS_EmptySet DEF ClaimedAttempts
<1>11. <<>> \in Seq(Receipt) /\ Len(<<>>) = 0
  OBVIOUS
<1>12. LeasesKept(h)
  BY <1>4, <1>6 DEF LeasesKept
<1>13. Whole(h, <<>>)
  BY <1>2, <1>3, <1>4, <1>5, <1>7, <1>11, <1>12 DEF Whole, h
<1>14. Tries(h, <<>>) = 0
  BY <1>10, <1>11 DEF Tries
<1>15. 0 * StepBudget = 0
  BY AttemptsAssumption DEF StepBudget
<1>16. AtRest(h, <<>>)
  BY <1>2, <1>4, <1>9, <1>11, <1>14, <1>15, StepsAssumption DEF AtRest
<1>17. RunSound(h, <<>>, {})
  <2>. DEFINE rs == <<>>
  <2>1. /\ Len(rs) = Done(h) /\ Len(h) <= MaxEvents /\ Len(rs) <= NSteps
        /\ Tries(h, rs) <= MaxAttempts /\ Whole(h, rs) /\ AtRest(h, rs)
    BY <1>4, <1>8, <1>11, <1>13, <1>14, <1>16, StepsAssumption, AttemptsAssumption
  <2>. HIDE DEF rs
  <2>2. RunSound(h, rs, {})
    BY <1>6, <2>1, SoundWithoutClaim
  <2>. QED
    BY <2>2 DEF rs
<1>18. StatusOf(h, {} # {}) = "PENDING"
  BY <1>2, StatusFacts DEF TerminalEvent
<1>19. CancelRequested(h) = FALSE
  BY <1>9 DEF CancelRequested
<1>20. View(h, <<>>, {}) = [status |-> "PENDING", done |-> 0, tries |-> 0, cancel |-> FALSE]
  BY <1>11, <1>14, <1>18, <1>19 DEF View
<1>. QED
  BY <1>17, <1>20 DEF e, h

\* _claim_one leaves the run with the new attempt under way.
LEMMA ClaimSound ==
    ASSUME NEW h \in Seq(Event), NEW rs \in Seq(Receipt), RunSound(h, rs, {}), ~Terminated(h),
           Len(h) + 1 <= MaxEvents, NEW now \in Nat, LastEvent(h).at <= now,
           StatusOf(h, FALSE) = "WAITING_RETRY" => now >= LastEvent(h).notBefore,
           NEW c \in Claim, c.step = Len(rs) + 1, c.attempt = Tries(h, rs) + 1,
           c.epoch = Len(h) + 1, c.claimedAt = now, c.expires = now + Lease
    PROVE  LET g == Append(h, StepEvent("STEP_CLAIMED", c, now, "NONE"))
           IN  RunSound(g, rs, {c}) /\ Abstract!Begin(View(h, rs, {}), View(g, rs, {c}))
<1>. DEFINE e == StepEvent("STEP_CLAIMED", c, now, "NONE")
            g == Append(h, e)
<1>1. e \in Event
  BY StepEventType DEF EventType, Reason
<1>2. /\ e.type = "STEP_CLAIMED" /\ e.step = c.step /\ e.attempt = c.attempt
      /\ e.at = now /\ e.notBefore = 0
  BY DEF StepEvent
<1>. HIDE DEF e
<1>3. /\ Whole(h, rs) /\ Len(rs) = Done(h) /\ Len(rs) \in Nat /\ Len(rs) <= NSteps
      /\ h # <<>> /\ Len(h) \in Nat /\ Open(h) = {}
      /\ Tries(h, rs) \in Nat /\ Tries(h, rs) <= MaxAttempts
  BY SoundFacts
<1>4. AtRest(h, rs)
  BY DEF RunSound
<1>5. /\ ~CancelRequested(h) /\ Len(rs) < NSteps
      /\ LastEvent(h).type \in {"RUN_CREATED", "STEP_RETRY_SCHEDULED", "STEP_SUCCEEDED"}
      /\ Tries(h, rs) = 0 \/ Tries(h, rs) < MaxAttempts
      /\ Len(h) <= 1 + Len(rs) * StepBudget + 3 * Tries(h, rs)
  BY <1>4 DEF AtRest
<1>6. c.attempt <= MaxAttempts
  BY <1>3, <1>5, AttemptsAssumption
<1>7. LastEvent(h).type = "STEP_RETRY_SCHEDULED" => StatusOf(h, FALSE) = "WAITING_RETRY"
  BY StatusFacts
<1>8. AllowedAt(g, rs, Len(h) + 1)
  <2>1. e.attempt = ClaimedAttempts(h, e.step) + 1
    BY <1>2 DEF Tries
  <2>. QED
    BY <1>1, <1>2, <1>3, <1>5, <1>6, <1>7, <2>1, ClaimAllowed
<1>9. Continues(h, rs, e)
  BY <1>2, <1>3, <1>5, <1>8 DEF Continues, AttemptEnd
<1>10. Whole(g, rs)
  BY <1>1, <1>3, <1>9, WholeGrows
<1>11. /\ Open(g) = {Len(h) + 1} /\ Done(g) = Done(h) /\ ~CancelRequested(g)
  <2>1. Open(g) = Open(h) \cup {Len(h) + 1} /\ Done(g) = Done(h)
    BY <1>1, <1>2, DigestGrows DEF AttemptEnd
  <2>2. ~CancelRequested(g)
    BY <1>1, <1>2, <1>5, DigestGrows
  <2>. QED
    BY <1>3, <2>1, <2>2
<1>12. Tries(g, rs) = Tries(h, rs) + 1
  BY <1>1, <1>2, <1>3, TriesGrow DEF Tries
<1>13. Len(g) = Len(h) + 1 /\ g[Len(h) + 1] = e /\ LastEvent(g) = e
  BY <1>1, OneMoreEvent
<1>. HIDE DEF g
<1>14. UnderClaim(g, rs, c)
  <2>1. PICK x \in Nat : x = Len(rs) * StepBudget
    BY <1>3, <1>5, Budget
  <2>2. Len(g) <= 1 + Len(rs) * StepBudget + 3 * Tries(g, rs) - 2
                    + (IF CancelRequested(g) THEN 1 ELSE 0)
    BY <1>3, <1>5, <1>11, <1>12, <1>13, <2>1
  <2>. QED
    BY <1>2, <1>3, <1>5, <1>11, <1>12, <1>13, <2>2 DEF UnderClaim
<1>15. RunSound(g, rs, {c})
  <2>1. Tries(g, rs) <= MaxAttempts
    BY <1>6, <1>12
  <2>2. \A j \in Open(g) : /\ c.step = g[j].step /\ c.attempt = g[j].attempt
                           /\ c.claimedAt = g[j].at /\ c.epoch = j
    BY <1>2, <1>11, <1>13
  <2>. QED
    BY <1>3, <1>10, <1>11, <1>13, <1>14, <2>1, <2>2, SoundWithClaim
<1>16. Abstract!Begin(View(h, rs, {}), View(g, rs, {c}))
  <2>1. StatusOf(h, {} # {}) \in {"PENDING", "WAITING_RETRY"}
    BY <1>5, StatusFacts DEF TerminalEvent
  <2>2. StatusOf(g, {c} # {}) = "RUNNING"
    BY <1>2, <1>13, StatusFacts DEF TerminalEvent
  <2>3. CancelRequested(h) \in BOOLEAN /\ CancelRequested(g) = CancelRequested(h)
    BY <1>5, <1>11 DEF CancelRequested
  <2>4. PICK st, d, t, x : /\ st = StatusOf(h, {} # {}) /\ d = Len(rs)
                           /\ t = Tries(h, rs) /\ x = CancelRequested(h)
    OBVIOUS
  <2>5. View(h, rs, {}) = [status |-> st, done |-> d, tries |-> t, cancel |-> x]
    BY <2>4 DEF View
  <2>6. View(g, rs, {c}) = [status |-> "RUNNING", done |-> d, tries |-> t + 1, cancel |-> x]
    BY <1>12, <2>2, <2>3, <2>4 DEF View
  <2>. QED
    BY <1>5, <2>1, <2>3, <2>4, <2>5, <2>6, BeginView
<1>. QED
  BY <1>15, <1>16 DEF g, e

\* A cancellation request and its effect on a run that waits.
LEMMA CancelIdleSound ==
    ASSUME NEW h \in Seq(Event), NEW rs \in Seq(Receipt), RunSound(h, rs, {}), ~Terminated(h),
           Len(h) + 2 <= MaxEvents, NEW now \in Nat, LastEvent(h).at <= now
    PROVE  LET g == Append(Append(h, RunEvent("RUN_CANCEL_REQUESTED", now)),
                           RunEvent("RUN_CANCELLED", now))
           IN  RunSound(g, rs, {}) /\ Abstract!Cancel(View(h, rs, {}), View(g, rs, {}))
<1>. DEFINE e == RunEvent("RUN_CANCEL_REQUESTED", now)
            f == RunEvent("RUN_CANCELLED", now)
            k == Append(h, e)
            g == Append(k, f)
<1>1. e \in Event /\ f \in Event
  BY RunEventType DEF EventType, TerminalEvent
<1>2. e.type = "RUN_CANCEL_REQUESTED" /\ e.at = now /\ f.type = "RUN_CANCELLED" /\ f.at = now
  BY DEF RunEvent
<1>. HIDE DEF e, f
<1>3. /\ Whole(h, rs) /\ Len(rs) = Done(h) /\ Len(rs) \in Nat /\ Len(rs) <= NSteps
      /\ h # <<>> /\ Len(h) \in Nat /\ Open(h) = {}
      /\ Tries(h, rs) \in Nat /\ Tries(h, rs) <= MaxAttempts
  BY SoundFacts
<1>4. AtRest(h, rs)
  BY DEF RunSound
<1>5. /\ ~CancelRequested(h) /\ Len(rs) < NSteps
      /\ LastEvent(h).type \in {"RUN_CREATED", "STEP_RETRY_SCHEDULED", "STEP_SUCCEEDED"}
      /\ Tries(h, rs) = 0 \/ Tries(h, rs) < MaxAttempts
      /\ Len(h) <= 1 + Len(rs) * StepBudget + 3 * Tries(h, rs)
  BY <1>4 DEF AtRest
<1>6. Whole(k, rs)
  <2>1. AllowedAt(k, rs, Len(h) + 1)
    BY <1>1, <1>2, <1>3, <1>5, CancellationAllowed
  <2>2. Continues(h, rs, e)
    BY <1>2, <1>5, <2>1 DEF Continues, AttemptEnd
  <2>. QED
    BY <1>1, <1>3, <2>2, WholeGrows
<1>7. /\ k \in Seq(Event) /\ k # <<>> /\ Len(k) = Len(h) + 1 /\ LastEvent(k) = e
      /\ Open(k) = {} /\ Done(k) = Done(h) /\ CancelRequested(k) /\ ~Terminated(k)
      /\ Tries(k, rs) = Tries(h, rs)
  BY <1>1, <1>2, <1>3, OneMoreEvent, DigestGrows, TriesGrow
     DEF AttemptEnd, TerminalEvent, Tries
<1>. HIDE DEF k
<1>8. Whole(g, rs)
  <2>1. AllowedAt(g, rs, Len(k) + 1)
    BY <1>1, <1>2, <1>7, CancellationAllowed
  <2>2. Continues(k, rs, f)
    BY <1>2, <1>7, <2>1 DEF Continues, AttemptEnd
  <2>. QED
    BY <1>1, <1>6, <2>2, WholeGrows
<1>9. /\ Len(g) = Len(h) + 2 /\ LastEvent(g) = f
      /\ Open(g) = {} /\ Done(g) = Done(h) /\ CancelRequested(g) /\ Terminated(g)
      /\ Tries(g, rs) = Tries(h, rs)
  BY <1>1, <1>2, <1>3, <1>7, OneMoreEvent, DigestGrows, TriesGrow
     DEF AttemptEnd, TerminalEvent, Tries
<1>. HIDE DEF g
<1>10. RunSound(g, rs, {})
  <2>1. PICK x, y, z \in Nat :
          /\ x = Len(rs) * StepBudget /\ z = NSteps * StepBudget
          /\ y = x + 3 * MaxAttempts - 1 /\ y <= z
    BY <1>3, <1>5, Budget
  <2>2. Len(g) <= EventLimit
    <3>1. PICK t \in Nat, m \in Nat \ {0} : t = Tries(h, rs) /\ m = MaxAttempts
      BY <1>3, AttemptsAssumption
    <3>2. EventLimit = 1 + z + 2
      BY <2>1 DEF EventLimit
    <3>3. PICK n \in Nat : n = Len(h) /\ Len(g) = n + 2
      BY <1>3, <1>9
    <3>4. n <= 1 + x + 3 * t /\ (t = 0 \/ t < m) /\ y = x + 3 * m - 1 /\ y <= z
      BY <1>5, <2>1, <3>1, <3>3
    <3>. QED
      BY <3>2, <3>3, <3>4
  <2>. QED
    BY <1>3, <1>8, <1>9, <2>2, SoundWithoutClaim
<1>11. Abstract!Cancel(View(h, rs, {}), View(g, rs, {}))
  <2>1. StatusOf(h, {} # {}) \in {"PENDING", "WAITING_RETRY"}
    BY <1>5, StatusFacts DEF TerminalEvent
  <2>2. StatusOf(g, {} # {}) = "CANCELLED"
    BY <1>2, <1>9, StatusFacts
  <2>3. CancelRequested(h) \in BOOLEAN /\ CancelRequested(g) \in BOOLEAN
    BY DEF CancelRequested
  <2>4. PICK st, d, t : st = StatusOf(h, {} # {}) /\ d = Len(rs) /\ t = Tries(h, rs)
    OBVIOUS
  <2>5. PICK x \in BOOLEAN, y \in BOOLEAN :
          x = CancelRequested(h) /\ y = CancelRequested(g) /\ ~x /\ y = TRUE
    BY <1>5, <1>9, <2>3
  <2>6. View(h, rs, {}) = [status |-> st, done |-> d, tries |-> t, cancel |-> x]
    BY <2>4, <2>5 DEF View
  <2>7. View(g, rs, {}) = [status |-> "CANCELLED", done |-> d, tries |-> t, cancel |-> y]
    BY <1>9, <2>2, <2>4, <2>5 DEF View
  <2>. QED
    BY <2>1, <2>4, <2>5, <2>6, <2>7, CancelView
<1>. QED
  BY <1>10, <1>11 DEF g, k, e, f

\* What the rest of a transaction starts from when an attempt is under way.
LEMMA ClaimedFacts ==
    ASSUME NEW h \in Seq(Event), NEW rs \in Seq(Receipt), NEW c, RunSound(h, rs, {c})
    PROVE  /\ UnderClaim(h, rs, c) /\ Open(h) # {} /\ ~Terminated(h)
           /\ LastEvent(h).type \in {"STEP_CLAIMED", "RUN_CANCEL_REQUESTED"}
           /\ StatusOf(h, {c} # {}) = "RUNNING"
           /\ c.step = Len(rs) + 1 /\ c.step <= NSteps /\ c.attempt = Tries(h, rs)
           /\ \A j \in Open(h) : /\ c.step = h[j].step /\ c.attempt = h[j].attempt
                                 /\ c.epoch = j /\ c.claimedAt = h[j].at
                                 /\ c.expires = h[j].at + Lease
<1>1. UnderClaim(h, rs, c)
  BY DEF RunSound
<1>2. /\ LastEvent(h).type \in {"STEP_CLAIMED", "RUN_CANCEL_REQUESTED"}
      /\ c.step = Len(rs) + 1 /\ c.attempt = Tries(h, rs) /\ c.expires = c.claimedAt + Lease
      /\ Len(rs) < NSteps
  BY <1>1 DEF UnderClaim
<1>3. Open(h) # {} /\ Len(rs) \in Nat
  BY SoundFacts
<1>4. \A j \in Open(h) : /\ c.step = h[j].step /\ c.attempt = h[j].attempt
                         /\ c.epoch = j /\ c.claimedAt = h[j].at
  BY DEF RunSound, ValidHistory, Open
<1>5. ~Terminated(h)
  BY <1>2 DEF Terminated, TerminalEvent
<1>6. StatusOf(h, {c} # {}) = "RUNNING"
  BY <1>2, StatusFacts DEF TerminalEvent
<1>7. c.step <= NSteps
  BY <1>2, <1>3, StepsAssumption
<1>. QED
  BY <1>1, <1>2, <1>3, <1>4, <1>5, <1>6, <1>7

\* A cancellation request while a worker is at a step only leaves its mark.
LEMMA CancelWorkingSound ==
    ASSUME NEW h \in Seq(Event), NEW rs \in Seq(Receipt), NEW c, RunSound(h, rs, {c}),
           ~CancelRequested(h), Len(h) + 1 <= MaxEvents,
           NEW now \in Nat, LastEvent(h).at <= now
    PROVE  LET g == Append(h, RunEvent("RUN_CANCEL_REQUESTED", now))
           IN  RunSound(g, rs, {c}) /\ Abstract!Cancel(View(h, rs, {c}), View(g, rs, {c}))
<1>. DEFINE e == RunEvent("RUN_CANCEL_REQUESTED", now)
            g == Append(h, e)
<1>1. e \in Event
  BY RunEventType DEF EventType
<1>2. e.type = "RUN_CANCEL_REQUESTED" /\ e.at = now
  BY DEF RunEvent
<1>. HIDE DEF e
<1>3. /\ Whole(h, rs) /\ Len(rs) = Done(h) /\ Len(rs) \in Nat /\ Len(rs) <= NSteps
      /\ h # <<>> /\ Len(h) \in Nat
      /\ Tries(h, rs) \in Nat /\ Tries(h, rs) <= MaxAttempts
  BY SoundFacts
<1>4. /\ UnderClaim(h, rs, c) /\ Open(h) # {} /\ ~Terminated(h)
      /\ \A j \in Open(h) : /\ c.step = h[j].step /\ c.attempt = h[j].attempt
                            /\ c.epoch = j /\ c.claimedAt = h[j].at
  BY ClaimedFacts
<1>5. Whole(g, rs)
  <2>1. AllowedAt(g, rs, Len(h) + 1)
    BY <1>1, <1>2, <1>3, CancellationAllowed
  <2>2. Continues(h, rs, e)
    BY <1>2, <1>4, <2>1 DEF Continues, AttemptEnd
  <2>. QED
    BY <1>1, <1>3, <2>2, WholeGrows
<1>6. /\ Len(g) = Len(h) + 1 /\ LastEvent(g) = e
      /\ Open(g) = Open(h) /\ Done(g) = Done(h) /\ CancelRequested(g)
      /\ Tries(g, rs) = Tries(h, rs)
      /\ \A j \in 1..Len(h) : g[j] = h[j]
  BY <1>1, <1>2, <1>3, OneMoreEvent, DigestGrows, TriesGrow DEF AttemptEnd, Tries
<1>7. \A j \in Open(h) : g[j] = h[j]
  BY <1>3, <1>6 DEF Open, OpenClaims
<1>. HIDE DEF g
<1>8. UnderClaim(g, rs, c)
  <2>1. PICK x \in Nat : x = Len(rs) * StepBudget
    BY <1>3, <1>4, Budget DEF UnderClaim
  <2>2. /\ Len(rs) < NSteps /\ c.step = Len(rs) + 1 /\ c.attempt = Tries(h, rs)
        /\ c.expires = c.claimedAt + Lease
        /\ Len(h) <= 1 + Len(rs) * StepBudget + 3 * Tries(h, rs) - 2
                       + (IF CancelRequested(h) THEN 1 ELSE 0)
    BY <1>4 DEF UnderClaim
  <2>3. Len(g) <= 1 + Len(rs) * StepBudget + 3 * Tries(g, rs) - 2
                    + (IF CancelRequested(g) THEN 1 ELSE 0)
    BY <1>3, <1>6, <2>1, <2>2
  <2>. QED
    BY <1>2, <1>6, <2>2, <2>3 DEF UnderClaim
<1>9. RunSound(g, rs, {c})
  <2>1. \A j \in Open(g) : /\ c.step = g[j].step /\ c.attempt = g[j].attempt
                           /\ c.claimedAt = g[j].at /\ c.epoch = j
    BY <1>4, <1>6, <1>7
  <2>. QED
    BY <1>3, <1>4, <1>5, <1>6, <1>8, <2>1, SoundWithClaim
<1>10. Abstract!Cancel(View(h, rs, {c}), View(g, rs, {c}))
  <2>1. StatusOf(h, {c} # {}) = "RUNNING" /\ StatusOf(g, {c} # {}) = "RUNNING"
    BY <1>9, ClaimedFacts, <1>1, OneMoreEvent DEF g
  <2>2. CancelRequested(h) \in BOOLEAN /\ CancelRequested(g) \in BOOLEAN
    BY DEF CancelRequested
  <2>3. PICK d, t : d = Len(rs) /\ t = Tries(h, rs)
    OBVIOUS
  <2>4. PICK x \in BOOLEAN, y \in BOOLEAN :
          x = CancelRequested(h) /\ y = CancelRequested(g) /\ ~x /\ y = TRUE
    BY <1>6, <2>2
  <2>5. View(h, rs, {c}) = [status |-> "RUNNING", done |-> d, tries |-> t, cancel |-> x]
    BY <2>1, <2>3, <2>4 DEF View
  <2>6. View(g, rs, {c}) = [status |-> "RUNNING", done |-> d, tries |-> t, cancel |-> y]
    BY <1>6, <2>1, <2>3, <2>4 DEF View
  <2>. QED
    BY <2>4, <2>5, <2>6, CancelView
<1>. QED
  BY <1>9, <1>10 DEF g, e

\* What follows the loss of an attempt: the end of a cancelled run, one more
\* attempt, or the end of the run.
FollowsLoss(h, c, lost, f) ==
    /\ f.at = lost.at /\ f.step \in Nat
    /\ \/ f.type = "RUN_CANCELLED" /\ CancelRequested(h)
       \/ /\ f.type = "STEP_RETRY_SCHEDULED" /\ ~CancelRequested(h)
          /\ f.step = c.step /\ f.attempt = c.attempt /\ c.attempt < MaxAttempts
          /\ f.notBefore = f.at + RetryDelay[c.attempt]
       \/ /\ f.type = "RUN_FAILED" /\ ~CancelRequested(h)
          /\ f.step = c.step /\ f.attempt = c.attempt
          /\ lost.type = "STEP_LEASE_EXPIRED" => c.attempt >= MaxAttempts

\* _finalize_failure and recover_expired_claims: the attempt is lost, its claim
\* is gone, and the run waits for another one or has ended.
LEMMA LossSound ==
    ASSUME NEW h \in Seq(Event), NEW rs \in Seq(Receipt), NEW c \in Claim,
           RunSound(h, rs, {c}), Len(h) + 2 <= MaxEvents,
           NEW e \in Event, NEW f \in Event, e.type \in AttemptLost, LastEvent(h).at <= e.at,
           e.step = c.step, e.attempt = c.attempt, e.notBefore = 0,
           e.type = "STEP_LEASE_EXPIRED" <=> e.at >= c.expires,
           FollowsLoss(h, c, e, f)
    PROVE  LET g == Append(Append(h, e), f)
           IN  RunSound(g, rs, {}) /\ Abstract!Lose(View(h, rs, {c}), View(g, rs, {}))
<1>. DEFINE k == Append(h, e)
            g == Append(k, f)
<1>1. e.at \in Nat /\ c.attempt \in Nat \ {0} /\ c.step \in Nat /\ c.expires \in Nat
  BY DEF Event, Claim, Steps
<1>2. e.type \in AttemptEnd /\ e.type \notin TerminalEvent
      /\ e.type \notin {"STEP_CLAIMED", "STEP_SUCCEEDED", "RUN_CANCEL_REQUESTED"}
  BY DEF AttemptEnd, AttemptLost, TerminalEvent
<1>3. /\ Whole(h, rs) /\ Len(rs) = Done(h) /\ Len(rs) \in Nat /\ Len(rs) <= NSteps
      /\ h # <<>> /\ Len(h) \in Nat
      /\ Tries(h, rs) \in Nat /\ Tries(h, rs) <= MaxAttempts
  BY SoundFacts
<1>4. /\ UnderClaim(h, rs, c) /\ Open(h) # {} /\ ~Terminated(h)
      /\ StatusOf(h, {c} # {}) = "RUNNING"
      /\ c.step = Len(rs) + 1 /\ c.step <= NSteps /\ c.attempt = Tries(h, rs)
      /\ \A j \in Open(h) : /\ c.step = h[j].step /\ c.attempt = h[j].attempt
                            /\ c.expires = h[j].at + Lease
  BY ClaimedFacts
<1>5. Whole(k, rs)
  <2>1. AllowedAt(k, rs, Len(h) + 1)
    BY <1>4, LossAllowed DEF EndsOpenAttempt
  <2>2. \A j \in Open(h) : e.type = "STEP_LEASE_EXPIRED" <=> e.at >= h[j].at + Lease
    BY <1>4
  <2>3. Continues(h, rs, e)
    BY <1>2, <1>4, <2>1, <2>2 DEF Continues
  <2>. QED
    BY <1>3, <2>3, WholeGrows
<1>6. /\ k \in Seq(Event) /\ k # <<>> /\ Len(k) = Len(h) + 1 /\ LastEvent(k) = e
      /\ Open(k) = {} /\ Done(k) = Done(h) /\ (CancelRequested(k) <=> CancelRequested(h))
      /\ ~Terminated(k) /\ Tries(k, rs) = Tries(h, rs)
  BY <1>2, <1>3, OneMoreEvent, DigestGrows, TriesGrow DEF Tries
<1>. HIDE DEF k
<1>7. /\ f.type \in {"RUN_CANCELLED", "STEP_RETRY_SCHEDULED", "RUN_FAILED"} /\ f.at = e.at
      /\ f.type = "RUN_CANCELLED" => CancelRequested(h)
      /\ f.type # "RUN_CANCELLED" =>
            ~CancelRequested(h) /\ f.step = c.step /\ f.attempt = c.attempt
      /\ f.type = "STEP_RETRY_SCHEDULED" =>
            c.attempt < MaxAttempts /\ f.notBefore = f.at + RetryDelay[f.attempt]
      /\ f.type = "RUN_FAILED" /\ e.type = "STEP_LEASE_EXPIRED" => c.attempt >= MaxAttempts
  BY DEF FollowsLoss
<1>8. AllowedAt(g, rs, Len(k) + 1)
  <2>1. CASE f.type = "RUN_CANCELLED"
    BY <1>6, <1>7, <2>1, CancellationAllowed
  <2>2. CASE f.type = "STEP_RETRY_SCHEDULED"
    <3>1. f.attempt \in 1..(MaxAttempts - 1)
      BY <1>1, <1>7, <2>2, AttemptsAssumption
    <3>. QED
      BY <1>6, <1>7, <2>2, <3>1, RetryAllowed
  <2>3. CASE f.type = "RUN_FAILED"
    <3>1. e.type = "STEP_LEASE_EXPIRED" => f.attempt = MaxAttempts
      BY <1>1, <1>3, <1>4, <1>7, <2>3, AttemptsAssumption
    <3>. QED
      BY <1>6, <1>7, <2>3, <3>1, RunFailedAllowed
  <2>. QED
    BY <1>7, <2>1, <2>2, <2>3
<1>9. Whole(g, rs)
  <2>1. Continues(k, rs, f)
    BY <1>1, <1>2, <1>6, <1>7, <1>8 DEF Continues, AttemptEnd
  <2>. QED
    BY <1>5, <2>1, WholeGrows
<1>10. /\ Len(g) = Len(h) + 2 /\ LastEvent(g) = f
       /\ Open(g) = {} /\ Done(g) = Done(h) /\ (CancelRequested(g) <=> CancelRequested(h))
       /\ Tries(g, rs) = Tries(h, rs) /\ (Terminated(g) <=> f.type # "STEP_RETRY_SCHEDULED")
  <2>1. f.type \notin {"STEP_CLAIMED", "STEP_SUCCEEDED", "RUN_CANCEL_REQUESTED"} \cup AttemptEnd
    BY <1>7 DEF AttemptEnd
  <2>2. f.type \in TerminalEvent <=> f.type # "STEP_RETRY_SCHEDULED"
    BY <1>7 DEF TerminalEvent
  <2>. QED
    BY <1>3, <1>6, <2>1, <2>2, OneMoreEvent, DigestGrows, TriesGrow DEF Tries
<1>. HIDE DEF g
<1>11. /\ Len(rs) < NSteps
       /\ Len(h) <= 1 + Len(rs) * StepBudget + 3 * Tries(h, rs) - 2
                      + (IF CancelRequested(h) THEN 1 ELSE 0)
  BY <1>4 DEF UnderClaim
<1>12. PICK x, y, z \in Nat :
         /\ x = Len(rs) * StepBudget /\ z = NSteps * StepBudget
         /\ y = x + 3 * MaxAttempts - 1 /\ y <= z
  BY <1>3, <1>11, Budget
<1>13. PICK t \in Nat, m \in Nat, n \in Nat :
         t = Tries(h, rs) /\ m = MaxAttempts /\ n = Len(h) /\ t <= m /\ Len(g) = n + 2
  BY <1>3, <1>10, AttemptsAssumption
<1>14. AtRest(g, rs) \/ (Terminated(g) /\ Len(g) <= EventLimit)
  <2>1. CASE f.type = "STEP_RETRY_SCHEDULED"
    <3>1. ~CancelRequested(h) /\ ~CancelRequested(g)
      BY <1>7, <1>10, <2>1
    <3>2. n <= 1 + x + 3 * t - 2
      BY <1>11, <1>12, <1>13, <3>1
    <3>3. Len(g) <= 1 + Len(rs) * StepBudget + 3 * Tries(g, rs)
      <4>1. Len(rs) * StepBudget = x /\ Tries(g, rs) = t /\ Len(g) = n + 2
        BY <1>10, <1>12, <1>13
      <4>. QED
        BY <3>2, <4>1
    <3>4. AtRest(g, rs)
      BY <1>4, <1>7, <1>10, <1>11, <2>1, <3>1, <3>3 DEF AtRest
    <3>. QED
      BY <3>4
  <2>2. CASE f.type # "STEP_RETRY_SCHEDULED"
    <3>. DEFINE i == IF CancelRequested(h) THEN 1 ELSE 0
    <3>1. n <= 1 + x + 3 * t - 1
      <4>1. i \in {0, 1}
        OBVIOUS
      <4>2. n <= 1 + x + 3 * t - 2 + i
        BY <1>11, <1>12, <1>13
      <4>. HIDE DEF i
      <4>. QED
        BY <4>1, <4>2
    <3>2. EventLimit = 1 + z + 2 /\ y = x + 3 * m - 1 /\ y <= z
      BY <1>12, <1>13 DEF EventLimit
    <3>3. Len(g) <= EventLimit
      BY <1>13, <3>1, <3>2
    <3>. QED
      BY <1>10, <2>2, <3>3
  <2>. QED
    BY <2>1, <2>2
<1>15. RunSound(g, rs, {})
  BY <1>3, <1>9, <1>10, <1>14, SoundWithoutClaim
<1>16. Abstract!Lose(View(h, rs, {c}), View(g, rs, {}))
  <2>1. PICK u, d : u = StatusOf(g, {} # {}) /\ d = Len(rs)
    OBVIOUS
  <2>2. PICK b \in BOOLEAN : b = CancelRequested(h) /\ b = CancelRequested(g)
    BY <1>10 DEF CancelRequested
  <2>3. View(h, rs, {c}) = [status |-> "RUNNING", done |-> d, tries |-> t, cancel |-> b]
    BY <1>4, <1>13, <2>1, <2>2 DEF View
  <2>4. View(g, rs, {}) = [status |-> u, done |-> d, tries |-> t, cancel |-> b]
    BY <1>10, <1>13, <2>1, <2>2 DEF View
  <2>5. /\ f.type = "RUN_CANCELLED" => u = "CANCELLED"
        /\ f.type = "RUN_FAILED" => u = "FAILED"
        /\ f.type = "STEP_RETRY_SCHEDULED" => u = "WAITING_RETRY"
    BY <1>10, <2>1, StatusFacts
  <2>6. \/ b /\ u = "CANCELLED"
        \/ ~b /\ u = "FAILED"
        \/ ~b /\ t < MaxAttempts /\ u = "WAITING_RETRY"
    BY <1>4, <1>7, <1>13, <2>2, <2>5
  <2>. QED
    BY <2>3, <2>4, <2>6, LoseView
<1>. QED
  BY <1>15, <1>16 DEF g, k

\* _finalize_success: the step has its receipt, its claim is gone, and the run
\* goes on, is complete, or ends as it was asked to.
FollowsSuccess(h, c, won, f) ==
    /\ f.at = won.at
    /\ \/ f.type = "RUN_CANCELLED" /\ CancelRequested(h)
       \/ f.type = "RUN_COMPLETED" /\ ~CancelRequested(h) /\ c.step = NSteps

LEMMA SuccessSound ==
    ASSUME NEW h \in Seq(Event), NEW rs \in Seq(Receipt), NEW c \in Claim,
           RunSound(h, rs, {c}),
           NEW e \in Event, e.type = "STEP_SUCCEEDED", LastEvent(h).at <= e.at,
           e.step = c.step, e.attempt = c.attempt, e.notBefore = 0, e.at < c.expires,
           NEW x \in Receipt, x.step = c.step, x.at = e.at
    PROVE  LET k == Append(h, e)
               qs == Append(rs, x)
           IN  /\ Whole(k, qs) /\ k \in Seq(Event) /\ k # <<>> /\ Len(k) = Len(h) + 1
               /\ LastEvent(k) = e /\ Open(k) = {} /\ ~Terminated(k)
               /\ (CancelRequested(k) <=> CancelRequested(h))
               /\ Len(qs) = Done(k) /\ Len(qs) = Len(rs) + 1 /\ Len(qs) = c.step
               /\ Len(qs) <= NSteps /\ Tries(k, qs) = 0
<1>. DEFINE k == Append(h, e)
            qs == Append(rs, x)
<1>1. e.at \in Nat /\ c.step \in Nat /\ c.expires \in Nat
  BY DEF Event, Claim, Steps
<1>2. e.type \in AttemptEnd /\ e.type \notin TerminalEvent
  BY DEF AttemptEnd, TerminalEvent
<1>3. /\ Whole(h, rs) /\ Len(rs) = Done(h) /\ Len(rs) \in Nat /\ Len(rs) <= NSteps
      /\ h # <<>> /\ Len(h) \in Nat /\ ClaimedAttempts(h, Len(rs) + 2) = 0
  BY SoundFacts
<1>4. /\ Open(h) # {} /\ ~Terminated(h) /\ c.step = Len(rs) + 1 /\ c.step <= NSteps
      /\ \A j \in Open(h) : /\ c.step = h[j].step /\ c.attempt = h[j].attempt
                            /\ c.expires = h[j].at + Lease
  BY ClaimedFacts
<1>5. Whole(h, qs)
  BY <1>3, <1>4, WholeWithReceipt
<1>6. /\ Len(qs) = Len(rs) + 1 /\ DOMAIN qs = 1..(Len(rs) + 1) /\ qs[Len(rs) + 1] = x
  BY <1>3, AppendProperties
<1>. HIDE DEF qs
<1>7. Whole(k, qs)
  <2>1. \E r \in {qs[i] : i \in DOMAIN qs} : r.step = e.step /\ r.at = e.at
    BY <1>3, <1>6
  <2>2. AllowedAt(k, qs, Len(h) + 1)
    BY <1>4, <2>1, SuccessAllowed DEF EndsOpenAttempt
  <2>3. \A j \in Open(h) : e.type = "STEP_LEASE_EXPIRED" <=> e.at >= h[j].at + Lease
    BY <1>1, <1>4
  <2>4. Continues(h, qs, e)
    BY <1>3, <1>4, <2>2, <2>3 DEF Continues
  <2>. QED
    BY <1>5, <2>4, WholeGrows
<1>8. /\ k \in Seq(Event) /\ k # <<>> /\ Len(k) = Len(h) + 1 /\ LastEvent(k) = e
      /\ Open(k) = {} /\ Done(k) = Done(h) + 1 /\ (CancelRequested(k) <=> CancelRequested(h))
      /\ ~Terminated(k) /\ ClaimedAttempts(k, Len(rs) + 2) = 0
  BY <1>2, <1>3, OneMoreEvent, DigestGrows, TriesGrow
<1>9. Len(qs) + 1 = Len(rs) + 2
  BY <1>3, <1>6
<1>. HIDE DEF k
<1>10. Tries(k, qs) = 0
  BY <1>8, <1>9 DEF Tries
<1>. QED
  BY <1>3, <1>4, <1>6, <1>7, <1>8, <1>10 DEF k, qs

\* A success that is not the last one, of a run nobody wants to end.
LEMMA SuccessRests ==
    ASSUME NEW h \in Seq(Event), NEW rs \in Seq(Receipt), NEW c \in Claim,
           RunSound(h, rs, {c}), Len(h) + 1 <= MaxEvents,
           NEW e \in Event, e.type = "STEP_SUCCEEDED", LastEvent(h).at <= e.at,
           e.step = c.step, e.attempt = c.attempt, e.notBefore = 0, e.at < c.expires,
           NEW x \in Receipt, x.step = c.step, x.at = e.at,
           ~CancelRequested(h), c.step # NSteps
    PROVE  LET k == Append(h, e)
               qs == Append(rs, x)
           IN  RunSound(k, qs, {}) /\ Abstract!Succeed(View(h, rs, {c}), View(k, qs, {}))
<1>. DEFINE k == Append(h, e)
            qs == Append(rs, x)
<1>1. /\ Len(h) \in Nat /\ Len(rs) \in Nat
      /\ Tries(h, rs) \in Nat /\ Tries(h, rs) <= MaxAttempts
  BY SoundFacts
<1>2. /\ UnderClaim(h, rs, c) /\ StatusOf(h, {c} # {}) = "RUNNING" /\ c.step = Len(rs) + 1
  BY ClaimedFacts
<1>3. /\ Whole(k, qs) /\ Len(k) = Len(h) + 1 /\ LastEvent(k) = e /\ Open(k) = {}
      /\ ~Terminated(k) /\ ~CancelRequested(k) /\ Len(qs) = Done(k)
      /\ Len(qs) = Len(rs) + 1 /\ Len(qs) = c.step /\ Len(qs) <= NSteps /\ Tries(k, qs) = 0
  BY SuccessSound
<1>. HIDE DEF k, qs
<1>4. /\ Len(rs) < NSteps
      /\ Len(h) <= 1 + Len(rs) * StepBudget + 3 * Tries(h, rs) - 2
                     + (IF CancelRequested(h) THEN 1 ELSE 0)
  BY <1>2 DEF UnderClaim
<1>5. PICK d \in Nat : d = Len(rs) /\ d < NSteps
  BY <1>1, <1>4
<1>6. PICK a, y, z \in Nat :
         /\ a = d * StepBudget /\ y = (d + 1) * StepBudget
         /\ y = a + 3 * MaxAttempts - 1 /\ y <= z
  BY <1>5, Budget
<1>7. PICK t \in Nat, m \in Nat, n \in Nat :
         t = Tries(h, rs) /\ m = MaxAttempts /\ n = Len(h) /\ t <= m /\ Len(k) = n + 1
  BY <1>1, <1>3, AttemptsAssumption
<1>8. Len(k) <= 1 + Len(qs) * StepBudget + 3 * Tries(k, qs)
  <2>1. n <= 1 + a + 3 * t - 2
    <3>. DEFINE i == IF CancelRequested(h) THEN 1 ELSE 0
    <3>1. i = 0
      OBVIOUS
    <3>2. n <= 1 + a + 3 * t - 2 + i
      BY <1>4, <1>5, <1>6, <1>7
    <3>. HIDE DEF i
    <3>. QED
      BY <3>1, <3>2
  <2>2. Len(qs) * StepBudget = y /\ Tries(k, qs) = 0 /\ y = a + 3 * m - 1 /\ Len(k) = n + 1
    BY <1>3, <1>5, <1>6, <1>7
  <2>. QED
    BY <1>7, <2>1, <2>2
<1>9. Len(qs) < NSteps
  BY <1>1, <1>3, StepsAssumption
<1>10. AtRest(k, qs)
  BY <1>3, <1>8, <1>9 DEF AtRest
<1>11. RunSound(k, qs, {})
  <2>1. Len(k) <= MaxEvents /\ Tries(k, qs) <= MaxAttempts
    BY <1>3, AttemptsAssumption
  <2>. QED
    BY <1>3, <1>10, <2>1, SoundWithoutClaim
<1>12. Abstract!Succeed(View(h, rs, {c}), View(k, qs, {}))
  <2>1. StatusOf(k, {} # {}) = "PENDING"
    BY <1>3, StatusFacts DEF TerminalEvent
  <2>2. PICK b \in BOOLEAN : b = CancelRequested(h) /\ b = CancelRequested(k) /\ ~b
    BY <1>3 DEF CancelRequested
  <2>3. View(h, rs, {c}) = [status |-> "RUNNING", done |-> d, tries |-> t, cancel |-> b]
    BY <1>2, <1>5, <1>7, <2>2 DEF View
  <2>4. View(k, qs, {}) = [status |-> "PENDING", done |-> d + 1, tries |-> 0, cancel |-> b]
    BY <1>3, <1>5, <2>1, <2>2 DEF View
  <2>5. d + 1 < NSteps
    BY <1>3, <1>5, <1>9
  <2>. QED
    BY <2>2, <2>3, <2>4, <2>5, SucceedView
<1>. QED
  BY <1>11, <1>12 DEF k, qs

\* A success with which the run ends.
LEMMA SuccessEnds ==
    ASSUME NEW h \in Seq(Event), NEW rs \in Seq(Receipt), NEW c \in Claim,
           RunSound(h, rs, {c}), Len(h) + 2 <= MaxEvents,
           NEW e \in Event, e.type = "STEP_SUCCEEDED", LastEvent(h).at <= e.at,
           e.step = c.step, e.attempt = c.attempt, e.notBefore = 0, e.at < c.expires,
           NEW x \in Receipt, x.step = c.step, x.at = e.at,
           NEW f \in Event, FollowsSuccess(h, c, e, f)
    PROVE  LET g == Append(Append(h, e), f)
               qs == Append(rs, x)
           IN  RunSound(g, qs, {}) /\ Abstract!Succeed(View(h, rs, {c}), View(g, qs, {}))
<1>. DEFINE k == Append(h, e)
            g == Append(k, f)
            qs == Append(rs, x)
<1>1. /\ Len(h) \in Nat /\ Len(rs) \in Nat /\ e.at \in Nat
      /\ Tries(h, rs) \in Nat /\ Tries(h, rs) <= MaxAttempts
  BY SoundFacts DEF Event
<1>2. /\ UnderClaim(h, rs, c) /\ StatusOf(h, {c} # {}) = "RUNNING" /\ c.step = Len(rs) + 1
  BY ClaimedFacts
<1>3. /\ Whole(k, qs) /\ Len(k) = Len(h) + 1 /\ LastEvent(k) = e /\ Open(k) = {}
      /\ k \in Seq(Event) /\ k # <<>>
      /\ ~Terminated(k) /\ (CancelRequested(k) <=> CancelRequested(h)) /\ Len(qs) = Done(k)
      /\ Len(qs) = Len(rs) + 1 /\ Len(qs) = c.step /\ Len(qs) <= NSteps /\ Tries(k, qs) = 0
  BY SuccessSound
<1>. HIDE DEF k, qs
<1>4. /\ f.type \in {"RUN_CANCELLED", "RUN_COMPLETED"} /\ f.at = e.at
      /\ f.type = "RUN_CANCELLED" => CancelRequested(h)
      /\ f.type = "RUN_COMPLETED" => ~CancelRequested(h) /\ c.step = NSteps
  BY DEF FollowsSuccess
<1>5. Whole(g, qs)
  <2>1. AllowedAt(g, qs, Len(k) + 1)
    <3>1. CASE f.type = "RUN_CANCELLED"
      BY <1>3, <1>4, <3>1, CancellationAllowed
    <3>2. CASE f.type = "RUN_COMPLETED"
      BY <1>3, <1>4, <3>2, CompletionAllowed
    <3>. QED
      BY <1>4, <3>1, <3>2
  <2>2. Continues(k, qs, f)
    BY <1>1, <1>3, <1>4, <2>1 DEF Continues, AttemptEnd
  <2>. QED
    BY <1>3, <2>2, WholeGrows
<1>6. /\ Len(g) = Len(h) + 2 /\ LastEvent(g) = f /\ Open(g) = {} /\ Done(g) = Done(k)
      /\ (CancelRequested(g) <=> CancelRequested(h)) /\ Terminated(g) /\ Tries(g, qs) = 0
  <2>1. /\ f.type \notin {"STEP_CLAIMED", "STEP_SUCCEEDED", "RUN_CANCEL_REQUESTED"}
        /\ f.type \notin AttemptEnd /\ f.type \in TerminalEvent
    BY <1>4 DEF AttemptEnd, TerminalEvent
  <2>2. Len(g) = Len(h) + 2 /\ LastEvent(g) = f
    BY <1>1, <1>3, OneMoreEvent
  <2>3. /\ Open(g) = {} /\ Done(g) = Done(k) /\ Terminated(g)
        /\ (CancelRequested(g) <=> CancelRequested(k))
    <3>1. Open(g) = {}
      BY <1>3, <2>1, DigestGrows
    <3>4. Done(g) = Done(k)
      <4>1. Done(k) \in Nat
        BY <1>3, DigestGrows
      <4>2. Done(g) = Done(k) + (IF f.type = "STEP_SUCCEEDED" THEN 1 ELSE 0)
        BY <1>3, DigestGrows
      <4>3. f.type # "STEP_SUCCEEDED"
        BY <2>1
      <4>4. Done(g) = Done(k) + 0
        BY <4>2, <4>3
      <4>. QED
        BY <4>1, <4>4
    <3>2. Terminated(g) /\ (CancelRequested(g) <=> CancelRequested(k))
      BY <1>3, <2>1, DigestGrows
    <3>. QED
      BY <3>1, <3>2, <3>4
  <2>4. Tries(g, qs) = Tries(k, qs)
    BY <1>3, <2>1, TriesGrow DEF Tries
  <2>. QED
    BY <1>3, <2>2, <2>3, <2>4
<1>. HIDE DEF g
<1>7. /\ Len(rs) < NSteps
      /\ Len(h) <= 1 + Len(rs) * StepBudget + 3 * Tries(h, rs) - 2
                     + (IF CancelRequested(h) THEN 1 ELSE 0)
  BY <1>2 DEF UnderClaim
<1>8. PICK d \in Nat : d = Len(rs) /\ d < NSteps
  BY <1>1, <1>7
<1>9. PICK a, y, z \in Nat :
         /\ a = d * StepBudget /\ z = NSteps * StepBudget
         /\ y = a + 3 * MaxAttempts - 1 /\ y <= z
  BY <1>8, Budget
<1>10. PICK t \in Nat, m \in Nat, n \in Nat :
         t = Tries(h, rs) /\ m = MaxAttempts /\ n = Len(h) /\ t <= m /\ Len(g) = n + 2
  BY <1>1, <1>6, AttemptsAssumption
<1>11. Len(g) <= EventLimit
  <2>. DEFINE i == IF CancelRequested(h) THEN 1 ELSE 0
  <2>1. i \in Nat /\ i <= 1
    OBVIOUS
  <2>2. n <= 1 + a + 3 * t - 2 + i
    BY <1>7, <1>8, <1>9, <1>10
  <2>3. EventLimit = 1 + z + 2 /\ y = a + 3 * m - 1 /\ y <= z
    BY <1>9, <1>10 DEF EventLimit
  <2>. HIDE DEF i
  <2>4. /\ a \in Nat /\ y \in Nat /\ z \in Nat /\ n \in Nat /\ t \in Nat /\ m \in Nat
        /\ t <= m /\ Len(g) = n + 2
    BY <1>9, <1>10
  <2>5. n + 2 <= a + 3 * m + 2
    BY <2>1, <2>2, <2>4
  <2>6. n + 2 <= y + 3 /\ EventLimit = z + 3
    BY <2>3, <2>4, <2>5
  <2>7. n + 2 <= z + 3
    BY <2>3, <2>4, <2>6
  <2>. QED
    BY <2>4, <2>6, <2>7
<1>12. RunSound(g, qs, {})
  <2>1. Len(g) <= MaxEvents /\ Tries(g, qs) <= MaxAttempts
    BY <1>6, AttemptsAssumption
  <2>. QED
    BY <1>3, <1>5, <1>6, <1>11, <2>1, SoundWithoutClaim
<1>13. Abstract!Succeed(View(h, rs, {c}), View(g, qs, {}))
  <2>1. PICK u : u = StatusOf(g, {} # {})
    OBVIOUS
  <2>2. PICK b \in BOOLEAN : b = CancelRequested(h) /\ b = CancelRequested(g)
    BY <1>6 DEF CancelRequested
  <2>3. View(h, rs, {c}) = [status |-> "RUNNING", done |-> d, tries |-> t, cancel |-> b]
    BY <1>2, <1>8, <1>10, <2>2 DEF View
  <2>4. View(g, qs, {}) = [status |-> u, done |-> d + 1, tries |-> 0, cancel |-> b]
    BY <1>3, <1>6, <1>8, <2>1, <2>2 DEF View
  <2>5. /\ f.type = "RUN_CANCELLED" => u = "CANCELLED"
        /\ f.type = "RUN_COMPLETED" => u = "COMPLETED"
    BY <1>6, <2>1, StatusFacts
  <2>6. \/ b /\ u = "CANCELLED"
        \/ ~b /\ d + 1 = NSteps /\ u = "COMPLETED"
    BY <1>2, <1>4, <1>8, <2>2, <2>5
  <2>. QED
    BY <2>3, <2>4, <2>6, SucceedView
<1>. QED
  BY <1>12, <1>13 DEF g, k, qs

----------------------------------------------------------------------------
(* From one run to the ledger: which run a transaction moves, and that it  *)
(* leaves the others alone.                                                *)

Quiet(q) ==
    log'[q] = log[q] /\ receipts'[q] = receipts[q] /\ ClaimsOf(q)' = ClaimsOf(q)

LEMMA EventsAppended ==
    ASSUME NEW h \in Seq(Event), NEW a \in Event, NEW b \in Event
    PROVE  /\ Len(<<a>>) = 1 /\ Len(<<a>> \o <<>>) = 1 /\ Len(<<a>> \o <<b>>) = 2
           /\ h \o <<a>> = Append(h, a) /\ h \o <<a>> \o <<>> = Append(h, a)
           /\ h \o (<<a>> \o <<>>) = Append(h, a)
           /\ h \o <<a>> \o <<b>> = Append(Append(h, a), b)
           /\ h \o (<<a>> \o <<b>>) = Append(Append(h, a), b)
<1>1. Len(<<a>>) = 1 /\ Len(<<a>> \o <<>>) = 1 /\ Len(<<a>> \o <<b>>) = 2
  OBVIOUS
<1>2. h \o <<a>> = Append(h, a)
  OBVIOUS
<1>3. <<a>> \o <<>> = <<a>>
  OBVIOUS
<1>4. h \o <<a>> \o <<>> = h \o <<a>>
  OBVIOUS
<1>5. h \o <<a>> \o <<b>> = Append(h \o <<a>>, b)
  OBVIOUS
<1>6. h \o (<<a>> \o <<b>>) = h \o <<a>> \o <<b>>
  OBVIOUS
<1>. QED
  BY <1>1, <1>2, <1>3, <1>4, <1>5, <1>6

LEMMA QuietStands ==
    ASSUME NEW q \in Runs, RunStands(q), Quiet(q)
    PROVE  RunStands(q)' /\ RunView(q)' = RunView(q)
<1>1. PICK h, rs, cs : h = log[q] /\ rs = receipts[q] /\ cs = ClaimsOf(q)
  OBVIOUS
<1>2. h = log'[q] /\ rs = receipts'[q] /\ cs = ClaimsOf(q)'
  BY <1>1 DEF Quiet
<1>3. RunStands(q)'
  BY <1>1, <1>2 DEF RunStands, Created
<1>4. RunView(q)' = RunView(q)
  BY <1>1, <1>2 DEF RunView, Created, Status, CurrentStep
<1>. QED
  BY <1>3, <1>4

\* What the run r was and is, in terms of its rows.
LEMMA RunGoes ==
    ASSUME NEW r \in Runs
    PROVE  /\ Created(r) => RunView(r) = View(log[r], receipts[r], ClaimsOf(r))
           /\ Created(r)' => RunView(r)' = View(log'[r], receipts'[r], ClaimsOf(r)')
           /\ Created(r)' /\ RunSound(log'[r], receipts'[r], ClaimsOf(r)') => RunStands(r)'
<1>1. Created(r) => RunView(r) = View(log[r], receipts[r], ClaimsOf(r))
  BY DEF RunView, Status, CurrentStep, View, Tries
<1>2. Created(r)' => RunView(r)' = View(log'[r], receipts'[r], ClaimsOf(r)')
  BY DEF RunView, Status, CurrentStep, View, Tries
<1>3. Created(r)' /\ RunSound(log'[r], receipts'[r], ClaimsOf(r)') => RunStands(r)'
  BY DEF RunStands
<1>. QED
  BY <1>1, <1>2, <1>3

LEMMA LastEventType ==
    ASSUME NEW h \in Seq(Event), h # <<>>
    PROVE  LastEvent(h) \in Event /\ LastEvent(h).at \in Nat
<1>1. Len(h) \in 1..Len(h) /\ LastEvent(h) \in Event
  BY DEF LastEvent
<1>. QED
  BY <1>1 DEF Event

\* create_run: the run exists, waits for its first step, and nothing else moves.
LEMMA CreateRunMoves ==
    ASSUME HistoryInv, NEW r \in Runs, NEW at \in Nat, CreateRun(r, at)
    PROVE  /\ RunStands(r)' /\ Abstract!Register(RunView(r), RunView(r)')
           /\ \A q \in Runs \ {r} : Quiet(q)
<1>1. /\ TypeOK /\ receipts[r] = <<>> /\ ClaimsOf(r) = {} /\ log[r] = <<>>
  BY DEF HistoryInv, Inv, RunStands, CreateRun, Created
<1>2. PICK g : g = <<RunEvent("RUN_CREATED", at)>>
  OBVIOUS
<1>3. /\ log' = [log EXCEPT ![r] = g] /\ claims' = claims /\ receipts' = receipts
  BY <1>2 DEF CreateRun
<1>4. log'[r] = g /\ receipts'[r] = <<>> /\ ClaimsOf(r)' = {}
  BY <1>1, <1>3 DEF TypeOK, ClaimsOf
<1>5. g # <<>>
  BY <1>2
<1>6. 1 <= MaxEvents
  BY <1>1, EventsAssumption DEF CreateRun, CanAppend
<1>7. /\ RunSound(g, <<>>, {})
      /\ View(g, <<>>, {}) = [status |-> "PENDING", done |-> 0, tries |-> 0, cancel |-> FALSE]
  BY <1>2, <1>6, CreationSound
<1>8. RunStands(r)'
  BY <1>4, <1>5, <1>7 DEF RunStands, Created
<1>9. RunView(r) = [status |-> "UNKNOWN", done |-> 0, tries |-> 0, cancel |-> FALSE]
  BY <1>1 DEF RunView, Created
<1>10. RunView(r)' = View(g, <<>>, {})
  BY <1>4, <1>5 DEF RunView, Created, Status, CurrentStep, View, Tries
<1>11. Abstract!Register(RunView(r), RunView(r)')
  <2>1. PICK e, v, u :
           /\ e = FALSE /\ v = RunView(r) /\ u = RunView(r)'
           /\ v = [status |-> "UNKNOWN", done |-> 0, tries |-> 0, cancel |-> e]
           /\ u = [status |-> "PENDING", done |-> 0, tries |-> 0, cancel |-> e]
    BY <1>7, <1>9, <1>10
  <2>2. v = Abstract!Unknown
    BY <2>1 DEF Abstract!Unknown
  <2>3. u = [v EXCEPT !.status = "PENDING"]
    BY ONLY <2>1
  <2>. QED
    BY <2>1, <2>2, <2>3 DEF Abstract!Register
<1>12. \A q \in Runs \ {r} : Quiet(q)
  BY <1>1, <1>3 DEF Quiet, TypeOK, ClaimsOf
<1>. QED
  BY <1>8, <1>11, <1>12

\* cancel: a run without a claim ends at once, a working one is only marked.
LEMMA CancelRunMoves ==
    ASSUME HistoryInv, NEW r \in Runs, NEW at \in Nat, CancelRun(r, at)
    PROVE  /\ RunStands(r)' /\ Abstract!Cancel(RunView(r), RunView(r)')
           /\ \A q \in Runs \ {r} : Quiet(q)
<1>1. /\ TypeOK /\ Created(r) /\ RunSound(log[r], receipts[r], ClaimsOf(r))
      /\ ~Terminated(log[r])
  BY DEF HistoryInv, Inv, RunStands, CancelRun
<1>2. PICK h, rs, cs : h = log[r] /\ rs = receipts[r] /\ cs = ClaimsOf(r)
  OBVIOUS
<1>3. h \in Seq(Event) /\ rs \in Seq(Receipt) /\ h # <<>>
  BY <1>1, <1>2 DEF TypeOK, Created
<1>4. RunSound(h, rs, cs) /\ ~Terminated(h)
  BY <1>1, <1>2
<1>5. PICK a, b : a = RunEvent("RUN_CANCEL_REQUESTED", at) /\ b = RunEvent("RUN_CANCELLED", at)
  OBVIOUS
<1>6. a \in Event /\ b \in Event
  BY <1>5, RunEventType DEF EventType, TerminalEvent
<1>7. PICK request, settle :
        /\ request = IF CancelRequested(h) THEN <<>> ELSE <<a>>
        /\ settle = IF cs = {} THEN <<b>> ELSE <<>>
  OBVIOUS
<1>8. /\ request \o settle # <<>>
      /\ Len(h) + Len(request \o settle) <= MaxEvents /\ LastEvent(h).at <= at
      /\ log' = [log EXCEPT ![r] = @ \o request \o settle]
      /\ claims' = claims /\ receipts' = receipts
  <2>1. /\ request \o settle # <<>> /\ CanAppend(r, Len(request \o settle), at)
        /\ log' = [log EXCEPT ![r] = @ \o request \o settle]
        /\ claims' = claims /\ receipts' = receipts
    BY <1>2, <1>5, <1>7 DEF CancelRun
  <2>. QED
    BY <1>2, <1>3, <2>1, LastEventType DEF CanAppend
<1>9. /\ log'[r] = h \o request \o settle /\ receipts'[r] = rs /\ ClaimsOf(r)' = cs
      /\ \A q \in Runs \ {r} : Quiet(q)
  BY <1>1, <1>2, <1>8 DEF TypeOK, ClaimsOf, Quiet
<1>10. CASE cs = {}
  <2>1. ~CancelRequested(h)
    BY <1>3, <1>4, <1>10, SoundFacts
  <2>2. request = <<a>> /\ settle = <<b>>
    BY <1>7, <1>10, <2>1
  <2>3. /\ Len(request \o settle) = 2 /\ h \o request \o settle = Append(Append(h, a), b)
    BY <1>3, <1>6, <2>2, EventsAppended
  <2>4. PICK g : g = Append(Append(h, a), b)
    OBVIOUS
  <2>5. g # <<>>
    BY <1>3, <1>6, <2>4
  <2>6. RunSound(g, rs, {}) /\ Abstract!Cancel(View(h, rs, {}), View(g, rs, {}))
    BY <1>3, <1>4, <1>5, <1>8, <1>10, <2>3, <2>4, CancelIdleSound
  <2>7. /\ RunView(r) = View(h, rs, cs) /\ RunView(r)' = View(g, rs, cs)
        /\ RunSound(g, rs, cs) => RunStands(r)'
    <3>1. /\ log[r] = h /\ receipts[r] = rs /\ ClaimsOf(r) = cs /\ Created(r)
          /\ log'[r] = g /\ receipts'[r] = rs /\ ClaimsOf(r)' = cs /\ Created(r)'
      BY <1>2, <1>3, <1>9, <2>3, <2>4, <2>5 DEF Created
    <3>. QED
      BY <3>1, RunGoes
  <2>. QED
    BY <1>9, <1>10, <2>6, <2>7
<1>11. CASE cs # {}
  <2>1. PICK c : cs = {c}
    BY <1>4, <1>11 DEF RunSound
  <2>2. settle = <<>> /\ request = <<a>> /\ ~CancelRequested(h)
    <3>1. settle = <<>>
      BY <1>7, <1>11
    <3>2. request # <<>>
      <4>1. <<>> \o <<>> = <<>>
        OBVIOUS
      <4>. QED
        BY <1>8, <3>1, <4>1
    <3>. QED
      BY <1>7, <3>1, <3>2
  <2>3. /\ Len(request \o settle) = 1 /\ h \o request \o settle = Append(h, a)
    BY <1>3, <1>6, <2>2, EventsAppended
  <2>4. PICK g : g = Append(h, a)
    OBVIOUS
  <2>5. g # <<>>
    BY <1>3, <1>6, <2>4
  <2>6. RunSound(g, rs, {c}) /\ Abstract!Cancel(View(h, rs, {c}), View(g, rs, {c}))
    BY <1>3, <1>4, <1>5, <1>8, <2>1, <2>2, <2>3, <2>4, CancelWorkingSound
  <2>7. /\ RunView(r) = View(h, rs, cs) /\ RunView(r)' = View(g, rs, cs)
        /\ RunSound(g, rs, cs) => RunStands(r)'
    <3>1. /\ log[r] = h /\ receipts[r] = rs /\ ClaimsOf(r) = cs /\ Created(r)
          /\ log'[r] = g /\ receipts'[r] = rs /\ ClaimsOf(r)' = cs /\ Created(r)'
      BY <1>2, <1>3, <1>9, <2>3, <2>4, <2>5 DEF Created
    <3>. QED
      BY <3>1, RunGoes
  <2>. QED
    BY <1>9, <2>1, <2>6, <2>7
<1>. QED
  BY <1>10, <1>11

\* _claim_one: the run it claims begins an attempt.
LEMMA ClaimOneMoves ==
    ASSUME HistoryInv, NEW w \in Workers, ClaimOne(w)
    PROVE  \E r \in Runs :
              /\ RunStands(r)' /\ Abstract!Begin(RunView(r), RunView(r)')
              /\ \A q \in Runs \ {r} : Quiet(q)
<1>1. TypeOK /\ wnow[w] \in Nat
  BY DEF HistoryInv, Inv, TypeOK
<1>2. PICK r \in Runnable(wnow[w]) :
         /\ CanAppend(r, 1, wnow[w])
         /\ log' = [log EXCEPT ![r] = Append(@, StepEvent("STEP_CLAIMED",
                                  NewClaim(w, r, wnow[w]), wnow[w], "NONE"))]
         /\ claims' = claims \cup {NewClaim(w, r, wnow[w])}
  BY DEF ClaimOne
<1>3. /\ r \in Runs /\ Created(r) /\ ClaimsOf(r) = {} /\ ~Terminated(log[r])
      /\ (Status(r) = "WAITING_RETRY" => wnow[w] >= LastEvent(log[r]).notBefore)
      /\ CurrentStep(r) \in Steps /\ receipts' = receipts
  BY <1>2 DEF Runnable, ClaimOne
<1>4. PICK h, rs, now, c : /\ h = log[r] /\ rs = receipts[r] /\ now = wnow[w]
                           /\ c = NewClaim(w, r, now)
  OBVIOUS
<1>5. h \in Seq(Event) /\ rs \in Seq(Receipt) /\ h # <<>> /\ now \in Nat
  BY <1>1, <1>3, <1>4 DEF TypeOK, Created
<1>6. RunSound(h, rs, {}) /\ ~Terminated(h)
  BY <1>3, <1>4 DEF HistoryInv, RunStands
<1>7. Tries(h, rs) \in Nat /\ Len(h) \in Nat /\ Len(rs) \in Nat
  BY <1>5, <1>6, SoundFacts
<1>8. /\ c.run = r /\ c.step = Len(rs) + 1 /\ c.attempt = Tries(h, rs) + 1
      /\ c.epoch = Len(h) + 1 /\ c.claimedAt = now /\ c.expires = now + Lease
  BY <1>4 DEF NewClaim, NextAttempt, CurrentStep, Tries
<1>9. c \in Claim
  <2>1. c = [run |-> r, step |-> Len(rs) + 1, attempt |-> Tries(h, rs) + 1,
             epoch |-> Len(h) + 1, worker |-> w, claimedAt |-> now, expires |-> now + Lease]
    BY <1>4 DEF NewClaim, NextAttempt, CurrentStep, Tries
  <2>2. Len(rs) + 1 \in Steps
    BY <1>3, <1>4 DEF CurrentStep
  <2>. QED
    BY <1>3, <1>5, <1>7, <2>1, <2>2, LeaseAssumption DEF Claim
<1>10. PICK g : g = Append(h, StepEvent("STEP_CLAIMED", c, now, "NONE"))
  OBVIOUS
<1>11. StepEvent("STEP_CLAIMED", c, now, "NONE") \in Event
  BY <1>5, <1>9, StepEventType DEF EventType, Reason
<1>12. g # <<>>
  BY <1>5, <1>10, <1>11
<1>13. /\ log' = [log EXCEPT ![r] = g] /\ claims' = claims \cup {c}
  BY <1>1, <1>2, <1>3, <1>4, <1>10 DEF TypeOK
<1>14. log'[r] = g /\ receipts'[r] = rs /\ ClaimsOf(r)' = {c}
  BY <1>1, <1>3, <1>4, <1>8, <1>13 DEF TypeOK, ClaimsOf
<1>15. \A q \in Runs \ {r} : Quiet(q)
  BY <1>1, <1>3, <1>8, <1>13 DEF TypeOK, ClaimsOf, Quiet
<1>16. Len(h) + 1 <= MaxEvents /\ LastEvent(h).at <= now
  BY <1>2, <1>4, <1>5, LastEventType DEF CanAppend
<1>17. StatusOf(h, FALSE) = "WAITING_RETRY" => now >= LastEvent(h).notBefore
  <2>1. (ClaimsOf(r) # {}) = FALSE
    BY <1>3
  <2>2. Status(r) = StatusOf(h, FALSE)
    BY <1>4, <2>1 DEF Status
  <2>. QED
    BY <1>3, <1>4, <2>2
<1>18. RunSound(g, rs, {c}) /\ Abstract!Begin(View(h, rs, {}), View(g, rs, {c}))
  BY <1>5, <1>6, <1>8, <1>9, <1>10, <1>16, <1>17, ClaimSound
<1>19. /\ RunView(r) = View(h, rs, {}) /\ RunView(r)' = View(g, rs, {c})
       /\ RunSound(g, rs, {c}) => RunStands(r)'
  <2>1. /\ log[r] = h /\ receipts[r] = rs /\ ClaimsOf(r) = {} /\ Created(r)
        /\ log'[r] = g /\ receipts'[r] = rs /\ ClaimsOf(r)' = {c} /\ Created(r)'
    BY <1>3, <1>4, <1>12, <1>14 DEF Created
  <2>. QED
    BY <1>3, <2>1, RunGoes
<1>. QED
  BY <1>3, <1>15, <1>18, <1>19

\* recover_expired_claims: every run whose lease has ended loses its attempt.
LEMMA RecoveryMoves ==
    ASSUME HistoryInv, NEW now \in Nat, RecoverExpired(now), NEW r \in Runs
    PROVE  \/ Quiet(r)
           \/ RunStands(r)' /\ Abstract!Lose(RunView(r), RunView(r)')
<1>1. TypeOK /\ OneClaimPerRun /\ claims' = claims \ Expired(now) /\ receipts' = receipts
  BY DEF HistoryInv, Inv, RecoverExpired
<1>2. CASE ~\E c \in Expired(now) : c.run = r
  <2>1. log'[r] = log[r]
    BY <1>2 DEF RecoverExpired
  <2>2. ClaimsOf(r)' = ClaimsOf(r)
    BY <1>1, <1>2 DEF ClaimsOf
  <2>. QED
    BY <1>1, <2>1, <2>2 DEF Quiet
<1>3. ASSUME NEW c \in Expired(now), c.run = r
      PROVE  RunStands(r)' /\ Abstract!Lose(RunView(r), RunView(r)')
  <2>1. /\ c \in claims /\ c \in Claim /\ c.expires <= now
        /\ \A d \in claims : d.run = r => d = c
    BY <1>1, <1>3 DEF Expired, TypeOK, OneClaimPerRun
  <2>2. ClaimsOf(r) = {c} /\ ClaimsOf(r)' = {}
    BY <1>1, <1>3, <2>1 DEF ClaimsOf
  <2>3. PICK h, rs : h = log[r] /\ rs = receipts[r]
    OBVIOUS
  <2>4. RunSound(h, rs, {c}) /\ Created(r)
    BY <2>2, <2>3 DEF HistoryInv, RunStands
  <2>5. h \in Seq(Event) /\ rs \in Seq(Receipt) /\ h # <<>>
    BY <1>1, <2>3, <2>4 DEF TypeOK, Created
  <2>6. c.attempt \in Nat \ {0} /\ c.step \in Nat
    BY <2>1, StepsAssumption DEF Claim, Steps
  <2>7. PICK e : e = StepEvent("STEP_LEASE_EXPIRED", c, now, "LEASE_EXPIRED")
    OBVIOUS
  <2>8. e \in Event
    BY <2>1, <2>7, StepEventType DEF EventType, AttemptEnd, Reason, Retryable
  <2>9. /\ e.type = "STEP_LEASE_EXPIRED" /\ e.at = now /\ e.step = c.step
        /\ e.attempt = c.attempt /\ e.notBefore = 0
    BY <2>7 DEF StepEvent
  <2>10. PICK f : f = CASE CancelRequested(h) -> RunEvent("RUN_CANCELLED", now)
                        [] ~CancelRequested(h) /\ c.attempt < MaxAttempts ->
                              RetryEvent(c, now, "LEASE_EXPIRED")
                        [] OTHER -> StepEvent("RUN_FAILED", c, now, "LEASE_EXPIRED")
    OBVIOUS
  <2>11. f \in Event /\ FollowsLoss(h, c, e, f)
    <3>1. CASE CancelRequested(h)
      <4>1. f = RunEvent("RUN_CANCELLED", now)
        BY <2>10, <3>1
      <4>2. f \in Event
        BY <4>1, RunEventType DEF EventType, TerminalEvent
      <4>3. f.type = "RUN_CANCELLED" /\ f.at = now /\ f.step = 0
        BY <4>1 DEF RunEvent
      <4>. QED
        BY <2>9, <3>1, <4>2, <4>3 DEF FollowsLoss
    <3>2. CASE ~CancelRequested(h) /\ c.attempt < MaxAttempts
      <4>1. f = RetryEvent(c, now, "LEASE_EXPIRED")
        BY <2>10, <3>2
      <4>2. f \in Event
        BY <2>1, <3>2, <4>1, RetryEventType DEF Reason, Retryable
      <4>3. /\ f.type = "STEP_RETRY_SCHEDULED" /\ f.at = now /\ f.step = c.step
            /\ f.attempt = c.attempt /\ f.notBefore = now + RetryDelay[c.attempt]
        BY <4>1 DEF RetryEvent, StepEvent
      <4>. QED
        BY <2>6, <2>9, <3>2, <4>2, <4>3 DEF FollowsLoss
    <3>3. CASE ~CancelRequested(h) /\ ~(c.attempt < MaxAttempts)
      <4>1. f = StepEvent("RUN_FAILED", c, now, "LEASE_EXPIRED")
        BY <2>10, <3>3
      <4>2. f \in Event
        BY <2>1, <4>1, StepEventType DEF EventType, TerminalEvent, Reason, Retryable
      <4>3. /\ f.type = "RUN_FAILED" /\ f.at = now /\ f.step = c.step
            /\ f.attempt = c.attempt
        BY <4>1 DEF StepEvent
      <4>4. c.attempt >= MaxAttempts
        BY <2>6, <3>3, AttemptsAssumption
      <4>. QED
        BY <2>6, <2>9, <3>3, <4>2, <4>3, <4>4 DEF FollowsLoss
    <3>. QED
      BY <3>1, <3>2, <3>3
  <2>12. PICK g : g = Append(Append(h, e), f)
    OBVIOUS
  <2>13. log'[r] = g
    <3>1. (CHOOSE d \in Expired(now) : d.run = r) = c
      <4>1. (CHOOSE d \in Expired(now) : d.run = r) \in Expired(now)
            /\ (CHOOSE d \in Expired(now) : d.run = r).run = r
        BY <1>3
      <4>. QED
        BY <2>1, <4>1 DEF Expired
    <3>2. log'[r] = log[r] \o RecoveryEvents(CHOOSE d \in Expired(now) : d.run = r, now)
      BY <1>3 DEF RecoverExpired
    <3>3. log'[r] = h \o RecoveryEvents(c, now)
      BY <2>3, <3>1, <3>2
    <3>4. RecoveryEvents(c, now) = <<e>> \o <<f>>
      BY <1>3, <2>3, <2>7, <2>10 DEF RecoveryEvents
    <3>. QED
      BY <2>5, <2>8, <2>11, <2>12, <3>3, <3>4, EventsAppended
  <2>14. Len(h) + 2 <= MaxEvents /\ LastEvent(h).at <= now
    <3>1. CanAppend(r, 2, now)
      BY <1>3 DEF RecoverExpired, RecoveryAccepted
    <3>. QED
      BY <2>3, <2>5, <3>1, LastEventType DEF CanAppend
  <2>15. g # <<>>
    BY <2>5, <2>8, <2>11, <2>12
  <2>16. RunSound(g, rs, {}) /\ Abstract!Lose(View(h, rs, {c}), View(g, rs, {}))
    <3>1. e.type \in AttemptLost /\ (e.type = "STEP_LEASE_EXPIRED" <=> e.at >= c.expires)
      <4>1. c.expires \in Nat /\ e.at >= c.expires
        BY <2>1, <2>9 DEF Claim
      <4>. QED
        BY <2>9, <4>1 DEF AttemptLost
    <3>2. LastEvent(h).at <= e.at
      BY <2>9, <2>14
    <3>. QED
      BY <2>1, <2>4, <2>5, <2>8, <2>9, <2>11, <2>12, <2>14, <3>1, <3>2, LossSound
  <2>17. /\ log[r] = h /\ receipts[r] = rs /\ ClaimsOf(r) = {c} /\ Created(r)
         /\ log'[r] = g /\ receipts'[r] = rs /\ ClaimsOf(r)' = {} /\ Created(r)'
    BY <1>1, <2>2, <2>3, <2>4, <2>13, <2>15 DEF Created
  <2>. QED
    BY <2>16, <2>17, RunGoes
<1>. QED
  BY <1>2, <1>3

\* What _finalize_success and _finalize_failure work on: the run of the claim,
\* its one open attempt, and a time inside the lease.
LEMMA EndAttemptFacts ==
    ASSUME HistoryInv, NEW w \in Workers, EndAttempt(w), NEW c, c = held[w]
    PROVE  /\ c \in Claim /\ c.run \in Runs /\ c.attempt \in Nat \ {0} /\ c.step \in Steps
           /\ wnow[w] \in Nat /\ wnow[w] < c.expires /\ c.expires \in Nat
           /\ Created(c.run) /\ ClaimsOf(c.run) = {c} /\ ClaimsOf(c.run)' = {}
           /\ RunSound(log[c.run], receipts[c.run], {c})
           /\ log' = [log EXCEPT ![c.run] = @ \o FinalEvents(w)]
           /\ CanAppend(c.run, Len(FinalEvents(w)), wnow[w])
           /\ \A q \in Runs \ {c.run} : log'[q] = log[q] /\ ClaimsOf(q)' = ClaimsOf(q)
<1>1. /\ c \in claims /\ wnow[w] < c.expires /\ claims' = claims \ {c}
      /\ log' = [log EXCEPT ![c.run] = @ \o FinalEvents(w)]
      /\ CanAppend(c.run, Len(FinalEvents(w)), wnow[w])
  BY DEF EndAttempt, Accepted, Fenced
<1>2. TypeOK /\ OneClaimPerRun
  BY DEF HistoryInv, Inv
<1>3. c \in Claim /\ wnow[w] \in Nat
  BY <1>1, <1>2 DEF TypeOK
<1>4. c.run \in Runs /\ c.attempt \in Nat \ {0} /\ c.step \in Steps /\ c.expires \in Nat
  BY <1>3 DEF Claim
<1>5. ClaimsOf(c.run) = {c} /\ ClaimsOf(c.run)' = {}
  BY <1>1, <1>2 DEF ClaimsOf, OneClaimPerRun
<1>6. Created(c.run) /\ RunSound(log[c.run], receipts[c.run], {c})
  BY <1>4, <1>5 DEF HistoryInv, RunStands
<1>7. \A q \in Runs \ {c.run} : log'[q] = log[q] /\ ClaimsOf(q)' = ClaimsOf(q)
  BY <1>1, <1>2 DEF TypeOK, ClaimsOf
<1>. QED
  BY <1>1, <1>3, <1>4, <1>5, <1>6, <1>7

LEMMA FinalizeFailureMoves ==
    ASSUME HistoryInv, NEW w \in Workers, FinalizeFailure(w)
    PROVE  \E r \in Runs :
              /\ RunStands(r)' /\ Abstract!Lose(RunView(r), RunView(r)')
              /\ \A q \in Runs \ {r} : Quiet(q)
<1>1. PICK c : c = held[w]
  OBVIOUS
<1>2. EndAttempt(w) /\ pc[w] = "failed" /\ receipts' = receipts /\ TypeOK
  BY DEF FinalizeFailure, HistoryInv, Inv
<1>3. PICK r, h, rs, now, reason :
         r = c.run /\ h = log[r] /\ rs = receipts[r] /\ now = wnow[w] /\ reason = failure[w]
  OBVIOUS
<1>4. /\ c \in Claim /\ r \in Runs /\ c.attempt \in Nat \ {0} /\ c.step \in Nat
      /\ now \in Nat /\ now < c.expires /\ c.expires \in Nat
      /\ Created(r) /\ ClaimsOf(r) = {c} /\ ClaimsOf(r)' = {} /\ RunSound(h, rs, {c})
      /\ log' = [log EXCEPT ![r] = @ \o FinalEvents(w)]
      /\ CanAppend(r, Len(FinalEvents(w)), now)
      /\ \A q \in Runs \ {r} : log'[q] = log[q] /\ ClaimsOf(q)' = ClaimsOf(q)
  <2>1. /\ c \in Claim /\ c.run \in Runs /\ c.attempt \in Nat \ {0} /\ c.step \in Steps
        /\ wnow[w] \in Nat /\ wnow[w] < c.expires /\ c.expires \in Nat
        /\ Created(c.run) /\ ClaimsOf(c.run) = {c} /\ ClaimsOf(c.run)' = {}
        /\ RunSound(log[c.run], receipts[c.run], {c})
        /\ log' = [log EXCEPT ![c.run] = @ \o FinalEvents(w)]
        /\ CanAppend(c.run, Len(FinalEvents(w)), wnow[w])
        /\ \A q \in Runs \ {c.run} : log'[q] = log[q] /\ ClaimsOf(q)' = ClaimsOf(q)
    BY <1>1, <1>2, EndAttemptFacts
  <2>2. c.step \in Nat
    BY <2>1, StepsAssumption DEF Steps
  <2>. QED
    BY <1>3, <2>1, <2>2
<1>5. h \in Seq(Event) /\ rs \in Seq(Receipt) /\ h # <<>> /\ reason \in Reason
  BY <1>2, <1>3, <1>4 DEF TypeOK, Created
<1>6. PICK e : e = StepEvent("STEP_ATTEMPT_FAILED", c, now, reason)
  OBVIOUS
<1>7. /\ e.type = "STEP_ATTEMPT_FAILED" /\ e.at = now /\ e.step = c.step
      /\ e.attempt = c.attempt /\ e.notBefore = 0
  BY <1>6 DEF StepEvent
<1>8. e \in Event
  BY <1>4, <1>5, <1>6, StepEventType DEF EventType, AttemptEnd
<1>9. PICK f : f = CASE CancelRequested(h) -> RunEvent("RUN_CANCELLED", now)
                     [] /\ ~CancelRequested(h)
                        /\ reason \in Retryable /\ c.attempt < MaxAttempts ->
                           RetryEvent(c, now, reason)
                     [] OTHER -> StepEvent("RUN_FAILED", c, now, reason)
  OBVIOUS
<1>10. f \in Event /\ FollowsLoss(h, c, e, f)
  <2>1. CASE CancelRequested(h)
    <3>1. f = RunEvent("RUN_CANCELLED", now)
      BY <1>9, <2>1
    <3>2. f \in Event
      BY <1>4, <3>1, RunEventType DEF EventType, TerminalEvent
    <3>3. f.type = "RUN_CANCELLED" /\ f.at = now /\ f.step = 0
      BY <3>1 DEF RunEvent
    <3>. QED
      BY <1>7, <2>1, <3>2, <3>3 DEF FollowsLoss
  <2>2. CASE ~CancelRequested(h) /\ reason \in Retryable /\ c.attempt < MaxAttempts
    <3>1. f = RetryEvent(c, now, reason)
      BY <1>9, <2>2
    <3>2. f \in Event
      BY <1>4, <1>5, <2>2, <3>1, RetryEventType
    <3>3. /\ f.type = "STEP_RETRY_SCHEDULED" /\ f.at = now /\ f.step = c.step
          /\ f.attempt = c.attempt /\ f.notBefore = now + RetryDelay[c.attempt]
      BY <3>1 DEF RetryEvent, StepEvent
    <3>. QED
      BY <1>4, <1>7, <2>2, <3>2, <3>3 DEF FollowsLoss
  <2>3. CASE ~CancelRequested(h) /\ ~(reason \in Retryable /\ c.attempt < MaxAttempts)
    <3>1. f = StepEvent("RUN_FAILED", c, now, reason)
      BY <1>9, <2>3
    <3>2. f \in Event
      BY <1>4, <1>5, <3>1, StepEventType DEF EventType, TerminalEvent
    <3>3. /\ f.type = "RUN_FAILED" /\ f.at = now /\ f.step = c.step
          /\ f.attempt = c.attempt
      BY <3>1 DEF StepEvent
    <3>. QED
      BY <1>4, <1>7, <2>3, <3>2, <3>3 DEF FollowsLoss
  <2>. QED
    BY <2>1, <2>2, <2>3
<1>11. PICK g : g = Append(Append(h, e), f)
  OBVIOUS
<1>12. FinalEvents(w) = <<e>> \o <<f>>
  BY <1>1, <1>2, <1>3, <1>6, <1>9 DEF FinalEvents, FailureEvents
<1>13. Len(FinalEvents(w)) = 2 /\ h \o FinalEvents(w) = g
  BY <1>5, <1>8, <1>10, <1>11, <1>12, EventsAppended
<1>14. log'[r] = g /\ g # <<>>
  <2>1. log'[r] = h \o FinalEvents(w)
    BY <1>2, <1>3, <1>4 DEF TypeOK
  <2>2. g # <<>>
    BY <1>5, <1>8, <1>10, <1>11
  <2>. QED
    BY <1>13, <2>1, <2>2
<1>15. Len(h) + 2 <= MaxEvents /\ LastEvent(h).at <= now
  BY <1>3, <1>4, <1>5, <1>13, LastEventType DEF CanAppend
<1>16. RunSound(g, rs, {}) /\ Abstract!Lose(View(h, rs, {c}), View(g, rs, {}))
  <2>1. e.type \in AttemptLost /\ (e.type = "STEP_LEASE_EXPIRED" <=> e.at >= c.expires)
    <3>1. ~(e.at >= c.expires)
      BY <1>4, <1>7
    <3>. QED
      BY <1>7, <3>1 DEF AttemptLost
  <2>2. LastEvent(h).at <= e.at
    BY <1>7, <1>15
  <2>. QED
    BY <1>4, <1>5, <1>7, <1>8, <1>10, <1>11, <1>15, <2>1, <2>2, LossSound
<1>17. /\ log[r] = h /\ receipts[r] = rs /\ ClaimsOf(r) = {c} /\ Created(r)
       /\ log'[r] = g /\ receipts'[r] = rs /\ ClaimsOf(r)' = {} /\ Created(r)'
  BY <1>2, <1>3, <1>4, <1>14 DEF Created
<1>18. \A q \in Runs \ {r} : Quiet(q)
  BY <1>2, <1>4 DEF Quiet
<1>. QED
  BY <1>4, <1>16, <1>17, <1>18, RunGoes

LEMMA FinalizeSuccessMoves ==
    ASSUME HistoryInv, NEW w \in Workers, FinalizeSuccess(w)
    PROVE  \E r \in Runs :
              /\ RunStands(r)' /\ Abstract!Succeed(RunView(r), RunView(r)')
              /\ \A q \in Runs \ {r} : Quiet(q)
<1>1. PICK c : c = held[w]
  OBVIOUS
<1>2. EndAttempt(w) /\ pc[w] = "done" /\ TypeOK
  BY DEF FinalizeSuccess, HistoryInv, Inv
<1>3. PICK r, h, rs, now, x :
         /\ r = c.run /\ h = log[r] /\ rs = receipts[r] /\ now = wnow[w]
         /\ x = [step |-> c.step, version |-> payload[w], at |-> now]
  OBVIOUS
<1>4. /\ c \in Claim /\ r \in Runs /\ c.attempt \in Nat \ {0} /\ c.step \in Steps
      /\ now \in Nat /\ now < c.expires /\ c.expires \in Nat
      /\ Created(r) /\ ClaimsOf(r) = {c} /\ ClaimsOf(r)' = {} /\ RunSound(h, rs, {c})
      /\ log' = [log EXCEPT ![r] = @ \o FinalEvents(w)]
      /\ CanAppend(r, Len(FinalEvents(w)), now)
      /\ \A q \in Runs \ {r} : log'[q] = log[q] /\ ClaimsOf(q)' = ClaimsOf(q)
  <2>1. /\ c \in Claim /\ c.run \in Runs /\ c.attempt \in Nat \ {0} /\ c.step \in Steps
        /\ wnow[w] \in Nat /\ wnow[w] < c.expires /\ c.expires \in Nat
        /\ Created(c.run) /\ ClaimsOf(c.run) = {c} /\ ClaimsOf(c.run)' = {}
        /\ RunSound(log[c.run], receipts[c.run], {c})
        /\ log' = [log EXCEPT ![c.run] = @ \o FinalEvents(w)]
        /\ CanAppend(c.run, Len(FinalEvents(w)), wnow[w])
        /\ \A q \in Runs \ {c.run} : log'[q] = log[q] /\ ClaimsOf(q)' = ClaimsOf(q)
    BY <1>1, <1>2, EndAttemptFacts
  <2>. QED
    BY <1>3, <2>1
<1>5. h \in Seq(Event) /\ rs \in Seq(Receipt) /\ h # <<>> /\ payload[w] \in Nat
  BY <1>2, <1>3, <1>4 DEF TypeOK, Created
<1>6. x \in Receipt /\ x.step = c.step /\ x.at = now
  BY <1>3, <1>4, <1>5 DEF Receipt
<1>7. receipts' = [receipts EXCEPT ![r] = Append(@, x)]
  BY <1>1, <1>3 DEF FinalizeSuccess
<1>8. PICK qs : qs = Append(rs, x)
  OBVIOUS
<1>9. receipts'[r] = qs /\ \A q \in Runs \ {r} : receipts'[q] = receipts[q]
  BY <1>2, <1>3, <1>4, <1>7, <1>8 DEF TypeOK
<1>10. PICK e : e = StepEvent("STEP_SUCCEEDED", c, now, "NONE")
  OBVIOUS
<1>11. /\ e.type = "STEP_SUCCEEDED" /\ e.at = now /\ e.step = c.step
       /\ e.attempt = c.attempt /\ e.notBefore = 0
  BY <1>10 DEF StepEvent
<1>12. e \in Event
  BY <1>4, <1>10, StepEventType DEF EventType, AttemptEnd, Reason
<1>13. /\ Len(h) + Len(FinalEvents(w)) <= MaxEvents /\ LastEvent(h).at <= e.at
       /\ log'[r] = h \o FinalEvents(w) /\ e.at < c.expires
  BY <1>2, <1>3, <1>4, <1>5, <1>11, LastEventType DEF CanAppend, TypeOK
<1>14. PICK more :
         /\ more = CASE CancelRequested(h) -> <<RunEvent("RUN_CANCELLED", now)>>
                     [] ~CancelRequested(h) /\ c.step = NSteps ->
                            <<RunEvent("RUN_COMPLETED", now)>>
                     [] OTHER -> <<>>
  OBVIOUS
<1>15. FinalEvents(w) = <<e>> \o more
  BY <1>1, <1>2, <1>3, <1>10, <1>14 DEF FinalEvents, SuccessEvents
<1>16. \E g : /\ log'[r] = g /\ g # <<>>
              /\ RunSound(g, qs, {}) /\ Abstract!Succeed(View(h, rs, {c}), View(g, qs, {}))
  <2>1. CASE ~CancelRequested(h) /\ c.step # NSteps
    <3>1. more = <<>>
      BY <1>14, <2>1
    <3>2. PICK g : g = Append(h, e)
      OBVIOUS
    <3>3. Len(FinalEvents(w)) = 1 /\ log'[r] = g /\ g # <<>>
      BY <1>5, <1>12, <1>13, <1>15, <3>1, <3>2, EventsAppended
    <3>4. Len(h) + 1 <= MaxEvents
      BY <1>13, <3>3
    <3>5. RunSound(g, qs, {}) /\ Abstract!Succeed(View(h, rs, {c}), View(g, qs, {}))
      BY <1>4, <1>5, <1>6, <1>8, <1>11, <1>12, <1>13, <2>1, <3>2, <3>4, SuccessRests
    <3>. QED
      BY <3>3, <3>5
  <2>2. ASSUME NEW f \in Event, FollowsSuccess(h, c, e, f), more = <<f>>
        PROVE  \E g : /\ log'[r] = g /\ g # <<>> /\ RunSound(g, qs, {})
                      /\ Abstract!Succeed(View(h, rs, {c}), View(g, qs, {}))
    <3>1. PICK g : g = Append(Append(h, e), f)
      OBVIOUS
    <3>2. Len(FinalEvents(w)) = 2 /\ log'[r] = g /\ g # <<>>
      BY <1>5, <1>12, <1>13, <1>15, <2>2, <3>1, EventsAppended
    <3>3. Len(h) + 2 <= MaxEvents
      BY <1>13, <3>2
    <3>4. RunSound(g, qs, {}) /\ Abstract!Succeed(View(h, rs, {c}), View(g, qs, {}))
      BY <1>4, <1>5, <1>6, <1>8, <1>11, <1>12, <1>13, <2>2, <3>1, <3>3, SuccessEnds
    <3>. QED
      BY <3>2, <3>4
  <2>3. CASE CancelRequested(h)
    <3>1. PICK f : f = RunEvent("RUN_CANCELLED", now)
      OBVIOUS
    <3>2. f \in Event /\ f.type = "RUN_CANCELLED" /\ f.at = now
      BY <1>4, <3>1, RunEventType DEF EventType, TerminalEvent, RunEvent
    <3>3. FollowsSuccess(h, c, e, f) /\ more = <<f>>
      BY <1>11, <1>14, <2>3, <3>1, <3>2 DEF FollowsSuccess
    <3>. QED
      BY <2>2, <3>2, <3>3
  <2>4. CASE ~CancelRequested(h) /\ c.step = NSteps
    <3>1. PICK f : f = RunEvent("RUN_COMPLETED", now)
      OBVIOUS
    <3>2. f \in Event /\ f.type = "RUN_COMPLETED" /\ f.at = now
      BY <1>4, <3>1, RunEventType DEF EventType, TerminalEvent, RunEvent
    <3>3. FollowsSuccess(h, c, e, f) /\ more = <<f>>
      BY <1>11, <1>14, <2>4, <3>1, <3>2 DEF FollowsSuccess
    <3>. QED
      BY <2>2, <3>2, <3>3
  <2>. QED
    BY <2>1, <2>3, <2>4
<1>17. PICK g : /\ log'[r] = g /\ g # <<>>
                /\ RunSound(g, qs, {})
                /\ Abstract!Succeed(View(h, rs, {c}), View(g, qs, {}))
  BY <1>16
<1>18. /\ log[r] = h /\ receipts[r] = rs /\ ClaimsOf(r) = {c} /\ Created(r)
       /\ log'[r] = g /\ receipts'[r] = qs /\ ClaimsOf(r)' = {} /\ Created(r)'
  BY <1>3, <1>4, <1>9, <1>17 DEF Created
<1>19. \A q \in Runs \ {r} : Quiet(q)
  BY <1>4, <1>9 DEF Quiet
<1>. QED
  BY <1>4, <1>17, <1>18, <1>19, RunGoes

\* Every step of the system moves one run as ObservationRun says, or takes the
\* attempts of several, and whatever it moves stands.
RunsMove ==
    \/ \E r \in Runs : /\ RunStands(r)' /\ Abstract!Move(RunView(r), RunView(r)')
                       /\ \A q \in Runs \ {r} : Quiet(q)
    \/ \A r \in Runs : \/ Quiet(r)
                       \/ RunStands(r)' /\ Abstract!Lose(RunView(r), RunView(r)')

LEMMA EveryStepMoves ==
    ASSUME HistoryInv, [Next]_vars
    PROVE  RunsMove
<1>1. TypeOK
  BY DEF HistoryInv, Inv
<1>2. ASSUME UNCHANGED ledger PROVE RunsMove
  BY <1>2 DEF ledger, RunsMove, Quiet, ClaimsOf
<1>3. ASSUME NEW now \in Nat, RecoverExpired(now) PROVE RunsMove
  BY <1>3, RecoveryMoves DEF RunsMove
<1>4. ASSUME NEW now \in CallerTimes, Operator(now) PROVE RunsMove
  <2>1. now \in Nat
    BY <1>1, TimeType
  <2>2. ASSUME NEW r \in Runs, CreateRun(r, now) PROVE RunsMove
    BY <2>1, <2>2, CreateRunMoves DEF RunsMove, Abstract!Move
  <2>3. ASSUME NEW r \in Runs, CancelRun(r, now) PROVE RunsMove
    BY <2>1, <2>3, CancelRunMoves DEF RunsMove, Abstract!Move
  <2>. QED
    BY <1>3, <1>4, <2>1, <2>2, <2>3 DEF Operator, OperatorRecover
<1>5. ASSUME NEW now \in CallerTimes, NEW w \in Workers, Recover(w, now) PROVE RunsMove
  BY <1>1, <1>3, <1>5, TimeType DEF Recover
<1>6. ASSUME NEW w \in Workers, Step(w) PROVE RunsMove
  <2>1. CASE ClaimOne(w)
    BY <2>1, ClaimOneMoves DEF RunsMove, Abstract!Move
  <2>2. CASE FinalizeSuccess(w)
    BY <2>2, FinalizeSuccessMoves DEF RunsMove, Abstract!Move
  <2>3. CASE FinalizeFailure(w)
    BY <2>3, FinalizeFailureMoves DEF RunsMove, Abstract!Move
  <2>4. CASE ClaimNothing(w) \/ FinalizeRejected(w) \/ Abandon(w)
    BY <1>2, <2>4 DEF ClaimNothing, FinalizeRejected, Abandon
  <2>5. CASE Prepare(w) \/ Publish(w) \/ \E reason \in Reason : ExecuteFails(w, reason)
    BY <1>2, <2>5 DEF Prepare, Publish, ExecuteFails
  <2>. QED
    BY <1>6, <2>1, <2>2, <2>3, <2>4, <2>5 DEF Step
<1>7. CASE SourceChanges \/ ClockTicks \/ UNCHANGED vars
  BY <1>2, <1>7 DEF SourceChanges, ClockTicks, vars, ledger
<1>. QED
  BY <1>4, <1>5, <1>6, <1>7 DEF Next

LEMMA HistoryInitInv == Init => HistoryInv
<1>1. Init => Inv
  BY InitInv
<1>2. Init => \A r \in Runs : RunStands(r)
  BY DEF Init, RunStands, Created, ClaimsOf
<1>. QED
  BY <1>1, <1>2 DEF HistoryInv

LEMMA HistoryNextInv == HistoryInv /\ [Next]_vars => HistoryInv'
<1>. SUFFICES ASSUME HistoryInv, [Next]_vars
              PROVE  HistoryInv'
  OBVIOUS
<1>1. Inv'
  BY NextInv DEF HistoryInv
<1>2. \A r \in Runs : RunStands(r)'
  BY EveryStepMoves, QuietStands DEF RunsMove, HistoryInv
<1>. QED
  BY <1>1, <1>2 DEF HistoryInv

\* Every run that exists has a replayable history, keeps the leases, and is
\* either over, at rest or under its one claim, within the event budget.
THEOREM HistorySound == Spec => []HistoryInv
  BY HistoryInitInv, HistoryNextInv, PTL DEF Spec

\* Whatever workers, cancellations, recoveries and crashes do, the history of a
\* run passes the replay check (_validate_history) before every use of the run.
THEOREM ReplaySafety == Spec => []HistoryReplayable
<1>1. HistoryInv => HistoryReplayable
  BY DEF HistoryInv, RunStands, RunSound, HistoryReplayable
<1>. QED
  BY <1>1, HistorySound, PTL

\* No attempt is taken away before its lease ends and no result is accepted
\* after (recover_expired_claims, _verify_fencing), by the callers' clocks.
THEOREM LeaseSafety == Spec => []LeaseHonoured
<1>1. HistoryInv => LeaseHonoured
  <2>. SUFFICES ASSUME HistoryInv, NEW r \in Runs
                PROVE  LeasesKept(log[r])
    BY DEF LeaseHonoured
  <2>1. CASE Created(r)
    BY <2>1 DEF HistoryInv, RunStands, RunSound
  <2>2. CASE log[r] = <<>>
    BY <2>2 DEF LeasesKept
  <2>. QED
    BY <2>1, <2>2 DEF Created
<1>. QED
  BY <1>1, HistorySound, PTL

\* The number of events a run can ever have (_append_event bounds it by
\* MAX_EVENTS_PER_RUN): registration, the attempts of each step, and its end.
LEMMA HistoryBudget ==
    ASSUME NEW h \in Seq(Event), NEW rs \in Seq(Receipt), NEW cs, RunSound(h, rs, cs)
    PROVE  Len(h) <= EventLimit
<1>1. PICK d, n, t, m, l \in Nat :
         /\ d = Len(rs) /\ n = Len(h) /\ t = Tries(h, rs) /\ m = MaxAttempts
         /\ l = NSteps /\ d <= l /\ t <= m /\ 1 <= m
  BY SoundFacts, AttemptsAssumption, StepsAssumption
<1>2. CASE cs = {} /\ Terminated(h) /\ Len(h) <= EventLimit
  BY <1>2
<1>3. ASSUME d < NSteps, n <= 1 + d * StepBudget + 3 * t
      PROVE  Len(h) <= EventLimit
  <2>1. PICK a, y, z \in Nat :
           /\ a = d * StepBudget /\ z = NSteps * StepBudget
           /\ y = a + 3 * MaxAttempts - 1 /\ y <= z
    BY <1>3, Budget
  <2>2. EventLimit = 1 + z + 2 /\ y = a + 3 * m - 1 /\ y <= z /\ n <= 1 + a + 3 * t
    BY <1>1, <1>3, <2>1 DEF EventLimit
  <2>. QED
    BY <1>1, <2>2
<1>4. CASE AtRest(h, rs)
  <2>1. d < NSteps /\ n <= 1 + d * StepBudget + 3 * t
    BY <1>1, <1>4 DEF AtRest
  <2>. QED
    BY <1>3, <2>1
<1>5. ASSUME NEW c \in cs, UnderClaim(h, rs, c)
      PROVE  Len(h) <= EventLimit
  <2>. DEFINE i == IF CancelRequested(h) THEN 1 ELSE 0
  <2>1. i \in Nat /\ i <= 1
    OBVIOUS
  <2>2. d < NSteps /\ n <= 1 + d * StepBudget + 3 * t - 2 + i
    BY <1>1, <1>5 DEF UnderClaim
  <2>. HIDE DEF i
  <2>3. PICK a \in Nat : a = d * StepBudget
    BY <2>2, Budget
  <2>4. n <= 1 + a + 3 * t - 2 + i
    BY <2>2, <2>3
  <2>5. n <= 1 + a + 3 * t
    BY <1>1, <2>1, <2>4
  <2>. QED
    BY <1>3, <2>2, <2>3, <2>5
<1>. QED
  BY <1>2, <1>4, <1>5 DEF RunSound

\* So no history comes near the bound at which _append_event refuses an event.
THEOREM BudgetSafety == Spec => []EventBudget
<1>1. HistoryInv => EventBudget
  <2>. SUFFICES ASSUME HistoryInv, NEW r \in Runs
                PROVE  Len(log[r]) <= 2 + NSteps * (3 * MaxAttempts - 1) + 1
    BY DEF EventBudget
  <2>1. PICK z \in Nat : z = NSteps * (3 * MaxAttempts - 1)
    <3>1. 3 * MaxAttempts - 1 \in Nat
      BY AttemptsAssumption
    <3>. QED
      BY <3>1, StepsAssumption
  <2>2. PICK n \in Nat : n = Len(log[r])
    BY DEF HistoryInv, Inv, TypeOK
  <2>3. n <= 1 + z + 2
    <3>1. CASE Created(r)
      <4>1. Len(log[r]) <= EventLimit
        BY <3>1, HistoryBudget DEF HistoryInv, Inv, TypeOK, RunStands
      <4>. QED
        BY <2>1, <2>2, <4>1 DEF EventLimit, StepBudget
    <3>2. CASE log[r] = <<>>
      <4>1. n = 0
        BY <2>2, <3>2
      <4>. QED
        BY <2>1, <4>1
    <3>. QED
      BY <3>1, <3>2 DEF Created
  <2>. QED
    BY <2>1, <2>2, <2>3
<1>. QED
  BY <1>1, HistorySound, PTL

\* A run that has not ended can still be claimed, cancelled, recovered or
\* finished: two more events, as many as any transaction appends, are within
\* the budget (_append_event refuses an event beyond MAX_EVENTS_PER_RUN).
RoomToEnd ==
    \A r \in Runs :
        Created(r) /\ ~Terminated(log[r]) => Len(log[r]) + 2 <= EventLimit

LEMMA HistoryRoom ==
    ASSUME NEW h \in Seq(Event), NEW rs \in Seq(Receipt), NEW cs, RunSound(h, rs, cs),
           ~Terminated(h)
    PROVE  Len(h) + 2 <= EventLimit
<1>1. PICK d, n, t, m \in Nat :
         d = Len(rs) /\ n = Len(h) /\ t = Tries(h, rs) /\ m = MaxAttempts /\ t <= m /\ 1 <= m
  BY SoundFacts, AttemptsAssumption
<1>2. ASSUME d < NSteps, NEW k \in Nat, k <= 3 * m, n <= d * StepBudget + k
      PROVE  Len(h) + 2 <= EventLimit
  <2>1. PICK a, y, z \in Nat :
           /\ a = d * StepBudget /\ z = NSteps * StepBudget
           /\ y = a + 3 * MaxAttempts - 1 /\ y <= z
    BY <1>2, Budget
  <2>2. EventLimit = 1 + z + 2 /\ y = a + 3 * m - 1 /\ y <= z /\ n <= a + k
    BY <1>1, <1>2, <2>1 DEF EventLimit
  <2>3. a \in Nat /\ y \in Nat /\ z \in Nat /\ n \in Nat /\ m \in Nat /\ k \in Nat
    BY <1>1, <1>2, <2>1
  <2>4. n <= y + 1
    BY <1>2, <2>2, <2>3
  <2>5. n + 2 <= z + 3
    BY <2>2, <2>3, <2>4
  <2>. QED
    BY <1>1, <2>2, <2>3, <2>5
<1>3. CASE AtRest(h, rs)
  <2>1. d < NSteps /\ n <= 1 + d * StepBudget + 3 * t /\ t < m
    <3>1. t = 0 \/ t < m
      BY <1>1, <1>3 DEF AtRest
    <3>2. d < NSteps /\ n <= 1 + d * StepBudget + 3 * t
      BY <1>1, <1>3 DEF AtRest
    <3>. QED
      BY <1>1, <3>1, <3>2
  <2>2. PICK a \in Nat : a = d * StepBudget
    BY <2>1, Budget
  <2>3. 1 + 3 * t \in Nat /\ 1 + 3 * t <= 3 * m
    BY <1>1, <2>1
  <2>4. n <= a + (1 + 3 * t)
    BY <1>1, <2>1, <2>2
  <2>. QED
    BY <1>2, <2>1, <2>2, <2>3, <2>4
<1>4. ASSUME NEW c \in cs, UnderClaim(h, rs, c)
      PROVE  Len(h) + 2 <= EventLimit
  <2>. DEFINE i == IF CancelRequested(h) THEN 1 ELSE 0
  <2>1. i \in Nat /\ i <= 1
    OBVIOUS
  <2>2. d < NSteps /\ n <= 1 + d * StepBudget + 3 * t - 2 + i
    BY <1>1, <1>4 DEF UnderClaim
  <2>. HIDE DEF i
  <2>3. PICK a \in Nat : a = d * StepBudget
    BY <2>2, Budget
  <2>4. n <= 1 + a + 3 * t - 2 + i
    BY <2>2, <2>3
  <2>5. 3 * m \in Nat /\ n <= a + 3 * m
    <3>1. a \in Nat /\ n \in Nat /\ t \in Nat /\ m \in Nat /\ t <= m
      BY <1>1, <2>3
    <3>2. n <= a + 3 * t
      BY <2>1, <2>4, <3>1
    <3>. QED
      BY <3>1, <3>2
  <2>. QED
    BY <1>2, <2>2, <2>3, <2>5
<1>. QED
  BY <1>3, <1>4 DEF RunSound

\* No run ever meets the bound on its events with something left to do: with
\* room for EventLimit events no transaction is refused for the length of a history.
THEOREM RoomRemains == Spec => []RoomToEnd
<1>1. HistoryInv => RoomToEnd
  BY HistoryRoom DEF HistoryInv, Inv, TypeOK, RunStands, RoomToEnd
<1>. QED
  BY <1>1, HistorySound, PTL

----------------------------------------------------------------------------
(* The orchestrator implements ObservationRun.                             *)

LEMMA StatusValues ==
    ASSUME NEW h \in Seq(Event), h # <<>>, NEW claimed \in BOOLEAN
    PROVE  StatusOf(h, claimed) \in {"PENDING", "RUNNING", "WAITING_RETRY",
                                     "COMPLETED", "FAILED", "CANCELLED"}
<1>1. LastEvent(h).type \in EventType
  BY LastEventType DEF Event
<1>2. CASE LastEvent(h).type \in TerminalEvent
  BY <1>2, StatusFacts DEF TerminalEvent
<1>3. CASE LastEvent(h).type \notin TerminalEvent
  BY <1>3, StatusFacts
<1>. QED
  BY <1>2, <1>3

RunViews == \A r \in Runs : RunView(r) \in Abstract!RunState

LEMMA RunViewType == HistoryInv => RunViews
<1>. SUFFICES ASSUME HistoryInv, NEW r \in Runs
              PROVE  RunView(r) \in Abstract!RunState
  BY DEF RunViews
<1>1. CASE Created(r)
  <2>1. PICK h, rs, cs : h = log[r] /\ rs = receipts[r] /\ cs = ClaimsOf(r)
    OBVIOUS
  <2>2. h \in Seq(Event) /\ rs \in Seq(Receipt) /\ h # <<>> /\ RunSound(h, rs, cs)
    BY <1>1, <2>1 DEF HistoryInv, Inv, TypeOK, RunStands, Created
  <2>3. Len(rs) \in 0..NSteps /\ Tries(h, rs) \in 0..MaxAttempts
    BY <2>2, SoundFacts, StepsAssumption, AttemptsAssumption
  <2>4. PICK s, b : s = StatusOf(h, cs # {}) /\ b = CancelRequested(h)
    OBVIOUS
  <2>5. s \in {"PENDING", "RUNNING", "WAITING_RETRY", "COMPLETED", "FAILED", "CANCELLED"}
    BY <2>2, <2>4, StatusValues
  <2>6. b \in BOOLEAN
    BY <2>4 DEF CancelRequested
  <2>7. RunView(r) = [status |-> s, done |-> Len(rs), tries |-> Tries(h, rs), cancel |-> b]
    BY <1>1, <2>1, <2>4, RunGoes DEF View
  <2>. QED
    BY <2>3, <2>5, <2>6, <2>7 DEF Abstract!RunState
<1>2. CASE ~Created(r)
  <2>1. PICK b \in BOOLEAN : b = FALSE
    OBVIOUS
  <2>2. RunView(r) = [status |-> "UNKNOWN", done |-> 0, tries |-> 0, cancel |-> b]
    BY <1>2, <2>1 DEF RunView
  <2>3. 0 \in 0..NSteps /\ 0 \in 0..MaxAttempts
    BY StepsAssumption, AttemptsAssumption
  <2>. QED
    BY <2>2, <2>3 DEF Abstract!RunState
<1>. QED
  BY <1>1, <1>2

LEMMA RunsInit == Init => Abstract!Init
<1>1. ASSUME Init, NEW r \in Runs PROVE RunView(r) = Abstract!Unknown
  BY <1>1 DEF Init, RunView, Created, Abstract!Unknown
<1>. QED
  BY <1>1 DEF Abstract!Init

LEMMA RunsNext ==
    ASSUME HistoryInv, HistoryInv', [Next]_vars
    PROVE  [Abstract!Next]_([r \in Runs |-> RunView(r)])
<1>1. \A r \in Runs : RunView(r)' \in Abstract!RunState
  <2>1. RunViews'
    BY RunViewType, PTL
  <2>. QED
    BY <2>1 DEF RunViews
<1>2. \A q \in Runs : Quiet(q) => RunView(q)' = RunView(q)
  BY QuietStands DEF HistoryInv
<1>3. \/ \E r \in Runs : /\ Abstract!Move(RunView(r), RunView(r)')
                         /\ \A q \in Runs \ {r} : RunView(q)' = RunView(q)
      \/ \A r \in Runs : \/ RunView(r)' = RunView(r)
                         \/ Abstract!Lose(RunView(r), RunView(r)')
  BY <1>2, EveryStepMoves DEF RunsMove
<1>. QED
  BY <1>1, <1>3 DEF Abstract!Next

\* What an operator sees of the runs, with all workers, leases, files and
\* clocks, behaves as ObservationRun says: status, get_run and explain.
THEOREM RunsImplement == Spec => RefinesObservationRun
<1>1. Init => Abstract!Init
  BY RunsInit
<1>2. HistoryInv /\ HistoryInv' /\ [Next]_vars =>
        [Abstract!Next]_([r \in Runs |-> RunView(r)])
  BY RunsNext
<1>. QED
  BY <1>1, <1>2, HistorySound, PTL DEF Spec, RefinesObservationRun, Abstract!Spec
=============================================================================
