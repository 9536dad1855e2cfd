--------------------------- MODULE TrialAdmission ---------------------------
(***************************************************************************)
(* Admission of research trials: the trial ledger of Mission 94, the       *)
(* founder permits of Mission 101 and the two admission services that      *)
(* write them.  The ledger and the permits are two SQLite databases, so    *)
(* one admission is several transactions, any of which another process may *)
(* come between, may fail on its own, or may be the last one before a      *)
(* crash.  A request is reserved at most once (request_hash is UNIQUE), so *)
(* a request names its trial.                                              *)
(***************************************************************************)
EXTENDS Naturals, Sequences, FiniteSets

CONSTANTS Trials,     \* the trials, one for each admission request
          Permits,    \* the permits a founder may issue
          NoPermit,   \* what a request of the synthetic controls has for one
          Budgets,    \* the budgets of the trial ledger
          PermitOf,   \* permit_id of each request, or NoPermit
          BudgetOf,   \* budget_id of each request
          NumberOf,   \* declared_trial_number of each request
          Fixed,      \* fixed_trial_budget of each permit
          Total,      \* total_trial_budget of each budget
          Callers,    \* processes that call admit()
          NoTrial,    \* the trial of a caller that is not in a call
          Never,      \* the time of what has not happened
          MaxTime     \* bound of the trusted clock

ASSUME RequestAssumption ==
    /\ NoPermit \notin Permits
    /\ NoTrial \notin Trials
    /\ PermitOf \in [Trials -> Permits \cup {NoPermit}]
    /\ BudgetOf \in [Trials -> Budgets]
    /\ NumberOf \in [Trials -> Nat \ {0}]
    /\ Fixed \in [Permits -> Nat \ {0}]
    /\ Total \in [Budgets -> Nat \ {0}]
    /\ IsFiniteSet(Trials)
    /\ MaxTime \in Nat
    /\ Never \notin Nat

VARIABLES now,         \* the trusted clock
          budgets,     \* trial_budgets: the budgets registered so far
          reservedAt,  \* trial_reservations: reserved_at, or Never
          history,     \* trial_events: the status tokens of each trial
          permit,      \* permits and permit_events of the authority store
          consumed,    \* permit_consumptions
          revoking,    \* the time a pending revocation sampled, or Never
          call,        \* the admission call each caller is in
          lost         \* trials whose admission crashed or could not write

ledgerVars == <<budgets, reservedAt, history>>
authorityVars == <<permit, consumed, revoking>>
admissionVars == <<now, ledgerVars, authorityVars, call, lost>>

Times == Nat \cup {Never}

\* A permit before it is issued.  revoked_at is the time in the REVOKED event,
\* revokedWhen the time at which that event was committed.
NotIssued == [issued_at |-> Never, expires_at |-> Never,
              revoked_at |-> Never, revokedWhen |-> Never]

Permit == [issued_at : Times, expires_at : Times,
           revoked_at : Times, revokedWhen : Times]

Idle == [pc |-> "idle", trial |-> NoTrial, at |-> 0]

Call == [pc : {"idle", "reserve", "gates", "consume", "admit", "stop"},
         trial : Trials \cup {NoTrial}, at : Nat]

Consumption == [permit : Permits, trial : Trials, reserved_at : Nat]

Statuses == {"RESERVED", "ADMITTED", "STOPPED", "COMPLETED", "FAILED"}

-----------------------------------------------------------------------------
(* Derived state. *)

Status(t) == IF history[t] = <<>> THEN "none" ELSE history[t][Len(history[t])]

\* The row a call leaves in the permit store when it takes its slot.
Slot(t) == [permit |-> PermitOf[t], trial |-> t, reserved_at |-> reservedAt[t]]

OwnsSlot(t) == \E k \in consumed : k.trial = t

\* The trials that own a slot of permit p.
SlotsOf(p) == {t \in Trials : \E c \in consumed : c.permit = p /\ c.trial = t}

ReservationsOf(b) == {t \in Trials : reservedAt[t] # Never /\ BudgetOf[t] = b}

Issued(p) == permit[p].issued_at # Never
Revoked(p) == permit[p].revoked_at # Never

\* The permit stands at the given time as far as its own dates say.
InWindow(p, at) == /\ Issued(p)
                   /\ at >= permit[p].issued_at
                   /\ at < permit[p].expires_at

\* _assert_permit_current: a revocation counts from the time it names.
CurrentAt(p, at) == /\ InWindow(p, at)
                    /\ ~ (Revoked(p) /\ at >= permit[p].revoked_at)

\* The gates of reserve() that depend on the ledger.
Reservable(t) == /\ BudgetOf[t] \in budgets
                 /\ reservedAt[t] = Never
                 /\ \A u \in ReservationsOf(BudgetOf[t]) : NumberOf[u] # NumberOf[t]
                 /\ NumberOf[t] <= Total[BudgetOf[t]]
                 /\ Cardinality(ReservationsOf(BudgetOf[t])) < Total[BudgetOf[t]]

\* What _substantive() asks of the permit and the budget before it consumes.
PermitGate(t, at) == /\ CurrentAt(PermitOf[t], at)
                     /\ Cardinality(SlotsOf(PermitOf[t])) < Fixed[PermitOf[t]]
                     /\ Total[BudgetOf[t]] = Fixed[PermitOf[t]]

\* Plausible bug: the slots are counted by the gate only.
CapacityUncounted(t, at) == /\ ~ Revoked(PermitOf[t])
                            /\ CurrentAt(PermitOf[t], at)
                            /\ t \notin SlotsOf(PermitOf[t])

\* Plausible bug: a revocation counts only from the time it names.
CapacityByDates(t, at) == /\ CurrentAt(PermitOf[t], at)
                          /\ Cardinality(SlotsOf(PermitOf[t])) < Fixed[PermitOf[t]]
                          /\ t \notin SlotsOf(PermitOf[t])

\* What the transaction of _reserve_permit_capacity() asks.
Capacity(t, at) == /\ ~ Revoked(PermitOf[t])
                   /\ CurrentAt(PermitOf[t], at)
                   /\ Cardinality(SlotsOf(PermitOf[t])) < Fixed[PermitOf[t]]
                   /\ t \notin SlotsOf(PermitOf[t])

-----------------------------------------------------------------------------
AdmissionInit ==
    /\ now = 0
    /\ budgets = {}
    /\ reservedAt = [t \in Trials |-> Never]
    /\ history = [t \in Trials |-> <<>>]
    /\ permit = [p \in Permits |-> NotIssued]
    /\ consumed = {}
    /\ revoking = [p \in Permits |-> Never]
    /\ call = [c \in Callers |-> Idle]
    /\ lost = {}

Tick == /\ now < MaxTime
        /\ now' = now + 1
        /\ UNCHANGED <<ledgerVars, authorityVars, call, lost>>

RegisterBudget(b) ==
    /\ b \notin budgets
    /\ budgets' = budgets \cup {b}
    /\ UNCHANGED <<now, reservedAt, history, authorityVars, call, lost>>

\* expires_at is the founder's choice; it must follow the time of issue.
Issue(p) ==
    /\ ~ Issued(p)
    /\ \E e \in (now + 1) .. (MaxTime + 1) :
          permit' = [permit EXCEPT ![p].issued_at = now, ![p].expires_at = e]
    /\ UNCHANGED <<now, ledgerVars, consumed, revoking, call, lost>>

\* revoke_development_permit() samples the clock before it asks for the lock.
SampleRevocation(p) ==
    /\ Issued(p) /\ ~ Revoked(p)
    /\ revoking[p] = Never
    /\ revoking' = [revoking EXCEPT ![p] = now]
    /\ UNCHANGED <<now, ledgerVars, permit, consumed, call, lost>>

CommitRevocation(p) ==
    /\ revoking[p] # Never
    /\ ~ Revoked(p)
    /\ permit' = [permit EXCEPT ![p].revoked_at = revoking[p],
                                ![p].revokedWhen = now]
    /\ revoking' = [revoking EXCEPT ![p] = Never]
    /\ UNCHANGED <<now, ledgerVars, consumed, call, lost>>

\* The command dies, or its database stays locked, before it commits.
AbandonRevocation(p) ==
    /\ revoking[p] # Never
    /\ revoking' = [revoking EXCEPT ![p] = Never]
    /\ UNCHANGED <<now, ledgerVars, permit, consumed, call, lost>>

-----------------------------------------------------------------------------
(* One admission: decide the time, reserve, pass the gates, take a slot of  *)
(* the permit, append ADMITTED.  A gate that refuses leads to STOPPED.      *)

Goto(c, pc) == call' = [call EXCEPT ![c].pc = pc]

Return(c) == call' = [call EXCEPT ![c] = Idle]

AppendEvent(t, s) == history' = [history EXCEPT ![t] = Append(@, s)]

Begin(c, t) ==
    /\ call[c].pc = "idle"
    /\ call' = [call EXCEPT ![c] = [pc |-> "reserve", trial |-> t, at |-> now]]
    /\ UNCHANGED <<now, ledgerVars, authorityVars, lost>>

\* reserve() in one transaction: the row and its RESERVED event.
Reserve(c) ==
    LET t == call[c].trial IN
    /\ call[c].pc = "reserve"
    /\ Reservable(t)
    /\ reservedAt' = [reservedAt EXCEPT ![t] = call[c].at]
    /\ AppendEvent(t, "RESERVED")
    /\ Goto(c, "gates")
    /\ UNCHANGED <<now, budgets, authorityVars, lost>>

\* A refusal before there is a reservation leaves nothing behind.
Refuse(c) ==
    /\ call[c].pc = "reserve"
    /\ Return(c)
    /\ UNCHANGED <<now, ledgerVars, authorityVars, lost>>

\* Any gate may stop the trial: repository, dataset, control, budget, permit.
GateStops(c) ==
    /\ call[c].pc = "gates"
    /\ Goto(c, "stop")
    /\ UNCHANGED <<now, ledgerVars, authorityVars, lost>>

\* Plausible bug: the gate's look at the permit is taken for the slot.
GatesPassUnconsumed(c) ==
    LET t == call[c].trial IN
    /\ call[c].pc = "gates"
    /\ PermitOf[t] # NoPermit => PermitGate(t, call[c].at)
    /\ Goto(c, "admit")
    /\ UNCHANGED <<now, ledgerVars, authorityVars, lost>>

GatesPass(c) ==
    LET t == call[c].trial IN
    /\ call[c].pc = "gates"
    /\ \/ PermitOf[t] = NoPermit /\ Goto(c, "admit")
       \/ PermitOf[t] # NoPermit /\ PermitGate(t, call[c].at) /\ Goto(c, "consume")
    /\ UNCHANGED <<now, ledgerVars, authorityVars, lost>>

Consume(c) ==
    LET t == call[c].trial IN
    /\ call[c].pc = "consume"
    /\ Capacity(t, call[c].at)
    /\ consumed' = consumed \cup {[permit |-> PermitOf[t], trial |-> t,
                                   reserved_at |-> call[c].at]}
    /\ Goto(c, "admit")
    /\ UNCHANGED <<now, ledgerVars, permit, revoking, lost>>

\* Plausible bug: a refused slot is returned to the caller without STOPPED.
ConsumeRefusedQuietly(c) ==
    /\ call[c].pc = "consume"
    /\ ~ Capacity(call[c].trial, call[c].at)
    /\ Return(c)
    /\ UNCHANGED <<now, ledgerVars, authorityVars, lost>>

\* Plausible bug: a refused slot does not stop the admission.
ConsumeRefusedGoesOn(c) ==
    /\ call[c].pc = "consume"
    /\ ~ Capacity(call[c].trial, call[c].at)
    /\ Goto(c, "admit")
    /\ UNCHANGED <<now, ledgerVars, authorityVars, lost>>

\* Plausible bug: a caller waits for a slot to come free, which none does.
ConsumeRefusedOnlyRevoked(c) ==
    /\ call[c].pc = "consume"
    /\ Revoked(PermitOf[call[c].trial])
    /\ Goto(c, "stop")
    /\ UNCHANGED <<now, ledgerVars, authorityVars, lost>>

ConsumeRefused(c) ==
    /\ call[c].pc = "consume"
    /\ ~ Capacity(call[c].trial, call[c].at)
    /\ Goto(c, "stop")
    /\ UNCHANGED <<now, ledgerVars, authorityVars, lost>>

\* append_event checks TRANSITIONS[latest] inside its transaction.
Admit(c) ==
    LET t == call[c].trial IN
    /\ call[c].pc = "admit"
    /\ Status(t) = "RESERVED"
    /\ AppendEvent(t, "ADMITTED")
    /\ Return(c)
    /\ UNCHANGED <<now, budgets, reservedAt, authorityVars, lost>>

Stop(c) ==
    LET t == call[c].trial IN
    /\ call[c].pc = "stop"
    /\ Status(t) = "RESERVED"
    /\ AppendEvent(t, "STOPPED")
    /\ Return(c)
    /\ UNCHANGED <<now, budgets, reservedAt, authorityVars, lost>>

\* A database that stays locked past the timeout: a slot or an ADMITTED event
\* that cannot be written stops the trial, a STOPPED event that cannot be
\* written is given up.
Busy(c) ==
    /\ \/ call[c].pc = "consume" /\ Goto(c, "stop") /\ UNCHANGED lost
       \/ call[c].pc = "admit" /\ Goto(c, "stop") /\ lost' = lost \cup {call[c].trial}
       \/ call[c].pc = "stop" /\ Return(c) /\ lost' = lost \cup {call[c].trial}
    /\ UNCHANGED <<now, ledgerVars, authorityVars>>

\* The process dies; nothing it committed is undone and nothing resumes it.
CrashCaller(c) ==
    /\ \/ call[c].pc = "reserve" /\ UNCHANGED lost
       \/ call[c].pc \notin {"idle", "reserve"} /\ lost' = lost \cup {call[c].trial}
    /\ Return(c)
    /\ UNCHANGED <<now, ledgerVars, authorityVars>>

CallerStep(c) == \/ Reserve(c) \/ Refuse(c) \/ GateStops(c) \/ GatesPass(c)
                 \/ Consume(c) \/ ConsumeRefused(c) \/ Admit(c) \/ Stop(c)

AdmissionNext ==
    \/ Tick
    \/ \E b \in Budgets : RegisterBudget(b)
    \/ \E p \in Permits : \/ Issue(p) \/ SampleRevocation(p)
                           \/ CommitRevocation(p) \/ AbandonRevocation(p)
    \/ \E c \in Callers : \/ \E t \in Trials : Begin(c, t)
                          \/ CallerStep(c) \/ Busy(c) \/ CrashCaller(c)

AdmissionSpec == AdmissionInit /\ [][AdmissionNext]_admissionVars

\* An admission call is carried on unless its process dies; nothing obliges a
\* founder to issue or revoke, an operator to call, or the clock to advance.
AdmissionFairSpec == /\ AdmissionSpec
                     /\ \A c \in Callers : WF_admissionVars(CallerStep(c))

-----------------------------------------------------------------------------
(* Properties. *)

AdmissionTypeOK ==
    /\ now \in 0 .. MaxTime
    /\ budgets \subseteq Budgets
    /\ reservedAt \in [Trials -> Times]
    /\ history \in [Trials -> Seq(Statuses)]
    /\ permit \in [Permits -> Permit]
    /\ consumed \subseteq Consumption
    /\ revoking \in [Permits -> Times]
    /\ call \in [Callers -> Call]
    /\ lost \subseteq Trials

Admitted(t) == \E i \in 1 .. Len(history[t]) : history[t][i] = "ADMITTED"

\* The two stores agree although no transaction covers both: a trial that was
\* ever admitted owns a slot of its permit, taken for the very time of its
\* reservation, at which the permit was in force
\* (reopening/admission.py:admit, checked again by capture_authority_snapshot).
AdmittedOwnsSlot ==
    \A t \in Trials : Admitted(t) /\ PermitOf[t] # NoPermit =>
        /\ Slot(t) \in consumed
        /\ InWindow(PermitOf[t], reservedAt[t])

\* However many calls pass the gate together, a permit never gives out more
\* slots than it fixes (_reserve_permit_capacity counts in its transaction).
PermitNotOverspent ==
    \A p \in Permits : Cardinality(SlotsOf(p)) <= Fixed[p]

\* A reservation that is neither admitted nor stopped, or a slot whose trial
\* was not admitted, is the work of a call still under way or of one that
\* crashed or found a database locked: no refusal by a gate leaves one behind.
StrandedOnlyByFailure ==
    \A t \in Trials :
        \/ t \in lost
        \/ \E c \in Callers : call[c].trial = t /\ call[c].pc # "reserve"
        \/ /\ Status(t) # "RESERVED"
           /\ OwnsSlot(t) => Admitted(t)

\* The call has the reservation of its trial.
Holding(c) == call[c].pc \in {"gates", "consume", "admit", "stop"}

\* What a call under way may rely on between its transactions: its trial is
\* reserved at its time and is no other call's, it has no slot before it took
\* one, and its slot when it goes on to ADMITTED.
CallStands(c) ==
    LET t == call[c].trial IN
    /\ call[c].pc = "idle" <=> t = NoTrial
    /\ Holding(c) =>
          /\ Status(t) = "RESERVED" /\ reservedAt[t] = call[c].at
          /\ call[c].pc \in {"gates", "consume"} => ~ OwnsSlot(t)
          /\ call[c].pc = "consume" => PermitOf[t] # NoPermit
          /\ call[c].pc = "admit" /\ PermitOf[t] # NoPermit =>
                Slot(t) \in consumed /\ InWindow(PermitOf[t], call[c].at)
          /\ call[c].pc = "stop" /\ OwnsSlot(t) => t \in lost
          /\ \A d \in Callers \ {c} : Holding(d) => call[d].trial # t

\* What the rows of the two stores tell without any call.
RowsStand == /\ \A t \in Trials : reservedAt[t] = Never => history[t] = <<>>
             /\ \A k \in consumed : k = Slot(k.trial)

\* The inductive invariant: types, what the calls rely on, and the three
\* properties of the stored rows (reopening/admission.py, service.py).
AdmissionInv == /\ AdmissionTypeOK
                /\ \A c \in Callers : CallStands(c)
                /\ RowsStand
                /\ AdmittedOwnsSlot
                /\ PermitNotOverspent
                /\ StrandedOnlyByFailure

\* Once a revocation is committed no call takes a slot of the permit, not even
\* one whose decision time was sampled before the revocation's.
RevocationClosesPermit ==
    [][\A p \in Permits : Revoked(p) => SlotsOf(p)' = SlotsOf(p)]_admissionVars

\* A reservation is decided, unless its call was lost.
ReservationDecided ==
    \A t \in Trials : Status(t) = "RESERVED" ~> Status(t) # "RESERVED" \/ t \in lost

Lifecycle == INSTANCE TrialLifecycle WITH
                 status <- [t \in Trials |-> Status(t)],
                 slots <- {t \in Trials : OwnsSlot(t)}

\* Together the ledger and the permit store keep what TrialLifecycle promises.
KeepsLifecycle == Lifecycle!Spec
=============================================================================
