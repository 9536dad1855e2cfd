----------------------- MODULE DevelopmentTrialProofs -----------------------
(***************************************************************************)
(* Proofs about DevelopmentTrial, for every set of trials, permits,        *)
(* callers, executors and result runtimes.  The admission's own steps keep *)
(* AdmissionInv by TrialAdmissionProofs; here the executors are added.     *)
(* Every step of an executor e is looked at from three sides: what it does *)
(* to the run of e, what the runs of the others rely on, and what the rows *)
(* and the artifacts tell afterwards.                                      *)
(***************************************************************************)
EXTENDS DevelopmentTrial, TrialAdmissionProofs

\* The trial was admitted, and what followed is an outcome.
Begun(t) == Status(t) = "ADMITTED" \/ Finished(t)

FilesKept == \A r \in Runtimes, t \in Trials : Keeps(files[r][t], files'[r][t])

LocksKept(f) == \A r \in Runtimes, t \in Trials : lock[r][t] = f => lock'[r][t] = f

BegunStays == \A t \in Trials : Begun(t) => Begun(t)'

\* What was authorised stays so: nobody writes the past into a permit.
AuthorityKept == \A t \in Trials, at \in Nat :
    PermitOf[t] # NoPermit /\ at <= now /\ Authorised(t, at) => Authorised(t, at)'

-----------------------------------------------------------------------------
(* The helpers of the actions. *)

LEMMA ProceedFacts ==
    ASSUME TypeOK, NEW e \in Executors,
           NEW pc \in {"idle", "lock", "authorize", "claim", "ledger", "result",
                       "verify", "finalize", "reverify", "fail"},
           NEW d \in Nat, run' = [run EXCEPT ![e].pc = pc, ![e].decision = d]
    PROVE /\ run' \in [Executors -> Run]
          /\ run'[e].pc = pc /\ run'[e].trial = run[e].trial
          /\ run'[e].runtime = run[e].runtime /\ run'[e].decision = d
          /\ \A f \in Executors \ {e} : run'[f] = run[f]
<1>1. run[e] \in Run
  BY DEF TypeOK
<1>2. run' = [run EXCEPT ![e] = [@ EXCEPT !.pc = pc, !.decision = d]]
  OBVIOUS
<1>3. [run[e] EXCEPT !.pc = pc, !.decision = d] \in Run
  BY <1>1 DEF Run
<1>4. run'[e] = [run[e] EXCEPT !.pc = pc, !.decision = d]
  BY <1>2 DEF TypeOK
<1> QED
  BY <1>1, <1>2, <1>3, <1>4 DEF TypeOK, Run

\* A step that only moves on keeps the decision.
LEMMA ProceedKeeps ==
    ASSUME TypeOK, NEW e \in Executors, NEW pc, Proceed(e, pc)
    PROVE run[e].decision \in Nat
          /\ run' = [run EXCEPT ![e].pc = pc, ![e].decision = run[e].decision]
<1>1. run[e] \in Run
  BY DEF TypeOK
<1>2. [run[e] EXCEPT !.pc = pc] = [run[e] EXCEPT !.pc = pc, !.decision = run[e].decision]
  BY <1>1 DEF Run
<1>3. run' = [run EXCEPT ![e] = [@ EXCEPT !.pc = pc]]
  BY DEF Proceed
<1>4. run' = [run EXCEPT ![e] = [@ EXCEPT !.pc = pc, !.decision = run[e].decision]]
  BY <1>2, <1>3
<1> QED
  BY <1>1, <1>4 DEF Run

LEMMA LeaveFacts ==
    ASSUME TypeOK, NEW e \in Executors, Leave(e)
    PROVE /\ run' \in [Executors -> Run]
          /\ run'[e].pc = "idle"
          /\ \A f \in Executors \ {e} : run'[f] = run[f] /\ LocksKept(f)
          /\ lock' \in [Runtimes -> [Trials -> Executors \cup {Free}]]
<1>1. NoRun \in Run /\ NoRun.pc = "idle"
  BY DEF NoRun, Run
<1>2. run' = [run EXCEPT ![e] = NoRun]
  BY DEF Leave
<1> PICK r, t : r = run[e].runtime /\ t = run[e].trial
  OBVIOUS
<1>3. lock' = [lock EXCEPT ![r][t] = IF @ = e THEN Free ELSE @]
  BY DEF Leave
<1>4. \A q \in Runtimes, u \in Trials :
        lock'[q][u] = IF q = r /\ u = t /\ lock[q][u] = e THEN Free ELSE lock[q][u]
  BY <1>3 DEF TypeOK
<1>5. lock' \in [Runtimes -> [Trials -> Executors \cup {Free}]]
  <2> DEFINE row == [lock[r] EXCEPT ![t] = IF @ = e THEN Free ELSE @]
  <2>1. CASE r \in Runtimes
    <3> PICK held : held = lock[r]
      OBVIOUS
    <3>0. held \in [Trials -> Executors \cup {Free}]
      BY <2>1 DEF TypeOK
    <3>1. row \in [Trials -> Executors \cup {Free}]
      <4>1. row = [held EXCEPT ![t] = IF held[t] = e THEN Free ELSE held[t]]
        OBVIOUS
      <4> HIDE DEF row
      <4> QED
        BY <3>0, <4>1
    <3>2. lock' = [lock EXCEPT ![r] = row]
      BY <1>3
    <3> HIDE DEF row
    <3> QED
      BY <3>1, <3>2 DEF TypeOK
  <2>2. CASE r \notin Runtimes
    <3>1. lock' = lock
      BY <1>3, <2>2 DEF TypeOK
    <3> QED
      BY <3>1 DEF TypeOK
  <2> QED
    BY <2>1, <2>2
<1> QED
  BY <1>1, <1>2, <1>4, <1>5 DEF TypeOK, LocksKept

LEMMA PutFacts ==
    ASSUME TypeOK, NEW e \in Executors, NEW g \in Files, Put(e, g)
    PROVE /\ files' \in [Runtimes -> [Trials -> Files]]
          /\ \A r \in Runtimes, t \in Trials :
                files'[r][t] = IF r = run[e].runtime /\ t = run[e].trial THEN g
                               ELSE files[r][t]
<1> PICK q, u : q = run[e].runtime /\ u = run[e].trial
  OBVIOUS
<1>1. files' = [files EXCEPT ![q][u] = g]
  BY DEF Put
<1> QED
  BY <1>1 DEF TypeOK

LEMMA KeepsItself == ASSUME UNCHANGED files PROVE FilesKept
BY DEF FilesKept, Keeps

\* Artifacts of which one is added are kept.
LEMMA PutKeeps ==
    ASSUME TypeOK, NEW e \in Executors, NEW g \in Files, Put(e, g), Keeps(Here(e), g)
    PROVE FilesKept
<1>1. \A r \in Runtimes, t \in Trials :
        files'[r][t] = IF r = run[e].runtime /\ t = run[e].trial THEN g ELSE files[r][t]
  BY PutFacts
<1> QED
  BY <1>1 DEF FilesKept, Keeps, Here

\* What an executor relies on holds after a step that leaves its run, its lock
\* and what was published alone.
LEMMA RunUndisturbed ==
    ASSUME TypeOK, TypeOK', NEW f \in Executors, RunStands(f), run'[f] = run[f],
           BegunStays, FilesKept, LocksKept(f), now <= now', AuthorityKept,
           ExecutionAssumption
    PROVE RunStands(f)'
<1> PICK t, r, d : t = run[f].trial /\ r = run[f].runtime /\ d = run[f].decision
  OBVIOUS
<1>1. d \in Nat /\ run[f] \in Run
  BY DEF TypeOK, Run
<1>2. run[f].pc # "idle" => /\ t \in Trials /\ r \in Runtimes /\ PermitOf[t] # NoPermit
                            /\ Begun(t)'
  BY DEF RunStands, BegunStays, Begun
<1>3. run[f].pc \notin {"idle", "lock"} => lock'[r][t] = f
  BY <1>2 DEF RunStands, LocksKept
<1>4. run[f].pc = "claim" => d <= now' /\ Authorised(t, d)'
  <2> SUFFICES ASSUME run[f].pc = "claim" PROVE d <= now' /\ Authorised(t, d)'
    OBVIOUS
  <2>1. d <= now /\ Authorised(t, d) /\ t \in Trials /\ PermitOf[t] # NoPermit
    BY <1>2 DEF RunStands
  <2>2. now \in Int /\ now' \in Int
    BY DEF TypeOK, AdmissionTypeOK
  <2> QED
    BY <1>1, <2>1, <2>2 DEF AuthorityKept
<1>5. run[f].pc = "finalize" => files'[r][t] = [spec |-> d, ledger |-> d, result |-> d]
  <2> SUFFICES ASSUME run[f].pc = "finalize"
               PROVE files'[r][t] = [spec |-> d, ledger |-> d, result |-> d]
    OBVIOUS
  <2>1. r \in Runtimes /\ t \in Trials
    BY <1>2
  <2>2. files[r][t] = [spec |-> d, ledger |-> d, result |-> d] /\ files'[r][t] \in Files
    BY <2>1 DEF RunStands, Here, TypeOK
  <2>3. d # Absent
    BY <1>1 DEF ExecutionAssumption
  <2>4. files'[r][t].spec = d /\ files'[r][t].ledger = d /\ files'[r][t].result = d
    BY <2>1, <2>2, <2>3 DEF FilesKept, Keeps
  <2> QED
    BY <2>2, <2>4 DEF Files
<1> QED
  BY <1>2, <1>3, <1>4, <1>5 DEF RunStands, Begun, Here

-----------------------------------------------------------------------------
(* Outcomes. *)

LEMMA OutcomesAre ==
    CompletedOnce <=> \A t \in Trials : PermitOf[t] # NoPermit => OneOutcome(t)
BY DEF CompletedOnce

LEMMA TripleKept ==
    ASSUME TypeOK, TypeOK', FilesKept, NEW t \in Trials, NEW d \in Nat, ExecutionAssumption,
           \E r \in Runtimes : files[r][t] = [spec |-> d, ledger |-> d, result |-> d]
    PROVE \E r \in Runtimes : files'[r][t] = [spec |-> d, ledger |-> d, result |-> d]
<1> PICK r \in Runtimes : files[r][t] = [spec |-> d, ledger |-> d, result |-> d]
  OBVIOUS
<1>1. d # Absent /\ files'[r][t] \in Files
  BY DEF ExecutionAssumption, TypeOK
<1>2. files'[r][t].spec = d /\ files'[r][t].ledger = d /\ files'[r][t].result = d
  BY <1>1 DEF FilesKept, Keeps
<1> QED
  BY <1>1, <1>2 DEF Files

LEMMA OutcomeUndisturbed ==
    ASSUME TypeOK, TypeOK', FilesKept, ExecutionAssumption, NEW t \in Trials, OneOutcome(t),
           history'[t] = history[t], link'[t] = link[t]
    PROVE OneOutcome(t)'
<1>1. link[t] # Absent => link[t] \in Nat
  BY DEF TypeOK
<1>2. link[t] # Absent => \E r \in Runtimes : files'[r][t] = [spec |-> link[t],
                                   ledger |-> link[t], result |-> link[t]]
  BY <1>1, TripleKept DEF OneOutcome
<1>3. Status(t)' = Status(t)
  BY DEF Status
<1> QED
  BY <1>2, <1>3 DEF OneOutcome

\* An event of a trial without an outcome, or the outcome itself.
LEMMA OutcomeFromEvent ==
    ASSUME TypeOK, TypeOK', NEW t \in Trials, OneOutcome(t), NEW s \in Statuses,
           AppendEvent(t, s), Status(t) \in {"none", "RESERVED", "ADMITTED"},
           \/ s # "COMPLETED" /\ link'[t] = link[t]
           \/ /\ s = "COMPLETED" /\ link'[t] # Absent
              /\ \E r \in Runtimes : files'[r][t] = [spec |-> link'[t],
                                         ledger |-> link'[t], result |-> link'[t]]
    PROVE OneOutcome(t)'
<1>1. history[t] \in Seq(Statuses) /\ history'[t] = Append(history[t], s)
  BY DEF AppendEvent, TypeOK, AdmissionTypeOK
<1>2. /\ Len(history[t]) \in Nat /\ Len(history'[t]) = Len(history[t]) + 1
      /\ history'[t][Len(history[t]) + 1] = s
      /\ \A i \in 1 .. Len(history[t]) : history'[t][i] = history[t][i]
  BY <1>1, AppendFacts
<1>3. Status(t)' = s
  BY EventFacts DEF TypeOK
<1>4. \A i \in 1 .. Len(history[t]) : history[t][i] \in {"RESERVED", "ADMITTED"}
  <2>1. CASE history[t] = <<>>
    BY <2>1
  <2>2. CASE history[t] # <<>>
    <3>1. Status(t) = history[t][Len(history[t])] /\ Status(t) # "none"
      BY <1>1, <2>2 DEF Status, Statuses
    <3> QED
      BY <1>2, <3>1 DEF OneOutcome
  <2> QED
    BY <2>1, <2>2
<1>5. \A i \in 1 .. Len(history'[t]) - 1 : history'[t][i] \in {"RESERVED", "ADMITTED"}
  BY <1>2, <1>4
<1>6. link[t] = Absent
  BY DEF OneOutcome
<1> QED
  BY <1>3, <1>5, <1>6 DEF OneOutcome

-----------------------------------------------------------------------------
(* The admission's steps, seen from the executors. *)

LEMMA AdmissionEvents ==
    ASSUME RequestAssumption, AdmissionInv, AdmissionNext
    PROVE \/ UNCHANGED history
          \/ \E t \in Trials, s \in {"RESERVED", "ADMITTED", "STOPPED"} :
                AppendEvent(t, s) /\ Status(t) \in {"none", "RESERVED"}
<1>1. CASE \E c \in Callers : Reserve(c)
  <2>1. PICK c \in Callers : Reserve(c)
    BY <1>1
  <2>2. PICK t : t = call[c].trial
    OBVIOUS
  <2>3. t \in Trials /\ AppendEvent(t, "RESERVED") /\ reservedAt[t] = Never
    BY <2>1, <2>2 DEF Reserve, Reservable, AdmissionInv, AdmissionTypeOK, Call, CallStands
  <2>4. Status(t) = "none"
    BY <2>3, NothingAdmitted DEF AdmissionInv, RowsStand
  <2> QED
    BY <2>3, <2>4
<1>2. CASE \E c \in Callers : Admit(c) \/ Stop(c)
  <2>1. PICK c \in Callers : Admit(c) \/ Stop(c)
    BY <1>2
  <2>2. PICK t : t = call[c].trial
    OBVIOUS
  <2>3. t \in Trials /\ Status(t) = "RESERVED"
    BY <2>1, <2>2 DEF Admit, Stop, AdmissionInv, AdmissionTypeOK, Call, CallStands
  <2>4. AppendEvent(t, "ADMITTED") \/ AppendEvent(t, "STOPPED")
    BY <2>1, <2>2 DEF Admit, Stop
  <2> QED
    BY <2>3, <2>4
<1>3. UNCHANGED history \/ \E c \in Callers : Reserve(c) \/ Admit(c) \/ Stop(c)
  BY DEF AdmissionNext, Tick, RegisterBudget, Issue, SampleRevocation, CommitRevocation,
     AbandonRevocation, CallerStep, Begin, Refuse, GateStops, GatesPass, Consume,
     ConsumeRefused, Busy, CrashCaller, ledgerVars
<1> QED
  BY <1>1, <1>2, <1>3

LEMMA AuthorityStays ==
    ASSUME RequestAssumption, AdmissionInv, AdmissionNext
    PROVE AuthorityKept /\ now <= now' /\ lost \subseteq lost'
<1>0. AdmissionTypeOK /\ now \in Nat
  BY DEF AdmissionInv, AdmissionTypeOK
<1>1. CASE \E p \in Permits : Issue(p)
  <2>1. PICK p \in Permits : Issue(p)
    BY <1>1
  <2>2. ~ Issued(p) /\ \A q \in Permits \ {p} : permit'[q] = permit[q]
    BY <1>0, <2>1, PermitFacts DEF Issue
  <2>3. \A t \in Trials, at \in Nat :
          PermitOf[t] # NoPermit /\ Authorised(t, at) => permit'[PermitOf[t]] = permit[PermitOf[t]]
    BY <2>2 DEF RequestAssumption, Authorised, InWindow
  <2>4. AuthorityKept
    BY <2>3 DEF AuthorityKept, Authorised, InWindow, Issued, Revoked
  <2>5. UNCHANGED <<now, lost>>
    BY <2>1 DEF Issue
  <2> QED
    BY <1>0, <2>4, <2>5
<1>2. CASE \E p \in Permits : CommitRevocation(p)
  <2>1. PICK p \in Permits : CommitRevocation(p)
    BY <1>2
  <2>2. /\ \A q \in Permits \ {p} : permit'[q] = permit[q]
        /\ Issued(p) => /\ permit'[p].issued_at = permit[p].issued_at
                        /\ permit'[p].expires_at = permit[p].expires_at
        /\ permit'[p].revokedWhen = now
    <3>1. permit[p] \in Permit
      BY <1>0 DEF AdmissionTypeOK
    <3>2. permit' = [permit EXCEPT ![p] = [@ EXCEPT !.revoked_at = revoking[p],
                                                    !.revokedWhen = now]]
      BY <2>1 DEF CommitRevocation
    <3>3. permit'[p].revokedWhen = now
      BY <1>0, <3>1, <3>2 DEF AdmissionTypeOK, Permit
    <3> QED
      BY <1>0, <2>1, <3>3, PermitFacts
  <2>3. UNCHANGED <<now, lost>>
    BY <2>1 DEF CommitRevocation
  <2>4. ASSUME NEW t \in Trials, NEW at \in Nat, PermitOf[t] # NoPermit, at <= now,
               Authorised(t, at)
        PROVE Authorised(t, at)'
    <3>1. CASE PermitOf[t] = p
      BY <2>2, <2>4, <3>1 DEF Authorised, InWindow, Issued
    <3>2. CASE PermitOf[t] # p
      <4>1. permit'[PermitOf[t]] = permit[PermitOf[t]]
        BY <2>2, <2>4, <3>2 DEF RequestAssumption
      <4> QED
        BY <2>4, <4>1 DEF Authorised, InWindow, Issued, Revoked
    <3> QED
      BY <3>1, <3>2
  <2> QED
    BY <1>0, <2>3, <2>4 DEF AuthorityKept
<1>3. CASE UNCHANGED permit
  <2>1. AuthorityKept
    BY <1>3 DEF AuthorityKept, Authorised, InWindow, Issued, Revoked
  <2>2. (now' = now \/ now' = now + 1) /\ lost \subseteq lost'
    BY DEF AdmissionNext, Tick, RegisterBudget, Issue, SampleRevocation, CommitRevocation,
     AbandonRevocation, CallerStep, Begin, Refuse, Reserve, GateStops, GatesPass, Consume,
     ConsumeRefused, Admit, Stop, Busy, CrashCaller
  <2> QED
    BY <1>0, <2>1, <2>2
<1>4. UNCHANGED permit \/ \E p \in Permits : Issue(p) \/ CommitRevocation(p)
  BY DEF AdmissionNext, Tick, RegisterBudget, SampleRevocation,
     AbandonRevocation, CallerStep, Begin, Refuse, Reserve, GateStops, GatesPass, Consume,
     ConsumeRefused, Admit, Stop, Busy, CrashCaller, authorityVars
<1> QED
  BY <1>1, <1>2, <1>3, <1>4

LEMMA AdmissionKeepsInv ==
    ASSUME RequestAssumption, ExecutionAssumption, Inv, AdmissionNext, UNCHANGED executionVars
    PROVE Inv'
<1>1. AdmissionInv' /\ AdmissionTypeOK'
  BY StepKeepsInv DEF Inv, AdmissionInv
<1>2. UNCHANGED <<files, lock, run, link>>
  BY DEF executionVars
<1>3. TypeOK /\ TypeOK' /\ FilesKept
  BY <1>1, <1>2, KeepsItself DEF Inv, TypeOK
<1>4. AuthorityKept /\ now <= now' /\ lost \subseteq lost'
  BY AuthorityStays DEF Inv
<1>5. \/ UNCHANGED history
      \/ \E t \in Trials, s \in {"RESERVED", "ADMITTED", "STOPPED"} :
            AppendEvent(t, s) /\ Status(t) \in {"none", "RESERVED"}
  BY AdmissionEvents DEF Inv
<1>6. \A t \in Trials : \/ history'[t] = history[t]
                        \/ \E s \in {"RESERVED", "ADMITTED", "STOPPED"} :
                              AppendEvent(t, s) /\ Status(t) \in {"none", "RESERVED"}
  BY <1>3, <1>5, EventFacts DEF TypeOK, Statuses
<1>7. \A t \in Trials : Begun(t) => history'[t] = history[t]
  BY <1>6 DEF Begun, Finished
<1>8. BegunStays /\ \A t \in Trials : Finished(t) => Finished(t)'
  BY <1>7 DEF BegunStays, Begun, Finished, Status
<1>9. \A f \in Executors : RunStands(f)'
  <2>1. \A f \in Executors : LocksKept(f)
    BY <1>2 DEF LocksKept
  <2> QED
    BY <1>2, <1>3, <1>4, <1>8, <2>1, RunUndisturbed DEF Inv
<1>10. CompletedOnce'
  <2>1. ASSUME NEW t \in Trials, PermitOf[t] # NoPermit PROVE OneOutcome(t)'
    <3>1. OneOutcome(t) /\ link'[t] = link[t]
      BY <1>2, <2>1, OutcomesAre DEF Inv
    <3>2. CASE history'[t] = history[t]
      BY <1>3, <3>1, <3>2, OutcomeUndisturbed
    <3>3. CASE \E s \in {"RESERVED", "ADMITTED", "STOPPED"} :
                  AppendEvent(t, s) /\ Status(t) \in {"none", "RESERVED"}
      <4>1. PICK s \in {"RESERVED", "ADMITTED", "STOPPED"} :
                  AppendEvent(t, s) /\ Status(t) \in {"none", "RESERVED"}
        BY <3>3
      <4>2. s \in Statuses /\ s # "COMPLETED" /\ Status(t) \in {"none", "RESERVED", "ADMITTED"}
        BY <4>1 DEF Statuses
      <4> QED
        BY <1>3, <3>1, <4>1, <4>2, OutcomeFromEvent
    <3> QED
      BY <1>6, <3>2, <3>3
  <2> QED
    BY <2>1 DEF CompletedOnce, OneOutcome
<1>11. SpecsStand' /\ AuthorisedBeforeRevocation'
  <2>1. now \in Int /\ now' \in Int
    BY <1>3 DEF TypeOK, AdmissionTypeOK
  <2> QED
    BY <1>2, <1>4, <2>1 DEF Inv, SpecsStand, AuthorisedBeforeRevocation, AuthorityKept
<1>12. ClaimAnswered'
  BY <1>2, <1>4, <1>8 DEF Inv, ClaimAnswered, Claimed
<1> QED
  BY <1>1, <1>3, <1>9, <1>10, <1>11, <1>12 DEF Inv

-----------------------------------------------------------------------------
(* The executors' steps, seen from the rows and the other executors. *)

LEMMA LostMayGrow ==
    ASSUME AdmissionInv, lost \subseteq lost', lost' \subseteq Trials,
           UNCHANGED <<now, budgets, reservedAt, history, permit, consumed, revoking, call>>
    PROVE AdmissionInv'
<1>1. \A c \in Callers : CallStands(c)'
  BY DEF AdmissionInv, CallStands, Holding, Status, OwnsSlot, Slot, InWindow, Issued
<1>2. AdmissionTypeOK'
  BY DEF AdmissionInv, AdmissionTypeOK
<1>3. RowsStand' /\ AdmittedOwnsSlot' /\ PermitNotOverspent' /\ StrandedOnlyByFailure'
  BY DEF AdmissionInv, RowsStand, AdmittedOwnsSlot, PermitNotOverspent, SlotsOf,
     StrandedOnlyByFailure, Slot, Admitted, InWindow, Issued, Status, OwnsSlot
<1> QED
  BY <1>1, <1>2, <1>3 DEF AdmissionInv

\* The step moves the run of e only, and takes no lock from another.
OthersStay(e) == \A f \in Executors \ {e} : run'[f] = run[f] /\ LocksKept(f)

\* The claim of e is still answered for, if it has one.
AnswerStays(e) ==
    \A t \in Trials : Claimed(e) /\ run[e].trial = t =>
        \/ Claimed(e)' /\ run'[e].trial = t /\ run'[e].runtime = run[e].runtime
        \/ t \in lost' \/ Finished(t)'

\* A specification appears only where e claims it or dies over it.
SpecsBy(e) ==
    \A r \in Runtimes, t \in Trials :
        \/ files'[r][t].spec = files[r][t].spec
        \/ /\ \/ t \in lost'
              \/ Claimed(e)' /\ run'[e].trial = t /\ run'[e].runtime = r
           /\ files'[r][t].spec \in Nat =>
                 /\ PermitOf[t] # NoPermit /\ files'[r][t].spec <= now
                 /\ Authorised(t, files'[r][t].spec)

LEMMA AnswersStand ==
    ASSUME Inv, NEW e \in Executors, OthersStay(e), AnswerStays(e), SpecsBy(e),
           lost \subseteq lost', \A t \in Trials : Finished(t) => Finished(t)'
    PROVE ClaimAnswered'
<1> SUFFICES ASSUME NEW r \in Runtimes, NEW t \in Trials, files'[r][t].spec # Absent
             PROVE \/ Finished(t)' \/ t \in lost'
                   \/ \E f \in Executors : run'[f].trial = t /\ run'[f].runtime = r /\ Claimed(f)'
  BY DEF ClaimAnswered
<1>1. CASE files'[r][t].spec = files[r][t].spec
  <2>1. \/ Finished(t) \/ t \in lost
        \/ \E f \in Executors : run[f].trial = t /\ run[f].runtime = r /\ Claimed(f)
    BY <1>1 DEF Inv, ClaimAnswered
  <2>2. ASSUME NEW f \in Executors, run[f].trial = t, run[f].runtime = r, Claimed(f)
        PROVE \/ Finished(t)' \/ t \in lost'
              \/ \E g \in Executors : run'[g].trial = t /\ run'[g].runtime = r /\ Claimed(g)'
    <3>1. CASE f = e
      BY <2>2, <3>1 DEF AnswerStays
    <3>2. CASE f # e
      BY <2>2, <3>2 DEF OthersStay, Claimed
    <3> QED
      BY <3>1, <3>2
  <2> QED
    BY <2>1, <2>2
<1>2. CASE files'[r][t].spec # files[r][t].spec
  BY <1>2 DEF SpecsBy
<1> QED
  BY <1>1, <1>2

\* A step of an executor that leaves the ledger and the permits alone.
LEMMA QuietExecutor ==
    ASSUME RequestAssumption, ExecutionAssumption, Inv, NEW e \in Executors,
           UNCHANGED <<now, budgets, reservedAt, history, permit, consumed, revoking,
                       call, link>>,
           lost \subseteq lost', lost' \subseteq Trials,
           files' \in [Runtimes -> [Trials -> Files]],
           lock' \in [Runtimes -> [Trials -> Executors \cup {Free}]],
           run' \in [Executors -> Run],
           FilesKept, OthersStay(e), RunStands(e)', AnswerStays(e), SpecsBy(e)
    PROVE Inv'
<1>1. AdmissionInv' /\ AdmissionTypeOK'
  BY LostMayGrow DEF Inv, AdmissionInv
<1>2. TypeOK /\ TypeOK'
  BY <1>1 DEF Inv, TypeOK
<1>3. AuthorityKept /\ now <= now'
  BY <1>2 DEF AuthorityKept, Authorised, InWindow, Issued, Revoked, TypeOK, AdmissionTypeOK
<1>4. BegunStays /\ \A t \in Trials : Finished(t) => Finished(t)'
  BY DEF BegunStays, Begun, Finished, Status
<1>5. \A f \in Executors : RunStands(f)'
  BY <1>2, <1>3, <1>4, RunUndisturbed DEF Inv, OthersStay
<1>6. CompletedOnce'
  <2>1. \A t \in Trials : PermitOf[t] # NoPermit => OneOutcome(t)'
    BY <1>2, OutcomeUndisturbed, OutcomesAre DEF Inv
  <2> QED
    BY <2>1 DEF CompletedOnce, OneOutcome
<1>7. \A t \in Trials, at \in Nat : Authorised(t, at)' <=> Authorised(t, at)
  BY DEF Authorised, InWindow, Issued, Revoked
<1>8. SpecsStand' /\ AuthorisedBeforeRevocation'
  BY <1>7 DEF Inv, SpecsStand, AuthorisedBeforeRevocation, SpecsBy
<1>9. ClaimAnswered'
  BY <1>4, AnswersStand
<1> QED
  BY <1>1, <1>2, <1>5, <1>6, <1>8, <1>9 DEF Inv

\* An outcome is nothing to the admission: the trial has left it.
LEMMA OutcomeKeepsAdmission ==
    ASSUME RequestAssumption, AdmissionInv, NEW t \in Trials, Status(t) = "ADMITTED",
           NEW s \in {"COMPLETED", "FAILED"}, AppendEvent(t, s),
           UNCHANGED <<now, budgets, reservedAt, permit, consumed, revoking, call, lost>>
    PROVE AdmissionInv'
<1>0. AdmissionTypeOK /\ s \in Statuses
  BY DEF AdmissionInv, Statuses
<1>1. Admitted(t)
  <2>1. history[t] \in Seq(Statuses) /\ history[t] # <<>>
        /\ history[t][Len(history[t])] = "ADMITTED"
    BY <1>0 DEF Status, AdmissionTypeOK
  <2>2. Len(history[t]) \in 1 .. Len(history[t])
    BY <2>1
  <2> QED
    BY <2>1, <2>2 DEF Admitted
<1>2. Slot(t)' = Slot(t)
  BY DEF Slot
<1>3. PermitOf[t] # NoPermit => Slot(t)' \in consumed /\ InWindow(PermitOf[t], reservedAt'[t])
  BY <1>1, <1>2 DEF AdmissionInv, AdmittedOwnsSlot
<1>4. reservedAt' \in [Trials -> Times] /\ reservedAt'[t] # Never
      /\ \A u \in Trials \ {t} : reservedAt'[u] = reservedAt[u]
  <2>1. history[t] # <<>>
    BY DEF Status
  <2> QED
    BY <1>0, <2>1 DEF AdmissionInv, RowsStand, AdmissionTypeOK
<1>5. call' \in [Callers -> Call] /\ lost \subseteq lost' /\ lost' \subseteq Trials
  BY <1>0 DEF AdmissionTypeOK
<1>6. \A c \in Callers : Moved(c, t) \/ LeftAlone(c, t)
  BY DEF LeftAlone, AdmissionInv, CallStands
<1>7. Admitted(t)'
  BY <1>0, <1>1, EventFacts
<1>8. \/ t \in lost'
      \/ \E c \in Callers : call'[c].trial = t /\ call'[c].pc # "reserve"
      \/ s # "RESERVED" /\ (OwnsSlot(t) => Admitted(t)')
  BY <1>7
<1>9. AdmissionInv /\ UNCHANGED <<now, budgets, permit, consumed, revoking>>
      /\ (OwnsSlot(t) => reservedAt'[t] = reservedAt[t])
      /\ (Admitted(t)' /\ PermitOf[t] # NoPermit =>
             Slot(t)' \in consumed /\ InWindow(PermitOf[t], reservedAt'[t]))
  BY <1>3
<1> QED
  BY <1>0, <1>4, <1>5, <1>6, <1>8, <1>9, EventKeepsInv

\* A step of an executor that ends an admitted trial.
LEMMA OutcomeExecutor ==
    ASSUME RequestAssumption, ExecutionAssumption, Inv, NEW e \in Executors,
           NEW t \in Trials, t = run[e].trial, Status(t) = "ADMITTED", PermitOf[t] # NoPermit,
           NEW s \in {"COMPLETED", "FAILED"}, AppendEvent(t, s),
           UNCHANGED <<now, budgets, reservedAt, permit, consumed, revoking, call, lost, files>>,
           lock' \in [Runtimes -> [Trials -> Executors \cup {Free}]],
           run' \in [Executors -> Run], link' \in [Trials -> Nat \cup {Absent}],
           \A u \in Trials \ {t} : link'[u] = link[u],
           \/ s # "COMPLETED" /\ link'[t] = link[t]
           \/ /\ s = "COMPLETED" /\ link'[t] # Absent
              /\ \E r \in Runtimes : files[r][t] = [spec |-> link'[t],
                                         ledger |-> link'[t], result |-> link'[t]],
           OthersStay(e), RunStands(e)'
    PROVE Inv'
<1>0. AdmissionTypeOK /\ s \in Statuses
  BY DEF Inv, AdmissionInv, Statuses
<1>1. AdmissionInv'
  BY OutcomeKeepsAdmission DEF Inv
<1>2. TypeOK /\ TypeOK' /\ FilesKept
  BY <1>1, KeepsItself DEF Inv, AdmissionInv, TypeOK
<1>3. AuthorityKept /\ now <= now'
  BY <1>2 DEF AuthorityKept, Authorised, InWindow, Issued, Revoked, TypeOK, AdmissionTypeOK
<1>4. Status(t)' = s /\ \A u \in Trials \ {t} : Status(u)' = Status(u) /\ history'[u] = history[u]
  BY <1>0, EventFacts
<1>5. Finished(t)' /\ ~ Finished(t) /\ \A u \in Trials : Finished(u) => Finished(u)'
  BY <1>4 DEF Finished
<1>6. BegunStays
  BY <1>4, <1>5 DEF BegunStays, Begun, Finished
<1>7. \A f \in Executors : RunStands(f)'
  BY <1>2, <1>3, <1>6, RunUndisturbed DEF Inv, OthersStay
<1>8. CompletedOnce'
  <2>1. OneOutcome(t)'
    BY <1>0, <1>2, OutcomeFromEvent, OutcomesAre DEF Inv
  <2>2. \A u \in Trials \ {t} : PermitOf[u] # NoPermit => OneOutcome(u)'
    BY <1>2, <1>4, OutcomeUndisturbed, OutcomesAre DEF Inv
  <2> QED
    BY <2>1, <2>2 DEF CompletedOnce, OneOutcome
<1>9. SpecsStand' /\ AuthorisedBeforeRevocation'
  BY <1>2, <1>3 DEF Inv, SpecsStand, AuthorisedBeforeRevocation, AuthorityKept
<1>10. ClaimAnswered'
  <2>1. AnswerStays(e) /\ SpecsBy(e) /\ lost \subseteq lost'
    BY <1>5 DEF AnswerStays, SpecsBy
  <2> QED
    BY <1>5, <2>1, AnswersStand
<1> QED
  BY <1>1, <1>2, <1>7, <1>8, <1>9, <1>10 DEF Inv

\* A step on which e leaves its trial.
LEMMA LeavingExecutor ==
    ASSUME RequestAssumption, ExecutionAssumption, Inv, NEW e \in Executors, Leave(e),
           UNCHANGED <<now, budgets, reservedAt, history, permit, consumed, revoking,
                       call, link>>,
           lost \subseteq lost', lost' \subseteq Trials,
           files' \in [Runtimes -> [Trials -> Files]], FilesKept, SpecsBy(e),
           Claimed(e) => run[e].trial \in lost' \/ Finished(run[e].trial)
    PROVE Inv'
<1>1. /\ run' \in [Executors -> Run] /\ run'[e].pc = "idle"
      /\ OthersStay(e)
      /\ lock' \in [Runtimes -> [Trials -> Executors \cup {Free}]]
  BY LeaveFacts DEF Inv, OthersStay
<1>2. RunStands(e)'
  BY <1>1 DEF RunStands
<1>3. AnswerStays(e)
  BY DEF AnswerStays, Finished, Status
<1> QED
  BY <1>1, <1>2, <1>3, QuietExecutor

\* A step on which e, which has the lock, goes on with its trial.
LEMMA GoingExecutor ==
    ASSUME RequestAssumption, ExecutionAssumption, Inv, NEW e \in Executors,
           run[e].pc \notin {"idle", "lock"},
           NEW pc \in {"authorize", "claim", "ledger", "result",
                       "verify", "finalize", "reverify", "fail"},
           NEW d \in Nat, run' = [run EXCEPT ![e].pc = pc, ![e].decision = d],
           UNCHANGED <<now, budgets, reservedAt, history, permit, consumed, revoking,
                       call, link, lost, lock>>,
           files' \in [Runtimes -> [Trials -> Files]], FilesKept, SpecsBy(e),
           Claimed(e) => pc \notin {"authorize", "claim"},
           pc = "claim" => d <= now /\ Authorised(run[e].trial, d),
           pc = "finalize" => files'[run[e].runtime][run[e].trial] =
                                 [spec |-> d, ledger |-> d, result |-> d]
    PROVE Inv'
<1>1. /\ run' \in [Executors -> Run]
      /\ run'[e].pc = pc /\ run'[e].trial = run[e].trial
      /\ run'[e].runtime = run[e].runtime /\ run'[e].decision = d
      /\ \A f \in Executors \ {e} : run'[f] = run[f]
  BY ProceedFacts DEF Inv
<1>2. OthersStay(e)
  BY <1>1 DEF OthersStay, LocksKept
<1>3. lock' \in [Runtimes -> [Trials -> Executors \cup {Free}]] /\ lost' \subseteq Trials
      /\ lost \subseteq lost'
  BY DEF Inv, TypeOK, AdmissionTypeOK
<1>4. RunStands(e)'
  <2> PICK t, r : t = run[e].trial /\ r = run[e].runtime
    OBVIOUS
  <2>1. /\ t \in Trials /\ r \in Runtimes /\ PermitOf[t] # NoPermit
        /\ Status(t) = "ADMITTED" \/ Finished(t)
        /\ lock[r][t] = e
    BY DEF Inv, RunStands
  <2>2. Status(t)' = "ADMITTED" \/ Finished(t)'
    BY <2>1 DEF Finished, Status
  <2>3. Authorised(t, d) => Authorised(t, d)'
    BY DEF Authorised, InWindow, Issued, Revoked
  <2> QED
    BY <1>1, <2>1, <2>2, <2>3 DEF RunStands, Here
<1>5. AnswerStays(e)
  BY <1>1 DEF AnswerStays, Claimed
<1> QED
  BY <1>1, <1>2, <1>3, <1>4, <1>5, QuietExecutor

\* Nothing is published.
LEMMA NothingPublished ==
    ASSUME Inv, UNCHANGED files, NEW e \in Executors
    PROVE files' \in [Runtimes -> [Trials -> Files]] /\ FilesKept /\ SpecsBy(e)
BY KeepsItself DEF Inv, TypeOK, SpecsBy

-----------------------------------------------------------------------------
(* The executors' steps. *)

LEMMA StartKeepsInv ==
    ASSUME RequestAssumption, ExecutionAssumption, Inv, NEW e \in Executors,
           NEW t \in Trials, NEW r \in Runtimes, Start(e, t, r)
    PROVE Inv'
<1>1. /\ At(e, "idle") /\ Status(t) = "ADMITTED" /\ PermitOf[t] # NoPermit
      /\ run' = [run EXCEPT ![e] = [pc |-> "lock", trial |-> t, runtime |-> r,
                                    decision |-> 0]]
      /\ UNCHANGED <<now, budgets, reservedAt, history, permit, consumed, revoking,
                     call, lost, files, lock, link>>
  BY DEF Start, admissionVars, ledgerVars, authorityVars
<1>2. [pc |-> "lock", trial |-> t, runtime |-> r, decision |-> 0] \in Run
  BY DEF Run
<1>3. /\ run' \in [Executors -> Run] /\ OthersStay(e)
      /\ run'[e] = [pc |-> "lock", trial |-> t, runtime |-> r, decision |-> 0]
  BY <1>1, <1>2 DEF Inv, TypeOK, OthersStay, LocksKept
<1>4. RunStands(e)'
  BY <1>1, <1>3 DEF RunStands, Status
<1>5. AnswerStays(e)
  BY <1>1 DEF AnswerStays, Claimed, At
<1>6. files' \in [Runtimes -> [Trials -> Files]] /\ FilesKept /\ SpecsBy(e)
  BY <1>1, NothingPublished
<1>7. /\ lock' \in [Runtimes -> [Trials -> Executors \cup {Free}]]
      /\ lost \subseteq lost' /\ lost' \subseteq Trials
  BY <1>1 DEF Inv, TypeOK, AdmissionTypeOK
<1> QED
  BY <1>1, <1>3, <1>4, <1>5, <1>6, <1>7, QuietExecutor

LEMMA HereFacts ==
    ASSUME Inv, NEW e \in Executors, run[e].pc # "idle"
    PROVE /\ run[e].trial \in Trials /\ run[e].runtime \in Runtimes
          /\ Here(e) \in Files
<1>1. run[e].trial \in Trials /\ run[e].runtime \in Runtimes
  BY DEF Inv, RunStands
<1>2. files \in [Runtimes -> [Trials -> Files]]
  BY DEF Inv, TypeOK
<1> QED
  BY <1>1, <1>2 DEF Here

LEMMA TakeLockKeepsInv ==
    ASSUME RequestAssumption, ExecutionAssumption, Inv, NEW e \in Executors, TakeLock(e)
    PROVE Inv'
<1> PICK t, r : t = run[e].trial /\ r = run[e].runtime
  OBVIOUS
<1>1. /\ At(e, "lock") /\ lock[r][t] = Free
      /\ lock' = [lock EXCEPT ![r][t] = e] /\ Proceed(e, "authorize")
      /\ UNCHANGED <<now, budgets, reservedAt, history, permit, consumed, revoking,
                     call, lost, files, link>>
  BY DEF TakeLock, admissionVars, ledgerVars, authorityVars
<1>2. /\ t \in Trials /\ r \in Runtimes /\ PermitOf[t] # NoPermit
      /\ Status(t) = "ADMITTED" \/ Finished(t)
  BY <1>1 DEF Inv, RunStands, At
<1>3. /\ run' \in [Executors -> Run]
      /\ run'[e].pc = "authorize" /\ run'[e].trial = t /\ run'[e].runtime = r
      /\ \A f \in Executors \ {e} : run'[f] = run[f]
  <2>1. PICK d \in Nat : run' = [run EXCEPT ![e].pc = "authorize", ![e].decision = d]
    BY <1>1, ProceedKeeps DEF Inv
  <2> QED
    BY <2>1, ProceedFacts DEF Inv
<1>4. /\ lock' \in [Runtimes -> [Trials -> Executors \cup {Free}]]
      /\ lock'[r][t] = e
      /\ \A q \in Runtimes, u \in Trials : q # r \/ u # t => lock'[q][u] = lock[q][u]
  BY <1>1, <1>2 DEF Inv, TypeOK
<1>5. OthersStay(e)
  BY <1>1, <1>3, <1>4 DEF OthersStay, LocksKept, ExecutionAssumption
<1>6. RunStands(e)'
  <2>1. Status(t)' = "ADMITTED" \/ Finished(t)'
    BY <1>1, <1>2 DEF Finished, Status
  <2> QED
    BY <1>2, <1>3, <1>4, <2>1 DEF RunStands
<1>7. AnswerStays(e)
  BY <1>1 DEF AnswerStays, Claimed, At
<1>8. files' \in [Runtimes -> [Trials -> Files]] /\ FilesKept /\ SpecsBy(e)
  BY <1>1, NothingPublished
<1>9. lost \subseteq lost' /\ lost' \subseteq Trials
  BY <1>1 DEF Inv, TypeOK, AdmissionTypeOK
<1> QED
  BY <1>1, <1>3, <1>4, <1>5, <1>6, <1>7, <1>8, <1>9, QuietExecutor

LEMMA QuietLeaveKeepsInv ==
    ASSUME RequestAssumption, ExecutionAssumption, Inv, NEW e \in Executors,
           LockTimeout(e) \/ NotAuthorized(e) \/ ClaimConflict(e) \/ VerifyAfter(e)
    PROVE Inv'
<1>1. /\ Leave(e)
      /\ UNCHANGED <<now, budgets, reservedAt, history, permit, consumed, revoking,
                     call, lost, files, link>>
  BY DEF LockTimeout, NotAuthorized, ClaimConflict, VerifyAfter, admissionVars, ledgerVars,
     authorityVars
<1>2. Claimed(e) => Finished(run[e].trial)
  BY DEF LockTimeout, NotAuthorized, ClaimConflict, VerifyAfter, At, Claimed, VerifiesFinal,
     Finished
<1>3. files' \in [Runtimes -> [Trials -> Files]] /\ FilesKept /\ SpecsBy(e)
  BY <1>1, NothingPublished
<1>4. lost \subseteq lost' /\ lost' \subseteq Trials
  BY <1>1 DEF Inv, TypeOK, AdmissionTypeOK
<1> QED
  BY <1>1, <1>2, <1>3, <1>4, LeavingExecutor

LEMMA AuthorizeKeepsInv ==
    ASSUME RequestAssumption, ExecutionAssumption, Inv, NEW e \in Executors, Authorize(e)
    PROVE Inv'
<1>1. /\ At(e, "authorize") /\ CurrentAuthority(run[e].trial, now)
      /\ run' = [run EXCEPT ![e].pc = "claim", ![e].decision = now]
      /\ UNCHANGED <<now, budgets, reservedAt, history, permit, consumed, revoking,
                     call, lost, files, lock, link>>
  BY DEF Authorize, admissionVars, ledgerVars, authorityVars
<1>2. now \in Nat
  BY DEF Inv, TypeOK, AdmissionTypeOK
<1>3. Authorised(run[e].trial, now)
  BY <1>1 DEF CurrentAuthority, Authorised
<1>4. files' \in [Runtimes -> [Trials -> Files]] /\ FilesKept /\ SpecsBy(e)
  BY <1>1, NothingPublished
<1>5. run[e].pc \notin {"idle", "lock"} /\ ~ Claimed(e)
  BY <1>1 DEF At, Claimed
<1> PICK d \in Nat : d = now
  BY <1>2
<1>6. run' = [run EXCEPT ![e].pc = "claim", ![e].decision = d]
      /\ d <= now /\ Authorised(run[e].trial, d)
  BY <1>1, <1>2, <1>3
<1> QED
  BY <1>1, <1>4, <1>5, <1>6, GoingExecutor

LEMMA ClaimKeepsInv ==
    ASSUME RequestAssumption, ExecutionAssumption, Inv, NEW e \in Executors, Claim(e)
    PROVE Inv'
<1> PICK t, r, d : t = run[e].trial /\ r = run[e].runtime /\ d = run[e].decision
  OBVIOUS
<1>0. TypeOK /\ run[e].pc = "claim" /\ d \in Nat
      /\ run' = [run EXCEPT ![e].pc = "ledger", ![e].decision = d]
  BY ProceedKeeps DEF Inv, Claim, At
<1>1. /\ Put(e, [Here(e) EXCEPT !.spec = d]) /\ Here(e).spec \in {Absent, d}
      /\ UNCHANGED <<now, budgets, reservedAt, history, permit, consumed, revoking,
                     call, lost, lock, link>>
  BY DEF Claim, admissionVars, ledgerVars, authorityVars
<1>2. t \in Trials /\ r \in Runtimes /\ Here(e) \in Files /\ Here(e) = files[r][t]
  BY <1>0, HereFacts DEF Here
<1>3. /\ [Here(e) EXCEPT !.spec = d] \in Files
      /\ [Here(e) EXCEPT !.spec = d].spec = d
      /\ Keeps(Here(e), [Here(e) EXCEPT !.spec = d])
  BY <1>0, <1>1, <1>2 DEF Files, Artifact, Keeps
<1> PICK g : g = [Here(e) EXCEPT !.spec = d]
  OBVIOUS
<1>4. /\ FilesKept /\ files' \in [Runtimes -> [Trials -> Files]]
      /\ \A q \in Runtimes, u \in Trials :
            files'[q][u] = IF q = r /\ u = t THEN g ELSE files[q][u]
  BY <1>0, <1>1, <1>3, PutFacts, PutKeeps
<1>5. SpecsBy(e)
  <2>1. Claimed(e)' /\ run'[e].trial = t /\ run'[e].runtime = r
    BY <1>0, ProceedFacts DEF Claimed
  <2>2. PermitOf[t] # NoPermit /\ d <= now /\ Authorised(t, d)
    BY <1>0 DEF Inv, RunStands
  <2>3. g.spec = d
    BY <1>3
  <2>4. ASSUME NEW q \in Runtimes, NEW u \in Trials, q # r \/ u # t
        PROVE files'[q][u].spec = files[q][u].spec
    BY <1>4, <2>4
  <2>5. files'[r][t].spec = d
    BY <1>2, <1>4, <2>3
  <2> QED
    BY <2>1, <2>2, <2>4, <2>5 DEF SpecsBy
<1>6. ~ Claimed(e)
  BY <1>0 DEF Claimed
<1> QED
  BY <1>0, <1>1, <1>4, <1>5, <1>6, GoingExecutor

LEMMA PublishKeepsInv ==
    ASSUME RequestAssumption, ExecutionAssumption, Inv, NEW e \in Executors,
           PublishLedger(e) \/ PublishResult(e)
    PROVE Inv'
<1> PICK t, r, d : t = run[e].trial /\ r = run[e].runtime /\ d = run[e].decision
  OBVIOUS
<1>0. TypeOK /\ run[e].pc \in {"ledger", "result"} /\ d \in Nat
  BY ProceedKeeps DEF Inv, PublishLedger, PublishResult, At
<1>1. UNCHANGED <<now, budgets, reservedAt, history, permit, consumed, revoking,
                  call, lost, lock, link>>
  BY DEF PublishLedger, PublishResult, admissionVars, ledgerVars, authorityVars
<1>2. t \in Trials /\ r \in Runtimes /\ Here(e) \in Files
  BY <1>0, HereFacts
<1>3. PICK pc \in {"result", "verify"}, g \in Files :
        /\ Put(e, g) /\ Keeps(Here(e), g) /\ g.spec = Here(e).spec
        /\ run' = [run EXCEPT ![e].pc = pc, ![e].decision = d]
  <2>1. CASE PublishLedger(e)
    <3>1. [Here(e) EXCEPT !.ledger = d] \in Files
          /\ Keeps(Here(e), [Here(e) EXCEPT !.ledger = d])
          /\ [Here(e) EXCEPT !.ledger = d].spec = Here(e).spec
      BY <1>0, <1>2, <2>1 DEF PublishLedger, Files, Artifact, Keeps
    <3> QED
      BY <1>0, <2>1, <3>1, ProceedKeeps DEF PublishLedger
  <2>2. CASE PublishResult(e)
    <3>1. [Here(e) EXCEPT !.result = d] \in Files
          /\ Keeps(Here(e), [Here(e) EXCEPT !.result = d])
          /\ [Here(e) EXCEPT !.result = d].spec = Here(e).spec
      BY <1>0, <1>2, <2>2 DEF PublishResult, Files, Artifact, Keeps
    <3> QED
      BY <1>0, <2>2, <3>1, ProceedKeeps DEF PublishResult
  <2> QED
    BY <2>1, <2>2
<1>4. /\ FilesKept /\ files' \in [Runtimes -> [Trials -> Files]]
      /\ \A q \in Runtimes, u \in Trials :
            files'[q][u] = IF q = r /\ u = t THEN g ELSE files[q][u]
  BY <1>0, <1>3, PutFacts, PutKeeps
<1>5. SpecsBy(e)
  BY <1>3, <1>4 DEF SpecsBy, Here
<1>6. run[e].pc \notin {"idle", "lock"} /\ pc \notin {"authorize", "claim", "finalize"}
      /\ pc \in {"authorize", "claim", "ledger", "result", "verify", "finalize", "reverify",
                 "fail"}
  BY <1>0
<1> QED
  BY <1>0, <1>1, <1>3, <1>4, <1>5, <1>6, GoingExecutor

LEMMA VerifyKeepsInv ==
    ASSUME RequestAssumption, ExecutionAssumption, Inv, NEW e \in Executors, VerifyBefore(e)
    PROVE Inv'
<1> PICK t, r, d : t = run[e].trial /\ r = run[e].runtime /\ d = Here(e).result
  OBVIOUS
<1>1. /\ At(e, "verify") /\ Replays(r, t)
      /\ run' = [run EXCEPT ![e].pc = "finalize", ![e].decision = d]
      /\ UNCHANGED <<now, budgets, reservedAt, history, permit, consumed, revoking,
                     call, lost, files, lock, link>>
  BY DEF VerifyBefore, admissionVars, ledgerVars, authorityVars
<1>2. /\ files[r][t].spec \in Nat /\ files[r][t].ledger = files[r][t].spec
      /\ files[r][t].result = files[r][t].spec
  BY <1>1 DEF Replays
<1>3. Here(e) \in Files /\ Here(e) = files[r][t]
  BY <1>1, HereFacts DEF At, Here
<1>4. d \in Nat /\ files'[r][t] = [spec |-> d, ledger |-> d, result |-> d]
  BY <1>1, <1>2, <1>3 DEF Files
<1>5. files' \in [Runtimes -> [Trials -> Files]] /\ FilesKept /\ SpecsBy(e)
  BY <1>1, NothingPublished
<1>6. run[e].pc \notin {"idle", "lock"}
  BY <1>1 DEF At
<1> QED
  BY <1>1, <1>4, <1>5, <1>6, GoingExecutor

LEMMA RaiseKeepsInv ==
    ASSUME RequestAssumption, ExecutionAssumption, Inv, NEW e \in Executors, Raise(e)
    PROVE Inv'
<1>1. /\ Claimed(e) /\ Proceed(e, "fail")
      /\ UNCHANGED <<now, budgets, reservedAt, history, permit, consumed, revoking,
                     call, lost, files, lock, link>>
  BY DEF Raise, admissionVars, ledgerVars, authorityVars
<1>2. PICK d \in Nat : run' = [run EXCEPT ![e].pc = "fail", ![e].decision = d]
  BY <1>1, ProceedKeeps DEF Inv
<1>3. files' \in [Runtimes -> [Trials -> Files]] /\ FilesKept /\ SpecsBy(e)
  BY <1>1, NothingPublished
<1>4. run[e].pc \notin {"idle", "lock"}
  BY <1>1 DEF Claimed
<1> QED
  BY <1>1, <1>2, <1>3, <1>4, GoingExecutor

LEMMA FinalizeKeepsInv ==
    ASSUME RequestAssumption, ExecutionAssumption, Inv, NEW e \in Executors, Finalize(e)
    PROVE Inv'
<1> PICK t, r, d : t = run[e].trial /\ r = run[e].runtime /\ d = run[e].decision
  OBVIOUS
<1>1. /\ run[e].pc = "finalize" /\ d \in Nat
      /\ run' = [run EXCEPT ![e].pc = "reverify", ![e].decision = d]
      /\ UNCHANGED <<now, budgets, reservedAt, permit, consumed, revoking, call, lost,
                     files, lock>>
  BY ProceedKeeps DEF Inv, Finalize, At, authorityVars
<1>2. t \in Trials /\ r \in Runtimes /\ PermitOf[t] # NoPermit
      /\ files[r][t] = [spec |-> d, ledger |-> d, result |-> d]
  BY <1>1 DEF Inv, RunStands, Here
<1>3. CASE /\ link[t] = Absent /\ Status(t) = "ADMITTED"
           /\ link' = [link EXCEPT ![t] = d]
           /\ AppendEvent(t, "COMPLETED")
  <2>1. /\ link' \in [Trials -> Nat \cup {Absent}] /\ link'[t] = d /\ d # Absent
        /\ \A u \in Trials \ {t} : link'[u] = link[u]
    BY <1>1, <1>2, <1>3 DEF Inv, TypeOK, ExecutionAssumption
  <2>2. /\ run' \in [Executors -> Run] /\ run'[e].pc = "reverify" /\ run'[e].trial = t
        /\ run'[e].runtime = r /\ \A f \in Executors \ {e} : run'[f] = run[f]
    BY <1>1, ProceedFacts DEF Inv
  <2>3. OthersStay(e)
    BY <1>1, <2>2 DEF OthersStay, LocksKept
  <2>4. Finished(t)'
    BY <1>2, <1>3, EventFacts DEF Inv, TypeOK, Statuses, Finished
  <2>5. RunStands(e)'
    BY <1>1, <1>2, <2>2, <2>4 DEF Inv, RunStands
  <2>6. \E q \in Runtimes : files[q][t] = [spec |-> link'[t], ledger |-> link'[t],
                                           result |-> link'[t]]
    BY <1>2, <2>1
  <2>7. lock' \in [Runtimes -> [Trials -> Executors \cup {Free}]]
    BY <1>1 DEF Inv, TypeOK
  <2> PICK s \in {"COMPLETED", "FAILED"} : s = "COMPLETED"
    OBVIOUS
  <2>8. AppendEvent(t, s) /\ Status(t) = "ADMITTED"
    BY <1>3
  <2> QED
    BY <1>1, <1>2, <2>1, <2>2, <2>3, <2>5, <2>6, <2>7, <2>8, OutcomeExecutor
<1>4. CASE UNCHANGED <<link, history>>
  <2>1. files' \in [Runtimes -> [Trials -> Files]] /\ FilesKept /\ SpecsBy(e)
    BY <1>1, NothingPublished
  <2> QED
    BY <1>1, <1>4, <2>1, GoingExecutor
<1> QED
  BY <1>3, <1>4 DEF Finalize

LEMMA TerminalizeKeepsInv ==
    ASSUME RequestAssumption, ExecutionAssumption, Inv, NEW e \in Executors, Terminalize(e)
    PROVE Inv'
<1> PICK t : t = run[e].trial
  OBVIOUS
<1>1. /\ run[e].pc = "fail" /\ Leave(e)
      /\ UNCHANGED <<now, budgets, reservedAt, permit, consumed, revoking, call, lost,
                     files, link>>
  BY DEF Terminalize, At, authorityVars
<1>2. t \in Trials /\ PermitOf[t] # NoPermit /\ (Status(t) = "ADMITTED" \/ Finished(t))
  BY <1>1 DEF Inv, RunStands
<1>3. CASE Status(t) = "ADMITTED" /\ AppendEvent(t, "FAILED")
  <2>1. /\ run' \in [Executors -> Run] /\ run'[e].pc = "idle" /\ OthersStay(e)
        /\ lock' \in [Runtimes -> [Trials -> Executors \cup {Free}]]
    BY <1>1, LeaveFacts DEF Inv, OthersStay
  <2>2. RunStands(e)'
    BY <2>1 DEF RunStands
  <2>3. link' \in [Trials -> Nat \cup {Absent}] /\ link'[t] = link[t]
        /\ \A u \in Trials \ {t} : link'[u] = link[u]
    BY <1>1 DEF Inv, TypeOK
  <2> PICK s \in {"COMPLETED", "FAILED"} : s = "FAILED"
    OBVIOUS
  <2>4. AppendEvent(t, s) /\ s # "COMPLETED"
    BY <1>3
  <2> QED
    BY <1>1, <1>2, <1>3, <2>1, <2>2, <2>3, <2>4, OutcomeExecutor
<1>4. CASE Status(t) # "ADMITTED" /\ UNCHANGED history
  <2>1. files' \in [Runtimes -> [Trials -> Files]] /\ FilesKept /\ SpecsBy(e)
    BY <1>1, NothingPublished
  <2>2. lost \subseteq lost' /\ lost' \subseteq Trials
    BY <1>1 DEF Inv, TypeOK, AdmissionTypeOK
  <2> QED
    BY <1>1, <1>2, <1>4, <2>1, <2>2, LeavingExecutor
<1> QED
  BY <1>3, <1>4 DEF Terminalize

LEMMA BusyExecutorKeepsInv ==
    ASSUME RequestAssumption, ExecutionAssumption, Inv, NEW e \in Executors, TerminalizeBusy(e)
    PROVE Inv'
<1>1. /\ run[e].pc = "fail" /\ Leave(e) /\ lost' = lost \cup {run[e].trial}
      /\ UNCHANGED <<now, budgets, reservedAt, history, permit, consumed, revoking, call,
                     files, link>>
  BY DEF TerminalizeBusy, At, authorityVars, ledgerVars
<1>2. lost \subseteq lost' /\ lost' \subseteq Trials
  BY <1>1, HereFacts DEF Inv, TypeOK, AdmissionTypeOK
<1>3. files' \in [Runtimes -> [Trials -> Files]] /\ FilesKept /\ SpecsBy(e)
  BY <1>1, NothingPublished
<1> QED
  BY <1>1, <1>2, <1>3, LeavingExecutor

\* What dies in the middle of a write replaces nothing, and is no specification.
LEMMA TearFacts ==
    ASSUME ExecutionAssumption, Inv, NEW e \in Executors, Tear(e)
    PROVE /\ FilesKept /\ files' \in [Runtimes -> [Trials -> Files]]
          /\ \A r \in Runtimes, t \in Trials :
                files'[r][t].spec = files[r][t].spec \/ (t = run[e].trial /\ At(e, "claim")
                                                        /\ files'[r][t].spec \notin Nat)
<1>0. TypeOK /\ Here(e) \in Files
  BY HereFacts DEF Inv, Tear, At
<1>1. PICK g \in Files :
        /\ Put(e, g) /\ Keeps(Here(e), g)
        /\ g.spec = Here(e).spec \/ (At(e, "claim") /\ g.spec \notin Nat)
  <2>1. CASE At(e, "claim") /\ Here(e).spec = Absent /\ Put(e, [Here(e) EXCEPT !.spec = Torn])
    <3>1. [Here(e) EXCEPT !.spec = Torn] \in Files
          /\ Keeps(Here(e), [Here(e) EXCEPT !.spec = Torn])
          /\ [Here(e) EXCEPT !.spec = Torn].spec \notin Nat
      BY <1>0, <2>1 DEF Files, Artifact, Keeps, ExecutionAssumption
    <3> QED
      BY <2>1, <3>1
  <2>2. CASE Here(e).ledger = Absent /\ Put(e, [Here(e) EXCEPT !.ledger = Torn])
    <3>1. [Here(e) EXCEPT !.ledger = Torn] \in Files
          /\ Keeps(Here(e), [Here(e) EXCEPT !.ledger = Torn])
          /\ [Here(e) EXCEPT !.ledger = Torn].spec = Here(e).spec
      BY <1>0, <2>2 DEF Files, Artifact, Keeps
    <3> QED
      BY <2>2, <3>1
  <2>3. CASE Here(e).result = Absent /\ Put(e, [Here(e) EXCEPT !.result = Torn])
    <3>1. [Here(e) EXCEPT !.result = Torn] \in Files
          /\ Keeps(Here(e), [Here(e) EXCEPT !.result = Torn])
          /\ [Here(e) EXCEPT !.result = Torn].spec = Here(e).spec
      BY <1>0, <2>3 DEF Files, Artifact, Keeps
    <3> QED
      BY <2>3, <3>1
  <2> QED
    BY <2>1, <2>2, <2>3 DEF Tear
<1>2. /\ FilesKept /\ files' \in [Runtimes -> [Trials -> Files]]
      /\ \A r \in Runtimes, t \in Trials :
            files'[r][t] = IF r = run[e].runtime /\ t = run[e].trial THEN g
                           ELSE files[r][t]
  BY <1>0, <1>1, PutFacts, PutKeeps
<1> QED
  BY <1>1, <1>2 DEF Here

LEMMA CrashExecutorKeepsInv ==
    ASSUME RequestAssumption, ExecutionAssumption, Inv, NEW e \in Executors, CrashExecutor(e)
    PROVE Inv'
<1> PICK t : t = run[e].trial
  OBVIOUS
<1>0. /\ run[e].pc # "idle" /\ Leave(e)
      /\ UNCHANGED <<now, budgets, reservedAt, history, permit, consumed, revoking, call,
                     link>>
  BY DEF CrashExecutor, At, authorityVars, ledgerVars
<1>1. /\ UNCHANGED files \/ Tear(e)
      /\ lost' = IF At(e, "claim") \/ Claimed(e) THEN lost \cup {t} ELSE lost
  BY DEF CrashExecutor
<1>2. lost \subseteq lost' /\ lost' \subseteq Trials
  <2>1. t \in Trials /\ lost \subseteq Trials
    BY <1>0, HereFacts DEF Inv, TypeOK, AdmissionTypeOK
  <2>2. lost' = lost \/ lost' = lost \cup {t}
    BY <1>1
  <2> QED
    BY <2>1, <2>2
<1>3. Claimed(e) \/ At(e, "claim") => t \in lost'
  BY <1>1
<1>4. files' \in [Runtimes -> [Trials -> Files]] /\ FilesKept /\ SpecsBy(e)
  <2>1. CASE UNCHANGED files
    BY <2>1, NothingPublished
  <2>2. CASE Tear(e)
    <3>1. /\ FilesKept /\ files' \in [Runtimes -> [Trials -> Files]]
          /\ \A r \in Runtimes, u \in Trials :
                files'[r][u].spec = files[r][u].spec \/ (u = t /\ At(e, "claim")
                                                        /\ files'[r][u].spec \notin Nat)
      BY <2>2, TearFacts
    <3>2. ASSUME NEW r \in Runtimes, NEW u \in Trials,
                 files'[r][u].spec # files[r][u].spec
          PROVE u \in lost' /\ files'[r][u].spec \notin Nat
      BY <1>3, <3>1, <3>2
    <3>3. SpecsBy(e)
      <4> SUFFICES ASSUME NEW r \in Runtimes, NEW u \in Trials,
                          files'[r][u].spec # files[r][u].spec
                   PROVE u \in lost' /\ files'[r][u].spec \notin Nat
        BY DEF SpecsBy
      <4> QED
        BY <3>2
    <3> QED
      BY <3>1, <3>3
  <2> QED
    BY <1>1, <2>1, <2>2
<1>5. Claimed(e) => run[e].trial \in lost'
  BY <1>3
<1> QED
  BY <1>0, <1>2, <1>4, <1>5, LeavingExecutor

-----------------------------------------------------------------------------
(* The theorems. *)

LEMMA ExecutorKeepsInv ==
    ASSUME RequestAssumption, ExecutionAssumption, Inv, NEW e \in Executors,
           \/ \E t \in Trials, r \in Runtimes : Start(e, t, r)
           \/ ExecutorStep(e) \/ TerminalizeBusy(e) \/ CrashExecutor(e)
    PROVE Inv'
<1>1. CASE \E t \in Trials, r \in Runtimes : Start(e, t, r)
  BY <1>1, StartKeepsInv
<1>2. CASE ExecutorStep(e)
  BY <1>2, TakeLockKeepsInv, QuietLeaveKeepsInv, AuthorizeKeepsInv, ClaimKeepsInv,
     PublishKeepsInv, VerifyKeepsInv, FinalizeKeepsInv, RaiseKeepsInv, TerminalizeKeepsInv
     DEF ExecutorStep
<1> QED
  BY <1>1, <1>2, BusyExecutorKeepsInv, CrashExecutorKeepsInv

LEMMA ExecutionInit ==
    ASSUME RequestAssumption, ExecutionAssumption, Init
    PROVE Inv
<1>1. AdmissionInv /\ AdmissionTypeOK /\ AdmissionInit
  BY InitHasInv DEF Init, AdmissionInv
<1>2. NoFiles \in Files /\ NoRun \in Run /\ NoRun.pc = "idle" /\ NoFiles.spec = Absent
  BY DEF NoFiles, Files, Artifact, NoRun, Run
<1>3. TypeOK
  BY <1>1, <1>2 DEF Init, TypeOK
<1>4. \A e \in Executors : run[e].pc = "idle"
  BY <1>2 DEF Init
<1>5. \A e \in Executors : RunStands(e)
  BY <1>4 DEF RunStands
<1>6. \A r \in Runtimes, t \in Trials : files[r][t].spec = Absent
  BY <1>2 DEF Init
<1>7. SpecsStand /\ AuthorisedBeforeRevocation /\ ClaimAnswered
  BY <1>6 DEF SpecsStand, AuthorisedBeforeRevocation, ClaimAnswered, ExecutionAssumption
<1>8. CompletedOnce
  <2>1. \A t \in Trials : history[t] = <<>> /\ link[t] = Absent
    BY <1>1 DEF Init, AdmissionInit
  <2> QED
    BY <2>1 DEF CompletedOnce, OneOutcome, Status
<1> QED
  BY <1>1, <1>3, <1>5, <1>7, <1>8 DEF Inv

LEMMA ExecutionStep ==
    ASSUME RequestAssumption, ExecutionAssumption, Inv, [Next]_vars
    PROVE Inv'
<1>1. CASE AdmissionNext /\ UNCHANGED executionVars
  BY <1>1, AdmissionKeepsInv
<1>2. CASE \E e \in Executors :
              \/ \E t \in Trials, r \in Runtimes : Start(e, t, r)
              \/ ExecutorStep(e) \/ TerminalizeBusy(e) \/ CrashExecutor(e)
  BY <1>2, ExecutorKeepsInv
<1>3. CASE UNCHANGED vars
  <2>1. UNCHANGED admissionVars /\ UNCHANGED <<files, lock, run, link>>
    BY <1>3 DEF vars, executionVars
  <2>2. AdmissionInv' /\ AdmissionTypeOK'
    BY <2>1, StutterKeepsInv DEF Inv, AdmissionInv
  <2>3. UNCHANGED <<now, history, permit, lost>>
    BY <2>1 DEF admissionVars, ledgerVars, authorityVars
  <2>4. TypeOK'
    BY <2>1, <2>2 DEF Inv, TypeOK
  <2>5. \A e \in Executors : RunStands(e)'
    BY <2>1, <2>3 DEF Inv, RunStands, Finished, Status, Authorised, InWindow, Issued, Revoked,
       Here
  <2>6. CompletedOnce'
    <3>1. \A t \in Trials : OneOutcome(t)' <=> OneOutcome(t)
      BY <2>1, <2>3 DEF OneOutcome, Status
    <3> QED
      BY <3>1, OutcomesAre DEF Inv, CompletedOnce
  <2>7. SpecsStand' /\ AuthorisedBeforeRevocation' /\ ClaimAnswered'
    BY <2>1, <2>3 DEF Inv, SpecsStand, AuthorisedBeforeRevocation,
       ClaimAnswered, Claimed, Finished, Status, Authorised, InWindow, Issued, Revoked
  <2> QED
    BY <2>2, <2>4, <2>5, <2>6, <2>7 DEF Inv
<1> QED
  BY <1>1, <1>2, <1>3 DEF Next

\* The inductive invariant of admission and execution together holds of every
\* reachable state of execute_development_trial() and the admission below it.
THEOREM ExecutionSound == Spec => []Inv
<1>1. Init => Inv
  BY RequestAssumption, ExecutionAssumption, ExecutionInit
<1>2. Inv /\ [Next]_vars => Inv'
  BY RequestAssumption, ExecutionAssumption, ExecutionStep
<1> QED
  BY <1>1, <1>2, PTL DEF Spec

\* A trial has one outcome, whatever executors raced for it.
THEOREM OneOutcomeOnly == Spec => []CompletedOnce
<1>1. Inv => CompletedOnce
  BY DEF Inv
<1> QED
  BY <1>1, ExecutionSound, PTL

\* Every specification was authorised before its permit was revoked.
THEOREM AuthoritySafety == Spec => []AuthorisedBeforeRevocation
<1>1. Inv => AuthorisedBeforeRevocation
  BY DEF Inv
<1> QED
  BY <1>1, ExecutionSound, PTL

\* A claim is answered by a running executor, by an outcome, or by a failure.
THEOREM ClaimsAnswered == Spec => []ClaimAnswered
<1>1. Inv => ClaimAnswered
  BY DEF Inv
<1> QED
  BY <1>1, ExecutionSound, PTL

\* The lock of a trial in a runtime names one executor, and an executor past
\* trial_lock() holds it.
THEOREM Exclusion == Spec => []OneWriter
<1>1. Inv => OneWriter
  <2> SUFFICES ASSUME Inv, NEW e \in Executors, NEW f \in Executors, e # f,
                      run[e].pc \notin {"idle", "lock"}, run[f].pc \notin {"idle", "lock"}
               PROVE run[e].trial # run[f].trial \/ run[e].runtime # run[f].runtime
    BY DEF OneWriter
  <2>1. lock[run[e].runtime][run[e].trial] = e /\ lock[run[f].runtime][run[f].trial] = f
    BY DEF Inv, RunStands
  <2> QED
    BY <2>1
<1> QED
  BY <1>1, ExecutionSound, PTL

-----------------------------------------------------------------------------
(* Evidence. *)

\* Every step of the executors keeps what was published and what was linked.
LEMMA StepKeepsEvidence ==
    ASSUME RequestAssumption, ExecutionAssumption, Inv, [Next]_vars
    PROVE FilesKept /\ \A t \in Trials : link[t] # Absent => link'[t] = link[t]
<1>1. CASE UNCHANGED <<files, link>>
  BY <1>1, KeepsItself
<1>2. CASE \E e \in Executors : Claim(e) \/ PublishLedger(e) \/ PublishResult(e)
  <2>1. PICK e \in Executors : Claim(e) \/ PublishLedger(e) \/ PublishResult(e)
    BY <1>2
  <2>2. TypeOK /\ Here(e) \in Files /\ run[e].decision \in Nat
    <3>1. run[e].pc # "idle"
      BY <2>1 DEF Claim, PublishLedger, PublishResult, At
    <3>2. run[e] \in Run
      BY DEF Inv, TypeOK
    <3> QED
      BY <3>1, <3>2, HereFacts DEF Inv, Run
  <2>3. PICK g \in Files : Put(e, g) /\ Keeps(Here(e), g)
    <3> PICK d \in Nat : d = run[e].decision
      BY <2>2
    <3>1. CASE Claim(e)
      <4>1. [Here(e) EXCEPT !.spec = d] \in Files
            /\ Keeps(Here(e), [Here(e) EXCEPT !.spec = d])
        BY <2>2, <3>1 DEF Claim, Files, Artifact, Keeps
      <4> QED
        BY <3>1, <4>1 DEF Claim
    <3>2. CASE PublishLedger(e)
      <4>1. [Here(e) EXCEPT !.ledger = d] \in Files
            /\ Keeps(Here(e), [Here(e) EXCEPT !.ledger = d])
        BY <2>2, <3>2 DEF PublishLedger, Files, Artifact, Keeps
      <4> QED
        BY <3>2, <4>1 DEF PublishLedger
    <3>3. CASE PublishResult(e)
      <4>1. [Here(e) EXCEPT !.result = d] \in Files
            /\ Keeps(Here(e), [Here(e) EXCEPT !.result = d])
        BY <2>2, <3>3 DEF PublishResult, Files, Artifact, Keeps
      <4> QED
        BY <3>3, <4>1 DEF PublishResult
    <3> QED
      BY <2>1, <3>1, <3>2, <3>3
  <2>4. UNCHANGED link
    BY <2>1 DEF Claim, PublishLedger, PublishResult
  <2> QED
    BY <2>2, <2>3, <2>4, PutKeeps
<1>3. CASE \E e \in Executors : CrashExecutor(e)
  BY <1>1, <1>3, TearFacts DEF CrashExecutor
<1>4. CASE \E e \in Executors : Finalize(e)
  <2>1. PICK e \in Executors : Finalize(e)
    BY <1>4
  <2>2. UNCHANGED files
    BY <2>1 DEF Finalize
  <2>3. \/ UNCHANGED link
        \/ link[run[e].trial] = Absent
           /\ link' = [link EXCEPT ![run[e].trial] = run[e].decision]
    BY <2>1 DEF Finalize
  <2> QED
    BY <2>2, <2>3, KeepsItself DEF Inv, TypeOK
<1>5. \/ UNCHANGED <<files, link>>
      \/ \E e \in Executors : \/ Claim(e) \/ PublishLedger(e) \/ PublishResult(e)
                              \/ CrashExecutor(e) \/ Finalize(e)
  BY DEF Next, vars, executionVars, Start, ExecutorStep, TakeLock, LockTimeout, Authorize,
     NotAuthorized, ClaimConflict, VerifyBefore, VerifyAfter, Raise, Terminalize,
     TerminalizeBusy
<1> QED
  BY <1>1, <1>2, <1>3, <1>4, <1>5

\* What was published is never replaced, and a linked result stays linked.
THEOREM EvidenceSafety == Spec => EvidenceStands
<1>1. Inv /\ [Next]_vars =>
        [/\ \A r \in Runtimes, t \in Trials : Keeps(files[r][t], files'[r][t])
         /\ \A t \in Trials : link[t] # Absent => link'[t] = link[t]]_vars
  BY RequestAssumption, ExecutionAssumption, StepKeepsEvidence DEF FilesKept
<1> QED
  BY <1>1, ExecutionSound, PTL DEF Spec, EvidenceStands

-----------------------------------------------------------------------------
(* The lifecycle of a trial. *)

LEMMA OutcomeMoves ==
    ASSUME AdmissionTypeOK, NEW t \in Trials, Status(t) = "ADMITTED",
           NEW s \in {"COMPLETED", "FAILED"}, AppendEvent(t, s), UNCHANGED consumed
    PROVE Lifecycle!Next
<1>1. s \in Statuses
  BY DEF Statuses
<1>2. Lifecycle!Move(t, "ADMITTED", s)
  BY <1>1, EventMoves
<1> QED
  BY <1>2 DEF Lifecycle!Complete, Lifecycle!Fail, Lifecycle!Next

LEMMA ExecutionLives ==
    ASSUME RequestAssumption, Inv, [Next]_vars
    PROVE [Lifecycle!Next]_Lifecycle!vars
<1>0. AdmissionInv /\ AdmissionTypeOK
  BY DEF Inv, AdmissionInv
<1>1. CASE AdmissionNext
  BY <1>0, <1>1, StepLives
<1>2. CASE \E e \in Executors : Finalize(e) \/ Terminalize(e)
  <2>1. PICK e \in Executors : Finalize(e) \/ Terminalize(e)
    BY <1>2
  <2>2. PICK t : t = run[e].trial
    OBVIOUS
  <2>3. t \in Trials /\ UNCHANGED consumed
    BY <2>1, <2>2 DEF Finalize, Terminalize, At, Inv, RunStands, authorityVars
  <2>4. \/ UNCHANGED history
        \/ \E s \in {"COMPLETED", "FAILED"} : Status(t) = "ADMITTED" /\ AppendEvent(t, s)
    BY <2>1, <2>2 DEF Finalize, Terminalize
  <2>5. CASE UNCHANGED history
    BY <2>3, <2>5 DEF Lifecycle!vars, Status, OwnsSlot
  <2> QED
    BY <1>0, <2>3, <2>4, <2>5, OutcomeMoves
<1>3. CASE UNCHANGED <<history, consumed>>
  BY <1>3 DEF Lifecycle!vars, Status, OwnsSlot
<1>4. \/ AdmissionNext \/ UNCHANGED <<history, consumed>>
      \/ \E e \in Executors : Finalize(e) \/ Terminalize(e)
  BY DEF Next, Start, ExecutorStep, TakeLock, LockTimeout, Authorize, NotAuthorized, Claim,
     ClaimConflict, PublishLedger, PublishResult, VerifyBefore, VerifyAfter, Raise,
     TerminalizeBusy, CrashExecutor, vars, admissionVars, ledgerVars, authorityVars
<1> QED
  BY <1>1, <1>2, <1>3, <1>4

\* With its executors the development runtime implements the lifecycle of a trial
\* to its outcome (finalize_verified_result, terminalize_failed_claim).
THEOREM ExecutionImplements == Spec => KeepsLifecycle
<1>1. Init => Lifecycle!Init
  BY InitLives DEF Init
<1>2. Inv /\ [Next]_vars => [Lifecycle!Next]_Lifecycle!vars
  BY RequestAssumption, ExecutionLives
<1> QED
  BY <1>1, <1>2, ExecutionSound, PTL DEF Spec, KeepsLifecycle, Lifecycle!Spec
=============================================================================
