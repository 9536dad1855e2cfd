-------------------------- MODULE DevelopmentTrial --------------------------
(***************************************************************************)
(* The development research runtime of Mission 102 above the admission of  *)
(* TrialAdmission.  An executor takes the lock of a trial, captures the    *)
(* authority for it, claims an execution specification, publishes an event *)
(* ledger and a result, verifies them by replay, completes the trial in    *)
(* the ledger, and verifies once more.  An exception after the claim fails *)
(* the trial; one before it, or a crash, leaves the trial as it is.  The   *)
(* lock and the artifacts belong to a result runtime (a directory), and    *)
(* nothing ties a trial to one of them.                                    *)
(*                                                                         *)
(* All the content of a specification other than the time of the authority *)
(* decision is fixed by the trial, and an event ledger and a result are    *)
(* functions of their specification: each is represented by that time.     *)
(***************************************************************************)
EXTENDS TrialAdmission

CONSTANTS Executors,   \* processes that run execute_development_trial()
          Runtimes,    \* result runtimes
          Free,        \* the holder of a lock nobody holds
          NoRuntime,   \* the runtime of an executor that is not in a run
          Absent,      \* an artifact that does not exist
          Torn         \* an artifact whose writer died inside the write

ASSUME ExecutionAssumption == /\ Free \notin Executors
                              /\ NoRuntime \notin Runtimes
                              /\ Absent \notin Nat /\ Torn \notin Nat /\ Absent # Torn

VARIABLES files,   \* the three artifacts of each trial in each runtime
          lock,    \* the lock file of each trial in each runtime
          run,     \* the run each executor is in
          link     \* trial_result_links: the result of each trial, or Absent

executionVars == <<files, lock, run, link>>
vars == <<admissionVars, executionVars>>

Artifact == Nat \cup {Absent, Torn}

Files == [spec : Artifact, ledger : Artifact, result : Artifact]

NoFiles == [spec |-> Absent, ledger |-> Absent, result |-> Absent]

NoRun == [pc |-> "idle", trial |-> NoTrial, runtime |-> NoRuntime, decision |-> 0]

Run == [pc : {"idle", "lock", "authorize", "claim", "ledger", "result",
              "verify", "finalize", "reverify", "fail"},
        trial : Trials \cup {NoTrial}, runtime : Runtimes \cup {NoRuntime},
        decision : Nat]

\* The artifacts where an executor works.
Here(e) == files[run[e].runtime][run[e].trial]

\* The run is past its claim: an exception now fails the trial.
Claimed(e) == run[e].pc \in {"ledger", "result", "verify", "finalize", "reverify", "fail"}

-----------------------------------------------------------------------------
(* What the authority store says. *)

\* Plausible bug: the window is looked at, the events are not.
CurrentAuthorityByWindow(t, at) ==
    /\ Slot(t) \in consumed
    /\ InWindow(PermitOf[t], at)

\* capture_authority_snapshot() for a new execution: the slot is the trial's
\* own, the permit is in its window, and no revocation is to be seen.
CurrentAuthority(t, at) ==
    /\ Slot(t) \in consumed
    /\ InWindow(PermitOf[t], at)
    /\ ~ Revoked(PermitOf[t])

\* The same for a replay: a revocation counts from the time it names.
HistoricalAuthority(t, at) ==
    /\ Slot(t) \in consumed
    /\ CurrentAt(PermitOf[t], at)

\* The replay of verify_development_result(): every artifact is whole and is
\* the one its specification determines, under authority at its decision time.
Replays(r, t) == LET f == files[r][t] IN
    /\ f.spec \in Nat
    /\ f.ledger = f.spec
    /\ f.result = f.spec
    /\ HistoricalAuthority(t, f.spec)

\* verify_development_result(require_finalized=True)
VerifiesFinal(r, t) == /\ Status(t) = "COMPLETED"
                       /\ Replays(r, t)
                       /\ link[t] = files[r][t].result

-----------------------------------------------------------------------------
Init == /\ AdmissionInit
        /\ files = [r \in Runtimes |-> [t \in Trials |-> NoFiles]]
        /\ lock = [r \in Runtimes |-> [t \in Trials |-> Free]]
        /\ run = [e \in Executors |-> NoRun]
        /\ link = [t \in Trials |-> Absent]

At(e, pc) == run[e].pc = pc

Proceed(e, pc) == run' = [run EXCEPT ![e].pc = pc]

\* Leaving the trial_lock() block, whatever the reason.
Leave(e) == /\ run' = [run EXCEPT ![e] = NoRun]
            /\ lock' = [lock EXCEPT ![run[e].runtime][run[e].trial] =
                          IF @ = e THEN Free ELSE @]

Put(e, artifacts) == files' = [files EXCEPT ![run[e].runtime][run[e].trial] = artifacts]

\* The preliminary read lets in an admitted trial of the development mission.
Start(e, t, r) ==
    /\ At(e, "idle")
    /\ Status(t) = "ADMITTED" /\ PermitOf[t] # NoPermit
    /\ run' = [run EXCEPT ![e] = [pc |-> "lock", trial |-> t, runtime |-> r,
                                  decision |-> 0]]
    /\ UNCHANGED <<admissionVars, files, lock, link>>

TakeLock(e) ==
    /\ At(e, "lock")
    /\ lock[run[e].runtime][run[e].trial] = Free
    /\ lock' = [lock EXCEPT ![run[e].runtime][run[e].trial] = e]
    /\ Proceed(e, "authorize")
    /\ UNCHANGED <<admissionVars, files, link>>

\* The lock was not had within ten seconds.
LockTimeout(e) ==
    /\ At(e, "lock")
    /\ lock[run[e].runtime][run[e].trial] # Free
    /\ Leave(e)
    /\ UNCHANGED <<admissionVars, files, link>>

\* The reads of the ledger before and after bracket the snapshot of the permit
\* store, which no writer can pass while it is open: one linearization point.
Authorize(e) ==
    LET t == run[e].trial IN
    /\ At(e, "authorize")
    /\ Status(t) = "ADMITTED" /\ link[t] = Absent
    /\ CurrentAuthority(t, now)
    /\ run' = [run EXCEPT ![e].pc = "claim", ![e].decision = now]
    /\ UNCHANGED <<admissionVars, files, lock, link>>

\* No authority, a dirty repository, a dataset that does not match.
NotAuthorized(e) ==
    /\ At(e, "authorize")
    /\ Leave(e)
    /\ UNCHANGED <<admissionVars, files, link>>

\* Plausible bug: the new specification replaces the one that was there.
ClaimReplacing(e) ==
    /\ At(e, "claim")
    /\ Put(e, [Here(e) EXCEPT !.spec = run[e].decision])
    /\ Proceed(e, "ledger")
    /\ UNCHANGED <<admissionVars, lock, link>>

\* claim_execution_spec(): identical bytes are taken for this run's own.
Claim(e) ==
    /\ At(e, "claim")
    /\ Here(e).spec \in {Absent, run[e].decision}
    /\ Put(e, [Here(e) EXCEPT !.spec = run[e].decision])
    /\ Proceed(e, "ledger")
    /\ UNCHANGED <<admissionVars, lock, link>>

\* EXECUTION_SPEC_CONFLICT, or a file that does not parse: raised outside the
\* try block, so the trial is not failed.
ClaimConflict(e) ==
    /\ At(e, "claim")
    /\ Here(e).spec \notin {Absent, run[e].decision}
    /\ Leave(e)
    /\ UNCHANGED <<admissionVars, files, link>>

\* Load the events, run the kernel, publish the event ledger.
PublishLedger(e) ==
    /\ At(e, "ledger")
    /\ Here(e).ledger \in {Absent, run[e].decision}
    /\ Put(e, [Here(e) EXCEPT !.ledger = run[e].decision])
    /\ Proceed(e, "result")
    /\ UNCHANGED <<admissionVars, lock, link>>

PublishResult(e) ==
    /\ At(e, "result")
    /\ Here(e).result \in {Absent, run[e].decision}
    /\ Put(e, [Here(e) EXCEPT !.result = run[e].decision])
    /\ Proceed(e, "verify")
    /\ UNCHANGED <<admissionVars, lock, link>>

\* The result that was verified is the one Finalize will link.
VerifyBefore(e) ==
    LET t == run[e].trial IN
    /\ At(e, "verify")
    /\ Status(t) = "ADMITTED" /\ link[t] = Absent
    /\ Replays(run[e].runtime, t)
    /\ run' = [run EXCEPT ![e].pc = "finalize",
                          ![e].decision = Here(e).result]
    /\ UNCHANGED <<admissionVars, files, lock, link>>

\* Plausible bug: the transaction trusts the state that was verified before it.
FinalizeUnseen(e) ==
    /\ At(e, "finalize")
    /\ link' = [link EXCEPT ![run[e].trial] = run[e].decision]
    /\ AppendEvent(run[e].trial, "COMPLETED")
    /\ Proceed(e, "reverify")
    /\ UNCHANGED <<now, budgets, reservedAt, authorityVars, call, lost, files, lock>>

\* finalize_verified_result(): the link and the COMPLETED event in one
\* transaction, which looks at the ledger again.  The same result, linked at
\* the same time by the executor of another runtime, is taken for a replay.
Finalize(e) ==
    LET t == run[e].trial IN
    /\ At(e, "finalize")
    /\ \/ /\ link[t] = Absent /\ Status(t) = "ADMITTED"
          /\ link' = [link EXCEPT ![t] = run[e].decision]
          /\ AppendEvent(t, "COMPLETED")
       \/ /\ link[t] = run[e].decision /\ Status(t) = "COMPLETED"
          /\ UNCHANGED <<link, history>>
    /\ Proceed(e, "reverify")
    /\ UNCHANGED <<now, budgets, reservedAt, authorityVars, call, lost, files, lock>>

VerifyAfter(e) ==
    /\ At(e, "reverify")
    /\ VerifiesFinal(run[e].runtime, run[e].trial)
    /\ Leave(e)
    /\ UNCHANGED <<admissionVars, files, link>>

\* Plausible bug: an exception of the run propagates without the FAILED event.
RaiseThrough(e) ==
    /\ Claimed(e) /\ ~ At(e, "fail")
    /\ Leave(e)
    /\ UNCHANGED <<admissionVars, files, link>>

\* Any exception of a run that has claimed, and every check that refuses.
Raise(e) ==
    /\ Claimed(e) /\ ~ At(e, "fail")
    /\ Proceed(e, "fail")
    /\ UNCHANGED <<admissionVars, files, lock, link>>

\* terminalize_failed_claim(): only an admitted trial is failed.
Terminalize(e) ==
    LET t == run[e].trial IN
    /\ At(e, "fail")
    /\ \/ Status(t) = "ADMITTED" /\ AppendEvent(t, "FAILED")
       \/ Status(t) # "ADMITTED" /\ UNCHANGED history
    /\ Leave(e)
    /\ UNCHANGED <<now, budgets, reservedAt, authorityVars, call, lost, files, link>>

\* The ledger stays locked: the failure to record the failure is swallowed.
TerminalizeBusy(e) ==
    /\ At(e, "fail")
    /\ lost' = lost \cup {run[e].trial}
    /\ Leave(e)
    /\ UNCHANGED <<now, ledgerVars, authorityVars, call, files, link>>

\* What a process that dies was writing may be left in part at its final path
\* (write_exclusive writes there directly).
Tear(e) ==
    \/ /\ At(e, "claim") /\ Here(e).spec = Absent
       /\ Put(e, [Here(e) EXCEPT !.spec = Torn])
    \/ /\ At(e, "ledger") /\ Here(e).ledger = Absent
       /\ Put(e, [Here(e) EXCEPT !.ledger = Torn])
    \/ /\ At(e, "result") /\ Here(e).result = Absent
       /\ Put(e, [Here(e) EXCEPT !.result = Torn])

\* The process dies, and the lock goes with it.
CrashExecutor(e) ==
    /\ ~ At(e, "idle")
    /\ UNCHANGED files \/ Tear(e)
    /\ lost' = IF At(e, "claim") \/ Claimed(e) THEN lost \cup {run[e].trial} ELSE lost
    /\ Leave(e)
    /\ UNCHANGED <<now, ledgerVars, authorityVars, call, link>>

ExecutorStep(e) ==
    \/ TakeLock(e) \/ LockTimeout(e) \/ Authorize(e) \/ NotAuthorized(e)
    \/ Claim(e) \/ ClaimConflict(e) \/ PublishLedger(e) \/ PublishResult(e)
    \/ VerifyBefore(e) \/ Finalize(e) \/ VerifyAfter(e) \/ Raise(e)
    \/ Terminalize(e)

Next == \/ AdmissionNext /\ UNCHANGED executionVars
        \/ \E e \in Executors :
              \/ \E t \in Trials, r \in Runtimes : Start(e, t, r)
              \/ ExecutorStep(e) \/ TerminalizeBusy(e) \/ CrashExecutor(e)

Spec == Init /\ [][Next]_vars

-----------------------------------------------------------------------------
(* Properties. *)

TypeOK == /\ AdmissionTypeOK
          /\ files \in [Runtimes -> [Trials -> Files]]
          /\ lock \in [Runtimes -> [Trials -> Executors \cup {Free}]]
          /\ run \in [Executors -> Run]
          /\ link \in [Trials -> Nat \cup {Absent}]

Finished(t) == Status(t) \in {"COMPLETED", "FAILED"}

\* Nothing follows a terminal event, the result is linked exactly when the
\* trial is completed, and one runtime holds that result with the specification
\* and the event ledger that it comes from.
OneOutcome(t) ==
    /\ \A i \in 1 .. Len(history[t]) - 1 : history[t][i] \in {"RESERVED", "ADMITTED"}
    /\ (link[t] # Absent) <=> (Status(t) = "COMPLETED")
    /\ link[t] # Absent =>
          \E r \in Runtimes : files[r][t] = [spec |-> link[t], ledger |-> link[t],
                                             result |-> link[t]]

\* A development trial has one outcome, and a completed one its evidence, whatever
\* executors of whatever runtimes raced for it.
CompletedOnce == \A t \in Trials : PermitOf[t] # NoPermit => OneOutcome(t)

Authorised(t, at) ==
    /\ InWindow(PermitOf[t], at)
    /\ Revoked(PermitOf[t]) => at <= permit[PermitOf[t]].revokedWhen

\* Revocation committed before the authority snapshot prevents execution:
\* every specification that exists was authorised in the permit's window, no
\* later than the revocation was committed
\* (docs/DELTAGRID_DEVELOPMENT_RESEARCH_RUNTIME.md:41-45).
AuthorisedBeforeRevocation ==
    \A r \in Runtimes, t \in Trials :
        files[r][t].spec \in Nat => Authorised(t, files[r][t].spec)

\* No two executors write for one trial in one runtime.
OneWriter ==
    \A e, f \in Executors :
        /\ e # f
        /\ run[e].pc \notin {"idle", "lock"} /\ run[f].pc \notin {"idle", "lock"}
        => <<run[e].trial, run[e].runtime>> # <<run[f].trial, run[f].runtime>>

\* A claim that no running executor stands behind belongs to a trial that has
\* ended, or to one whose executor crashed or could not reach the ledger.
ClaimAnswered ==
    \A r \in Runtimes, t \in Trials : files[r][t].spec # Absent =>
        \/ Finished(t) \/ t \in lost
        \/ \E e \in Executors : run[e].trial = t /\ run[e].runtime = r /\ Claimed(e)

\* What there is of artifacts f is there in artifacts g.
Keeps(f, g) == /\ f.spec # Absent => g.spec = f.spec
               /\ f.ledger # Absent => g.ledger = f.ledger
               /\ f.result # Absent => g.result = f.result

\* What was published is never replaced, and what a trial is linked to never
\* changes: a retry meets the evidence of the run before it
\* (claim_execution_spec, publish_artifact).
EvidenceStands ==
    [][/\ \A r \in Runtimes, t \in Trials : Keeps(files[r][t], files'[r][t])
       /\ \A t \in Trials : link[t] # Absent => link'[t] = link[t]]_vars

\* What an executor may rely on between its steps: its trial was admitted with
\* a permit, the lock is its own, its decision was authorised when it claims,
\* and the artifacts it verified are the ones it finalizes.
RunStands(e) ==
    LET t == run[e].trial IN
    /\ run[e].pc # "idle" => /\ t \in Trials /\ run[e].runtime \in Runtimes
                             /\ PermitOf[t] # NoPermit
                             /\ Status(t) = "ADMITTED" \/ Finished(t)
    /\ run[e].pc \notin {"idle", "lock"} => lock[run[e].runtime][t] = e
    /\ run[e].pc = "claim" => run[e].decision <= now /\ Authorised(t, run[e].decision)
    /\ run[e].pc = "finalize" => Here(e) = [spec |-> run[e].decision,
                                           ledger |-> run[e].decision,
                                           result |-> run[e].decision]

\* A specification is of a trial with a permit and of a time that has come.
SpecsStand == \A r \in Runtimes, t \in Trials : files[r][t].spec \in Nat =>
                  PermitOf[t] # NoPermit /\ files[r][t].spec <= now

\* The inductive invariant: that of the admission, and what the executors, the
\* artifacts and the outcomes add to it (development_runtime, all operations).
Inv == /\ AdmissionInv /\ TypeOK
       /\ \A e \in Executors : RunStands(e)
       /\ SpecsStand /\ CompletedOnce /\ AuthorisedBeforeRevocation /\ ClaimAnswered

\* Completed verified results remain readable after later revocation: a result
\* of a completed trial that once verified goes on to verify
\* (docs/DELTAGRID_DEVELOPMENT_RESEARCH_RUNTIME.md:45-46).
CompletedStaysReadable ==
    [][\A t \in Trials, r \in Runtimes : VerifiesFinal(r, t) => VerifiesFinal(r, t)']_vars
=============================================================================
