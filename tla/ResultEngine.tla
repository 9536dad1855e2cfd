----------------------------- MODULE ResultEngine -----------------------------
(***************************************************************************)
(* The canonical result engine of Mission 95, which executes the admitted  *)
(* trials of synthetic controls, beside the development runtime of         *)
(* Mission 102: both write the events and result links of one ledger.      *)
(* Engines take no lock.  What they compute is determined by the trial, a  *)
(* file is linked to its name when it is whole, and an execution that      *)
(* finds an artifact, a link or the COMPLETED event of another one takes   *)
(* it for its own.  An exception before the trial is securely bound writes *)
(* nothing; one after it fails the trial, unless the trial turns out to be *)
(* completed.                                                              *)
(***************************************************************************)
EXTENDS DevelopmentTrial

CONSTANTS Engines      \* processes that run CanonicalResultEngineService.execute()

VARIABLES output,      \* the artifacts of each control in each result root
          session,     \* the execution each engine is in
          told         \* what the last execution of each engine returned or raised

engineVars == <<output, session, told>>
trialVars == <<vars, engineVars>>

Controls == {t \in Trials : PermitOf[t] = NoPermit}

\* The one result, and the one link, that a control can have.
TheResult == 0

NoSession == [pc |-> "idle", trial |-> NoTrial, root |-> NoRuntime]

Session == [pc : {"idle", "status", "replay", "bind", "ledger", "result", "candidate",
                  "complete", "contended", "reload", "recover", "latest", "append",
                  "unsure"},
            trial : Trials \cup {NoTrial}, root : Runtimes \cup {NoRuntime}]

Told == [kind : {"NOTHING", "RESULT", "FAILURE", "TRIAL_STATE_NOT_ADMITTED",
                 "RESULT_ARTIFACT_MISMATCH", "ADMISSION_IDENTITY_MISMATCH",
                 "LINKED_WHILE_ADMITTED", "DATABASE_ERROR", "SQLITE_CONTENTION",
                 "TRIAL_TERMINALIZATION_FAILED"},
         trial : Trials \cup {NoTrial}, root : Runtimes \cup {NoRuntime}]

NothingTold == [kind |-> "NOTHING", trial |-> NoTrial, root |-> NoRuntime]

\* load_linked_result(): the completed trial's link, and both files in this root.
Loads(r, t) == /\ Status(t) = "COMPLETED" /\ link[t] = TheResult
               /\ output[r][t] = {"ledger", "result"}

\* Securely bound: an exception now may close the trial.
Bound(e) == session[e].pc \in {"ledger", "result", "candidate", "complete", "contended",
                               "reload"}

-----------------------------------------------------------------------------
EngineInit == /\ Init
              /\ output = [r \in Runtimes |-> [t \in Trials |-> {}]]
              /\ session = [e \in Engines |-> NoSession]
              /\ told = [e \in Engines |-> NothingTold]

In(e, pc) == session[e].pc = pc

Turn(e, pc) == session' = [session EXCEPT ![e].pc = pc]

Tell(e, kind) ==
    /\ session' = [session EXCEPT ![e] = NoSession]
    /\ told' = [told EXCEPT ![e] = [kind |-> kind, trial |-> session[e].trial,
                                    root |-> session[e].root]]

Write(e, artifact) ==
    output' = [output EXCEPT ![session[e].root][session[e].trial] = @ \cup {artifact}]

\* The caller has the decision that admitted the trial.
Execute(e, t, r) ==
    /\ In(e, "idle")
    /\ t \in Controls /\ Admitted(t)
    /\ session' = [session EXCEPT ![e] = [pc |-> "status", trial |-> t, root |-> r]]
    /\ told' = [told EXCEPT ![e] = NothingTold]
    /\ UNCHANGED <<vars, output>>

ReadStatus(e) ==
    LET s == Status(session[e].trial) IN
    /\ In(e, "status")
    /\ \/ s = "COMPLETED" /\ Turn(e, "replay") /\ UNCHANGED told
       \/ s = "ADMITTED" /\ Turn(e, "bind") /\ UNCHANGED told
       \/ s \notin {"COMPLETED", "ADMITTED"} /\ Tell(e, "TRIAL_STATE_NOT_ADMITTED")
    /\ UNCHANGED <<vars, output>>

\* A later identical execution, from any result root.
Replay(e) ==
    /\ In(e, "replay")
    /\ \/ Loads(session[e].root, session[e].trial) /\ Tell(e, "RESULT")
       \/ Tell(e, "RESULT_ARTIFACT_MISMATCH")
    /\ UNCHANGED <<vars, output>>

\* The link is read after the status: a trial completed in between is raised as
\* INTERNAL_INTEGRITY_FAILURE.  A dataset or control that does not match is refused.
Bind(e) ==
    /\ In(e, "bind")
    /\ \/ link[session[e].trial] = Absent /\ Turn(e, "ledger") /\ UNCHANGED told
       \/ link[session[e].trial] = Absent /\ Tell(e, "ADMISSION_IDENTITY_MISMATCH")
       \/ link[session[e].trial] # Absent /\ Tell(e, "LINKED_WHILE_ADMITTED")
    /\ UNCHANGED <<vars, output>>

\* A ledger that cannot be read raises the same token before the binding, and
\* the database's own exception inside _terminalize_bound_failure().
ReadFails(e) ==
    /\ session[e].pc \in {"status", "replay", "bind", "recover"}
    /\ Tell(e, "DATABASE_ERROR")
    /\ UNCHANGED <<vars, output>>

\* publish_canonical(): a whole file, linked to its name or found there.
WriteLedger(e) ==
    /\ In(e, "ledger") /\ Write(e, "ledger") /\ Turn(e, "result")
    /\ UNCHANGED <<vars, told>>

WriteResult(e) ==
    /\ In(e, "result") /\ Write(e, "result") /\ Turn(e, "candidate")
    /\ UNCHANGED <<vars, told>>

VerifyCandidate(e) ==
    /\ In(e, "candidate")
    /\ output[session[e].root][session[e].trial] = {"ledger", "result"}
    /\ Turn(e, "complete")
    /\ UNCHANGED <<vars, output, told>>

\* Plausible bug: the transaction trusts the status that was read at the start.
CompleteUnseen(e) ==
    LET t == session[e].trial IN
    /\ In(e, "complete")
    /\ link' = [link EXCEPT ![t] = TheResult]
    /\ AppendEvent(t, "COMPLETED")
    /\ Turn(e, "reload")
    /\ UNCHANGED <<now, budgets, reservedAt, authorityVars, call, lost, files, lock, run,
                   output, told>>

\* _complete_with_verified_result(): link and event in one transaction.
Complete(e) ==
    LET t == session[e].trial IN
    /\ In(e, "complete")
    /\ \/ /\ link[t] = TheResult /\ Status(t) = "COMPLETED"
          /\ Turn(e, "reload") /\ UNCHANGED <<link, history>>
       \/ /\ link[t] = Absent /\ Status(t) = "ADMITTED"
          /\ link' = [link EXCEPT ![t] = TheResult] /\ AppendEvent(t, "COMPLETED")
          /\ Turn(e, "reload")
       \/ /\ link[t] = Absent /\ Status(t) # "ADMITTED"
          /\ Turn(e, "recover") /\ UNCHANGED <<link, history>>
    /\ UNCHANGED <<now, budgets, reservedAt, authorityVars, call, lost, files, lock, run,
                   output, told>>

CompleteBusy(e) ==
    /\ In(e, "complete") /\ Turn(e, "contended")
    /\ UNCHANGED <<vars, output, told>>

\* Contention is reported, unless another execution has completed the trial.
Contended(e) ==
    /\ In(e, "contended")
    /\ \/ Loads(session[e].root, session[e].trial) /\ Tell(e, "RESULT")
       \/ Tell(e, "SQLITE_CONTENTION")
    /\ UNCHANGED <<vars, output>>

Reload(e) ==
    /\ In(e, "reload") /\ Loads(session[e].root, session[e].trial)
    /\ Tell(e, "RESULT")
    /\ UNCHANGED <<vars, output>>
-----------------------------------------------------------------------------
(* _terminalize_bound_failure() *)

\* Any exception of a bound execution; the file may have been linked before it.
BoundFailure(e) ==
    /\ Bound(e) /\ Turn(e, "recover")
    /\ \/ UNCHANGED output
       \/ In(e, "ledger") /\ Write(e, "ledger")
       \/ In(e, "result") /\ Write(e, "result")
    /\ UNCHANGED <<vars, told>>

\* A result that cannot be read is as good as none.
Recover(e) ==
    /\ In(e, "recover")
    /\ \/ Loads(session[e].root, session[e].trial) /\ Tell(e, "RESULT")
       \/ Turn(e, "latest") /\ UNCHANGED told
    /\ UNCHANGED <<vars, output>>

ReadLatest(e) ==
    LET s == Status(session[e].trial) IN
    /\ In(e, "latest")
    /\ \/ s = "ADMITTED" /\ Turn(e, "append") /\ UNCHANGED told
       \/ s # "ADMITTED" /\ Tell(e, "FAILURE")
       \/ Turn(e, "unsure") /\ UNCHANGED told
    /\ UNCHANGED <<vars, output>>

\* append_event() looks at the transition again; the event is read back.
AppendFailed(e) ==
    LET t == session[e].trial IN
    /\ In(e, "append")
    /\ \/ /\ Status(t) = "ADMITTED" /\ AppendEvent(t, "FAILED")
          /\ Tell(e, "FAILURE") \/ (Turn(e, "unsure") /\ UNCHANGED told)
       \/ Turn(e, "unsure") /\ UNCHANGED <<history, told>>
    /\ UNCHANGED <<now, budgets, reservedAt, authorityVars, call, lost, files, lock, run,
                   link, output>>

\* Plausible bug: an event that could not be written is taken for one that is.
UnsureTakenForFailed(e) ==
    /\ In(e, "unsure") /\ Tell(e, "FAILURE")
    /\ UNCHANGED <<vars, output>>

\* The FAILED event of another execution may have another reason.
Unsure(e) ==
    LET t == session[e].trial IN
    /\ In(e, "unsure")
    /\ \/ Status(t) = "FAILED" /\ Tell(e, "FAILURE")
       \/ Loads(session[e].root, t) /\ Tell(e, "RESULT")
       \/ Tell(e, "TRIAL_TERMINALIZATION_FAILED")
    /\ UNCHANGED <<vars, output>>

CrashEngine(e) ==
    /\ ~ In(e, "idle")
    /\ session' = [session EXCEPT ![e] = NoSession]
    /\ UNCHANGED <<vars, output, told>>

EngineStep(e) ==
    \/ ReadStatus(e) \/ Replay(e) \/ Bind(e) \/ ReadFails(e) \/ WriteLedger(e)
    \/ WriteResult(e) \/ VerifyCandidate(e) \/ Complete(e) \/ CompleteBusy(e) \/ Contended(e) \/ Reload(e)
    \/ BoundFailure(e) \/ Recover(e) \/ ReadLatest(e) \/ AppendFailed(e) \/ Unsure(e)
    \/ CrashEngine(e)

EngineNext == \/ Next /\ UNCHANGED engineVars
              \/ \E e \in Engines : \/ \E t \in Trials, r \in Runtimes : Execute(e, t, r)
                                    \/ EngineStep(e)

EngineSpec == EngineInit /\ [][EngineNext]_trialVars

-----------------------------------------------------------------------------
(* Properties. *)

EngineTypeOK == /\ TypeOK
                /\ output \in [Runtimes -> [Trials -> SUBSET {"ledger", "result"}]]
                /\ session \in [Engines -> Session]
                /\ told \in [Engines -> Told]

\* Only a verified link and the matching COMPLETED event make a result, and a
\* control has one outcome however many engines race without a lock: it is
\* completed exactly when it is linked, in some root both of its artifacts are
\* there, nothing follows the outcome, and a failed control has no result
\* (engine_service/service.py, TrialLedger._complete_with_verified_result).
Settled(t) ==
    /\ \A i \in 1 .. Len(history[t]) - 1 : history[t][i] \in {"RESERVED", "ADMITTED"}
    /\ link[t] = IF Status(t) = "COMPLETED" THEN TheResult ELSE Absent
    /\ Status(t) = "COMPLETED" => \E r \in Runtimes : Loads(r, t)

ControlSettledOnce == \A t \in Controls : Settled(t)

\* What an execution was told stands: a result it was given can be loaded from
\* its root for good, a failure of its own leaves a trial that nobody can run
\* again, and the integrity failure that is raised before the binding is told
\* only of a trial that another execution has meanwhile completed
\* (engine_service/service.py:execute, _terminalize_bound_failure).
AnswerStands(e) ==
    LET t == told[e].trial IN
    /\ told[e].kind = "RESULT" => Loads(told[e].root, t)
    /\ told[e].kind = "FAILURE" => Finished(t)
    /\ told[e].kind = "TRIAL_STATE_NOT_ADMITTED" => Status(t) = "FAILED"
    /\ told[e].kind = "LINKED_WHILE_ADMITTED" => \E r \in Runtimes : Loads(r, t)

EngineAnswersStand == \A e \in Engines : AnswerStands(e)

\* What an execution may rely on between its steps, and what an answer names: a
\* control that was admitted, in a result root, with both artifacts when it is
\* about to complete.
SessionStands(e) ==
    LET t == session[e].trial IN
    /\ session[e].pc # "idle" =>
          t \in Controls /\ session[e].root \in Runtimes /\ Admitted(t)
    /\ In(e, "complete") => output[session[e].root][t] = {"ledger", "result"}
    /\ told[e].kind # "NOTHING" => told[e].trial \in Controls /\ told[e].root \in Runtimes

\* What was admitted stays so until it has an outcome.
AdmittedHasOutcome ==
    \A t \in Controls : Admitted(t) => Status(t) = "ADMITTED" \/ Finished(t)

\* The inductive invariant: that of the development runtime, and what the engines
\* add to it (engine_service/service.py, all operations).
EngineInv == /\ Inv /\ EngineTypeOK
             /\ \A e \in Engines : SessionStands(e)
             /\ AdmittedHasOutcome /\ ControlSettledOnce /\ EngineAnswersStand
=============================================================================
