-------------------------- MODULE ResultEngineProofs --------------------------
(***************************************************************************)
(* Proofs about ResultEngine, for every set of trials, engines, executors  *)
(* and result roots.  The steps of the admission and of the development    *)
(* runtime keep Inv by DevelopmentTrialProofs; the engines' steps touch    *)
(* the rows of controls only, which executors never do.                    *)
(***************************************************************************)
EXTENDS ResultEngine, DevelopmentTrialProofs

Pcs == {"status", "replay", "bind", "ledger", "result", "candidate", "complete",
        "contended", "reload", "recover", "latest", "append", "unsure"}

Kinds == {"RESULT", "FAILURE", "TRIAL_STATE_NOT_ADMITTED", "RESULT_ARTIFACT_MISMATCH",
          "ADMISSION_IDENTITY_MISMATCH", "LINKED_WHILE_ADMITTED", "DATABASE_ERROR",
          "SQLITE_CONTENTION", "TRIAL_TERMINALIZATION_FAILED"}

Both == {"ledger", "result"}

OutputGrows == /\ output' \in [Runtimes -> [Trials -> SUBSET Both]]
               /\ \A r \in Runtimes, t \in Trials : output[r][t] \subseteq output'[r][t]

\* What a control came to is not changed.
ControlsStay ==
    \A t \in Controls :
        /\ Admitted(t) => Admitted(t)'
        /\ Finished(t) => Status(t)' = Status(t) /\ link'[t] = link[t]

-----------------------------------------------------------------------------
(* The helpers of the actions. *)

LEMMA TurnFacts ==
    ASSUME EngineTypeOK, NEW e \in Engines, NEW pc \in Pcs, Turn(e, pc)
    PROVE /\ session' \in [Engines -> Session]
          /\ session'[e].pc = pc /\ session'[e].trial = session[e].trial
          /\ session'[e].root = session[e].root
          /\ \A f \in Engines \ {e} : session'[f] = session[f]
<1>1. session[e] \in Session
  BY DEF EngineTypeOK
<1>2. session' = [session EXCEPT ![e] = [session[e] EXCEPT !.pc = pc]]
  BY DEF Turn
<1>3. [session[e] EXCEPT !.pc = pc] \in Session
  BY <1>1 DEF Session, Pcs
<1> QED
  BY <1>1, <1>2, <1>3 DEF EngineTypeOK, Session

LEMMA NoSessionTyped == NoSession \in Session /\ NoSession.pc = "idle"
BY DEF NoSession, Session

LEMMA TellFacts ==
    ASSUME EngineTypeOK, NEW e \in Engines, NEW kind \in Kinds, Tell(e, kind)
    PROVE /\ session' \in [Engines -> Session] /\ told' \in [Engines -> Told]
          /\ session'[e].pc = "idle"
          /\ told'[e].kind = kind /\ told'[e].trial = session[e].trial
          /\ told'[e].root = session[e].root
          /\ \A f \in Engines \ {e} : session'[f] = session[f] /\ told'[f] = told[f]
<1>1. session[e] \in Session
  BY DEF EngineTypeOK
<1>2. [kind |-> kind, trial |-> session[e].trial, root |-> session[e].root] \in Told
  BY <1>1 DEF Session, Told, Kinds
<1> QED
  BY <1>2, NoSessionTyped DEF Tell, EngineTypeOK

\* An artifact is added to those of the control, in the root of the engine.
LEMMA WriteFacts ==
    ASSUME EngineTypeOK, NEW e \in Engines, NEW artifact \in Both, Write(e, artifact)
    PROVE OutputGrows
<1> PICK r, t : r = session[e].root /\ t = session[e].trial
  OBVIOUS
<1>1. output' = [output EXCEPT ![r][t] = @ \cup {artifact}]
  BY DEF Write
<1>2. output \in [Runtimes -> [Trials -> SUBSET Both]]
  BY DEF EngineTypeOK, Both
<1>3. \A q \in Runtimes, u \in Trials :
        output'[q][u] = IF q = r /\ u = t THEN output[q][u] \cup {artifact} ELSE output[q][u]
  BY <1>1, <1>2
<1>4. output' \in [Runtimes -> [Trials -> SUBSET Both]]
  <2> DEFINE row == [output[r] EXCEPT ![t] = @ \cup {artifact}]
  <2>1. CASE r \in Runtimes
    <3> PICK held : held = output[r]
      OBVIOUS
    <3>0. held \in [Trials -> SUBSET Both]
      BY <1>2, <2>1
    <3>1. row \in [Trials -> SUBSET Both]
      <4>1. row = [held EXCEPT ![t] = held[t] \cup {artifact}]
        OBVIOUS
      <4>2. t \in Trials => held[t] \cup {artifact} \in SUBSET Both
        BY <3>0
      <4> HIDE DEF row, Both
      <4> QED
        BY <3>0, <4>1, <4>2
    <3>2. output' = [output EXCEPT ![r] = row]
      BY <1>1
    <3> HIDE DEF row, Both
    <3> QED
      BY <1>2, <3>1, <3>2
  <2>2. CASE r \notin Runtimes
    <3>1. output' = output
      BY <1>1, <1>2, <2>2
    <3> QED
      BY <1>2, <3>1
  <2> QED
    BY <2>1, <2>2
<1> QED
  BY <1>3, <1>4 DEF OutputGrows

LEMMA OutputKept == ASSUME EngineTypeOK, UNCHANGED output PROVE OutputGrows
BY DEF OutputGrows, EngineTypeOK, Both

-----------------------------------------------------------------------------
(* Controls. *)

LEMMA ControlFacts ==
    ASSUME EngineInv, NEW t \in Controls
    PROVE /\ t \in Trials /\ PermitOf[t] = NoPermit /\ Settled(t)
          /\ Admitted(t) => Status(t) = "ADMITTED" \/ Finished(t)
BY DEF EngineInv, Controls, ControlSettledOnce, AdmittedHasOutcome

\* A result that can be loaded can be loaded for good.
LEMMA LoadsForGood ==
    ASSUME ControlsStay, OutputGrows, NEW t \in Controls, NEW r \in Runtimes, Loads(r, t)
    PROVE Loads(r, t)'
<1>1. t \in Trials /\ Finished(t)
  BY DEF Controls, Loads, Finished
<1>2. output'[r][t] = Both
  BY <1>1 DEF OutputGrows, Loads, Both
<1> QED
  BY <1>1, <1>2 DEF ControlsStay, Loads, Both

LEMMA SettledUndisturbed ==
    ASSUME ControlsStay, OutputGrows, NEW t \in Controls, Settled(t),
           history'[t] = history[t], link'[t] = link[t]
    PROVE Settled(t)'
<1>1. Status(t)' = Status(t)
  BY DEF Status
<1>2. \A r \in Runtimes : Loads(r, t) => Loads(r, t)'
  BY LoadsForGood
<1> QED
  BY <1>1, <1>2 DEF Settled

\* An event of a control that has no outcome yet, or the outcome itself.
LEMMA SettledFromEvent ==
    ASSUME AdmissionTypeOK, NEW t \in Trials, Settled(t), NEW s \in Statuses,
           AppendEvent(t, s), Status(t) \in {"none", "RESERVED", "ADMITTED"},
           \/ s # "COMPLETED" /\ link'[t] = link[t]
           \/ /\ s = "COMPLETED" /\ link'[t] = TheResult
              /\ \E r \in Runtimes : output'[r][t] = Both
    PROVE Settled(t)'
<1>1. history[t] \in Seq(Statuses) /\ history'[t] = Append(history[t], s)
  BY DEF AppendEvent, AdmissionTypeOK
<1>2. /\ Len(history[t]) \in Nat /\ Len(history'[t]) = Len(history[t]) + 1
      /\ history'[t][Len(history[t]) + 1] = s
      /\ \A i \in 1 .. Len(history[t]) : history'[t][i] = history[t][i]
  BY <1>1, AppendFacts
<1>3. Status(t)' = s
  BY EventFacts
<1>4. \A i \in 1 .. Len(history[t]) : history[t][i] \in {"RESERVED", "ADMITTED"}
  <2>1. CASE history[t] = <<>>
    BY <2>1
  <2>2. CASE history[t] # <<>>
    <3>1. Status(t) = history[t][Len(history[t])] /\ Status(t) # "none"
      BY <1>1, <2>2 DEF Status, Statuses
    <3> QED
      BY <1>2, <3>1 DEF Settled
  <2> QED
    BY <2>1, <2>2
<1>5. \A i \in 1 .. Len(history'[t]) - 1 : history'[t][i] \in {"RESERVED", "ADMITTED"}
  BY <1>2, <1>4
<1>6. s # "COMPLETED" => link[t] = Absent
  BY DEF Settled
<1> QED
  BY <1>3, <1>5, <1>6 DEF Settled, Loads, Both

-----------------------------------------------------------------------------
(* Sessions and answers. *)

LEMMA SessionUndisturbed ==
    ASSUME EngineTypeOK, ControlsStay, OutputGrows, NEW f \in Engines, SessionStands(f),
           session'[f] = session[f], told'[f] = told[f]
    PROVE SessionStands(f)'
<1> PICK t, r : t = session[f].trial /\ r = session[f].root
  OBVIOUS
<1>1. session[f].pc # "idle" => t \in Controls /\ r \in Runtimes /\ Admitted(t)'
  BY DEF SessionStands, ControlsStay
<1>2. session[f].pc = "complete" => output'[r][t] = Both
  <2> SUFFICES ASSUME session[f].pc = "complete" PROVE output'[r][t] = Both
    OBVIOUS
  <2>1. output[r][t] = Both /\ t \in Trials /\ r \in Runtimes
    BY <1>1 DEF SessionStands, In, Controls, Both
  <2>2. output[r][t] \subseteq output'[r][t] /\ output'[r][t] \in SUBSET Both
    BY <2>1 DEF OutputGrows
  <2> QED
    BY <2>1, <2>2
<1> QED
  BY <1>1, <1>2 DEF SessionStands, In, Both

LEMMA AnswerUndisturbed ==
    ASSUME EngineTypeOK, ControlsStay, OutputGrows, NEW f \in Engines, SessionStands(f),
           AnswerStands(f), told'[f] = told[f]
    PROVE AnswerStands(f)'
<1> PICK t, r : t = told[f].trial /\ r = told[f].root
  OBVIOUS
<1>1. told[f].kind # "NOTHING" => t \in Controls /\ r \in Runtimes
  BY DEF SessionStands
<1>2. t \in Controls => \A q \in Runtimes : Loads(q, t) => Loads(q, t)'
  BY LoadsForGood
<1>3. t \in Controls /\ Finished(t) => Finished(t)' /\ Status(t)' = Status(t)
  BY DEF ControlsStay, Finished
<1> QED
  BY <1>1, <1>2, <1>3 DEF AnswerStands, Finished

\* What is left to show of a step.
LEMMA EngineAssemble ==
    ASSUME EngineInv, Inv', ControlsStay, OutputGrows,
           session' \in [Engines -> Session], told' \in [Engines -> Told],
           NEW E \in SUBSET Engines, \A e \in E : SessionStands(e)' /\ AnswerStands(e)',
           \A f \in Engines \ E : session'[f] = session[f] /\ told'[f] = told[f],
           \A t \in Controls : Settled(t)' /\ (Admitted(t)' => Begun(t)')
    PROVE EngineInv'
<1>1. EngineTypeOK /\ EngineTypeOK'
  BY DEF EngineInv, EngineTypeOK, Inv, OutputGrows, Both
<1>2. \A f \in Engines : SessionStands(f) /\ AnswerStands(f)
  BY DEF EngineInv, EngineAnswersStand
<1>3. \A f \in Engines : SessionStands(f)' /\ AnswerStands(f)'
  BY <1>1, <1>2, SessionUndisturbed, AnswerUndisturbed
<1>4. ControlSettledOnce' /\ AdmittedHasOutcome'
  BY DEF ControlSettledOnce, AdmittedHasOutcome, Begun, Controls
<1> QED
  BY <1>1, <1>3, <1>4 DEF EngineInv, EngineAnswersStand

\* A step of an engine that leaves the ledger alone.
LEMMA QuietEngine ==
    ASSUME RequestAssumption, ExecutionAssumption, EngineInv, NEW e \in Engines,
           UNCHANGED vars, OutputGrows,
           session' \in [Engines -> Session], told' \in [Engines -> Told],
           \A f \in Engines \ {e} : session'[f] = session[f] /\ told'[f] = told[f],
           SessionStands(e)', AnswerStands(e)'
    PROVE EngineInv'
<1>1. Inv'
  BY ExecutionStep DEF EngineInv
<1>2. UNCHANGED <<history, link>>
  BY DEF vars, admissionVars, executionVars, ledgerVars
<1>3. ControlsStay
  BY <1>2 DEF ControlsStay, Admitted, Finished, Status
<1>4. \A t \in Controls : Settled(t)' /\ (Admitted(t)' => Begun(t)')
  <2>1. ASSUME NEW t \in Controls PROVE Settled(t)' /\ (Admitted(t)' => Begun(t)')
    <3>1. Settled(t) /\ (Admitted(t) => Begun(t))
      BY ControlFacts DEF Begun
    <3>2. Settled(t)'
      BY <1>2, <1>3, <3>1, SettledUndisturbed
    <3> QED
      BY <1>2, <3>1, <3>2 DEF Admitted, Begun, Finished, Status
  <2> QED
    BY <2>1
<1> PICK E \in SUBSET Engines : E = {e}
  OBVIOUS
<1>5. /\ \A f \in E : SessionStands(f)' /\ AnswerStands(f)'
      /\ \A f \in Engines \ E : session'[f] = session[f] /\ told'[f] = told[f]
  OBVIOUS
<1> QED
  BY <1>1, <1>3, <1>4, <1>5, EngineAssemble

LEMMA TellingKeepsInv ==
    ASSUME RequestAssumption, ExecutionAssumption, EngineInv, NEW e \in Engines,
           UNCHANGED <<vars, output>>, NEW kind \in Kinds, Tell(e, kind), ~ In(e, "idle"),
           kind = "RESULT" => Loads(session[e].root, session[e].trial),
           kind = "FAILURE" => Finished(session[e].trial),
           kind = "TRIAL_STATE_NOT_ADMITTED" => Status(session[e].trial) = "FAILED",
           kind = "LINKED_WHILE_ADMITTED" =>
              \E r \in Runtimes : Loads(r, session[e].trial)
    PROVE EngineInv'
<1> PICK t, r : t = session[e].trial /\ r = session[e].root
  OBVIOUS
<1>1. t \in Controls /\ r \in Runtimes /\ EngineTypeOK
  BY DEF EngineInv, SessionStands, In
<1>2. /\ session' \in [Engines -> Session] /\ told' \in [Engines -> Told]
      /\ session'[e].pc = "idle"
      /\ told'[e].kind = kind /\ told'[e].trial = t /\ told'[e].root = r
      /\ \A f \in Engines \ {e} : session'[f] = session[f] /\ told'[f] = told[f]
  BY <1>1, TellFacts
<1>3. SessionStands(e)'
  BY <1>1, <1>2 DEF SessionStands, In, Controls
<1>4. UNCHANGED <<history, link, output>>
  BY DEF vars, admissionVars, executionVars, ledgerVars
<1>5. AnswerStands(e)'
  BY <1>2, <1>4 DEF AnswerStands, Loads, Finished, Status
<1> QED
  BY <1>1, <1>2, <1>3, <1>5, OutputKept, QuietEngine

LEMMA TurningKeepsInv ==
    ASSUME RequestAssumption, ExecutionAssumption, EngineInv, NEW e \in Engines,
           UNCHANGED <<vars, told>>, OutputGrows, NEW pc \in Pcs, Turn(e, pc), ~ In(e, "idle"),
           pc = "complete" => output'[session[e].root][session[e].trial] = Both
    PROVE EngineInv'
<1> PICK t, r : t = session[e].trial /\ r = session[e].root
  OBVIOUS
<1>1. t \in Controls /\ r \in Runtimes /\ Admitted(t) /\ EngineTypeOK
      /\ SessionStands(e) /\ AnswerStands(e)
  BY DEF EngineInv, SessionStands, In, EngineAnswersStand
<1>2. /\ session' \in [Engines -> Session] /\ session'[e].pc = pc
      /\ session'[e].trial = t /\ session'[e].root = r
      /\ \A f \in Engines \ {e} : session'[f] = session[f]
  BY <1>1, TurnFacts
<1>3. UNCHANGED <<history, link>> /\ told' \in [Engines -> Told]
  BY <1>1 DEF vars, admissionVars, executionVars, ledgerVars, EngineTypeOK
<1>4. SessionStands(e)'
  BY <1>1, <1>2, <1>3 DEF SessionStands, In, Controls, Admitted, Both
<1>5. ControlsStay
  BY <1>3 DEF ControlsStay, Admitted, Finished, Status
<1>6. AnswerStands(e)'
  BY <1>1, <1>5, AnswerUndisturbed
<1> QED
  BY <1>2, <1>3, <1>4, <1>6, QuietEngine

-----------------------------------------------------------------------------
(* The engines' steps. *)

\* A control that ends leaves the development trials as they are.
LEMMA ControlEnds ==
    ASSUME RequestAssumption, ExecutionAssumption, Inv, NEW t \in Controls,
           Status(t) = "ADMITTED", NEW s \in {"COMPLETED", "FAILED"}, AppendEvent(t, s),
           UNCHANGED <<now, budgets, reservedAt, permit, consumed, revoking, call, lost,
                       files, lock, run>>,
           link' \in [Trials -> Nat \cup {Absent}], \A u \in Trials \ {t} : link'[u] = link[u]
    PROVE Inv'
<1>0. AdmissionTypeOK /\ s \in Statuses /\ t \in Trials /\ PermitOf[t] = NoPermit
  BY DEF Inv, AdmissionInv, Statuses, Controls
<1>1. AdmissionInv'
  BY <1>0, OutcomeKeepsAdmission DEF Inv
<1>2. TypeOK /\ TypeOK' /\ FilesKept
  BY <1>1, KeepsItself DEF Inv, AdmissionInv, TypeOK
<1>3. AuthorityKept /\ now <= now'
  BY <1>2 DEF AuthorityKept, Authorised, InWindow, Issued, Revoked, TypeOK, AdmissionTypeOK
<1>4. Status(t)' = s /\ \A u \in Trials \ {t} : Status(u)' = Status(u) /\ history'[u] = history[u]
  BY <1>0, EventFacts
<1>5. \A u \in Trials : Finished(u) => Finished(u)'
  BY <1>4 DEF Finished
<1>6. BegunStays
  BY <1>4, <1>5 DEF BegunStays, Begun, Finished
<1>7. \A f \in Executors : RunStands(f)'
  <2>1. \A f \in Executors : LocksKept(f) /\ run'[f] = run[f]
    BY DEF LocksKept
  <2> QED
    BY <1>2, <1>3, <1>6, <2>1, RunUndisturbed DEF Inv
<1>8. CompletedOnce'
  <2>1. \A u \in Trials \ {t} : PermitOf[u] # NoPermit => OneOutcome(u)'
    BY <1>2, <1>4, OutcomeUndisturbed, OutcomesAre DEF Inv
  <2> QED
    BY <1>0, <2>1 DEF CompletedOnce, OneOutcome
<1>9. SpecsStand' /\ AuthorisedBeforeRevocation'
  BY <1>2, <1>3 DEF Inv, SpecsStand, AuthorisedBeforeRevocation, AuthorityKept
<1>10. ClaimAnswered'
  BY <1>5 DEF Inv, ClaimAnswered, Claimed
<1> QED
  BY <1>1, <1>2, <1>7, <1>8, <1>9, <1>10 DEF Inv

\* A step of an engine that writes the outcome of its control.
LEMMA OutcomeEngine ==
    ASSUME RequestAssumption, ExecutionAssumption, EngineInv, NEW e \in Engines,
           NEW t \in Controls, t = session[e].trial, Status(t) = "ADMITTED",
           NEW s \in {"COMPLETED", "FAILED"}, AppendEvent(t, s),
           UNCHANGED <<now, budgets, reservedAt, permit, consumed, revoking, call, lost,
                       files, lock, run, output>>,
           \/ s = "FAILED" /\ UNCHANGED link
           \/ /\ s = "COMPLETED" /\ link' = [link EXCEPT ![t] = TheResult]
              /\ \E r \in Runtimes : output[r][t] = Both,
           session' \in [Engines -> Session], told' \in [Engines -> Told],
           \A f \in Engines \ {e} : session'[f] = session[f] /\ told'[f] = told[f],
           ControlsStay => SessionStands(e)' /\ AnswerStands(e)'
    PROVE EngineInv'
<1>0. /\ AdmissionTypeOK /\ TypeOK /\ s \in Statuses /\ t \in Trials /\ Settled(t)
      /\ Inv /\ EngineTypeOK
  BY ControlFacts DEF EngineInv, Inv, AdmissionInv, Statuses
<1>1. /\ Status(t)' = s /\ (Admitted(t) => Admitted(t)')
      /\ \A u \in Trials \ {t} : /\ history'[u] = history[u] /\ Status(u)' = Status(u)
                                 /\ Admitted(u)' <=> Admitted(u)
  BY <1>0, EventFacts
<1>2. link' \in [Trials -> Nat \cup {Absent}] /\ \A u \in Trials \ {t} : link'[u] = link[u]
  BY <1>0 DEF TypeOK, TheResult
<1>3. Inv'
  BY <1>0, <1>2, ControlEnds
<1>4. ControlsStay
  BY <1>1, <1>2 DEF ControlsStay, Finished, Controls
<1>5. OutputGrows
  BY <1>0, OutputKept
<1>6. Settled(t)' /\ Begun(t)'
  <2>1. \/ s # "COMPLETED" /\ link'[t] = link[t]
        \/ /\ s = "COMPLETED" /\ link'[t] = TheResult
           /\ \E r \in Runtimes : output'[r][t] = Both
    BY <1>0 DEF TypeOK
  <2> QED
    BY <1>0, <1>1, <2>1, SettledFromEvent DEF Begun, Finished
<1>7. ASSUME NEW u \in Controls, u # t PROVE Settled(u)' /\ (Admitted(u)' => Begun(u)')
  <2>1. u \in Trials \ {t} /\ Settled(u) /\ (Admitted(u) => Begun(u))
    BY <1>7, ControlFacts DEF Begun
  <2>2. Settled(u)'
    BY <1>1, <1>2, <1>4, <1>5, <2>1, SettledUndisturbed
  <2> QED
    BY <1>1, <2>1, <2>2 DEF Begun, Finished
<1> PICK E \in SUBSET Engines : E = {e}
  OBVIOUS
<1>8. /\ \A f \in E : SessionStands(f)' /\ AnswerStands(f)'
      /\ \A f \in Engines \ E : session'[f] = session[f] /\ told'[f] = told[f]
  BY <1>4
<1> QED
  BY <1>3, <1>4, <1>5, <1>6, <1>7, <1>8, EngineAssemble

LEMMA CompleteKeepsInv ==
    ASSUME RequestAssumption, ExecutionAssumption, EngineInv, NEW e \in Engines, Complete(e)
    PROVE EngineInv'
<1> PICK t, r : t = session[e].trial /\ r = session[e].root
  OBVIOUS
<1>1. /\ session[e].pc = "complete"
      /\ UNCHANGED <<now, budgets, reservedAt, permit, consumed, revoking, call, lost,
                     files, lock, run, output, told>>
  BY DEF Complete, In, authorityVars
<1>2. /\ t \in Controls /\ r \in Runtimes /\ EngineTypeOK /\ Admitted(t)
      /\ SessionStands(e) /\ AnswerStands(e) /\ output[r][t] = Both
  BY <1>1 DEF EngineInv, SessionStands, In, EngineAnswersStand, Both
<1>3. CASE UNCHANGED <<link, history>> /\ (Turn(e, "reload") \/ Turn(e, "recover"))
  <2>1. PICK pc \in Pcs \ {"complete"} : Turn(e, pc)
    BY <1>3 DEF Pcs
  <2>2. UNCHANGED <<vars, told>> /\ OutputGrows /\ ~ In(e, "idle")
    BY <1>1, <1>2, <1>3, OutputKept DEF vars, admissionVars, executionVars, ledgerVars,
       authorityVars, In
  <2> QED
    BY <2>1, <2>2, TurningKeepsInv
<1>4. CASE /\ Status(t) = "ADMITTED" /\ AppendEvent(t, "COMPLETED")
           /\ link' = [link EXCEPT ![t] = TheResult] /\ Turn(e, "reload")
  <2>1. "reload" \in Pcs
    BY DEF Pcs
  <2>2. /\ session' \in [Engines -> Session] /\ session'[e].pc = "reload"
        /\ session'[e].trial = t /\ session'[e].root = r
        /\ \A f \in Engines \ {e} : session'[f] = session[f]
    BY <1>2, <1>4, <2>1, TurnFacts
  <2>3. told' \in [Engines -> Told] /\ told' = told
    BY <1>1, <1>2 DEF EngineTypeOK
  <2>4. ControlsStay => SessionStands(e)' /\ AnswerStands(e)'
    <3> SUFFICES ASSUME ControlsStay PROVE SessionStands(e)' /\ AnswerStands(e)'
      OBVIOUS
    <3>1. AnswerStands(e)'
      BY <1>1, <1>2, <2>3, OutputKept, AnswerUndisturbed
    <3>2. SessionStands(e)'
      BY <1>2, <2>2, <2>3 DEF SessionStands, In, ControlsStay, Controls
    <3> QED
      BY <3>1, <3>2
  <2> PICK s \in {"COMPLETED", "FAILED"} : s = "COMPLETED"
    OBVIOUS
  <2>5. AppendEvent(t, s) /\ \E q \in Runtimes : output[q][t] = Both
    BY <1>2, <1>4
  <2> QED
    BY <1>1, <1>2, <1>4, <2>2, <2>3, <2>4, <2>5, OutcomeEngine
<1> QED
  BY <1>3, <1>4 DEF Complete

LEMMA AppendFailedKeepsInv ==
    ASSUME RequestAssumption, ExecutionAssumption, EngineInv, NEW e \in Engines,
           AppendFailed(e)
    PROVE EngineInv'
<1> PICK t, r : t = session[e].trial /\ r = session[e].root
  OBVIOUS
<1>1. /\ session[e].pc = "append" /\ "unsure" \in Pcs /\ "FAILURE" \in Kinds
      /\ UNCHANGED <<now, budgets, reservedAt, permit, consumed, revoking, call, lost,
                     files, lock, run, output, link>>
  BY DEF AppendFailed, In, authorityVars, Pcs, Kinds
<1>2. /\ t \in Controls /\ r \in Runtimes /\ EngineTypeOK /\ Admitted(t)
      /\ SessionStands(e) /\ AnswerStands(e) /\ t \in Trials /\ AdmissionTypeOK
  BY <1>1 DEF EngineInv, SessionStands, In, EngineAnswersStand, Controls, Inv, AdmissionInv
<1>3. CASE UNCHANGED <<history, told>> /\ Turn(e, "unsure")
  <2>1. UNCHANGED <<vars, told>> /\ OutputGrows /\ ~ In(e, "idle")
    BY <1>1, <1>2, <1>3, OutputKept DEF vars, admissionVars, executionVars, ledgerVars,
       authorityVars, In
  <2>2. PICK pc \in Pcs : pc = "unsure"
    BY <1>1
  <2> QED
    BY <1>3, <2>1, <2>2, TurningKeepsInv
<1>4. CASE /\ Status(t) = "ADMITTED" /\ AppendEvent(t, "FAILED")
           /\ Tell(e, "FAILURE") \/ (Turn(e, "unsure") /\ UNCHANGED told)
  <2>1. Finished(t)'
    BY <1>2, <1>4, EventFacts DEF Statuses, Finished
  <2>2. /\ session' \in [Engines -> Session] /\ told' \in [Engines -> Told]
        /\ \A f \in Engines \ {e} : session'[f] = session[f] /\ told'[f] = told[f]
        /\ ControlsStay => SessionStands(e)' /\ AnswerStands(e)'
    <3>1. CASE Tell(e, "FAILURE")
      <4>1. /\ session' \in [Engines -> Session] /\ told' \in [Engines -> Told]
            /\ session'[e].pc = "idle"
            /\ told'[e].kind = "FAILURE" /\ told'[e].trial = t /\ told'[e].root = r
            /\ \A f \in Engines \ {e} : session'[f] = session[f] /\ told'[f] = told[f]
        BY <1>1, <1>2, <3>1, TellFacts
      <4>2. SessionStands(e)' /\ AnswerStands(e)'
        BY <1>2, <2>1, <4>1 DEF SessionStands, AnswerStands, In, Controls
      <4> QED
        BY <4>1, <4>2
    <3>2. CASE Turn(e, "unsure") /\ UNCHANGED told
      <4>1. /\ session' \in [Engines -> Session] /\ session'[e].pc = "unsure"
            /\ session'[e].trial = t /\ session'[e].root = r
            /\ \A f \in Engines \ {e} : session'[f] = session[f]
        BY <1>1, <1>2, <3>2, TurnFacts
      <4>2. ControlsStay => AnswerStands(e)'
        BY <1>1, <1>2, <3>2, OutputKept, AnswerUndisturbed
      <4>3. ControlsStay => SessionStands(e)'
        BY <1>2, <3>2, <4>1 DEF SessionStands, In, ControlsStay, Controls
      <4> QED
        BY <1>2, <3>2, <4>1, <4>2, <4>3 DEF EngineTypeOK
    <3> QED
      BY <1>4, <3>1, <3>2
  <2> PICK s \in {"COMPLETED", "FAILED"} : s = "FAILED"
    OBVIOUS
  <2>3. AppendEvent(t, s)
    BY <1>4
  <2> QED
    BY <1>1, <1>2, <1>4, <2>2, <2>3, OutcomeEngine
<1> QED
  BY <1>1, <1>3, <1>4 DEF AppendFailed

\* The steps that return or raise, from what was just read.
LEMMA TellingStepsKeepInv ==
    ASSUME RequestAssumption, ExecutionAssumption, EngineInv, NEW e \in Engines,
           NEW kind \in Kinds, Tell(e, kind),
           ReadStatus(e) \/ Replay(e) \/ Bind(e) \/ ReadFails(e) \/ Contended(e) \/ Reload(e)
              \/ Recover(e) \/ ReadLatest(e) \/ Unsure(e)
    PROVE EngineInv'
<1> PICK t, r : t = session[e].trial /\ r = session[e].root
  OBVIOUS
<1>1. UNCHANGED <<vars, output>> /\ session[e].pc # "idle"
  BY DEF ReadStatus, Replay, Bind, ReadFails, Contended, Reload, Recover, ReadLatest,
     Unsure, In
<1>2. /\ t \in Controls /\ r \in Runtimes /\ EngineTypeOK /\ Settled(t)
      /\ Status(t) = "ADMITTED" \/ Finished(t)
  BY <1>1, ControlFacts DEF EngineInv, SessionStands
<1>3. session'[e].pc = "idle" /\ told'[e].kind = kind /\ session'[e].pc # session[e].pc
  BY <1>1, <1>2, TellFacts
<1>4. \A pc \in Pcs : ~ Turn(e, pc)
  <2> SUFFICES ASSUME NEW pc \in Pcs, Turn(e, pc) PROVE FALSE
    OBVIOUS
  <2>1. session'[e].pc = pc
    BY <1>2, TurnFacts
  <2> QED
    BY <1>3, <2>1 DEF Pcs
<1>5. \A k \in Kinds : Tell(e, k) => k = kind
  BY <1>2, <1>3, TellFacts
<1> USE <1>1, <1>2, <1>4, <1>5
<1>6. /\ kind = "RESULT" => Loads(r, t)
      /\ kind = "FAILURE" => Finished(t)
      /\ kind = "TRIAL_STATE_NOT_ADMITTED" => Status(t) = "FAILED"
      /\ kind = "LINKED_WHILE_ADMITTED" => \E q \in Runtimes : Loads(q, t)
  <2>1. CASE ReadStatus(e)
    BY <2>1 DEF ReadStatus, Finished, Pcs, Kinds
  <2>2. CASE Replay(e) \/ Contended(e) \/ Reload(e)
    BY <2>2 DEF Replay, Contended, Reload, Kinds
  <2>3. CASE Bind(e)
    BY <2>3 DEF Bind, Settled, Pcs, Kinds
  <2>4. CASE ReadFails(e)
    BY <2>4 DEF ReadFails, Kinds
  <2>5. CASE Recover(e) \/ ReadLatest(e)
    BY <2>5 DEF Recover, ReadLatest, Pcs, Kinds
  <2>6. CASE Unsure(e)
    BY <2>6 DEF Unsure, Kinds, Finished
  <2> QED
    BY <2>1, <2>2, <2>3, <2>4, <2>5, <2>6
<1> QED
  BY <1>6, TellingKeepsInv DEF In

\* The steps that go on, and write at most an artifact.
LEMMA TurningStepsKeepInv ==
    ASSUME RequestAssumption, ExecutionAssumption, EngineInv, NEW e \in Engines,
           NEW pc \in Pcs, Turn(e, pc), UNCHANGED told,
           ReadStatus(e) \/ Bind(e) \/ WriteLedger(e) \/ WriteResult(e) \/ VerifyCandidate(e)
              \/ CompleteBusy(e) \/ BoundFailure(e) \/ Recover(e) \/ ReadLatest(e)
    PROVE EngineInv'
<1>1. UNCHANGED vars /\ session[e].pc # "idle" /\ EngineTypeOK
  BY DEF ReadStatus, Bind, WriteLedger, WriteResult, VerifyCandidate, CompleteBusy,
     BoundFailure, Recover, ReadLatest, In, Bound, EngineInv
<1>2. OutputGrows
  <2>1. UNCHANGED output \/ \E artifact \in Both : Write(e, artifact)
    BY DEF ReadStatus, Bind, WriteLedger, WriteResult, VerifyCandidate, CompleteBusy,
       BoundFailure, Recover, ReadLatest, Both
  <2> QED
    BY <1>1, <2>1, OutputKept, WriteFacts
<1>3. session'[e].pc = pc
  BY <1>1, TurnFacts
<1>4. pc = "complete" => output'[session[e].root][session[e].trial] = Both
  <2> SUFFICES ASSUME pc = "complete"
               PROVE output'[session[e].root][session[e].trial] = Both
    OBVIOUS
  <2>1. ASSUME NEW other \in Pcs, other # "complete", Turn(e, other) PROVE FALSE
    BY <1>1, <1>3, <2>1, TurnFacts
  <2>2. ASSUME NEW kind \in Kinds, Tell(e, kind) PROVE FALSE
    BY <1>1, <1>3, <2>2, TellFacts
  <2> QED
    BY <2>1, <2>2 DEF ReadStatus, Bind, WriteLedger, WriteResult, VerifyCandidate, CompleteBusy,
       BoundFailure, Recover, ReadLatest, Pcs, Kinds, Both
<1> QED
  BY <1>1, <1>2, <1>4, TurningKeepsInv DEF In

LEMMA ExecuteKeepsInv ==
    ASSUME RequestAssumption, ExecutionAssumption, EngineInv, NEW e \in Engines,
           NEW t \in Trials, NEW r \in Runtimes, Execute(e, t, r)
    PROVE EngineInv'
<1>1. /\ t \in Controls /\ Admitted(t) /\ UNCHANGED vars /\ UNCHANGED output
      /\ session' = [session EXCEPT ![e] = [pc |-> "status", trial |-> t, root |-> r]]
      /\ told' = [told EXCEPT ![e] = NothingTold]
  BY DEF Execute
<1>2. EngineTypeOK /\ UNCHANGED <<history, link>>
  BY <1>1 DEF EngineInv, vars, admissionVars, executionVars, ledgerVars
<1>3. NothingTold \in Told /\ NothingTold.kind = "NOTHING"
      /\ [pc |-> "status", trial |-> t, root |-> r] \in Session
  BY DEF NothingTold, Told, Session
<1>4. /\ session' \in [Engines -> Session] /\ told' \in [Engines -> Told]
      /\ session'[e] = [pc |-> "status", trial |-> t, root |-> r]
      /\ told'[e] = NothingTold
      /\ \A f \in Engines \ {e} : session'[f] = session[f] /\ told'[f] = told[f]
  BY <1>1, <1>2, <1>3 DEF EngineTypeOK
<1>5. SessionStands(e)' /\ AnswerStands(e)'
  BY <1>1, <1>2, <1>3, <1>4 DEF SessionStands, AnswerStands, In, Controls, Admitted
<1> QED
  BY <1>1, <1>2, <1>4, <1>5, OutputKept, QuietEngine

LEMMA CrashEngineKeepsInv ==
    ASSUME RequestAssumption, ExecutionAssumption, EngineInv, NEW e \in Engines,
           CrashEngine(e)
    PROVE EngineInv'
<1>1. /\ UNCHANGED vars /\ UNCHANGED output /\ told' = told
      /\ session' = [session EXCEPT ![e] = NoSession]
      /\ EngineTypeOK /\ SessionStands(e) /\ AnswerStands(e)
  BY DEF CrashEngine, EngineInv, EngineAnswersStand
<1>2. /\ session' \in [Engines -> Session] /\ told' \in [Engines -> Told]
      /\ session'[e].pc = "idle"
      /\ \A f \in Engines \ {e} : session'[f] = session[f] /\ told'[f] = told[f]
  BY <1>1, NoSessionTyped DEF EngineTypeOK
<1>3. UNCHANGED <<history, link>> /\ OutputGrows
  BY <1>1, OutputKept DEF vars, admissionVars, executionVars, ledgerVars
<1>4. ControlsStay
  BY <1>3 DEF ControlsStay, Admitted, Finished, Status
<1>5. SessionStands(e)' /\ AnswerStands(e)'
  BY <1>1, <1>2, <1>3, <1>4, AnswerUndisturbed DEF SessionStands, In, Controls
<1> QED
  BY <1>1, <1>2, <1>3, <1>5, QuietEngine

-----------------------------------------------------------------------------
(* The steps of the admission and of the development runtime. *)

\* They give a control its decision, and no outcome.
LEMMA ControlRows ==
    ASSUME RequestAssumption, ExecutionAssumption, Inv, Next, NEW t \in Controls
    PROVE /\ link'[t] = link[t]
          /\ \/ history'[t] = history[t]
             \/ \E s \in {"RESERVED", "ADMITTED", "STOPPED"} :
                   AppendEvent(t, s) /\ Status(t) \in {"none", "RESERVED"}
<1>0. AdmissionInv /\ AdmissionTypeOK /\ TypeOK /\ t \in Trials /\ PermitOf[t] = NoPermit
  BY DEF Inv, AdmissionInv, Controls
<1>1. CASE AdmissionNext /\ UNCHANGED executionVars
  <2>1. UNCHANGED link
    BY <1>1 DEF executionVars
  <2>2. \/ UNCHANGED history
        \/ \E u \in Trials, s \in {"RESERVED", "ADMITTED", "STOPPED"} :
              AppendEvent(u, s) /\ Status(u) \in {"none", "RESERVED"}
    BY <1>0, <1>1, AdmissionEvents
  <2>3. CASE UNCHANGED history
    BY <2>1, <2>3
  <2>4. ASSUME NEW u \in Trials, NEW s \in {"RESERVED", "ADMITTED", "STOPPED"},
               AppendEvent(u, s), Status(u) \in {"none", "RESERVED"}
        PROVE \/ history'[t] = history[t]
              \/ AppendEvent(t, s) /\ Status(t) \in {"none", "RESERVED"}
    BY <1>0, <2>4, EventFacts DEF Statuses
  <2> QED
    BY <2>1, <2>2, <2>3, <2>4
<1>2. CASE UNCHANGED <<history, link>>
  BY <1>2
<1>3. CASE \E e \in Executors : Finalize(e) \/ Terminalize(e)
  <2>1. PICK e \in Executors : Finalize(e) \/ Terminalize(e)
    BY <1>3
  <2>2. PICK u : u = run[e].trial
    OBVIOUS
  <2>3. u \in Trials /\ u # t
    BY <1>0, <2>1, <2>2 DEF Finalize, Terminalize, At, Inv, RunStands
  <2>4. /\ UNCHANGED link \/ \E d : link' = [link EXCEPT ![u] = d]
        /\ UNCHANGED history \/ \E s \in Statuses : AppendEvent(u, s)
    BY <2>1, <2>2 DEF Finalize, Terminalize, Statuses
  <2> QED
    BY <1>0, <2>3, <2>4, EventFacts DEF TypeOK
<1>4. \/ AdmissionNext /\ UNCHANGED executionVars
      \/ UNCHANGED <<history, link>>
      \/ \E e \in Executors : Finalize(e) \/ Terminalize(e)
  BY DEF Next, Start, ExecutorStep, TakeLock, LockTimeout, Authorize, NotAuthorized, Claim,
     ClaimConflict, PublishLedger, PublishResult, VerifyBefore, VerifyAfter, Raise,
     TerminalizeBusy, CrashExecutor, admissionVars, ledgerVars
<1> QED
  BY <1>1, <1>2, <1>3, <1>4

LEMMA DevelopmentKeepsInv ==
    ASSUME RequestAssumption, ExecutionAssumption, EngineInv,
           Next \/ UNCHANGED vars, UNCHANGED engineVars
    PROVE EngineInv'
<1>0. EngineTypeOK /\ AdmissionTypeOK /\ Inv /\ UNCHANGED <<output, session, told>>
  BY DEF EngineInv, Inv, AdmissionInv, engineVars
<1>1. Inv'
  BY <1>0, ExecutionStep
<1>2. ASSUME NEW t \in Controls
      PROVE /\ link'[t] = link[t]
            /\ \/ history'[t] = history[t]
               \/ \E s \in {"RESERVED", "ADMITTED", "STOPPED"} :
                     AppendEvent(t, s) /\ Status(t) \in {"none", "RESERVED"}
  <2>1. CASE Next
    BY <1>0, <2>1, ControlRows
  <2>2. CASE UNCHANGED vars
    BY <2>2 DEF vars, admissionVars, executionVars, ledgerVars
  <2> QED
    BY <2>1, <2>2
<1>3. OutputGrows
  BY <1>0, OutputKept
<1>4. ASSUME NEW t \in Controls, NEW s \in {"RESERVED", "ADMITTED", "STOPPED"},
             AppendEvent(t, s), Status(t) \in {"none", "RESERVED"}
      PROVE /\ ~ Finished(t) /\ Settled(t)' /\ (Admitted(t) => Admitted(t)')
            /\ Admitted(t)' => Begun(t)'
  <2>1. s \in Statuses /\ s # "COMPLETED" /\ t \in Trials /\ Settled(t) /\ ~ Admitted(t)
        /\ ~ Finished(t)
    BY <1>4, ControlFacts DEF Statuses, Finished
  <2>2. Settled(t)'
    BY <1>0, <1>2, <1>4, <2>1, SettledFromEvent
  <2> QED
    BY <1>0, <1>4, <2>1, <2>2, EventFacts DEF Begun
<1>5. ControlsStay
  BY <1>2, <1>4 DEF ControlsStay, Admitted, Finished, Status
<1>6. ASSUME NEW t \in Controls PROVE Settled(t)' /\ (Admitted(t)' => Begun(t)')
  <2>1. CASE history'[t] = history[t]
    <3>1. Settled(t) /\ (Admitted(t) => Begun(t))
      BY ControlFacts DEF Begun
    <3>2. Settled(t)'
      BY <1>2, <1>3, <1>5, <2>1, <3>1, SettledUndisturbed
    <3> QED
      BY <2>1, <3>1, <3>2 DEF Admitted, Begun, Finished, Status
  <2> QED
    BY <1>2, <1>4, <2>1
<1> PICK E \in SUBSET Engines : E = {}
  OBVIOUS
<1>7. /\ session' \in [Engines -> Session] /\ told' \in [Engines -> Told]
      /\ \A f \in E : SessionStands(f)' /\ AnswerStands(f)'
      /\ \A f \in Engines \ E : session'[f] = session[f] /\ told'[f] = told[f]
  BY <1>0 DEF EngineTypeOK
<1> QED
  BY <1>1, <1>3, <1>5, <1>6, <1>7, EngineAssemble

-----------------------------------------------------------------------------
(* The theorems. *)

LEMMA EngineStepKeepsInv ==
    ASSUME RequestAssumption, ExecutionAssumption, EngineInv, NEW e \in Engines,
           EngineStep(e)
    PROVE EngineInv'
<1>1. CASE Complete(e) \/ AppendFailed(e) \/ CrashEngine(e)
  BY <1>1, CompleteKeepsInv, AppendFailedKeepsInv, CrashEngineKeepsInv
<1>2. CASE ReadStatus(e) \/ Replay(e) \/ Bind(e) \/ ReadFails(e) \/ Contended(e) \/ Reload(e)
              \/ Recover(e) \/ ReadLatest(e) \/ Unsure(e)
  <2>1. \/ \E kind \in Kinds : Tell(e, kind)
        \/ /\ \E pc \in Pcs : Turn(e, pc)
           /\ UNCHANGED told
           /\ ReadStatus(e) \/ Bind(e) \/ Recover(e) \/ ReadLatest(e)
    BY <1>2 DEF ReadStatus, Replay, Bind, ReadFails, Contended, Reload, Recover, ReadLatest,
       Unsure, Kinds, Pcs
  <2> QED
    BY <1>2, <2>1, TellingStepsKeepInv, TurningStepsKeepInv
<1>3. CASE WriteLedger(e) \/ WriteResult(e) \/ VerifyCandidate(e) \/ CompleteBusy(e)
              \/ BoundFailure(e)
  <2>1. (\E pc \in Pcs : Turn(e, pc)) /\ UNCHANGED told
    BY <1>3 DEF WriteLedger, WriteResult, VerifyCandidate, CompleteBusy, BoundFailure, Pcs
  <2> QED
    BY <1>3, <2>1, TurningStepsKeepInv
<1> QED
  BY <1>1, <1>2, <1>3 DEF EngineStep

LEMMA EnginesKeepInv ==
    ASSUME RequestAssumption, ExecutionAssumption, EngineInv, [EngineNext]_trialVars
    PROVE EngineInv'
<1>1. CASE Next /\ UNCHANGED engineVars
  BY <1>1, DevelopmentKeepsInv
<1>2. CASE \E e \in Engines : \/ \E t \in Trials, r \in Runtimes : Execute(e, t, r)
                              \/ EngineStep(e)
  BY <1>2, ExecuteKeepsInv, EngineStepKeepsInv
<1>3. CASE UNCHANGED trialVars
  BY <1>3, DevelopmentKeepsInv DEF trialVars
<1> QED
  BY <1>1, <1>2, <1>3 DEF EngineNext

LEMMA EnginesStart ==
    ASSUME RequestAssumption, ExecutionAssumption, EngineInit
    PROVE EngineInv
<1>1. Inv
  BY ExecutionInit DEF EngineInit
<1>2. /\ NothingTold \in Told /\ NothingTold.kind = "NOTHING"
      /\ NoSession \in Session /\ NoSession.pc = "idle"
  BY NoSessionTyped DEF NothingTold, Told
<1>3. EngineTypeOK
  BY <1>1, <1>2 DEF EngineInit, EngineTypeOK, Inv
<1>4. \A e \in Engines : SessionStands(e) /\ AnswerStands(e)
  BY <1>2 DEF EngineInit, SessionStands, AnswerStands, In
<1>5. \A t \in Trials : history[t] = <<>> /\ link[t] = Absent
  BY DEF EngineInit, Init, AdmissionInit
<1>6. AdmittedHasOutcome /\ ControlSettledOnce
  BY <1>5 DEF AdmittedHasOutcome, ControlSettledOnce, Settled, Controls, Admitted, Status
<1> QED
  BY <1>1, <1>3, <1>4, <1>6 DEF EngineInv, EngineAnswersStand

\* The invariant of the engines and of the development runtime beside them holds
\* of every reachable state of the one ledger they write
\* (engine_service/service.py, all operations).
THEOREM EngineSound == EngineSpec => []EngineInv
<1>1. EngineInit => EngineInv
  BY RequestAssumption, ExecutionAssumption, EnginesStart
<1>2. EngineInv /\ [EngineNext]_trialVars => EngineInv'
  BY RequestAssumption, ExecutionAssumption, EnginesKeepInv
<1> QED
  BY <1>1, <1>2, PTL DEF EngineSpec

\* A control has one outcome, and a completed one both of its artifacts, however
\* many engines race for it without a lock.
THEOREM ControlsSettled == EngineSpec => []ControlSettledOnce
<1>1. EngineInv => ControlSettledOnce
  BY DEF EngineInv
<1> QED
  BY <1>1, EngineSound, PTL

\* What execute() returned or raised stands.
THEOREM EngineAnswersSafe == EngineSpec => []EngineAnswersStand
<1>1. EngineInv => EngineAnswersStand
  BY DEF EngineInv
<1> QED
  BY <1>1, EngineSound, PTL

\* The engines leave the promises of the development runtime standing.
THEOREM DevelopmentUndisturbed ==
    EngineSpec => [](CompletedOnce /\ AuthorisedBeforeRevocation /\ ClaimAnswered)
<1>1. EngineInv => CompletedOnce /\ AuthorisedBeforeRevocation /\ ClaimAnswered
  BY DEF EngineInv, Inv
<1> QED
  BY <1>1, EngineSound, PTL

-----------------------------------------------------------------------------
(* Evidence and lifecycle, with engines. *)

\* An engine changes the ledger only by the outcome of an admitted control, and
\* links only what was not linked.
LEMMA EngineEvents ==
    ASSUME EngineInv, NEW e \in Engines,
           EngineStep(e) \/ \E t \in Trials, r \in Runtimes : Execute(e, t, r)
    PROVE /\ UNCHANGED <<files, consumed>>
          /\ \A t \in Trials : link[t] # Absent => link'[t] = link[t]
          /\ \/ UNCHANGED history
             \/ \E t \in Trials, s \in {"COMPLETED", "FAILED"} :
                   Status(t) = "ADMITTED" /\ AppendEvent(t, s)
<1>1. CASE UNCHANGED vars
  BY <1>1 DEF vars, admissionVars, executionVars, ledgerVars, authorityVars
<1>2. CASE Complete(e) \/ AppendFailed(e)
  <2>1. PICK t : t = session[e].trial
    OBVIOUS
  <2>2. t \in Trials /\ link \in [Trials -> Nat \cup {Absent}]
    BY <1>2, <2>1 DEF Complete, AppendFailed, In, EngineInv, SessionStands, Controls,
       EngineTypeOK, TypeOK
  <2> QED
    BY <1>2, <2>1, <2>2 DEF Complete, AppendFailed, authorityVars
<1>3. UNCHANGED vars \/ Complete(e) \/ AppendFailed(e)
  BY DEF EngineStep, ReadStatus, Replay, Bind, ReadFails, WriteLedger, WriteResult,
     VerifyCandidate, CompleteBusy, Contended, Reload, BoundFailure, Recover, ReadLatest,
     Unsure, CrashEngine, Execute
<1> QED
  BY <1>1, <1>2, <1>3

\* Artifacts and result links stand beside the engines too.
THEOREM EvidenceBesideEngines == EngineSpec => EvidenceStands
<1>1. EngineInv /\ [EngineNext]_trialVars =>
        [/\ \A r \in Runtimes, t \in Trials : Keeps(files[r][t], files'[r][t])
         /\ \A t \in Trials : link[t] # Absent => link'[t] = link[t]]_vars
  <2> SUFFICES ASSUME EngineInv, [EngineNext]_trialVars
               PROVE \/ UNCHANGED vars
                     \/ FilesKept /\ \A t \in Trials : link[t] # Absent => link'[t] = link[t]
    BY DEF FilesKept
  <2>1. CASE Next
    BY <2>1, RequestAssumption, ExecutionAssumption, StepKeepsEvidence DEF EngineInv
  <2>2. CASE \E e \in Engines : EngineStep(e)
                              \/ \E t \in Trials, r \in Runtimes : Execute(e, t, r)
    BY <2>2, EngineEvents, KeepsItself
  <2> QED
    BY <2>1, <2>2 DEF EngineNext, trialVars
<1> QED
  BY <1>1, EngineSound, PTL DEF EngineSpec, EvidenceStands

\* The ledger that engines and executors write together keeps the lifecycle: a
\* trial of either kind is completed or failed once, after its admission.
THEOREM LedgerImplements == EngineSpec => KeepsLifecycle
<1>1. EngineInit => Lifecycle!Init
  BY InitLives DEF EngineInit, Init
<1>2. EngineInv /\ [EngineNext]_trialVars => [Lifecycle!Next]_Lifecycle!vars
  <2> SUFFICES ASSUME EngineInv, [EngineNext]_trialVars
               PROVE [Lifecycle!Next]_Lifecycle!vars
    OBVIOUS
  <2>1. CASE Next \/ UNCHANGED vars
    BY <2>1, RequestAssumption, ExecutionLives DEF EngineInv
  <2>2. CASE \E e \in Engines : EngineStep(e)
                              \/ \E t \in Trials, r \in Runtimes : Execute(e, t, r)
    <3>1. AdmissionTypeOK
      BY DEF EngineInv, Inv, AdmissionInv
    <3>2. /\ UNCHANGED consumed
          /\ \/ UNCHANGED history
             \/ \E t \in Trials, s \in {"COMPLETED", "FAILED"} :
                   Status(t) = "ADMITTED" /\ AppendEvent(t, s)
      BY <2>2, EngineEvents
    <3>3. CASE UNCHANGED history
      BY <3>2, <3>3 DEF Lifecycle!vars, Status, OwnsSlot
    <3> QED
      BY <3>1, <3>2, <3>3, OutcomeMoves
  <2> QED
    BY <2>1, <2>2 DEF EngineNext, trialVars
<1> QED
  BY <1>1, <1>2, EngineSound, PTL DEF EngineSpec, KeepsLifecycle, Lifecycle!Spec
=============================================================================
