------------------------ MODULE TrialAdmissionProofs ------------------------
(***************************************************************************)
(* Proofs about TrialAdmission, for every set of trials, permits, budgets  *)
(* and callers.  The inductive invariant is AdmissionInv.  The steps fall  *)
(* into four groups: those of the founder and the clock, which change what *)
(* permits there are; those of a caller that write no row; the three that  *)
(* append an event; and the one that takes a slot.                         *)
(***************************************************************************)
EXTENDS TrialAdmission, FiniteSetTheorems, TLAPS

\* A step that neither the founder nor the clock takes leaves the windows of
\* all permits alone; one of theirs leaves those of the issued permits alone.
WindowsStand == \A p \in Permits, at \in Nat : InWindow(p, at) => InWindow(p, at)'

-----------------------------------------------------------------------------
(* The helpers of the actions. *)

LEMMA AppendFacts ==
    ASSUME NEW h \in Seq(Statuses), NEW s \in Statuses
    PROVE /\ Append(h, s) \in Seq(Statuses) /\ Append(h, s) # <<>>
          /\ Len(h) \in Nat /\ Len(Append(h, s)) = Len(h) + 1
          /\ Append(h, s)[Len(h) + 1] = s
          /\ \A i \in 1 .. Len(h) : Append(h, s)[i] = h[i]
OBVIOUS

\* An event becomes the status of its trial and changes no other trial.
LEMMA EventFacts ==
    ASSUME AdmissionTypeOK, NEW t \in Trials, NEW s \in Statuses, AppendEvent(t, s)
    PROVE /\ history' \in [Trials -> Seq(Statuses)]
          /\ Status(t)' = s /\ history'[t] # <<>>
          /\ Admitted(t)' <=> Admitted(t) \/ s = "ADMITTED"
          /\ \A u \in Trials \ {t} : /\ history'[u] = history[u]
                                     /\ Status(u)' = Status(u)
                                     /\ Admitted(u)' <=> Admitted(u)
<1>1. history[t] \in Seq(Statuses) /\ history'[t] = Append(history[t], s)
  BY DEF AdmissionTypeOK, AppendEvent
<1>2. /\ history'[t] \in Seq(Statuses) /\ history'[t] # <<>>
      /\ Len(history[t]) \in Nat /\ Len(history'[t]) = Len(history[t]) + 1
      /\ history'[t][Len(history[t]) + 1] = s
      /\ \A i \in 1 .. Len(history[t]) : history'[t][i] = history[t][i]
  BY <1>1, AppendFacts
<1>3. history' \in [Trials -> Seq(Statuses)]
  BY <1>1, <1>2 DEF AdmissionTypeOK, AppendEvent
<1>4. \A u \in Trials \ {t} : history'[u] = history[u]
  BY DEF AdmissionTypeOK, AppendEvent
<1>5. Status(t)' = s
  BY <1>2 DEF Status
<1>6. Admitted(t)' <=> Admitted(t) \/ s = "ADMITTED"
  BY <1>2 DEF Admitted
<1>7. \A u \in Trials \ {t} : Status(u)' = Status(u) /\ (Admitted(u)' <=> Admitted(u))
  BY <1>4 DEF Status, Admitted
<1> QED
  BY <1>2, <1>3, <1>4, <1>5, <1>6, <1>7

\* A trial without events was never admitted.
LEMMA NothingAdmitted ==
    ASSUME NEW t \in Trials, history[t] = <<>>
    PROVE Status(t) = "none" /\ ~ Admitted(t)
BY DEF Status, Admitted

\* A call that moves on keeps its trial and its time.
LEMMA GotoFacts ==
    ASSUME AdmissionTypeOK, NEW c \in Callers,
           NEW pc \in {"idle", "reserve", "gates", "consume", "admit", "stop"}, Goto(c, pc)
    PROVE /\ call' \in [Callers -> Call]
          /\ call'[c].pc = pc /\ call'[c].trial = call[c].trial /\ call'[c].at = call[c].at
          /\ \A d \in Callers \ {c} : call'[d] = call[d]
<1>1. call[c] \in Call
  BY DEF AdmissionTypeOK
<1>2. call' = [call EXCEPT ![c] = [@ EXCEPT !.pc = pc]]
  BY DEF Goto
<1>3. [call[c] EXCEPT !.pc = pc] \in Call
  BY <1>1 DEF Call
<1>4. call'[c] = [call[c] EXCEPT !.pc = pc]
  BY <1>2 DEF AdmissionTypeOK
<1> QED
  BY <1>1, <1>2, <1>3, <1>4 DEF AdmissionTypeOK, Call

LEMMA ReturnFacts ==
    ASSUME AdmissionTypeOK, NEW c \in Callers, Return(c)
    PROVE /\ call' \in [Callers -> Call]
          /\ call'[c].pc = "idle" /\ call'[c].trial = NoTrial
          /\ \A d \in Callers \ {c} : call'[d] = call[d]
<1>1. Idle \in Call
  BY DEF Idle, Call
<1> QED
  BY <1>1 DEF AdmissionTypeOK, Return, Idle

\* What a call relies on holds after a step that leaves the call and the rows
\* of its trial alone.
LEMMA CallUndisturbed ==
    ASSUME AdmissionInv, WindowsStand, RequestAssumption, NEW c \in Callers, call'[c] = call[c],
           NEW t, t = call[c].trial,
           Holding(c) => /\ Status(t)' = Status(t) /\ reservedAt'[t] = reservedAt[t]
                         /\ OwnsSlot(t)' <=> OwnsSlot(t)
                         /\ Slot(t) \in consumed => Slot(t) \in consumed'
                         /\ t \in lost => t \in lost'
                         /\ \A d \in Callers \ {c} : Holding(d)' => call'[d].trial # t
    PROVE CallStands(c)'
<1>1. CallStands(c) /\ call[c] \in Call
  BY DEF AdmissionInv, AdmissionTypeOK
<1>2. Holding(c)' <=> Holding(c)
  BY DEF Holding
<1>3. CASE ~ Holding(c)
  BY <1>1, <1>2, <1>3 DEF CallStands
<1>4. CASE Holding(c)
  <2>1. t \in Trials /\ call'[c].trial = t /\ call[c].pc # "idle"
    BY <1>1, <1>4 DEF CallStands, Holding, Call
  <2>2. Slot(t)' = Slot(t)
    BY <1>4 DEF Slot
  <2>3. PermitOf[t] # NoPermit => PermitOf[t] \in Permits
    BY <2>1 DEF RequestAssumption
  <2>4. call[c].at \in Nat
    BY <1>1 DEF Call
  <2>5. PermitOf[t] # NoPermit /\ InWindow(PermitOf[t], call[c].at)
          => InWindow(PermitOf[t], call[c].at)'
    BY <2>3, <2>4 DEF WindowsStand
  <2> QED
    BY <1>1, <1>2, <1>4, <2>1, <2>2, <2>5 DEF CallStands
<1> QED
  BY <1>3, <1>4

-----------------------------------------------------------------------------
(* The clock, the budgets and the founder. *)

FounderStep(p) == \/ Issue(p) \/ SampleRevocation(p)
                  \/ CommitRevocation(p) \/ AbandonRevocation(p)

\* What is written into a permit when it is issued or revoked.
LEMMA PermitFacts ==
    ASSUME RequestAssumption, AdmissionTypeOK, NEW p \in Permits,
           Issue(p) \/ CommitRevocation(p)
    PROVE /\ permit' \in [Permits -> Permit]
          /\ \A q \in Permits \ {p} : permit'[q] = permit[q]
          /\ Issued(p) => /\ permit'[p].issued_at = permit[p].issued_at
                          /\ permit'[p].expires_at = permit[p].expires_at
<1>1. permit[p] \in Permit /\ now \in Times /\ revoking[p] \in Times
  BY DEF AdmissionTypeOK, Times
<1>2. CASE Issue(p)
  <2>1. PICK e \in (now + 1) .. (MaxTime + 1) :
          permit' = [permit EXCEPT ![p].issued_at = now, ![p].expires_at = e]
    BY <1>2 DEF Issue
  <2>2. e \in Times
    BY <1>1 DEF AdmissionTypeOK, RequestAssumption, Times
  <2>3. permit' = [permit EXCEPT ![p] = [@ EXCEPT !.issued_at = now, !.expires_at = e]]
    BY <2>1
  <2>4. [permit[p] EXCEPT !.issued_at = now, !.expires_at = e] \in Permit
    BY <1>1, <2>2 DEF Permit
  <2> QED
    BY <1>2, <2>3, <2>4 DEF Issue, AdmissionTypeOK
<1>3. CASE CommitRevocation(p)
  <2>1. permit' = [permit EXCEPT ![p] = [@ EXCEPT !.revoked_at = revoking[p],
                                                  !.revokedWhen = now]]
    BY <1>3 DEF CommitRevocation
  <2> DEFINE new == [permit[p] EXCEPT !.revoked_at = revoking[p], !.revokedWhen = now]
  <2>2. new \in Permit /\ new.issued_at = permit[p].issued_at
        /\ new.expires_at = permit[p].expires_at
    BY <1>1 DEF Permit
  <2>3. permit'[p] = new
    BY <2>1 DEF AdmissionTypeOK
  <2> HIDE DEF new
  <2> QED
    BY <2>1, <2>2, <2>3 DEF AdmissionTypeOK
<1> QED
  BY <1>2, <1>3

LEMMA FounderTyped ==
    ASSUME RequestAssumption, AdmissionTypeOK, NEW p \in Permits, FounderStep(p)
    PROVE AdmissionTypeOK' /\ WindowsStand
<1>1. CASE Issue(p)
  <2>1. permit' \in [Permits -> Permit] /\ ~ Issued(p)
        /\ \A q \in Permits \ {p} : permit'[q] = permit[q]
    BY <1>1, PermitFacts DEF Issue
  <2>2. WindowsStand
    BY <2>1 DEF WindowsStand, InWindow, Issued
  <2> QED
    BY <1>1, <2>1, <2>2 DEF Issue, AdmissionTypeOK, ledgerVars
<1>2. CASE CommitRevocation(p)
  <2>1. /\ permit' \in [Permits -> Permit]
        /\ \A q \in Permits \ {p} : permit'[q] = permit[q]
        /\ Issued(p) => /\ permit'[p].issued_at = permit[p].issued_at
                        /\ permit'[p].expires_at = permit[p].expires_at
    BY <1>2, PermitFacts
  <2>2. WindowsStand
    BY <2>1 DEF WindowsStand, InWindow, Issued
  <2>3. revoking' \in [Permits -> Times]
    BY <1>2 DEF CommitRevocation, AdmissionTypeOK, Times
  <2> QED
    BY <1>2, <2>1, <2>2, <2>3 DEF CommitRevocation, AdmissionTypeOK, ledgerVars
<1>3. CASE SampleRevocation(p) \/ AbandonRevocation(p)
  <2>1. now \in Times /\ Never \in Times
    BY DEF AdmissionTypeOK, Times
  <2>2. revoking' = [revoking EXCEPT ![p] = now] \/ revoking' = [revoking EXCEPT ![p] = Never]
    BY <1>3 DEF SampleRevocation, AbandonRevocation
  <2>3. revoking' \in [Permits -> Times]
    BY <2>1, <2>2 DEF AdmissionTypeOK
  <2> QED
    BY <1>3, <2>3 DEF SampleRevocation, AbandonRevocation, AdmissionTypeOK, ledgerVars,
       WindowsStand, InWindow, Issued
<1> QED
  BY <1>1, <1>2, <1>3 DEF FounderStep

LEMMA ClockTyped ==
    ASSUME RequestAssumption, AdmissionTypeOK, Tick \/ \E b \in Budgets : RegisterBudget(b)
    PROVE AdmissionTypeOK' /\ WindowsStand
<1>1. now' \in 0 .. MaxTime
  BY DEF Tick, RegisterBudget, AdmissionTypeOK, RequestAssumption
<1>2. budgets' \subseteq Budgets
  BY DEF Tick, RegisterBudget, AdmissionTypeOK, ledgerVars
<1> QED
  BY <1>1, <1>2 DEF Tick, RegisterBudget, AdmissionTypeOK, ledgerVars, authorityVars,
     WindowsStand, InWindow, Issued

\* A step that writes neither trials nor slots keeps the invariant.
LEMMA RowsUntouched ==
    ASSUME RequestAssumption, AdmissionInv, AdmissionTypeOK', WindowsStand,
           UNCHANGED <<reservedAt, history, consumed, call, lost>>
    PROVE AdmissionInv'
<1>1. \A t \in Trials : /\ Status(t)' = Status(t) /\ (Admitted(t)' <=> Admitted(t))
                        /\ Slot(t)' = Slot(t) /\ OwnsSlot(t)' = OwnsSlot(t)
  BY DEF Status, Admitted, Slot, OwnsSlot
<1>2. \A c \in Callers : CallStands(c)'
  <2> TAKE c \in Callers
  <2>1. PICK t : t = call[c].trial
    OBVIOUS
  <2>2. Holding(c) => t \in Trials
    BY <2>1 DEF AdmissionInv, CallStands, Holding, AdmissionTypeOK, Call
  <2>3. \A d \in Callers : Holding(d)' <=> Holding(d)
    BY DEF Holding
  <2>4. Holding(c) => \A d \in Callers \ {c} : Holding(d) => call'[d].trial # t
    BY <2>1 DEF AdmissionInv, CallStands
  <2> QED
    BY <1>1, <2>1, <2>2, <2>3, <2>4, CallUndisturbed
<1>3. RowsStand'
  BY DEF AdmissionInv, RowsStand, Slot
<1>4. AdmittedOwnsSlot'
  <2> SUFFICES ASSUME NEW t \in Trials, Admitted(t)', PermitOf[t] # NoPermit
               PROVE (Slot(t) \in consumed)' /\ InWindow(PermitOf[t], reservedAt[t])'
    BY DEF AdmittedOwnsSlot
  <2>1. Slot(t) \in consumed /\ InWindow(PermitOf[t], reservedAt[t])
    BY <1>1 DEF AdmissionInv, AdmittedOwnsSlot
  <2>2. PermitOf[t] \in Permits /\ reservedAt[t] \in Nat
    BY <2>1 DEF RequestAssumption, AdmissionInv, AdmissionTypeOK, Slot, Consumption
  <2> QED
    BY <1>1, <2>1, <2>2 DEF WindowsStand
<1>5. PermitNotOverspent'
  BY DEF AdmissionInv, PermitNotOverspent, SlotsOf
<1>6. StrandedOnlyByFailure'
  BY <1>1 DEF AdmissionInv, StrandedOnlyByFailure
<1> QED
  BY <1>2, <1>3, <1>4, <1>5, <1>6 DEF AdmissionInv

LEMMA FounderKeepsInv ==
    ASSUME RequestAssumption, AdmissionInv,
           \/ Tick \/ \E b \in Budgets : RegisterBudget(b)
           \/ \E p \in Permits : FounderStep(p)
    PROVE AdmissionInv'
<1>1. AdmissionTypeOK' /\ WindowsStand
  BY FounderTyped, ClockTyped DEF AdmissionInv
<1>2. UNCHANGED <<reservedAt, history, consumed, call, lost>>
  BY DEF Tick, RegisterBudget, FounderStep, Issue, SampleRevocation, CommitRevocation,
         AbandonRevocation, ledgerVars, authorityVars
<1> QED
  BY <1>1, <1>2, RowsUntouched

-----------------------------------------------------------------------------
(* The steps of a caller that write no row. *)

CallOnly(c) == \/ \E t \in Trials : Begin(c, t)
               \/ Refuse(c) \/ GateStops(c) \/ GatesPass(c) \/ ConsumeRefused(c)
               \/ Busy(c) \/ CrashCaller(c)

\* The call moves on with its trial and time, or ends, or begins.
LEMMA CallOnlyFacts ==
    ASSUME AdmissionInv, NEW c \in Callers, CallOnly(c)
    PROVE /\ UNCHANGED <<now, ledgerVars, authorityVars>>
          /\ call' \in [Callers -> Call]
          /\ \A d \in Callers \ {c} : call'[d] = call[d]
          /\ lost \subseteq lost' /\ lost' \subseteq Trials
          /\ \/ /\ Holding(c) /\ Holding(c)'
                /\ call'[c].trial = call[c].trial /\ call'[c].at = call[c].at
             \/ /\ call'[c].pc = "idle" <=> call'[c].trial = NoTrial
                /\ ~ Holding(c)'
                /\ Holding(c) => call[c].trial \in lost'
<1> USE DEF AdmissionInv
<1>1. call[c] \in Call /\ CallStands(c) /\ lost \subseteq Trials /\ AdmissionTypeOK
  BY DEF AdmissionTypeOK
<1>2. CASE \E t \in Trials : Begin(c, t)
  <2>1. PICK t \in Trials : Begin(c, t)
    BY <1>2
  <2> DEFINE new == [pc |-> "reserve", trial |-> t, at |-> now]
  <2>2. new \in Call /\ new.pc = "reserve" /\ new.trial = t
    BY <1>1 DEF AdmissionTypeOK, Call
  <2>3. call' = [call EXCEPT ![c] = new]
    BY <2>1 DEF Begin
  <2> HIDE DEF new
  <2>4. /\ call' \in [Callers -> Call] /\ call'[c] = new
        /\ \A d \in Callers \ {c} : call'[d] = call[d]
    BY <2>2, <2>3 DEF AdmissionTypeOK
  <2>5. t # NoTrial /\ ~ Holding(c) /\ ~ Holding(c)'
    BY <2>1, <2>2, <2>4, RequestAssumption DEF Begin, Holding, RequestAssumption
  <2> QED
    BY <1>1, <2>1, <2>2, <2>4, <2>5 DEF Begin
<1>3. CASE Refuse(c)
  <2>1. Return(c) /\ ~ Holding(c)
    BY <1>3 DEF Refuse, Holding
  <2>2. ~ Holding(c)'
    BY <1>1, <2>1, ReturnFacts DEF Holding
  <2> QED
    BY <1>1, <1>3, <2>1, <2>2, ReturnFacts DEF Refuse
<1>4. CASE GateStops(c) \/ GatesPass(c) \/ ConsumeRefused(c)
  <2>1. PICK pc \in {"consume", "admit", "stop"} : Goto(c, pc)
    BY <1>4 DEF GateStops, GatesPass, ConsumeRefused
  <2>2. Holding(c) /\ UNCHANGED <<now, ledgerVars, authorityVars, lost>>
    BY <1>4 DEF GateStops, GatesPass, ConsumeRefused, Holding
  <2> HIDE <1>4
  <2>3. Holding(c)'
    BY <1>1, <2>1, GotoFacts DEF Holding
  <2> QED
    BY <1>1, <2>1, <2>2, <2>3, GotoFacts
<1>5. CASE Busy(c)
  <2>1. UNCHANGED <<now, ledgerVars, authorityVars>> /\ Holding(c)
        /\ (lost' = lost \/ lost' = lost \cup {call[c].trial})
    BY <1>5 DEF Busy, Holding
  <2>2. call[c].trial \in Trials
    BY <1>1, <2>1 DEF CallStands, Holding, Call
  <2>3. CASE Goto(c, "stop")
    <3>1. Holding(c)'
      BY <1>1, <2>3, GotoFacts DEF Holding
    <3> QED
      BY <1>1, <2>1, <2>2, <2>3, <3>1, GotoFacts
  <2>4. CASE Return(c) /\ lost' = lost \cup {call[c].trial}
    <3>1. ~ Holding(c)'
      BY <1>1, <2>4, ReturnFacts DEF Holding
    <3> QED
      BY <1>1, <2>1, <2>2, <2>4, <3>1, ReturnFacts
  <2> QED
    BY <1>5, <2>3, <2>4 DEF Busy
<1>6. CASE CrashCaller(c)
  <2>1. Return(c) /\ UNCHANGED <<now, ledgerVars, authorityVars>>
    BY <1>6 DEF CrashCaller
  <2>2. ~ Holding(c)'
    BY <1>1, <2>1, ReturnFacts DEF Holding
  <2>3. CASE call[c].pc = "reserve" /\ UNCHANGED lost
    <3>1. ~ Holding(c)
      BY <2>3 DEF Holding
    <3> QED
      BY <1>1, <2>1, <2>2, <2>3, <3>1, ReturnFacts
  <2>4. CASE call[c].pc # "idle" /\ lost' = lost \cup {call[c].trial}
    <3>1. call[c].trial \in Trials
      BY <1>1, <2>4 DEF CallStands, Call
    <3> QED
      BY <1>1, <2>1, <2>2, <2>4, <3>1, ReturnFacts
  <2> QED
    BY <1>6, <2>3, <2>4 DEF CrashCaller
<1> QED
  BY <1>2, <1>3, <1>4, <1>5, <1>6 DEF CallOnly

\* No row is written, so what the rows tell stays; only the call of this
\* caller is to be looked at.
LEMMA CallOnlyKeepsInv ==
    ASSUME RequestAssumption, AdmissionInv, NEW c \in Callers, CallOnly(c), CallStands(c)'
    PROVE AdmissionInv'
<1>1. /\ UNCHANGED <<now, ledgerVars, authorityVars>>
      /\ call' \in [Callers -> Call]
      /\ \A d \in Callers \ {c} : call'[d] = call[d]
      /\ lost \subseteq lost' /\ lost' \subseteq Trials
      /\ \/ Holding(c) /\ Holding(c)' /\ call'[c].trial = call[c].trial
         \/ ~ Holding(c)' /\ (Holding(c) => call[c].trial \in lost')
  BY CallOnlyFacts
<1>2. UNCHANGED <<now, budgets, reservedAt, history, permit, consumed, revoking>>
  BY <1>1 DEF ledgerVars, authorityVars
<1>3. AdmissionTypeOK'
  BY <1>1, <1>2 DEF AdmissionInv, AdmissionTypeOK
<1>4. WindowsStand
  BY <1>2 DEF WindowsStand, InWindow, Issued
<1>5. \A t \in Trials : /\ Status(t)' = Status(t) /\ (Admitted(t)' <=> Admitted(t))
                        /\ Slot(t)' = Slot(t) /\ OwnsSlot(t)' = OwnsSlot(t)
  BY <1>2 DEF Status, Admitted, Slot, OwnsSlot
<1>6. \A d \in Callers : d # c => CallStands(d)'
  <2> TAKE d \in Callers
  <2> HAVE d # c
  <2>1. PICK t : t = call[d].trial
    OBVIOUS
  <2>2. Holding(d) => t \in Trials
    BY <2>1 DEF AdmissionInv, CallStands, Holding, AdmissionTypeOK, Call
  <2>3. \A e \in Callers \ {c} : Holding(e)' <=> Holding(e)
    BY <1>1 DEF Holding
  <2>4. Holding(d) => \A e \in Callers \ {d} : Holding(e) => call[e].trial # t
    BY <2>1 DEF AdmissionInv, CallStands
  <2>5. Holding(d) => \A e \in Callers \ {d} : Holding(e)' => call'[e].trial # t
    BY <1>1, <2>3, <2>4
  <2> QED
    BY <1>1, <1>2, <1>4, <1>5, <2>1, <2>2, <2>5, CallUndisturbed
<1>7. \A d \in Callers : CallStands(d)'
  BY <1>6
<1>8. RowsStand' /\ PermitNotOverspent'
  BY <1>2 DEF AdmissionInv, RowsStand, Slot, PermitNotOverspent, SlotsOf
<1>9. AdmittedOwnsSlot'
  BY <1>2, <1>5 DEF AdmissionInv, AdmittedOwnsSlot, InWindow, Issued
<1>10. StrandedOnlyByFailure'
  <2> SUFFICES ASSUME NEW t \in Trials, t \notin lost',
                      ~ (Status(t) # "RESERVED" /\ (OwnsSlot(t) => Admitted(t)))
               PROVE \E d \in Callers : call'[d].trial = t /\ call'[d].pc # "reserve"
    BY <1>5 DEF StrandedOnlyByFailure
  <2>1. PICK d \in Callers : call[d].trial = t /\ call[d].pc # "reserve"
    BY <1>1 DEF AdmissionInv, StrandedOnlyByFailure
  <2>2. Holding(d)
    BY <2>1, RequestAssumption DEF RequestAssumption, AdmissionInv, AdmissionTypeOK, Call,
       CallStands, Holding
  <2>3. Holding(d)' /\ call'[d].trial = t
    BY <1>1, <2>1, <2>2 DEF Holding
  <2> QED
    BY <2>3 DEF Holding
<1> QED
  BY <1>3, <1>7, <1>8, <1>9, <1>10 DEF AdmissionInv

\* The call of a caller that wrote no row stands.
LEMMA CallOnlyStands ==
    ASSUME RequestAssumption, AdmissionInv, NEW c \in Callers, CallOnly(c)
    PROVE CallStands(c)'
<1>1. /\ UNCHANGED <<now, ledgerVars, authorityVars>>
      /\ \A d \in Callers \ {c} : call'[d] = call[d]
      /\ lost \subseteq lost'
      /\ \/ /\ Holding(c) /\ Holding(c)'
            /\ call'[c].trial = call[c].trial /\ call'[c].at = call[c].at
         \/ /\ call'[c].pc = "idle" <=> call'[c].trial = NoTrial
            /\ ~ Holding(c)'
  BY CallOnlyFacts
<1>2. CASE ~ Holding(c)'
  BY <1>1, <1>2 DEF CallStands
<1>3. CASE Holding(c) /\ Holding(c)' /\ call'[c].trial = call[c].trial /\ call'[c].at = call[c].at
  <2> PICK t : t = call[c].trial
    OBVIOUS
  <2>1. UNCHANGED <<reservedAt, history, permit, consumed>>
    BY <1>1 DEF ledgerVars, authorityVars
  <2>2. /\ Status(t)' = Status(t) /\ Slot(t)' = Slot(t) /\ OwnsSlot(t)' = OwnsSlot(t)
        /\ InWindow(PermitOf[t], call[c].at)' = InWindow(PermitOf[t], call[c].at)
    BY <1>3, <2>1 DEF Status, Slot, OwnsSlot, InWindow, Issued
  <2>3. \A d \in Callers \ {c} : Holding(d)' => call'[d].trial # t
    BY <1>1, <1>3 DEF AdmissionInv, CallStands, Holding
  <2>4. CallStands(c) /\ call[c].pc # "idle" /\ call'[c].pc # "idle"
    BY <1>3 DEF AdmissionInv, Holding
  <2>5. /\ call'[c].pc \in {"gates", "consume"} => ~ OwnsSlot(t)
        /\ call'[c].pc = "consume" => PermitOf[t] # NoPermit
        /\ call'[c].pc = "admit" /\ PermitOf[t] # NoPermit =>
                Slot(t) \in consumed /\ InWindow(PermitOf[t], call[c].at)
        /\ call'[c].pc = "stop" /\ OwnsSlot(t) => t \in lost'
    <3>1. CASE GateStops(c) \/ GatesPass(c) \/ ConsumeRefused(c)
      <4>1. /\ call[c].pc \in {"gates", "consume"}
            /\ call'[c].pc \in {"consume", "admit", "stop"}
            /\ call'[c].pc = "consume" => PermitOf[t] # NoPermit
            /\ call'[c].pc = "admit" => PermitOf[t] = NoPermit
        BY <3>1, GotoFacts DEF GateStops, GatesPass, ConsumeRefused, AdmissionInv
      <4> QED
        BY <1>3, <2>4, <4>1 DEF CallStands
    <3>2. CASE Busy(c)
      <4>1. CASE call[c].pc = "consume" /\ Goto(c, "stop")
        BY <1>3, <2>4, <4>1, GotoFacts DEF CallStands, AdmissionInv
      <4>2. CASE call[c].pc = "admit" /\ Goto(c, "stop") /\ lost' = lost \cup {call[c].trial}
        BY <4>2, GotoFacts DEF AdmissionInv
      <4>3. CASE Return(c)
        BY <1>3, <4>3, ReturnFacts DEF AdmissionInv, Holding
      <4> QED
        BY <3>2, <4>1, <4>2, <4>3 DEF Busy
    <3>3. CASE (\E u \in Trials : Begin(c, u)) \/ Refuse(c) \/ CrashCaller(c)
      <4>1. CASE \E u \in Trials : Begin(c, u)
        BY <1>3, <4>1 DEF Begin, Holding
      <4>2. CASE Refuse(c) \/ CrashCaller(c)
        <5>1. Return(c)
          BY <4>2 DEF Refuse, CrashCaller
        <5> QED
          BY <1>3, <5>1, ReturnFacts DEF AdmissionInv, Holding
      <4> QED
        BY <3>3, <4>1, <4>2
    <3> QED
      BY <3>1, <3>2, <3>3 DEF CallOnly
  <2>6. t # NoTrial /\ Status(t) = "RESERVED" /\ reservedAt[t] = call[c].at
    BY <1>3, <2>4 DEF CallStands
  <2> QED
    BY <1>3, <2>1, <2>2, <2>3, <2>4, <2>5, <2>6 DEF CallStands
<1> QED
  BY <1>1, <1>2, <1>3

-----------------------------------------------------------------------------
(* The steps that append an event: a caller either is moved by the step, and *)
(* works for its trial, or is left alone, and works for another.             *)

Moved(c, t) == /\ CallStands(c)'
               /\ Holding(c) \/ Holding(c)' => call[c].trial = t
               /\ Holding(c)' => call'[c].trial = t

LeftAlone(c, t) == call'[c] = call[c] /\ (Holding(c) => call[c].trial # t)

LEMMA EventKeepsInv ==
    ASSUME RequestAssumption, AdmissionInv,
           NEW t \in Trials, NEW s \in Statuses, AppendEvent(t, s),
           UNCHANGED <<now, budgets, permit, consumed, revoking>>,
           lost \subseteq lost', lost' \subseteq Trials,
           reservedAt' \in [Trials -> Times], reservedAt'[t] # Never,
           \A u \in Trials \ {t} : reservedAt'[u] = reservedAt[u],
           OwnsSlot(t) => reservedAt'[t] = reservedAt[t],
           call' \in [Callers -> Call],
           \A c \in Callers : Moved(c, t) \/ LeftAlone(c, t),
           Admitted(t)' /\ PermitOf[t] # NoPermit =>
               Slot(t)' \in consumed /\ InWindow(PermitOf[t], reservedAt'[t]),
           \/ t \in lost'
           \/ \E c \in Callers : call'[c].trial = t /\ call'[c].pc # "reserve"
           \/ s # "RESERVED" /\ (OwnsSlot(t) => Admitted(t)')
    PROVE AdmissionInv'
<1>1. AdmissionTypeOK /\ (\A c \in Callers : CallStands(c)) /\ RowsStand
  BY DEF AdmissionInv
<1>2. /\ history' \in [Trials -> Seq(Statuses)]
      /\ Status(t)' = s /\ history'[t] # <<>>
      /\ \A u \in Trials \ {t} : /\ history'[u] = history[u]
                                 /\ Status(u)' = Status(u)
                                 /\ Admitted(u)' <=> Admitted(u)
  BY <1>1, EventFacts
<1>3. AdmissionTypeOK'
  BY <1>1, <1>2 DEF AdmissionTypeOK
<1>4. \A p, at : InWindow(p, at)' <=> InWindow(p, at)
  BY DEF InWindow, Issued
<1>5. \A u : OwnsSlot(u)' <=> OwnsSlot(u)
  BY DEF OwnsSlot
<1>6. \A u \in Trials \ {t} : Slot(u)' = Slot(u)
  BY DEF Slot
<1>7. ASSUME NEW c \in Callers, LeftAlone(c, t) PROVE CallStands(c)'
  <2>1. PICK u : u = call[c].trial
    OBVIOUS
  <2>2. Holding(c) => u \in Trials \ {t}
    BY <1>1, <1>7, <2>1 DEF CallStands, Holding, AdmissionTypeOK, Call, LeftAlone
  <2>3. \A d \in Callers : LeftAlone(d, t) => (Holding(d)' <=> Holding(d))
    BY DEF Holding, LeftAlone
  <2>4. Holding(c) => \A d \in Callers \ {c} : Holding(d) => call[d].trial # u
    BY <1>1, <2>1 DEF CallStands
  <2>5. Holding(c) => \A d \in Callers \ {c} : Holding(d)' => call'[d].trial # u
    BY <2>2, <2>3, <2>4 DEF Moved, LeftAlone
  <2> QED
    BY <1>2, <1>4, <1>5, <1>6, <1>7, <2>1, <2>2, <2>5, CallUndisturbed
       DEF WindowsStand, LeftAlone
<1>8. RowsStand'
  <2>1. \A u \in Trials : reservedAt'[u] = Never => history'[u] = <<>>
    BY <1>1, <1>2 DEF RowsStand
  <2>2. \A k \in consumed : k = Slot(k.trial)'
    <3> TAKE k \in consumed
    <3>1. k.trial \in Trials /\ OwnsSlot(k.trial) /\ k = Slot(k.trial)
      BY <1>1 DEF OwnsSlot, AdmissionTypeOK, Consumption, RowsStand
    <3>2. reservedAt'[k.trial] = reservedAt[k.trial]
      BY <3>1
    <3> QED
      BY <3>1, <3>2 DEF Slot
  <2> QED
    BY <2>1, <2>2 DEF RowsStand
<1>9. AdmittedOwnsSlot'
  <2> SUFFICES ASSUME NEW u \in Trials, Admitted(u)', PermitOf[u] # NoPermit
               PROVE Slot(u)' \in consumed /\ InWindow(PermitOf[u], reservedAt'[u])
    BY <1>4 DEF AdmittedOwnsSlot
  <2>1. CASE u # t
    BY <1>2, <1>6, <2>1 DEF AdmissionInv, AdmittedOwnsSlot
  <2> QED
    BY <2>1
<1>10. PermitNotOverspent'
  BY DEF AdmissionInv, PermitNotOverspent, SlotsOf
<1>11. StrandedOnlyByFailure'
  <2> SUFFICES ASSUME NEW u \in Trials
               PROVE \/ u \in lost'
                     \/ \E c \in Callers : call'[c].trial = u /\ call'[c].pc # "reserve"
                     \/ Status(u)' # "RESERVED" /\ (OwnsSlot(u) => Admitted(u)')
    BY <1>5 DEF StrandedOnlyByFailure
  <2>1. CASE u = t
    BY <1>2, <2>1
  <2>2. CASE u # t
    <3>1. \/ u \in lost
          \/ \E c \in Callers : call[c].trial = u /\ call[c].pc # "reserve"
          \/ Status(u) # "RESERVED" /\ (OwnsSlot(u) => Admitted(u))
      BY DEF AdmissionInv, StrandedOnlyByFailure
    <3>2. ASSUME NEW c \in Callers, call[c].trial = u, call[c].pc # "reserve"
          PROVE call'[c].trial = u /\ call'[c].pc # "reserve"
      <4>1. Holding(c)
        BY <1>1, <3>2 DEF RequestAssumption, AdmissionTypeOK, Call, CallStands, Holding
      <4>2. ~ Moved(c, t)
        BY <2>2, <3>2, <4>1 DEF Moved
      <4> QED
        BY <3>2, <4>2 DEF LeftAlone
    <3> QED
      BY <1>2, <2>2, <3>1, <3>2
  <2> QED
    BY <2>1, <2>2
<1>12. \A c \in Callers : CallStands(c)'
  BY <1>7 DEF Moved
<1> QED
  BY <1>3, <1>8, <1>9, <1>10, <1>11, <1>12 DEF AdmissionInv

LEMMA ReserveKeepsInv ==
    ASSUME RequestAssumption, AdmissionInv, NEW c \in Callers, Reserve(c)
    PROVE AdmissionInv'
<1> PICK t : t = call[c].trial
  OBVIOUS
<1>1. /\ AdmissionTypeOK /\ call[c] \in Call /\ t \in Trials /\ call[c].at \in Nat
      /\ call[c].pc = "reserve" /\ ~ Holding(c)
  BY DEF Reserve, AdmissionInv, AdmissionTypeOK, Call, CallStands, Holding
<1>2. /\ reservedAt[t] = Never /\ reservedAt' = [reservedAt EXCEPT ![t] = call[c].at]
      /\ AppendEvent(t, "RESERVED") /\ Goto(c, "gates")
      /\ UNCHANGED <<now, budgets, permit, consumed, revoking, lost>>
  BY DEF Reserve, Reservable, authorityVars
<1>3. /\ call' \in [Callers -> Call]
      /\ call'[c].pc = "gates" /\ call'[c].trial = t /\ call'[c].at = call[c].at
      /\ \A d \in Callers \ {c} : call'[d] = call[d]
  BY <1>1, <1>2, GotoFacts
<1>4. /\ reservedAt' \in [Trials -> Times] /\ reservedAt'[t] = call[c].at
      /\ \A u \in Trials \ {t} : reservedAt'[u] = reservedAt[u]
  BY <1>1, <1>2 DEF AdmissionTypeOK, Times
<1>5. ~ OwnsSlot(t) /\ ~ OwnsSlot(t)'
  <2> SUFFICES ASSUME NEW k \in consumed, k.trial = t PROVE FALSE
    BY <1>2 DEF OwnsSlot
  <2>1. k.reserved_at = reservedAt[t] /\ k.reserved_at \in Nat
    BY <1>1 DEF AdmissionInv, RowsStand, Slot, AdmissionTypeOK, Consumption
  <2> QED
    BY <1>2, <2>1 DEF RequestAssumption
<1>6. \A d \in Callers : Holding(d) => call[d].trial # t
  <2> SUFFICES ASSUME NEW d \in Callers, Holding(d), call[d].trial = t PROVE FALSE
    OBVIOUS
  <2>1. reservedAt[t] = call[d].at /\ call[d].at \in Nat
    BY DEF AdmissionInv, CallStands, AdmissionTypeOK, Call
  <2> QED
    BY <1>2, <2>1 DEF RequestAssumption
<1>7. Status(t)' = "RESERVED" /\ ~ Admitted(t)'
  BY <1>1, <1>2, EventFacts, NothingAdmitted DEF Statuses, AdmissionInv, RowsStand
<1>8. CallStands(c)'
  <2>1. \A d \in Callers \ {c} : Holding(d)' => call'[d].trial # t
    BY <1>3, <1>6 DEF Holding
  <2> QED
    BY <1>1, <1>3, <1>4, <1>5, <1>7, <2>1 DEF CallStands, RequestAssumption
<1>9. Never # call[c].at
  BY <1>1 DEF RequestAssumption
<1>10. call'[c].trial = t /\ call'[c].pc # "reserve"
  BY <1>3
<1>11. "RESERVED" \in Statuses /\ lost \subseteq Trials
  BY <1>1 DEF Statuses, AdmissionTypeOK
<1>12. \A d \in Callers : Moved(d, t) \/ LeftAlone(d, t)
  BY <1>1, <1>3, <1>6, <1>8 DEF Moved, LeftAlone
<1>13. \/ t \in lost'
       \/ \E d \in Callers : call'[d].trial = t /\ call'[d].pc # "reserve"
       \/ "RESERVED" # "RESERVED" /\ (OwnsSlot(t) => Admitted(t)')
  BY <1>10
<1>14. /\ UNCHANGED <<now, budgets, permit, consumed, revoking>>
       /\ lost \subseteq lost' /\ lost' \subseteq Trials /\ reservedAt'[t] # Never
  BY <1>2, <1>4, <1>9, <1>11
<1> QED
  BY <1>1, <1>2, <1>3, <1>4, <1>5, <1>7, <1>11, <1>12, <1>13, <1>14, EventKeepsInv

\* A reserved trial becomes admitted or stopped and its call returns.
LEMMA DecisionKeepsInv ==
    ASSUME RequestAssumption, AdmissionInv, NEW c \in Callers, Admit(c) \/ Stop(c)
    PROVE AdmissionInv'
<1> PICK t : t = call[c].trial
  OBVIOUS
<1> PICK s \in {"ADMITTED", "STOPPED"} :
      /\ s = "ADMITTED" <=> call[c].pc = "admit"
      /\ s = "STOPPED" <=> call[c].pc = "stop"
      /\ AppendEvent(t, s)
  BY DEF Admit, Stop
<1>1. /\ AdmissionTypeOK /\ call[c] \in Call /\ t \in Trials /\ Holding(c)
      /\ UNCHANGED <<now, budgets, reservedAt, permit, consumed, revoking, lost>>
      /\ Return(c)
  BY DEF Admit, Stop, AdmissionInv, AdmissionTypeOK, Call, CallStands, Holding, authorityVars
<1>2. CallStands(c)
  BY DEF AdmissionInv
<1>3. /\ call' \in [Callers -> Call]
      /\ call'[c].pc = "idle" /\ call'[c].trial = NoTrial
      /\ \A d \in Callers \ {c} : call'[d] = call[d]
  BY <1>1, ReturnFacts
<1>4. CallStands(c)' /\ ~ Holding(c)'
  BY <1>3 DEF CallStands, Holding
<1>5. s \in Statuses /\ lost \subseteq Trials
      /\ reservedAt \in [Trials -> Times]
  BY <1>1 DEF Statuses, AdmissionTypeOK
<1>6. reservedAt[t] = call[c].at /\ reservedAt[t] # Never /\ Status(t) = "RESERVED"
  BY <1>1, <1>2 DEF CallStands, Call, RequestAssumption
<1>7. Admitted(t)' <=> Admitted(t) \/ s = "ADMITTED"
  BY <1>1, <1>5, EventFacts
<1>8. Slot(t)' = Slot(t)
  BY <1>1 DEF Slot
<1>9. Admitted(t)' /\ PermitOf[t] # NoPermit =>
        Slot(t)' \in consumed /\ InWindow(PermitOf[t], reservedAt'[t])
  <2>1. CASE s = "ADMITTED"
    BY <1>1, <1>2, <1>6, <1>8, <2>1 DEF CallStands
  <2>2. CASE Admitted(t)
    BY <1>1, <1>8, <2>2 DEF AdmissionInv, AdmittedOwnsSlot
  <2> QED
    BY <1>7, <2>1, <2>2
<1>10. \/ t \in lost'
       \/ \E d \in Callers : call'[d].trial = t /\ call'[d].pc # "reserve"
       \/ s # "RESERVED" /\ (OwnsSlot(t) => Admitted(t)')
  BY <1>1, <1>2, <1>7 DEF CallStands
<1>11. \A d \in Callers \ {c} : Holding(d) => call[d].trial # t
  BY <1>1, <1>2 DEF CallStands
<1>12. \A u \in Trials : reservedAt'[u] = reservedAt[u]
  BY <1>1
<1>13. \A d \in Callers : Moved(d, t) \/ LeftAlone(d, t)
  BY <1>1, <1>3, <1>4, <1>11 DEF Moved, LeftAlone
<1>14. /\ UNCHANGED <<now, budgets, permit, consumed, revoking>>
       /\ lost \subseteq lost' /\ lost' \subseteq Trials
       /\ reservedAt' \in [Trials -> Times] /\ reservedAt'[t] # Never
       /\ \A u \in Trials \ {t} : reservedAt'[u] = reservedAt[u]
       /\ OwnsSlot(t) => reservedAt'[t] = reservedAt[t]
  BY <1>1, <1>5, <1>6, <1>12
<1> QED
  BY <1>1, <1>3, <1>5, <1>9, <1>10, <1>13, <1>14, EventKeepsInv

-----------------------------------------------------------------------------
(* The slots. *)

\* A slot is taken by the only call of its trial, while there is one free.
LEMMA ConsumeFacts ==
    ASSUME RequestAssumption, AdmissionInv, NEW c \in Callers, Consume(c),
           NEW t, t = call[c].trial
    PROVE /\ t \in Trials /\ PermitOf[t] \in Permits
          /\ Holding(c) /\ CallStands(c) /\ call[c].at \in Nat
          /\ consumed' = consumed \cup {Slot(t)} /\ Slot(t) \in Consumption
          /\ ~ Revoked(PermitOf[t]) /\ InWindow(PermitOf[t], call[c].at)
          /\ t \notin SlotsOf(PermitOf[t])
          /\ Cardinality(SlotsOf(PermitOf[t])) < Fixed[PermitOf[t]]
          /\ SlotsOf(PermitOf[t])' = SlotsOf(PermitOf[t]) \cup {t}
          /\ \A p \in Permits \ {PermitOf[t]} : SlotsOf(p)' = SlotsOf(p)
<1>1. /\ call[c] \in Call /\ CallStands(c) /\ Holding(c) /\ call[c].pc = "consume"
  BY DEF Consume, AdmissionInv, AdmissionTypeOK, Holding
<1>2. t \in Trials /\ reservedAt[t] = call[c].at /\ PermitOf[t] # NoPermit /\ call[c].at \in Nat
  BY <1>1 DEF CallStands, Call
<1>3. PermitOf[t] \in Permits
  BY <1>2 DEF RequestAssumption
<1>4. consumed' = consumed \cup {Slot(t)} /\ Capacity(t, call[c].at)
  BY <1>2 DEF Consume, Slot
<1>5. Slot(t) \in Consumption /\ Slot(t).permit = PermitOf[t] /\ Slot(t).trial = t
  BY <1>2, <1>3 DEF Slot, Consumption
<1>6. \A p \in Permits : SlotsOf(p)' = IF p = PermitOf[t] THEN SlotsOf(p) \cup {t} ELSE SlotsOf(p)
  BY <1>2, <1>4, <1>5 DEF SlotsOf
<1> QED
  BY <1>1, <1>2, <1>3, <1>4, <1>5, <1>6 DEF Capacity, CurrentAt

LEMMA ConsumeKeepsInv ==
    ASSUME RequestAssumption, AdmissionInv, NEW c \in Callers, Consume(c)
    PROVE AdmissionInv'
<1> PICK t : t = call[c].trial
  OBVIOUS
<1> PICK x : x = Slot(t)
  OBVIOUS
<1>1. /\ t \in Trials /\ PermitOf[t] \in Permits
      /\ Holding(c) /\ CallStands(c) /\ call[c].at \in Nat
      /\ consumed' = consumed \cup {x} /\ x \in Consumption
      /\ InWindow(PermitOf[t], call[c].at)
      /\ t \notin SlotsOf(PermitOf[t])
      /\ Cardinality(SlotsOf(PermitOf[t])) < Fixed[PermitOf[t]]
      /\ SlotsOf(PermitOf[t])' = SlotsOf(PermitOf[t]) \cup {t}
      /\ \A p \in Permits \ {PermitOf[t]} : SlotsOf(p)' = SlotsOf(p)
  BY ConsumeFacts
<1>2. /\ UNCHANGED <<now, budgets, reservedAt, history, permit, revoking, lost>>
      /\ Goto(c, "admit")
  BY DEF Consume, ledgerVars
<1>3. AdmissionTypeOK /\ RowsStand
  BY DEF AdmissionInv
<1>4. /\ call' \in [Callers -> Call]
      /\ call'[c].pc = "admit" /\ call'[c].trial = t /\ call'[c].at = call[c].at
      /\ \A d \in Callers \ {c} : call'[d] = call[d]
  BY <1>2, <1>3, GotoFacts
<1>5. AdmissionTypeOK'
  BY <1>1, <1>2, <1>3, <1>4 DEF AdmissionTypeOK
<1>6. \A u \in Trials : /\ Status(u)' = Status(u) /\ (Admitted(u)' <=> Admitted(u))
                        /\ Slot(u)' = Slot(u)
  BY <1>2 DEF Status, Admitted, Slot
<1>7. x.trial = t
  BY DEF Slot
<1>8. \A u \in Trials \ {t} : OwnsSlot(u)' <=> OwnsSlot(u)
  BY <1>1, <1>7 DEF OwnsSlot
<1>9. \A p, at : InWindow(p, at)' <=> InWindow(p, at)
  BY <1>2 DEF InWindow, Issued
<1>10. \A d \in Callers \ {c} : Holding(d) => call[d].trial # t
  BY <1>1 DEF CallStands
<1>11. \A d \in Callers : Holding(d)' <=> Holding(d)
  BY <1>1, <1>4 DEF Holding
<1>12. CallStands(c)'
  <2>1. t # NoTrial /\ Status(t) = "RESERVED" /\ reservedAt[t] = call[c].at
    BY <1>1 DEF CallStands, RequestAssumption
  <2>2. \A d \in Callers \ {c} : Holding(d)' => call'[d].trial # t
    BY <1>4, <1>10, <1>11
  <2> QED
    BY <1>1, <1>2, <1>4, <1>6, <1>9, <2>1, <2>2 DEF CallStands
<1>13. \A d \in Callers \ {c} : CallStands(d)'
  <2> TAKE d \in Callers \ {c}
  <2>1. PICK u : u = call[d].trial
    OBVIOUS
  <2>2. Holding(d) => u \in Trials \ {t}
    BY <1>3, <1>10, <2>1 DEF AdmissionInv, CallStands, Holding, AdmissionTypeOK, Call
  <2>3. Holding(d) => \A e \in Callers \ {d} : Holding(e) => call[e].trial # u
    BY <2>1 DEF AdmissionInv, CallStands
  <2>4. Holding(d) => \A e \in Callers \ {d} : Holding(e)' => call'[e].trial # u
    BY <1>4, <1>11, <2>2, <2>3
  <2> QED
    BY <1>1, <1>2, <1>4, <1>6, <1>8, <1>9, <2>1, <2>2, <2>4, CallUndisturbed DEF WindowsStand
<1>14. RowsStand'
  <2>1. \A k \in consumed' : k.trial \in Trials /\ k = Slot(k.trial)
    BY <1>1, <1>3, <1>7 DEF RowsStand, AdmissionTypeOK, Consumption
  <2> QED
    BY <1>2, <1>3, <1>6, <2>1 DEF RowsStand
<1>15. AdmittedOwnsSlot'
  BY <1>1, <1>2, <1>6, <1>9 DEF AdmissionInv, AdmittedOwnsSlot
<1>16. PermitNotOverspent'
  <2>1. IsFiniteSet(SlotsOf(PermitOf[t])) /\ Cardinality(SlotsOf(PermitOf[t])) \in Nat
    <3>1. SlotsOf(PermitOf[t]) \in SUBSET Trials
      BY DEF SlotsOf
    <3> QED
      BY <3>1, FS_Subset, FS_CardinalityType DEF RequestAssumption
  <2>2. Cardinality(SlotsOf(PermitOf[t]) \cup {t}) = Cardinality(SlotsOf(PermitOf[t])) + 1
    BY <1>1, <2>1, FS_AddElement
  <2>3. Fixed[PermitOf[t]] \in Nat
    BY <1>1 DEF RequestAssumption
  <2>4. Cardinality(SlotsOf(PermitOf[t]))' <= Fixed[PermitOf[t]]
    BY <1>1, <2>1, <2>2, <2>3
  <2>5. \A p \in Permits : Cardinality(SlotsOf(p))' <= Fixed[p]
    BY <1>1, <2>4 DEF AdmissionInv, PermitNotOverspent
  <2> QED
    BY <2>5 DEF PermitNotOverspent
<1>17. StrandedOnlyByFailure'
  <2> SUFFICES ASSUME NEW u \in Trials
               PROVE \/ u \in lost'
                     \/ \E d \in Callers : call'[d].trial = u /\ call'[d].pc # "reserve"
                     \/ Status(u)' # "RESERVED" /\ (OwnsSlot(u)' => Admitted(u)')
    BY DEF StrandedOnlyByFailure
  <2>1. CASE u = t
    BY <1>4, <2>1
  <2>2. CASE u # t
    <3>1. \/ u \in lost
          \/ \E d \in Callers : call[d].trial = u /\ call[d].pc # "reserve"
          \/ Status(u) # "RESERVED" /\ (OwnsSlot(u) => Admitted(u))
      BY DEF AdmissionInv, StrandedOnlyByFailure
    <3>2. \A d \in Callers : call[d].trial = u => call'[d] = call[d]
      BY <1>4, <2>2
    <3> QED
      BY <1>2, <1>6, <1>8, <2>2, <3>1, <3>2
  <2> QED
    BY <2>1, <2>2
<1>18. \A d \in Callers : CallStands(d)'
  BY <1>12, <1>13
<1> QED
  BY <1>5, <1>14, <1>15, <1>16, <1>17, <1>18 DEF AdmissionInv

-----------------------------------------------------------------------------
(* The invariant. *)

LEMMA InitHasInv == ASSUME RequestAssumption, AdmissionInit PROVE AdmissionInv
<1>1. AdmissionTypeOK
  <2>1. now \in 0 .. MaxTime
    BY DEF AdmissionInit, RequestAssumption
  <2>2. Idle \in Call /\ NotIssued \in Permit /\ <<>> \in Seq(Statuses)
    BY DEF Idle, Call, NotIssued, Permit, Times
  <2> QED
    BY <2>1, <2>2 DEF AdmissionInit, AdmissionTypeOK, Times
<1>2. \A t \in Trials : Status(t) = "none" /\ ~ Admitted(t) /\ ~ OwnsSlot(t)
  BY NothingAdmitted DEF AdmissionInit, OwnsSlot
<1>3. \A c \in Callers : CallStands(c)
  BY DEF AdmissionInit, CallStands, Holding, Idle
<1>4. RowsStand /\ AdmittedOwnsSlot /\ StrandedOnlyByFailure
  BY <1>2 DEF AdmissionInit, RowsStand, AdmittedOwnsSlot, StrandedOnlyByFailure
<1>5. PermitNotOverspent
  <2>1. \A p \in Permits : SlotsOf(p) = {}
    BY DEF AdmissionInit, SlotsOf
  <2>2. \A p \in Permits : Fixed[p] \in Nat
    BY DEF RequestAssumption
  <2>3. \A p \in Permits : Cardinality(SlotsOf(p)) = 0
    BY <2>1, FS_EmptySet
  <2> QED
    BY <2>2, <2>3 DEF PermitNotOverspent
<1> QED
  BY <1>1, <1>3, <1>4, <1>5 DEF AdmissionInv

LEMMA StepKeepsInv ==
    ASSUME RequestAssumption, AdmissionInv, AdmissionNext
    PROVE AdmissionInv'
<1>1. CASE \/ Tick \/ \E b \in Budgets : RegisterBudget(b)
           \/ \E p \in Permits : FounderStep(p)
  BY <1>1, FounderKeepsInv
<1>2. CASE \E c \in Callers : CallOnly(c)
  BY <1>2, CallOnlyKeepsInv, CallOnlyStands
<1>3. CASE \E c \in Callers : Reserve(c)
  BY <1>3, ReserveKeepsInv
<1>4. CASE \E c \in Callers : Admit(c) \/ Stop(c)
  BY <1>4, DecisionKeepsInv
<1>5. CASE \E c \in Callers : Consume(c)
  BY <1>5, ConsumeKeepsInv
<1> QED
  BY <1>1, <1>2, <1>3, <1>4, <1>5 DEF AdmissionNext, CallerStep, CallOnly, FounderStep

LEMMA StutterKeepsInv ==
    ASSUME AdmissionInv, UNCHANGED admissionVars
    PROVE AdmissionInv'
<1>1. UNCHANGED <<now, budgets, reservedAt, history, permit, consumed, revoking, call, lost>>
  BY DEF admissionVars, ledgerVars, authorityVars
<1>2. \A c \in Callers : CallStands(c)'
  BY <1>1 DEF AdmissionInv, CallStands, Holding, Status, OwnsSlot, Slot, InWindow, Issued
<1>3. AdmissionTypeOK'
  BY <1>1 DEF AdmissionInv, AdmissionTypeOK
<1>4. RowsStand' /\ AdmittedOwnsSlot' /\ PermitNotOverspent' /\ StrandedOnlyByFailure'
  BY <1>1 DEF AdmissionInv, RowsStand, AdmittedOwnsSlot, PermitNotOverspent, SlotsOf,
     StrandedOnlyByFailure, Slot, Admitted, InWindow, Issued, Status, OwnsSlot
<1> QED
  BY <1>2, <1>3, <1>4 DEF AdmissionInv

\* The invariant holds in every state, whatever crashes and locked databases
\* come between the transactions of an admission.
THEOREM AdmissionSound == AdmissionSpec => []AdmissionInv
<1>1. AdmissionInit => AdmissionInv
  BY RequestAssumption, InitHasInv
<1>2. AdmissionInv /\ [AdmissionNext]_admissionVars => AdmissionInv'
  BY RequestAssumption, StepKeepsInv, StutterKeepsInv
<1> QED
  BY <1>1, <1>2, PTL DEF AdmissionSpec

\* The ledger and the permit store agree on every trial that was ever admitted.
THEOREM StoresAgree == AdmissionSpec => []AdmittedOwnsSlot
<1>1. AdmissionInv => AdmittedOwnsSlot
  BY DEF AdmissionInv
<1> QED
  BY <1>1, AdmissionSound, PTL

\* No permit gives out more slots than it fixes.
THEOREM CapacitySafety == AdmissionSpec => []PermitNotOverspent
<1>1. AdmissionInv => PermitNotOverspent
  BY DEF AdmissionInv
<1> QED
  BY <1>1, AdmissionSound, PTL

\* Only a crash or a locked database leaves a trial reserved or a slot unused.
THEOREM RefusalsStrandNothing == AdmissionSpec => []StrandedOnlyByFailure
<1>1. AdmissionInv => StrandedOnlyByFailure
  BY DEF AdmissionInv
<1> QED
  BY <1>1, AdmissionSound, PTL

-----------------------------------------------------------------------------
(* Revocation. *)

LEMMA StepClosesPermit ==
    ASSUME RequestAssumption, AdmissionInv, AdmissionNext, NEW p \in Permits, Revoked(p)
    PROVE SlotsOf(p)' = SlotsOf(p)
<1>1. CASE UNCHANGED consumed
  BY <1>1 DEF SlotsOf
<1>2. CASE \E c \in Callers : Consume(c)
  BY <1>2, ConsumeFacts
<1>3. UNCHANGED consumed \/ \E c \in Callers : Consume(c)
  BY DEF AdmissionNext, Tick, RegisterBudget, Issue, SampleRevocation, CommitRevocation,
     AbandonRevocation, CallerStep, Begin, Reserve, Refuse, GateStops, GatesPass,
     ConsumeRefused, Admit, Stop, Busy, CrashCaller, authorityVars
<1> QED
  BY <1>1, <1>2, <1>3

\* A revocation that is committed closes its permit to every call, whenever
\* the call decided its time.
THEOREM RevocationCloses == AdmissionSpec => RevocationClosesPermit
<1>1. AdmissionInv /\ [AdmissionNext]_admissionVars =>
        [\A p \in Permits : Revoked(p) => SlotsOf(p)' = SlotsOf(p)]_admissionVars
  BY RequestAssumption, StepClosesPermit
<1> QED
  BY <1>1, AdmissionSound, PTL DEF AdmissionSpec, RevocationClosesPermit

-----------------------------------------------------------------------------
(* The lifecycle. *)

LEMMA InitLives == ASSUME AdmissionInit PROVE Lifecycle!Init
<1>1. \A t \in Trials : Status(t) = "none" /\ ~ OwnsSlot(t)
  BY NothingAdmitted DEF AdmissionInit, OwnsSlot
<1>2. [t \in Trials |-> Status(t)] = [t \in Trials |-> "none"]
  BY <1>1
<1>3. {t \in Trials : OwnsSlot(t)} = {}
  BY <1>1
<1> QED
  BY <1>2, <1>3 DEF Lifecycle!Init

\* An event is a move of its trial.
LEMMA EventMoves ==
    ASSUME AdmissionTypeOK, NEW t \in Trials, NEW s \in Statuses, AppendEvent(t, s),
           UNCHANGED consumed
    PROVE Lifecycle!Move(t, Status(t), s)
<1>1. Status(t)' = s /\ \A u \in Trials \ {t} : Status(u)' = Status(u)
  BY EventFacts
<1>2. [u \in Trials |-> Status(u)'] = [[u \in Trials |-> Status(u)] EXCEPT ![t] = s]
  BY <1>1
<1>3. [u \in Trials |-> Status(u)][t] = Status(t)
  OBVIOUS
<1>4. {u \in Trials : OwnsSlot(u)}' = {u \in Trials : OwnsSlot(u)}
  BY DEF OwnsSlot
<1> QED
  BY <1>2, <1>3, <1>4 DEF Lifecycle!Move

\* The lifecycle counts as the permit store does.
LEMMA SameCount == \A S : Lifecycle!Cardinality(S) = Cardinality(S)
BY DEF Lifecycle!Cardinality, Cardinality

LEMMA ConsumeTakesSlot ==
    ASSUME RequestAssumption, AdmissionInv, NEW c \in Callers, Consume(c),
           NEW t, t = call[c].trial
    PROVE t \in Trials /\ Lifecycle!TakeSlot(t)
<1>1. /\ t \in Trials /\ PermitOf[t] \in Permits /\ Holding(c) /\ CallStands(c)
      /\ consumed' = consumed \cup {Slot(t)}
      /\ Cardinality(SlotsOf(PermitOf[t])) < Fixed[PermitOf[t]]
  BY ConsumeFacts
<1>2. UNCHANGED history /\ call[c].pc = "consume"
  BY DEF Consume, ledgerVars
<1>3. \A u \in Trials : Status(u)' = Status(u)
  BY <1>2 DEF Status
<1>4. [u \in Trials |-> Status(u)]' = [u \in Trials |-> Status(u)]
  BY <1>3
<1>5. [u \in Trials |-> Status(u)][t] = "RESERVED" /\ ~ OwnsSlot(t)
  BY <1>1, <1>2 DEF CallStands
<1>6. \A u \in Trials : OwnsSlot(u)' <=> OwnsSlot(u) \/ u = t
  <2>1. PICK x : x = Slot(t)
    OBVIOUS
  <2>2. x.trial = t /\ consumed' = consumed \cup {x}
    BY <1>1, <2>1 DEF Slot
  <2> QED
    BY <2>2 DEF OwnsSlot
<1>7. {u \in Trials : OwnsSlot(u)}' = {u \in Trials : OwnsSlot(u)} \cup {t}
  BY <1>1, <1>6
<1>8. {u \in {v \in Trials : OwnsSlot(v)} : PermitOf[u] = PermitOf[t]} = SlotsOf(PermitOf[t])
  <2>1. \A k \in consumed : k.permit = PermitOf[k.trial]
    BY DEF AdmissionInv, RowsStand, Slot
  <2> QED
    BY <2>1 DEF SlotsOf, OwnsSlot
<1>9. t \notin {u \in Trials : OwnsSlot(u)}
  BY <1>5
<1>10. Cardinality({u \in {v \in Trials : OwnsSlot(v)} : PermitOf[u] = PermitOf[t]})
          < Fixed[PermitOf[t]]
  BY <1>1, <1>8
<1> QED
  BY <1>1, <1>4, <1>5, <1>7, <1>9, <1>10, SameCount DEF Lifecycle!TakeSlot, Lifecycle!SlotsOf

LEMMA StepLives ==
    ASSUME RequestAssumption, AdmissionInv, [AdmissionNext]_admissionVars
    PROVE [Lifecycle!Next]_Lifecycle!vars
<1>0. AdmissionTypeOK
  BY DEF AdmissionInv
<1>1. CASE \E c \in Callers : Reserve(c)
  <2>1. PICK c \in Callers : Reserve(c)
    BY <1>1
  <2>2. PICK t : t = call[c].trial
    OBVIOUS
  <2>3. t \in Trials /\ AppendEvent(t, "RESERVED") /\ UNCHANGED consumed /\ "RESERVED" \in Statuses
    BY <2>1, <2>2 DEF Reserve, AdmissionInv, AdmissionTypeOK, Call, CallStands, Statuses,
       authorityVars
  <2>4. Status(t) = "none"
    BY <2>1, <2>2, <2>3, NothingAdmitted DEF Reserve, Reservable, AdmissionInv, RowsStand
  <2>5. Lifecycle!Move(t, Status(t), "RESERVED")
    BY <1>0, <2>3, EventMoves
  <2> QED
    BY <2>3, <2>4, <2>5 DEF Lifecycle!Reserve, Lifecycle!Next
<1>2. CASE \E c \in Callers : Admit(c) \/ Stop(c)
  <2>1. PICK c \in Callers : Admit(c) \/ Stop(c)
    BY <1>2
  <2>2. PICK t : t = call[c].trial
    OBVIOUS
  <2>3. /\ t \in Trials /\ CallStands(c) /\ Holding(c) /\ UNCHANGED consumed
        /\ Status(t) = "RESERVED" /\ {"ADMITTED", "STOPPED"} \subseteq Statuses
    BY <2>1, <2>2 DEF Admit, Stop, AdmissionInv, AdmissionTypeOK, Call, CallStands, Holding,
       Statuses, authorityVars
  <2>4. CASE Admit(c)
    <3>1. AppendEvent(t, "ADMITTED") /\ call[c].pc = "admit"
      BY <2>2, <2>4 DEF Admit
    <3>2. Lifecycle!Move(t, "RESERVED", "ADMITTED")
      BY <1>0, <2>3, <3>1, EventMoves
    <3>3. PermitOf[t] = NoPermit \/ t \in {u \in Trials : OwnsSlot(u)}
      BY <2>2, <2>3, <3>1 DEF CallStands, OwnsSlot, Slot
    <3> QED
      BY <2>3, <3>2, <3>3 DEF Lifecycle!Admit, Lifecycle!Next
  <2>5. CASE Stop(c)
    <3>1. AppendEvent(t, "STOPPED")
      BY <2>2, <2>5 DEF Stop
    <3>2. Lifecycle!Move(t, "RESERVED", "STOPPED")
      BY <1>0, <2>3, <3>1, EventMoves
    <3> QED
      BY <2>3, <3>2 DEF Lifecycle!Stop, Lifecycle!Next
  <2> QED
    BY <2>1, <2>4, <2>5
<1>3. CASE \E c \in Callers : Consume(c)
  BY <1>3, ConsumeTakesSlot DEF Lifecycle!Next
<1>4. CASE UNCHANGED <<history, consumed>>
  BY <1>4 DEF Lifecycle!vars, Status, OwnsSlot
<1>5. \/ UNCHANGED <<history, consumed>>
      \/ \E c \in Callers : Reserve(c) \/ Admit(c) \/ Stop(c) \/ Consume(c)
  BY DEF AdmissionNext, Tick, RegisterBudget, Issue, SampleRevocation, CommitRevocation,
     AbandonRevocation, CallerStep, Begin, Refuse, GateStops, GatesPass,
     ConsumeRefused, Busy, CrashCaller, authorityVars, ledgerVars, admissionVars
<1> QED
  BY <1>1, <1>2, <1>3, <1>4, <1>5

\* The two databases together implement the lifecycle of a trial.
THEOREM AdmissionImplements == AdmissionSpec => KeepsLifecycle
<1>1. AdmissionInit => Lifecycle!Init
  BY InitLives
<1>2. AdmissionInv /\ [AdmissionNext]_admissionVars => [Lifecycle!Next]_Lifecycle!vars
  BY RequestAssumption, StepLives
<1> QED
  BY <1>1, <1>2, AdmissionSound, PTL DEF AdmissionSpec, KeepsLifecycle, Lifecycle!Spec

=============================================================================
