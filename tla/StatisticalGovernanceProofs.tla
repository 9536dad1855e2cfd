--------------------- MODULE StatisticalGovernanceProofs ---------------------
(***************************************************************************)
(* Proofs about StatisticalGovernance, for every set of proposals,         *)
(* hypotheses and operators, every alpha, window, validity and lag.  The   *)
(* invariant is inductive; one lemma for each group of actions that change *)
(* the same tables.                                                        *)
(***************************************************************************)
EXTENDS StatisticalGovernance, FiniteSetTheorems, WellFoundedInduction, TLAPS

\* The statuses of a campaign that has not selected a candidate.
Early == {<<"NONE", 0>>, <<"ADMITTED", 0>>, <<"PROGRAM_FROZEN", 0>>,
          <<"PROGRAM_ACTIVATED", 0>>, <<"DEVELOPMENT_RESULTS_PARTIAL", 0>>,
          <<"DEVELOPMENT_RESULTS_COMPLETE", 0>>}

-----------------------------------------------------------------------------
(* The values of the constants and of the derived state. *)

\* There are three protected stages.
LEMMA StagesAre == Stages = {1, 2, 3}
BY SMT DEF Stages

\* Every time an operation samples is a natural number.
LEMMA SampledTime == ASSUME now \in Nat, NEW since \in Nat, NEW at \in SampledAt(since)
                     PROVE at \in Nat /\ at <= now /\ since <= at
BY SMT DEF SampledAt

\* Evidence of an undecided hypothesis is told from that of a decided one.
LEMMA PendingIsNone == ASSUME NEW e \in Success \cup {Failure} PROVE e # Pending
BY DEF Success, Failure, Pending

\* A campaign that still is in development has selected, opened and decided
\* nothing.
LEMMA EarlyIsBare == ASSUME Inv, status \in Early
                     PROVE /\ candidate = None /\ artifact = FALSE
                           /\ \A s \in Stages : opened[s] = Never /\ decision[s] = "none"
<1>1. /\ \A s \in Stages : status # <<"OPENED", s>> /\ status # <<"ELIGIBLE", s>>
      /\ status # <<"PROGRAM_REJECTED", 0>> /\ status # <<"QUALIFIED_FOR_M104_OBSERVATION", 0>>
  BY StagesAre DEF Early
<1>2. artifact = FALSE
  BY <1>1 DEF Inv, StatusTellsTables, TypeOK
<1>3. \A s \in Stages : decision[s] # "failed"
  BY <1>1 DEF Inv, StatusTellsTables
<1>4. \A s \in Stages : opened[s] # Never => decision[s] = "passed"
  BY <1>1, <1>3 DEF Inv, StatusTellsTables, TypeOK
<1>5. candidate = None
  <2> SUFFICES ASSUME candidate # None PROVE FALSE
    OBVIOUS
  <2>1. \A s \in Stages : PassedBefore(s) => opened[s] # Never
    BY <1>1, <1>3 DEF Inv, StatusTellsTables
  <2>2. PassedBefore(1)
    BY DEF PassedBefore
  <2>3. Passed(1)
    BY <2>1, <2>2, <1>4, StagesAre DEF Passed
  <2>4. PassedBefore(2)
    BY <2>3 DEF PassedBefore
  <2>5. Passed(2)
    BY <2>1, <2>4, <1>4, StagesAre DEF Passed
  <2>6. PassedBefore(3)
    BY <2>3, <2>5 DEF PassedBefore
  <2>7. Passed(3)
    BY <2>1, <2>6, <1>4, StagesAre DEF Passed
  <2> QED
    BY <2>3, <2>5, <2>7, <1>2, StagesAre DEF Inv, StatusTellsTables
<1> QED
  BY <1>2, <1>5 DEF Inv, OpeningStands, Links

-----------------------------------------------------------------------------
(* Types. *)

LEMMA InitTyped == ASSUME GovernanceAssumption, Init PROVE TypeOK
<1> USE GovernanceAssumption DEF GovernanceAssumption, Init
<1>1. now \in 0 .. MaxTime
  OBVIOUS
<1>2. /\ proposed \in [Proposals -> Times] /\ frozen \in Times /\ activated \in Times
      /\ opened \in [Stages -> Times]
  BY DEF Times
<1>3. status \in Statuses
  BY DEF Statuses
<1> QED
  BY <1>1, <1>2, <1>3 DEF TypeOK

\* The operations up to the activation.
LEMMA CampaignTyped ==
    ASSUME GovernanceAssumption, Inv,
           \/ Tick \/ CreateProgram \/ ActivateProgram
           \/ \E p \in Proposals : CommitProposal(p) \/ AdmitCampaign(p)
    PROVE TypeOK'
<1> USE GovernanceAssumption DEF GovernanceAssumption
<1>1. CASE Tick
  BY <1>1, SMTT(30) DEF Tick, Inv, TypeOK, campaignVars, resultVars, stageVars
<1>2. CASE \E p \in Proposals : CommitProposal(p)
  <2> PICK p \in Proposals : CommitProposal(p)
    BY <1>2
  <2> PICK at \in SampledAt(0) : proposed' = [proposed EXCEPT ![p] = at]
    BY DEF CommitProposal
  <2>1. at \in Times
    BY SampledTime DEF Inv, TypeOK, Times
  <2> QED
    BY <2>1 DEF CommitProposal, Inv, TypeOK, resultVars, stageVars
<1>3. CASE \E p \in Proposals : AdmitCampaign(p)
  <2> PICK p \in Proposals : AdmitCampaign(p)
    BY <1>3
  <2> PICK at \in SampledAt(0), v \in Validities :
        campaign' = [proposal |-> p, issued_at |-> at, expires_at |-> at + v, known |-> now]
    BY DEF AdmitCampaign
  <2>1. campaign' \in Campaign
    BY SampledTime DEF Inv, TypeOK, Campaign
  <2>2. status' \in Statuses
    BY DEF AdmitCampaign, Enter, Statuses
  <2> QED
    BY <2>1, <2>2 DEF AdmitCampaign, Inv, TypeOK, resultVars, stageVars
<1>4. CASE CreateProgram
  <2> PICK at \in SampledAt(campaign.known) : frozen' = at
    BY <1>4 DEF CreateProgram
  <2>1. campaign.known \in Nat
    BY <1>4 DEF CreateProgram, Inv, TypeOK, Links, Campaign
  <2>2. frozen' \in Times
    BY <2>1, SampledTime DEF Inv, TypeOK, Times
  <2>3. status' \in Statuses
    BY <1>4 DEF CreateProgram, Enter, Statuses
  <2> QED
    BY <1>4, <2>2, <2>3 DEF CreateProgram, Inv, TypeOK, resultVars, stageVars
<1>5. CASE ActivateProgram
  <2> PICK at \in SampledAt(campaign.known) : activated' = at
    BY <1>5 DEF ActivateProgram
  <2>1. campaign.known \in Nat
    BY <1>5 DEF ActivateProgram, Inv, TypeOK, Links, Campaign
  <2>2. activated' \in Times
    BY <2>1, SampledTime DEF Inv, TypeOK, Times
  <2>3. status' \in Statuses
    BY <1>5 DEF ActivateProgram, Enter, Statuses
  <2> QED
    BY <1>5, <2>2, <2>3 DEF ActivateProgram, Inv, TypeOK, resultVars, stageVars
<1> QED
  BY <1>1, <1>2, <1>3, <1>4, <1>5

\* The measurement and the selection.
LEMMA ResultsTyped ==
    ASSUME Inv, NEW h,
           (h \in Hypotheses /\ RecordDevelopmentResult(h)) \/ QualifyDevelopment
    PROVE TypeOK'
<1>1. CASE h \in Hypotheses /\ RecordDevelopmentResult(h)
  <2> PICK e \in Success \cup {Failure} : evidence' = [evidence EXCEPT ![h] = e]
    BY <1>1 DEF RecordDevelopmentResult
  <2>1. evidence' \in [Hypotheses -> Success \cup {Failure, Pending}]
    BY DEF Inv, TypeOK
  <2>2. status' \in Statuses
    BY <1>1 DEF RecordDevelopmentResult, Enter, Statuses
  <2> QED
    BY <1>1, <2>1, <2>2 DEF RecordDevelopmentResult, Inv, TypeOK, campaignVars, stageVars
<1>2. CASE QualifyDevelopment
  <2>1. status' \in Statuses
    BY <1>2, StagesAre DEF QualifyDevelopment, Enter, Statuses
  <2> QED
    BY <1>2, <2>1 DEF QualifyDevelopment, Inv, TypeOK, campaignVars, stageVars
<1> QED
  BY <1>1, <1>2

\* The operations of the protected stages.
LEMMA StagesTyped ==
    ASSUME GovernanceAssumption, Inv, NEW s \in Stages, NEW o,
           \/ RegisterMaterialization(s) \/ AuthorizeStage(s)
           \/ RevokeStageAuthorization(s)
           \/ o \in Operators /\ (\/ OpenProtectedStage(o, s)
                                  \/ RecoverProtectedStage(o, s)
                                  \/ AbandonEvaluation(o))
    PROVE TypeOK'
<1> USE GovernanceAssumption DEF GovernanceAssumption
<1>1. CASE RegisterMaterialization(s)
  BY <1>1 DEF RegisterMaterialization, Inv, TypeOK, campaignVars, resultVars
<1>2. CASE AuthorizeStage(s)
  <2> PICK at \in SampledAt(0), v \in Validities :
        authorization' = [authorization EXCEPT ![s] =
              [latest |-> "ISSUED", expires_at |-> at + v, known |-> now]]
    BY <1>2 DEF AuthorizeStage
  <2>1. [latest |-> "ISSUED", expires_at |-> at + v, known |-> now] \in Authorization
    BY SampledTime DEF Inv, TypeOK, Authorization
  <2> QED
    BY <1>2, <2>1 DEF AuthorizeStage, Inv, TypeOK, campaignVars, resultVars
<1>3. CASE RevokeStageAuthorization(s)
  <2>1. authorization[s] \in Authorization
    BY <1>3 DEF RevokeStageAuthorization, Inv, TypeOK
  <2>2. authorization' = [authorization EXCEPT ![s] = [@ EXCEPT !.latest = "REVOKED"]]
    BY <1>3 DEF RevokeStageAuthorization
  <2>3. authorization' \in [Stages -> Authorization \cup {NotIssued}]
    BY <2>1, <2>2 DEF Inv, TypeOK, Authorization
  <2> QED
    BY <1>3, <2>3 DEF RevokeStageAuthorization, Inv, TypeOK, campaignVars, resultVars
<1>4. CASE o \in Operators /\ OpenProtectedStage(o, s)
  <2> PICK at \in SampledAt(authorization[s].known) : opened' = [opened EXCEPT ![s] = at]
    BY <1>4 DEF OpenProtectedStage
  <2>1. authorization[s].known \in Nat
    BY <1>4 DEF OpenProtectedStage, Inv, TypeOK, Authorization, NotIssued
  <2>2. at \in Times
    BY <2>1, SampledTime DEF Inv, TypeOK, Times
  <2>3. status' \in Statuses
    BY <1>4 DEF OpenProtectedStage, Enter, Statuses
  <2> QED
    BY <1>4, <2>2, <2>3 DEF OpenProtectedStage, Inv, TypeOK, campaignVars, resultVars
<1>5. CASE o \in Operators /\ RecoverProtectedStage(o, s)
  BY <1>5 DEF RecoverProtectedStage, Inv, TypeOK, campaignVars, resultVars, stageVars
<1>6. CASE o \in Operators /\ AbandonEvaluation(o)
  BY <1>6 DEF AbandonEvaluation, Inv, TypeOK, campaignVars, resultVars, stageVars
<1> QED
  BY <1>1, <1>2, <1>3, <1>4, <1>5, <1>6

LEMMA DecideTyped ==
    ASSUME Inv, NEW o \in Operators, NEW passed \in BOOLEAN, Decide(o, passed)
    PROVE TypeOK'
<1> PICK s \in Stages : s = evaluating[o]
  BY DEF Decide, Inv, TypeOK
<1>1. decision' = [decision EXCEPT ![s] = IF passed THEN "passed" ELSE "failed"]
  BY DEF Decide
<1>2. decision' \in [Stages -> {"none", "passed", "failed"}]
  BY <1>1 DEF Inv, TypeOK
<1>3. status' \in Statuses
  BY StagesAre DEF Decide, Enter, Statuses
<1>4. artifact' \in BOOLEAN
  BY DEF Decide, Inv, TypeOK
<1> QED
  BY <1>2, <1>3, <1>4 DEF Decide, Inv, TypeOK, campaignVars, resultVars

-----------------------------------------------------------------------------
(* The status and the tables. *)

\* Development changes neither the candidate nor a stage.
LEMMA EarlyStep ==
    ASSUME Inv, TypeOK', status \in Early, status' \in Early,
           UNCHANGED <<candidate, artifact, opened, decision>>
    PROVE StatusTellsTables' /\ OpeningStands'
<1>1. /\ candidate' = None /\ artifact' = FALSE
      /\ \A s \in Stages : opened'[s] = Never /\ decision'[s] = "none"
  BY EarlyIsBare
<1>2. /\ \A s \in Stages : status' # <<"OPENED", s>> /\ status' # <<"ELIGIBLE", s>>
      /\ status' # <<"QUALIFIED_FOR_M104_OBSERVATION", 0>>
  BY StagesAre DEF Early
<1>3. \A s \in Stages : ~ Passed(s)'
  BY <1>1 DEF Passed
<1>4. (\A s \in Stages : Passed(s))' <=> FALSE
  BY <1>3, StagesAre
<1>5. \A s \in Stages : decision'[s] # "failed"
  BY <1>1
<1> QED
  BY <1>1, <1>2, <1>4, <1>5 DEF StatusTellsTables, OpeningStands

\* What reads or binds stages without opening or deciding one.
LEMMA QuietStep ==
    ASSUME Inv, UNCHANGED <<status, candidate, artifact, opened, decision>>
    PROVE StatusTellsTables'
BY DEF Inv, StatusTellsTables, Passed, PassedBefore

\* The operations up to the activation keep the invariant.
LEMMA CampaignKeepsInv ==
    ASSUME GovernanceAssumption, Inv,
           \/ Tick \/ CreateProgram \/ ActivateProgram
           \/ \E p \in Proposals : CommitProposal(p) \/ AdmitCampaign(p)
    PROVE Inv'
<1>1. TypeOK'
  BY CampaignTyped
<1>2. CASE Tick \/ \E p \in Proposals : CommitProposal(p)
  <2>1. UNCHANGED <<campaignVars, resultVars, status, stageVars, evaluating>>
        \/ UNCHANGED <<campaign, frozen, activated, resultVars, status, stageVars, evaluating>>
    BY <1>2 DEF Tick, CommitProposal
  <2>2. UNCHANGED <<campaign, activated, evidence, candidate, status, materialized,
                    authorization, opened, decision, artifact, evaluating>>
    BY <2>1 DEF campaignVars, resultVars, stageVars
  <2> HIDE <1>2
  <2>3. StatusTellsTables'
    BY <2>2, QuietStep
  <2>4. OpeningStands'
    BY <2>2 DEF Inv, OpeningStands, PassedBefore, Passed
  <2>5. Links'
    BY <2>2 DEF Inv, Links, Measured, Eligible, Rejected, WithinThreshold, Index, Before
  <2> QED
    BY <1>1, <2>3, <2>4, <2>5 DEF Inv
<1>3. CASE (\E p \in Proposals : AdmitCampaign(p)) \/ CreateProgram \/ ActivateProgram
  <2>1. UNCHANGED <<evidence, candidate, materialized, authorization, opened, decision,
                    artifact, evaluating>>
    BY <1>3 DEF AdmitCampaign, CreateProgram, ActivateProgram, resultVars, stageVars
  <2>2. status' \in Early \ {<<"DEVELOPMENT_RESULTS_COMPLETE", 0>>, <<"NONE", 0>>}
    BY <1>3 DEF AdmitCampaign, CreateProgram, ActivateProgram, Enter, Early
  <2>3. status \in Early
    <3>1. CASE \E p \in Proposals : AdmitCampaign(p)
      BY <3>1 DEF AdmitCampaign, Inv, Links, Early
    <3>2. CASE CreateProgram \/ ActivateProgram
      BY <3>2 DEF CreateProgram, ActivateProgram, Early
    <3> QED
      BY <1>3, <3>1, <3>2
  <2>4. StatusTellsTables' /\ OpeningStands'
    BY <1>1, <2>1, <2>2, <2>3, EarlyStep
  <2>5. campaign' # NoCampaign
    <3>1. CASE \E p \in Proposals : AdmitCampaign(p)
      <4> PICK p \in Proposals : AdmitCampaign(p)
        BY <3>1
      <4>1. campaign'.proposal = p
        BY DEF AdmitCampaign
      <4> QED
        BY <4>1, GovernanceAssumption DEF GovernanceAssumption, NoCampaign
    <3>2. CASE CreateProgram \/ ActivateProgram
      BY <3>2 DEF CreateProgram, ActivateProgram, Inv, Links
    <3> QED
      BY <1>3, <3>1, <3>2
  <2>6. status' \in {<<"PROGRAM_ACTIVATED", 0>>, <<"DEVELOPMENT_RESULTS_PARTIAL", 0>>}
          => activated' # Never
    <3>1. CASE (\E p \in Proposals : AdmitCampaign(p)) \/ CreateProgram
      BY <3>1 DEF AdmitCampaign, CreateProgram, Enter
    <3>2. CASE ActivateProgram
      <4>1. campaign.known \in Nat
        BY <3>2 DEF ActivateProgram, Inv, TypeOK, Links, Campaign
      <4> QED
        BY <3>2, <4>1, SampledTime, GovernanceAssumption
           DEF ActivateProgram, Inv, TypeOK, GovernanceAssumption
    <3> QED
      BY <1>3, <3>1, <3>2
  <2>7. candidate' = None
    BY <2>1, <2>3, EarlyIsBare
  <2>8. Links'
    BY <2>1, <2>2, <2>5, <2>6, <2>7 DEF Inv, Links
  <2> QED
    BY <1>1, <2>4, <2>8 DEF Inv
<1> QED
  BY <1>2, <1>3

LEMMA RecordKeepsInv ==
    ASSUME Inv, NEW h \in Hypotheses, RecordDevelopmentResult(h)
    PROVE Inv'
<1>1. TypeOK'
  BY ResultsTyped
<1>2. status \in Early /\ status' \in Early /\ activated # Never
  BY DEF RecordDevelopmentResult, Enter, Early, Inv, Links
<1>3. UNCHANGED <<campaign, activated, candidate, materialized, authorization, opened,
                  decision, artifact, evaluating>>
  BY DEF RecordDevelopmentResult, campaignVars, stageVars
<1>4. StatusTellsTables' /\ OpeningStands'
  BY <1>1, <1>2, <1>3, EarlyStep
<1>5. status' = <<"DEVELOPMENT_RESULTS_COMPLETE", 0>> => Measured'
  BY DEF RecordDevelopmentResult, Enter, Measured
<1>6. campaign # NoCampaign
  BY DEF RecordDevelopmentResult, Inv, Links
<1>7. candidate' = None
  BY <1>2, <1>3, EarlyIsBare
<1>8. Links'
  BY <1>2, <1>3, <1>5, <1>6, <1>7 DEF Inv, Links
<1> QED
  BY <1>1, <1>4, <1>8 DEF Inv

LEMMA QualifyKeepsInv ==
    ASSUME GovernanceAssumption, Inv, QualifyDevelopment
    PROVE Inv'
<1>1. TypeOK'
  BY ResultsTyped
<1>2. status \in Early /\ Measured /\ campaign # NoCampaign
  BY DEF QualifyDevelopment, Early, Inv, Links
<1>3. /\ candidate = None /\ artifact = FALSE
      /\ \A s \in Stages : opened[s] = Never /\ decision[s] = "none"
  BY <1>2, EarlyIsBare
<1>4. UNCHANGED <<campaign, evidence, materialized, authorization, opened, decision,
                  artifact, evaluating>>
  BY DEF QualifyDevelopment, campaignVars, stageVars
<1>5. OpeningStands'
  BY <1>3, <1>4 DEF OpeningStands
<1>6. (\A s \in Stages : Passed(s))' <=> FALSE
  BY <1>3, <1>4, StagesAre DEF Passed
<1>7. PassedBefore(1)' /\ ~ PassedBefore(2)' /\ ~ PassedBefore(3)'
  BY <1>3, <1>4, StagesAre DEF PassedBefore, Passed
<1>8. CASE status' = <<"PROGRAM_REJECTED", 0>> /\ candidate' = candidate
  <2>1. \A s \in Stages : status' # <<"OPENED", s>> /\ status' # <<"ELIGIBLE", s>>
    BY <1>8
  <2>2. StatusTellsTables'
    BY <2>1, <1>3, <1>4, <1>6, <1>8 DEF StatusTellsTables
  <2>3. Links'
    BY <1>2, <1>3, <1>4, <1>8 DEF Inv, Links
  <2> QED
    BY <1>1, <1>5, <2>2, <2>3 DEF Inv
<1>9. CASE \E g \in Hypotheses : Selected(g) /\ candidate' = g /\ status' = <<"ELIGIBLE", 1>>
  <2> PICK g \in Hypotheses : Selected(g) /\ candidate' = g /\ status' = <<"ELIGIBLE", 1>>
    BY <1>9
  <2>1. candidate' # None
    BY GovernanceAssumption DEF GovernanceAssumption
  <2>2. \A s \in Stages : /\ status' # <<"OPENED", s>>
                          /\ status' = <<"ELIGIBLE", s>> <=> s = 1
    BY StagesAre
  <2>3. \A s \in Stages : PassedBefore(s)' <=> s = 1
    BY <1>7, StagesAre
  <2>4. StatusTellsTables'
    BY <2>1, <2>2, <2>3, <1>3, <1>4, <1>6 DEF StatusTellsTables
  <2>5. g \in Eligible
    BY DEF Selected
  <2>6. Eligible' = Eligible
    BY <1>4 DEF Eligible, Rejected, WithinThreshold, Index, Before
  <2>7. Links'
    BY <1>2, <1>3, <1>4, <2>5, <2>6 DEF Inv, Links, Measured
  <2> QED
    BY <1>1, <1>5, <2>4, <2>7 DEF Inv
<1> QED
  BY <1>8, <1>9 DEF QualifyDevelopment, Enter

\* Binding, authorizing, revoking, recovering, giving up.
LEMMA QuietKeepsInv ==
    ASSUME GovernanceAssumption, Inv, NEW s \in Stages, NEW o,
           \/ RegisterMaterialization(s) \/ AuthorizeStage(s)
           \/ RevokeStageAuthorization(s)
           \/ o \in Operators /\ (RecoverProtectedStage(o, s) \/ AbandonEvaluation(o))
    PROVE Inv'
<1>1. TypeOK'
  BY StagesTyped
<1>2. UNCHANGED <<campaign, activated, evidence, status, candidate, opened, decision, artifact>>
  BY DEF RegisterMaterialization, AuthorizeStage, RevokeStageAuthorization,
         RecoverProtectedStage, AbandonEvaluation, campaignVars, resultVars, stageVars
<1>3. StatusTellsTables'
  BY <1>2, QuietStep
<1>4. /\ materialized \subseteq materialized'
      /\ \A r \in Stages : opened[r] # Never => authorization'[r] = authorization[r]
      /\ \A r \in Stages : authorization'[r] # NotIssued => r \in materialized'
      /\ \A q \in Operators : evaluating'[q] # None => opened[evaluating'[q]] # Never
  <2>1. CASE RegisterMaterialization(s)
    BY <2>1 DEF RegisterMaterialization, Inv, Links
  <2>2. CASE AuthorizeStage(s)
    <3>1. opened[s] = Never /\ s \in materialized
      BY <2>2 DEF AuthorizeStage, Inv, StatusTellsTables
    <3> QED
      BY <2>2, <3>1 DEF AuthorizeStage, Inv, TypeOK, Links
  <2>3. CASE RevokeStageAuthorization(s)
    BY <2>3 DEF RevokeStageAuthorization, Inv, TypeOK, Links
  <2>4. CASE o \in Operators /\ RecoverProtectedStage(o, s)
    <3>1. \A q \in Operators : evaluating'[q] = IF q = o THEN s ELSE evaluating[q]
      BY <2>4 DEF RecoverProtectedStage, Inv, TypeOK
    <3> QED
      BY <2>4, <3>1 DEF RecoverProtectedStage, Inv, Links, stageVars
  <2>5. CASE o \in Operators /\ AbandonEvaluation(o)
    <3>1. \A q \in Operators : evaluating'[q] = IF q = o THEN None ELSE evaluating[q]
      BY <2>5 DEF AbandonEvaluation, Inv, TypeOK
    <3> QED
      BY <2>5, <3>1 DEF AbandonEvaluation, Inv, Links, stageVars
  <2> QED
    BY <2>1, <2>2, <2>3, <2>4, <2>5
<1>5. OpeningStands'
  BY <1>2, <1>4 DEF Inv, OpeningStands, PassedBefore, Passed
<1>6. Eligible' = Eligible
  BY <1>2 DEF Eligible, Rejected, WithinThreshold, Index, Before
<1>7. Links'
  BY <1>2, <1>4, <1>6 DEF Inv, Links, Measured
<1> QED
  BY <1>1, <1>3, <1>5, <1>7 DEF Inv

LEMMA OpenKeepsInv ==
    ASSUME GovernanceAssumption, Inv, NEW s \in Stages, NEW o \in Operators,
           OpenProtectedStage(o, s)
    PROVE Inv'
<1>1. TypeOK'
  BY StagesTyped
<1>2. PICK at \in SampledAt(authorization[s].known) :
         at < authorization[s].expires_at /\ opened' = [opened EXCEPT ![s] = at]
  BY DEF OpenProtectedStage
<1>3. authorization[s].known \in Nat /\ authorization[s] # NotIssued
  BY DEF OpenProtectedStage, Inv, TypeOK, Authorization, NotIssued
<1>4. at \in Nat /\ authorization[s].known <= at
  BY <1>3, SampledTime DEF Inv, TypeOK
<1>5. \A r \in Stages : opened'[r] = IF r = s THEN at ELSE opened[r]
  BY <1>2 DEF Inv, TypeOK
<1>6. UNCHANGED <<campaign, activated, evidence, candidate, materialized, authorization,
                  decision, artifact>>
  BY DEF OpenProtectedStage, campaignVars, resultVars
<1>7. status = <<"ELIGIBLE", s>> /\ status' = <<"OPENED", s>> /\ opened[s] = Never
  BY DEF OpenProtectedStage, Enter
<1>8. /\ candidate # None /\ PassedBefore(s) /\ decision[s] = "none"
      /\ \A r \in Stages : decision[r] # "failed"
  BY <1>7 DEF Inv, StatusTellsTables, Links
<1>9. at # Never
  BY <1>4, GovernanceAssumption DEF GovernanceAssumption
<1>10. \A r \in Stages : r # s => /\ ~ (opened[r] # Never /\ decision[r] = "none")
                                  /\ ~ (PassedBefore(r) /\ opened[r] = Never)
  BY <1>7, <1>8 DEF Inv, StatusTellsTables
<1>11. (\A r \in Stages : Passed(r)) <=> FALSE
  BY <1>8 DEF Passed
<1>12. /\ \A r \in Stages : PassedBefore(r)' <=> PassedBefore(r)
       /\ (\A r \in Stages : Passed(r))' <=> FALSE
  BY <1>6, <1>11 DEF Passed, PassedBefore
<1>13. artifact = FALSE
  BY <1>11 DEF Inv, StatusTellsTables, TypeOK
<1>14. \A r \in Stages : /\ status' = <<"OPENED", r>> <=> r = s
                         /\ status' # <<"ELIGIBLE", r>>
  BY <1>7
<1>15. StatusTellsTables'
  <2>1. status' # <<"QUALIFIED_FOR_M104_OBSERVATION", 0>>
    BY <1>7
  <2>2. \A r \in Stages : status' = <<"OPENED", r>> <=> opened'[r] # Never /\ decision'[r] = "none"
    BY <1>5, <1>6, <1>8, <1>9, <1>10, <1>14
  <2>3. \A r \in Stages : ~ (PassedBefore(r)' /\ opened'[r] = Never)
    BY <1>5, <1>9, <1>10, <1>12
  <2> QED
    BY <2>1, <2>2, <2>3, <1>6, <1>8, <1>12, <1>13, <1>14 DEF StatusTellsTables
<1>16. OpeningStands'
  <2>1. s \in materialized
    BY <1>3 DEF Inv, Links
  <2>2. authorization[s].latest = "ISSUED"
    BY DEF OpenProtectedStage
  <2> QED
    BY <2>1, <2>2, <1>2, <1>4, <1>5, <1>6, <1>8, <1>12 DEF Inv, OpeningStands
<1>17. Links'
  <2>1. Eligible' = Eligible
    BY <1>6 DEF Eligible, Rejected, WithinThreshold, Index, Before
  <2>2. \A q \in Operators : evaluating'[q] = IF q = o THEN s ELSE evaluating[q]
    BY DEF OpenProtectedStage, Inv, TypeOK
  <2>3. \A q \in Operators : evaluating'[q] # None => opened'[evaluating'[q]] # Never
    <3>1. \A q \in Operators : evaluating[q] # None => evaluating[q] \in Stages
      BY DEF Inv, TypeOK
    <3> QED
      BY <2>2, <3>1, <1>5, <1>9 DEF Inv, Links
  <2>4. campaign # NoCampaign
    BY <1>7 DEF Inv, Links
  <2> QED
    BY <2>1, <2>3, <2>4, <1>5, <1>6, <1>7, <1>9 DEF Inv, Links, Measured
<1> QED
  BY <1>1, <1>15, <1>16, <1>17 DEF Inv

\* Where a decision is due, the stage is the only open one, all before it are
\* passed and none behind it is opened.
LEMMA DecisionDue ==
    ASSUME Inv, NEW s \in Stages, opened[s] # Never, decision[s] = "none"
    PROVE /\ status = <<"OPENED", s>> /\ candidate # None /\ artifact = FALSE
          /\ \A r \in Stages : /\ decision[r] # "failed"
                               /\ r < s => Passed(r)
                               /\ r > s => opened[r] = Never /\ decision[r] = "none"
<1>1. status = <<"OPENED", s>> /\ candidate # None /\ PassedBefore(s)
  BY DEF Inv, StatusTellsTables, OpeningStands
<1>2. \A r \in Stages : decision[r] # "failed"
  BY <1>1 DEF Inv, StatusTellsTables
<1>3. artifact = FALSE
  BY <1>1 DEF Inv, StatusTellsTables, TypeOK
<1>4. \A r \in Stages : r < s => Passed(r)
  BY <1>1, StagesAre DEF PassedBefore
<1>5. \A r \in Stages : r > s => opened[r] = Never
  <2> SUFFICES ASSUME NEW r \in Stages, r > s, opened[r] # Never PROVE FALSE
    OBVIOUS
  <2>1. PassedBefore(r)
    BY DEF Inv, OpeningStands
  <2>2. Passed(s)
    BY <2>1, StagesAre DEF PassedBefore
  <2> QED
    BY <2>2 DEF Passed
<1>6. \A r \in Stages : r > s => decision[r] = "none"
  BY <1>5 DEF Inv, Links
<1> QED
  BY <1>1, <1>2, <1>3, <1>4, <1>5, <1>6

LEMMA DecideKeepsInv ==
    ASSUME GovernanceAssumption, Inv, NEW o \in Operators, NEW passed \in BOOLEAN,
           Decide(o, passed)
    PROVE Inv'
<1>1. TypeOK'
  BY DecideTyped
<1>2. PICK s \in Stages : s = evaluating[o]
  BY DEF Decide, Inv, TypeOK
<1>3. decision[s] = "none" /\ opened[s] # Never
  BY <1>2 DEF Decide, Inv, Links
<1>4. /\ status = <<"OPENED", s>> /\ candidate # None /\ artifact = FALSE
      /\ \A r \in Stages : /\ decision[r] # "failed"
                           /\ r < s => Passed(r)
                           /\ r > s => opened[r] = Never /\ decision[r] = "none"
  BY <1>3, DecisionDue
<1>5. \A r \in Stages : r < s => opened[r] # Never
  BY <1>4 DEF Passed, Inv, Links
<1>6. UNCHANGED <<campaign, activated, evidence, candidate, materialized, authorization, opened>>
  BY DEF Decide, campaignVars, resultVars
<1>7. \A r \in Stages : decision'[r] = IF r # s THEN decision[r]
                                       ELSE IF passed THEN "passed" ELSE "failed"
  BY <1>2 DEF Decide, Inv, TypeOK
<1>8. \A r \in Stages : /\ r < s => Passed(r)'
                        /\ r > s => ~ Passed(r)'
                        /\ r = s => (Passed(r)' <=> passed)
  BY <1>4, <1>7, StagesAre DEF Passed
<1>9. OpeningStands'
  <2>1. \A r \in Stages : opened[r] # Never => r <= s
    BY <1>4, StagesAre
  <2>2. \A r \in Stages : r <= s => PassedBefore(r)'
    BY <1>8, StagesAre DEF PassedBefore
  <2> QED
    BY <2>1, <2>2, <1>6 DEF Inv, OpeningStands
<1>10. Links'
  <2>1. Eligible' = Eligible
    BY <1>6 DEF Eligible, Rejected, WithinThreshold, Index, Before
  <2>2. \A q \in Operators : evaluating'[q] = IF q = o THEN None ELSE evaluating[q]
    BY DEF Decide, Inv, TypeOK
  <2>3. \A r \in Stages : decision'[r] # "none" => opened'[r] # Never
    BY <1>3, <1>6, <1>7 DEF Inv, Links
  <2>4. campaign # NoCampaign
    BY <1>4 DEF Inv, Links
  <2>5. status' \notin Early
    BY DEF Decide, Enter, Early
  <2> QED
    BY <2>1, <2>2, <2>3, <2>4, <2>5, <1>6 DEF Inv, Links, Measured, Early
<1>11. StatusTellsTables'
  <2>1. CASE ~ passed
    <3>1. status' = <<"PROGRAM_REJECTED", 0>> /\ artifact' = FALSE
      BY <2>1, <1>4 DEF Decide, Enter
    <3>2. \A r \in Stages : status' # <<"OPENED", r>> /\ status' # <<"ELIGIBLE", r>>
      BY <3>1
    <3>3. \A r \in Stages : ~ (opened'[r] # Never /\ decision'[r] = "none")
      BY <2>1, <1>4, <1>6, <1>7, StagesAre DEF Passed
    <3>4. (\A r \in Stages : Passed(r))' <=> FALSE
      BY <2>1, <1>8
    <3>5. decision'[s] = "failed"
      BY <2>1, <1>7
    <3> QED
      BY <3>1, <3>2, <3>3, <3>4, <3>5 DEF StatusTellsTables
  <2>2. CASE passed /\ s < 3
    <3>1. status' = <<"ELIGIBLE", s + 1>> /\ artifact' = FALSE
      BY <2>2, <1>2, <1>4 DEF Decide, Enter
    <3>2. \A r \in Stages : status' # <<"OPENED", r>> /\ (status' = <<"ELIGIBLE", r>> <=> r = s + 1)
      BY <3>1
    <3>3. \A r \in Stages : ~ (opened'[r] # Never /\ decision'[r] = "none")
      BY <2>2, <1>4, <1>6, <1>7, StagesAre DEF Passed
    <3>4. (\A r \in Stages : Passed(r))' <=> FALSE
      BY <2>2, <1>8, StagesAre
    <3>5. \A r \in Stages : PassedBefore(r)' /\ opened'[r] = Never <=> r = s + 1
      BY <2>2, <1>3, <1>4, <1>5, <1>6, <1>8, StagesAre DEF PassedBefore
    <3>6. \A r \in Stages : decision'[r] # "failed"
      BY <2>2, <1>4, <1>7
    <3> QED
      BY <3>1, <3>2, <3>3, <3>4, <3>5, <3>6, <1>4, <1>6 DEF StatusTellsTables
  <2>3. CASE passed /\ s = 3
    <3>1. status' = <<"QUALIFIED_FOR_M104_OBSERVATION", 0>> /\ artifact' = TRUE
      BY <2>3, <1>2 DEF Decide, Enter
    <3>2. \A r \in Stages : status' # <<"OPENED", r>> /\ status' # <<"ELIGIBLE", r>>
      BY <3>1
    <3>3. \A r \in Stages : Passed(r)'
      BY <2>3, <1>8, StagesAre
    <3>4. \A r \in Stages : opened'[r] # Never /\ decision'[r] = "passed"
      BY <3>3, <2>3, <1>3, <1>5, <1>6, StagesAre DEF Passed
    <3> QED
      BY <3>1, <3>2, <3>3, <3>4 DEF StatusTellsTables
  <2> QED
    BY <2>1, <2>2, <2>3, StagesAre
<1> QED
  BY <1>1, <1>9, <1>10, <1>11 DEF Inv

-----------------------------------------------------------------------------
(* The invariant. *)

LEMMA InitHasInv == ASSUME GovernanceAssumption, Init PROVE Inv
<1>1. TypeOK
  BY InitTyped
<1>2. \A s \in Stages : ~ Passed(s)
  BY DEF Init, Passed
<1>3. StatusTellsTables
  BY <1>2, StagesAre DEF Init, StatusTellsTables
<1>4. OpeningStands /\ Links
  BY DEF Init, OpeningStands, Links
<1> QED
  BY <1>1, <1>3, <1>4 DEF Inv

LEMMA StepKeepsInv == ASSUME GovernanceAssumption, Inv, [Next]_vars PROVE Inv'
<1>1. CASE Tick \/ CreateProgram \/ ActivateProgram
  BY <1>1, CampaignKeepsInv
<1>2. CASE QualifyDevelopment
  BY <1>2, QualifyKeepsInv
<1>3. CASE \E p \in Proposals : CommitProposal(p) \/ AdmitCampaign(p)
  BY <1>3, CampaignKeepsInv
<1>4. CASE \E h \in Hypotheses : RecordDevelopmentResult(h)
  BY <1>4, RecordKeepsInv
<1>5. CASE \E s \in Stages : \/ RegisterMaterialization(s) \/ AuthorizeStage(s)
                             \/ RevokeStageAuthorization(s)
  BY <1>5, QuietKeepsInv
<1>6. CASE \E o \in Operators : \E s \in Stages : OpenProtectedStage(o, s)
  BY <1>6, OpenKeepsInv
<1>7. CASE \E o \in Operators : \E s \in Stages : RecoverProtectedStage(o, s)
  BY <1>7, QuietKeepsInv
<1>8. CASE \E o \in Operators : \E passed \in BOOLEAN : Decide(o, passed)
  BY <1>8, DecideKeepsInv
<1>9. CASE \E o \in Operators : AbandonEvaluation(o)
  BY <1>9, QuietKeepsInv, StagesAre
<1>10. CASE UNCHANGED vars
  BY <1>10 DEF vars, campaignVars, resultVars, stageVars, Inv, TypeOK, StatusTellsTables,
     OpeningStands, Links, Measured, Passed, PassedBefore, Eligible, Rejected,
     WithinThreshold, Index, Before
<1> QED
  BY <1>1, <1>2, <1>3, <1>4, <1>5, <1>6, <1>7, <1>8, <1>9, <1>10 DEF Next

\* The invariant holds in every state of every campaign.
THEOREM Soundness == Spec => []Inv
<1>1. Init => Inv
  BY GovernanceAssumption, InitHasInv
<1>2. Inv /\ [Next]_vars => Inv'
  BY GovernanceAssumption, StepKeepsInv
<1> QED
  BY <1>1, <1>2, PTL DEF Spec

\* The latest campaign event tells what the tables hold.
THEOREM StatusSafety == Spec => []StatusTellsTables
<1>1. Inv => StatusTellsTables
  BY DEF Inv
<1> QED
  BY <1>1, Soundness, PTL

\* Every opening of a protected stage stands on its authorization, its
\* materialization, a fixed candidate and the passed decisions before it.
THEOREM OpeningSafety == Spec => []OpeningStands
<1>1. Inv => OpeningStands
  BY DEF Inv
<1> QED
  BY <1>1, Soundness, PTL

-----------------------------------------------------------------------------
(* The verdict. *)

\* No step changes what was decided, and none changes anything after the verdict.
LEMMA StepKeepsVerdict ==
    ASSUME GovernanceAssumption, Inv, [Next]_vars
    PROVE /\ Over => UNCHANGED <<status, candidate, evidence, opened, decision, artifact>>
          /\ \A s \in Stages : decision[s] # "none" => decision'[s] = decision[s]
          /\ campaign # NoCampaign => campaign' = campaign
<1>1. Over => campaign # NoCampaign
  BY DEF Over, Inv, Links
<1>2. CASE Tick \/ CreateProgram \/ ActivateProgram \/ QualifyDevelopment
  BY <1>2 DEF Tick, CreateProgram, ActivateProgram, QualifyDevelopment, Over,
     campaignVars, resultVars, stageVars
<1>3. CASE \E p \in Proposals : CommitProposal(p) \/ AdmitCampaign(p)
  BY <1>1, <1>3 DEF CommitProposal, AdmitCampaign, resultVars, stageVars
<1>4. CASE \E h \in Hypotheses : RecordDevelopmentResult(h)
  BY <1>4 DEF RecordDevelopmentResult, Over, campaignVars, stageVars
<1>5. CASE \E s \in Stages : \/ RegisterMaterialization(s) \/ AuthorizeStage(s)
                             \/ RevokeStageAuthorization(s)
  BY <1>5 DEF RegisterMaterialization, AuthorizeStage, RevokeStageAuthorization,
     campaignVars, resultVars
<1>6. CASE \E o \in Operators : \E s \in Stages : OpenProtectedStage(o, s)
  BY <1>6 DEF OpenProtectedStage, Over, campaignVars, resultVars
<1>7. CASE \E o \in Operators : \E s \in Stages : RecoverProtectedStage(o, s)
  BY <1>7 DEF RecoverProtectedStage, campaignVars, resultVars, stageVars
<1>8. CASE \E o \in Operators : AbandonEvaluation(o)
  BY <1>8 DEF AbandonEvaluation, campaignVars, resultVars, stageVars
<1>9. CASE \E o \in Operators : \E passed \in BOOLEAN : Decide(o, passed)
  <2> PICK o \in Operators, passed \in BOOLEAN : Decide(o, passed)
    BY <1>9
  <2> PICK s \in Stages : s = evaluating[o]
    BY DEF Decide, Inv, TypeOK
  <2>1. opened[s] # Never /\ decision[s] = "none"
    BY DEF Decide, Inv, Links
  <2>2. ~ Over
    BY <2>1 DEF Over, Inv, StatusTellsTables
  <2>3. \A r \in Stages : r # s => decision'[r] = decision[r]
    BY DEF Decide, Inv, TypeOK
  <2> QED
    BY <2>1, <2>2, <2>3 DEF Decide, campaignVars
<1>10. CASE UNCHANGED vars
  BY <1>10 DEF vars, campaignVars, resultVars, stageVars
<1> QED
  BY <1>2, <1>3, <1>4, <1>5, <1>6, <1>7, <1>8, <1>9, <1>10 DEF Next

\* A decision and a verdict are final, whoever races or recovers, and a program
\* is never given a second campaign.
THEOREM VerdictStands == Spec => VerdictIsFinal
<1>1. Inv /\ [Next]_vars =>
        [/\ Over => UNCHANGED <<status, candidate, evidence, opened, decision, artifact>>
         /\ \A s \in Stages : decision[s] # "none" => decision'[s] = decision[s]
         /\ campaign # NoCampaign => campaign' = campaign]_vars
  BY GovernanceAssumption, StepKeepsVerdict
<1> QED
  BY <1>1, Soundness, PTL DEF Spec, VerdictIsFinal

-----------------------------------------------------------------------------
(* The multiple test. *)

\* A p-value is a natural number, whatever the evidence.
LEMMA PValueIsNat == ASSUME GovernanceAssumption, TypeOK, NEW x \in Hypotheses
                     PROVE evidence[x].p \in Nat /\ x \in Nat
<1>1. PValues \subseteq Nat /\ One \in Nat /\ x \in Nat
  BY DEF GovernanceAssumption
<1>2. evidence[x] \in Success \/ evidence[x] = Failure \/ evidence[x] = Pending
  BY DEF TypeOK
<1>3. \A e \in Success : e.p \in Nat
  BY <1>1 DEF Success
<1>4. Failure.p \in Nat
  BY <1>1 DEF Failure
<1>5. Pending.p \in Nat
  BY DEF Pending
<1> QED
  BY <1>1, <1>2, <1>3, <1>4, <1>5

LessThan == {ss \in Nat \X Nat : ss[1] < ss[2]}

\* Every set of numbers that is not empty has a least one.
LEMMA HasLeast == ASSUME NEW T, T \subseteq Nat, T # {}
                  PROVE \E x \in T : \A y \in T : x <= y
<1>1. IsWellFoundedOn(LessThan, Nat)
  BY NatLessThanWellFounded, Zenon DEF OpToRel, LessThan
<1>2. PICK x \in T : \A y \in T : ~ (<<y, x>> \in LessThan)
  BY <1>1, WFMin, Zenon
<1>3. \A a, b \in Nat : a < b => <<a, b>> \in LessThan
  BY DEF LessThan
<1>4. \A y \in T : ~ (y < x)
  BY <1>2, <1>3
<1>5. \A y \in T : x <= y
  BY <1>4
<1> QED
  BY <1>5

\* A family of hypotheses has a first one in the order of the procedure.
LEMMA FamilyHasFirst ==
    ASSUME GovernanceAssumption, TypeOK, NEW F \in SUBSET Hypotheses, F # {}
    PROVE \E g \in F : \A x \in F : ~ Before(x, g)
<1>1. \A x \in F : evidence[x].p \in Nat /\ x \in Nat
  BY PValueIsNat
<1> DEFINE P == {evidence[x].p : x \in F}
<1>2. P \subseteq Nat /\ P # {}
  <2>1. PICK w : w \in F
    OBVIOUS
  <2>2. evidence[w].p \in P
    BY <2>1
  <2> QED
    BY <1>1, <2>2
<1> HIDE DEF P
<1>3. PICK least \in P : \A q \in P : least <= q
  BY <1>2, HasLeast
<1> DEFINE G == {x \in F : evidence[x].p = least}
<1>4. G \subseteq Nat /\ G # {}
  BY <1>1, <1>3 DEF P
<1> HIDE DEF G
<1>5. PICK g \in G : \A y \in G : g <= y
  BY <1>4, HasLeast
<1>6. g \in F /\ evidence[g].p = least
  BY DEF G
<1>7. \A x \in F : least <= evidence[x].p
  BY <1>3 DEF P
<1>8. \A x \in F : ~ Before(x, g)
  BY <1>1, <1>5, <1>6, <1>7 DEF Before, G
<1> QED
  BY <1>6, <1>8

\* Holm's procedure rejects a hypothesis only when each family it belongs to is
\* rejected by a Bonferroni test of its own size.
LEMMA RejectedInEveryFamily ==
    ASSUME GovernanceAssumption, TypeOK, NEW h \in Hypotheses, Rejected(h),
           NEW F \in SUBSET Hypotheses, h \in F
    PROVE \E g \in F : evidence[g].p * Cardinality(F) <= Alpha
<1>1. \A x \in Hypotheses : evidence[x].p \in Nat /\ x \in Nat
  BY PValueIsNat
<1>2. PICK g \in F : \A x \in F : ~ Before(x, g)
  BY FamilyHasFirst
<1>3. Before(g, h) \/ g = h
  <2>1. ~ Before(h, g) /\ g \in Hypotheses
    BY <1>2
  <2>2. /\ evidence[g].p \in Nat /\ evidence[h].p \in Nat
        /\ g \in Nat /\ h \in Nat
    BY <1>1, <2>1
  <2> QED
    BY <2>1, <2>2 DEF Before
<1>4. evidence[g].p * (Cardinality(Hypotheses) - Index(g)) <= Alpha
  BY <1>3 DEF Rejected, WithinThreshold
<1> DEFINE P == {x \in Hypotheses : Before(x, g)}
<1>5. /\ IsFiniteSet(P) /\ IsFiniteSet(Hypotheses \ P)
      /\ Cardinality(P) \in Nat /\ Cardinality(Hypotheses) \in Nat
      /\ P \in SUBSET Hypotheses
  BY FS_Subset, FS_CardinalityType DEF GovernanceAssumption
<1>6. Index(g) = Cardinality(P)
  BY DEF Index
<1> HIDE DEF P
<1>7. Cardinality(Hypotheses \ P) = Cardinality(Hypotheses) - Cardinality(P)
  <2>1. Hypotheses \cap P = P
    BY <1>5
  <2> QED
    BY <2>1, <1>5, FS_Difference DEF GovernanceAssumption
<1>8. F \in SUBSET (Hypotheses \ P)
  BY <1>2 DEF P
<1>9. Cardinality(F) \in Nat /\ Cardinality(F) <= Cardinality(Hypotheses) - Cardinality(P)
  <2>1. IsFiniteSet(F) /\ Cardinality(F) <= Cardinality(Hypotheses \ P)
    BY <1>5, <1>8, FS_Subset
  <2> QED
    BY <2>1, <1>7, FS_CardinalityType
<1>10. \A a, b, c \in Nat : b <= c => a * b <= a * c
  OBVIOUS
<1>11. evidence[g].p * Cardinality(F)
          <= evidence[g].p * (Cardinality(Hypotheses) - Cardinality(P))
  <2>1. Cardinality(Hypotheses) - Cardinality(P) \in Nat
    BY <1>5, <1>9
  <2> QED
    BY <1>1, <1>9, <1>10, <2>1
<1> QED
  BY <1>1, <1>4, <1>5, <1>6, <1>9, <1>11

\* The candidate was chosen by a closed test over all declared hypotheses.
THEOREM SelectionIsClosedTest == Spec => []CandidateSurvivesClosedTest
<1>1. ASSUME Inv, candidate # None PROVE CandidateSurvivesClosedTest
  <2>1. /\ candidate \in Hypotheses /\ Measured
        /\ evidence[candidate].gates /\ Rejected(candidate)
    BY <1>1 DEF Inv, Links, Eligible
  <2>2. \A F \in SUBSET Hypotheses : candidate \in F =>
          \E g \in F : evidence[g].p * Cardinality(F) <= Alpha
    BY <2>1, <1>1, RejectedInEveryFamily, GovernanceAssumption DEF Inv
  <2> QED
    BY <2>1, <2>2 DEF CandidateSurvivesClosedTest
<1>2. Inv => CandidateSurvivesClosedTest
  BY <1>1 DEF CandidateSurvivesClosedTest
<1> QED
  BY <1>2, Soundness, PTL

-----------------------------------------------------------------------------
(* The ladder. *)

Dismissed == status = <<"PROGRAM_REJECTED", 0>>

Rung == IF Passed(3) THEN 3 ELSE IF Passed(2) THEN 2 ELSE IF Passed(1) THEN 1 ELSE 0

LEMMA InitClimbs == Init => Ladder!Init
<1> SUFFICES ASSUME Init PROVE Ladder!Init
  OBVIOUS
<1>1. \A s \in Stages : opened[s] = Never /\ decision[s] = "none"
  BY DEF Init
<1>2. ~ Passed(1) /\ ~ Passed(2) /\ ~ Passed(3)
  BY <1>1, StagesAre DEF Passed
<1>3. {h \in Hypotheses : evidence[h] # Pending} = {}
  BY DEF Init
<1> QED
  BY <1>1, <1>2, <1>3 DEF Init, Ladder!Init

\* A step that leaves the ladder's tables alone is no step of the ladder.
LEMMA OffTheLadder ==
    ASSUME UNCHANGED <<activated, evidence, candidate, opened, decision, artifact>>,
           Dismissed' <=> Dismissed
    PROVE UNCHANGED Ladder!vars
BY DEF Ladder!vars, Passed, Dismissed

LEMMA ActivateClimbs == ASSUME GovernanceAssumption, Inv, ActivateProgram PROVE Ladder!Activate
<1>1. activated = Never
  BY DEF ActivateProgram
<1>2. activated' # Never
  <2>1. campaign.known \in Nat
    BY DEF ActivateProgram, Inv, TypeOK, Links, Campaign
  <2> QED
    BY <2>1, SampledTime, GovernanceAssumption
       DEF ActivateProgram, Inv, TypeOK, GovernanceAssumption
<1>3. UNCHANGED <<evidence, candidate, opened, decision, artifact>>
  BY DEF ActivateProgram, resultVars, stageVars
<1>4. ~ Dismissed /\ ~ Dismissed'
  BY DEF ActivateProgram, Dismissed, Enter
<1> QED
  BY <1>1, <1>2, <1>3, <1>4 DEF Ladder!Activate, Dismissed, Passed

LEMMA RecordClimbs ==
    ASSUME Inv, NEW h \in Hypotheses, RecordDevelopmentResult(h)
    PROVE Ladder!Measure(h)
<1>1. activated # Never /\ evidence[h] = Pending
  BY DEF RecordDevelopmentResult, Inv, Links
<1>2. PICK e \in Success \cup {Failure} : evidence' = [evidence EXCEPT ![h] = e]
  BY DEF RecordDevelopmentResult
<1>3. \A g \in Hypotheses : evidence'[g] = IF g = h THEN e ELSE evidence[g]
  BY <1>2 DEF Inv, TypeOK
<1>4. {g \in Hypotheses : evidence'[g] # Pending}
          = {g \in Hypotheses : evidence[g] # Pending} \cup {h}
  BY <1>3, PendingIsNone
<1>5. UNCHANGED <<activated, candidate, opened, decision, artifact>>
  BY DEF RecordDevelopmentResult, campaignVars, stageVars
<1>6. ~ Dismissed /\ ~ Dismissed'
  BY DEF RecordDevelopmentResult, Dismissed, Enter
<1> QED
  BY <1>1, <1>4, <1>5, <1>6 DEF Ladder!Measure, Dismissed, Passed

LEMMA QualifyClimbs ==
    ASSUME Inv, QualifyDevelopment
    PROVE Ladder!Dismiss \/ \E h \in Hypotheses : Ladder!Choose(h)
<1>1. status \in Early /\ Measured /\ ~ Dismissed
  BY DEF QualifyDevelopment, Early, Inv, Links, Dismissed
<1>2. candidate = None /\ artifact = FALSE
  BY <1>1, EarlyIsBare
<1>3. {h \in Hypotheses : evidence[h] # Pending} = Hypotheses
  BY <1>1 DEF Measured
<1>4. UNCHANGED <<activated, evidence, opened, decision, artifact>>
  BY DEF QualifyDevelopment, campaignVars, stageVars
<1>5. CASE status' = <<"PROGRAM_REJECTED", 0>> /\ candidate' = candidate
  BY <1>1, <1>2, <1>3, <1>4, <1>5
     DEF Ladder!Dismiss, Ladder!Undecided, Dismissed, Passed
<1>6. CASE \E g \in Hypotheses : Selected(g) /\ candidate' = g /\ status' = <<"ELIGIBLE", 1>>
  <2> PICK g \in Hypotheses : candidate' = g /\ status' = <<"ELIGIBLE", 1>>
    BY <1>6
  <2>1. ~ Dismissed'
    BY DEF Dismissed
  <2> QED
    BY <1>1, <1>2, <1>3, <1>4, <2>1
       DEF Ladder!Choose, Ladder!Undecided, Dismissed, Passed
<1> QED
  BY <1>5, <1>6 DEF QualifyDevelopment, Enter

LEMMA OpenClimbs ==
    ASSUME GovernanceAssumption, Inv, NEW o \in Operators, NEW s \in Stages,
           OpenProtectedStage(o, s)
    PROVE Ladder!OpenNext
<1>1. status = <<"ELIGIBLE", s>> /\ status' = <<"OPENED", s>>
  BY DEF OpenProtectedStage, Enter
<1>2. candidate # None /\ artifact = FALSE
  BY <1>1 DEF Inv, StatusTellsTables, TypeOK
<1>3. \A r \in Stages : ~ (opened[r] # Never /\ decision[r] = "none")
  BY <1>1 DEF Inv, StatusTellsTables
<1>4. decision[s] = "none" /\ opened'[s] # Never
  <2>1. PICK at \in SampledAt(authorization[s].known) : opened' = [opened EXCEPT ![s] = at]
    BY DEF OpenProtectedStage
  <2>2. authorization[s].known \in Nat
    BY DEF OpenProtectedStage, Inv, TypeOK, Authorization, NotIssued
  <2>3. at # Never
    BY <2>2, SampledTime, GovernanceAssumption DEF Inv, TypeOK, GovernanceAssumption
  <2>4. opened[s] = Never
    BY DEF OpenProtectedStage
  <2> QED
    BY <2>1, <2>3, <2>4 DEF Inv, TypeOK, Links
<1>5. UNCHANGED <<activated, evidence, candidate, decision, artifact>>
  BY DEF OpenProtectedStage, campaignVars, resultVars
<1>6. ~ Dismissed /\ ~ Dismissed'
  BY <1>1 DEF Dismissed
<1> QED
  BY <1>2, <1>3, <1>4, <1>5, <1>6 DEF Ladder!OpenNext, Dismissed, Passed

LEMMA DecideClimbs ==
    ASSUME Inv, NEW o \in Operators, NEW passed \in BOOLEAN, Decide(o, passed)
    PROVE Ladder!Pass \/ Ladder!Fail
<1> PICK s \in Stages : s = evaluating[o]
  BY DEF Decide, Inv, TypeOK
<1>1. opened[s] # Never /\ decision[s] = "none"
  BY DEF Decide, Inv, Links
<1>2. /\ status = <<"OPENED", s>> /\ artifact = FALSE
      /\ \A r \in Stages : /\ decision[r] # "failed"
                           /\ r < s => Passed(r)
                           /\ r > s => opened[r] = Never /\ decision[r] = "none"
  BY <1>1, DecisionDue
<1>3. UNCHANGED <<activated, evidence, candidate, opened>>
  BY DEF Decide, campaignVars, resultVars
<1>4. \A r \in Stages : decision'[r] = IF r # s THEN decision[r]
                                       ELSE IF passed THEN "passed" ELSE "failed"
  BY DEF Decide, Inv, TypeOK
<1>5. ~ (\E r \in Stages : opened'[r] # Never /\ decision'[r] = "none")
  <2> SUFFICES ASSUME NEW r \in Stages, opened'[r] # Never, decision'[r] = "none" PROVE FALSE
    OBVIOUS
  <2>1. r # s
    BY <1>4
  <2>2. r < s
    BY <2>1, <1>2, <1>3, StagesAre
  <2> QED
    BY <2>1, <2>2, <1>2, <1>4 DEF Passed
<1>6. \E r \in Stages : opened[r] # Never /\ decision[r] = "none"
  BY <1>1
<1>7. ~ Dismissed
  BY <1>2 DEF Dismissed
<1>8. CASE ~ passed
  <2>1. Dismissed' /\ artifact' = FALSE
    BY <1>2, <1>8 DEF Decide, Enter, Dismissed
  <2>2. \A r \in Stages : Passed(r)' = Passed(r)
    BY <1>1, <1>4, <1>8 DEF Passed
  <2>3. Passed(1)' = Passed(1) /\ Passed(2)' = Passed(2) /\ Passed(3)' = Passed(3)
    BY <2>2, StagesAre
  <2> QED
    BY <2>1, <2>3, <1>3, <1>5, <1>6 DEF Ladder!Fail, Dismissed
<1>9. CASE passed
  <2>1. ~ Dismissed' /\ (s < 3 => artifact' = FALSE) /\ (s = 3 => artifact' = TRUE)
    <3>1. CASE s < 3
      BY <1>2, <1>9, <3>1 DEF Decide, Enter, Dismissed
    <3>2. CASE s = 3
      BY <1>2, <1>9, <3>2 DEF Decide, Enter, Dismissed
    <3>3. s < 3 \/ s = 3
      BY StagesAre
    <3> QED
      BY <3>1, <3>2, <3>3
  <2>2. \A r \in Stages : Passed(r)' <=> r <= s
    BY <1>2, <1>4, <1>9, StagesAre DEF Passed
  <2>3. \A r \in Stages : Passed(r) <=> r < s
    BY <1>1, <1>2, StagesAre DEF Passed
  <2>4. /\ Passed(1)' <=> 1 <= s
        /\ Passed(2)' <=> 2 <= s
        /\ Passed(3)' <=> 3 <= s
    BY <2>2, StagesAre
  <2>5. /\ Passed(1) <=> 1 < s
        /\ Passed(2) <=> 2 < s
        /\ Passed(3) <=> 3 < s
    BY <2>3, StagesAre
  <2>6. /\ Rung = s - 1 /\ Rung' = s
    BY <2>4, <2>5, StagesAre DEF Rung
  <2>7. CASE s < 3
    <3>1. artifact' = FALSE /\ s # 3
      BY <2>1, <2>7
    <3> QED
      BY <2>1, <2>6, <2>7, <3>1, <1>2, <1>3, <1>5, <1>6, <1>7
         DEF Ladder!Pass, Dismissed, Rung
  <2>8. CASE s = 3
    BY <2>1, <2>6, <2>8, <1>2, <1>3, <1>5, <1>6, <1>7 DEF Ladder!Pass, Dismissed, Rung
  <2> QED
    BY <2>7, <2>8, StagesAre
<1> QED
  BY <1>8, <1>9

LEMMA StepClimbs ==
    ASSUME GovernanceAssumption, Inv, [Next]_vars
    PROVE [Ladder!Next]_Ladder!vars
<1>1. CASE Tick \/ CreateProgram \/ \E p \in Proposals : CommitProposal(p) \/ AdmitCampaign(p)
  <2>1. UNCHANGED <<activated, evidence, candidate, opened, decision, artifact>>
    BY <1>1 DEF Tick, CreateProgram, CommitProposal, AdmitCampaign,
       campaignVars, resultVars, stageVars
  <2>2. Dismissed' <=> Dismissed
    <3>1. Dismissed => campaign # NoCampaign
      BY DEF Dismissed, Inv, Links
    <3> QED
      BY <1>1, <3>1 DEF Tick, CreateProgram, CommitProposal, AdmitCampaign, Enter, Dismissed
  <2> QED
    BY <2>1, <2>2, OffTheLadder
<1>2. CASE \/ \E s \in Stages : \/ RegisterMaterialization(s) \/ AuthorizeStage(s)
                                \/ RevokeStageAuthorization(s)
           \/ \E o \in Operators : \/ \E s \in Stages : RecoverProtectedStage(o, s)
                                   \/ AbandonEvaluation(o)
           \/ UNCHANGED vars
  <2>1. UNCHANGED <<status, activated, evidence, candidate, opened, decision, artifact>>
    BY <1>2 DEF RegisterMaterialization, AuthorizeStage, RevokeStageAuthorization,
       RecoverProtectedStage, AbandonEvaluation, vars, campaignVars, resultVars, stageVars
  <2> QED
    BY <2>1, OffTheLadder DEF Dismissed
<1>3. CASE ActivateProgram
  BY <1>3, ActivateClimbs DEF Ladder!Next
<1>4. CASE \E h \in Hypotheses : RecordDevelopmentResult(h)
  BY <1>4, RecordClimbs DEF Ladder!Next
<1>5. CASE QualifyDevelopment
  BY <1>5, QualifyClimbs DEF Ladder!Next
<1>6. CASE \E o \in Operators : \E s \in Stages : OpenProtectedStage(o, s)
  BY <1>6, OpenClimbs DEF Ladder!Next
<1>7. CASE \E o \in Operators : \E passed \in BOOLEAN : Decide(o, passed)
  BY <1>7, DecideClimbs DEF Ladder!Next
<1> QED
  BY <1>1, <1>2, <1>3, <1>4, <1>5, <1>6, <1>7 DEF Next

\* The store implements the ladder: hypotheses are measured before one is
\* chosen, once, and its stages are opened and decided one after the other.
THEOREM Climbs == Spec => ClimbsLadder
<1>1. Init => Ladder!Init
  BY InitClimbs
<1>2. Inv /\ [Next]_vars => [Ladder!Next]_Ladder!vars
  BY GovernanceAssumption, StepClimbs
<1> QED
  BY <1>1, <1>2, Soundness, PTL DEF Spec, ClimbsLadder, Ladder!Spec

=============================================================================
