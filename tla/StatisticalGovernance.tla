------------------------ MODULE StatisticalGovernance ------------------------
(***************************************************************************)
(* The governance store of Mission 103: one campaign from its proposal to  *)
(* its verdict.  Every operation is one transaction of one SQLite database *)
(* taken with BEGIN IMMEDIATE, except the evaluation of an opened stage,   *)
(* which reads in one transaction, measures with no lock, and decides in   *)
(* another.                                                                *)
(*                                                                         *)
(* Every operation reads the trusted clock BEFORE it waits for the lock,   *)
(* and decides and records with that time.  So the time of an operation is *)
(* any time up to Lag before its commit, but not before the commit that    *)
(* made the identifier known with which it was called: campaign and        *)
(* authorization identifiers are hashes over their time of issue, whereas  *)
(* a proposal's hash and a program's identifier can be known in advance.   *)
(*                                                                         *)
(* Hypotheses are numbered in the order of their identifiers.  P-values    *)
(* and Alpha are numerators over one denominator.  Campaigns of other      *)
(* anti-reset keys are independent of this one.                            *)
(***************************************************************************)
EXTENDS Naturals, FiniteSets

CONSTANTS Proposals,    \* proposals with one anti-reset key
          ValidUntil,   \* valid_until of each proposal
          Hypotheses,   \* the declared hypotheses
          HashOf,       \* the order of hypothesis_hash
          PValues, One, \* raw p-values, and the one that equals 1
          Alpha,        \* the program's alpha
          Ranks,        \* ranking vectors, in their order
          WindowStart, WindowEnd,   \* scoring window of each stage
          Validities,   \* validity periods a founder may choose
          Operators,    \* processes that open, recover and evaluate
          None,         \* no proposal, no hypothesis, no stage
          Never,        \* the time of what has not happened
          Lag,          \* bound of the age of a sampled time
          MaxTime       \* bound of the trusted clock

\* REPLICATION, VALIDATION and HOLDOUT
Stages == 1 .. 3

ASSUME GovernanceAssumption ==
    /\ ValidUntil \in [Proposals -> Nat]
    /\ IsFiniteSet(Hypotheses) /\ Hypotheses \subseteq Nat \ {0}
    /\ HashOf \in [Hypotheses -> Nat]
    /\ \A g, h \in Hypotheses : HashOf[g] = HashOf[h] => g = h
    /\ PValues \subseteq Nat /\ One \in Nat /\ Alpha \in Nat /\ Ranks \subseteq Nat
    /\ WindowStart \in [Stages -> Nat] /\ WindowEnd \in [Stages -> Nat]
    /\ Validities \subseteq Nat \ {0}
    /\ Lag \in Nat /\ MaxTime \in Nat
    /\ None \notin Proposals \cup Hypotheses \cup Stages
    /\ Never \notin Nat

VARIABLES now,            \* the trusted clock
          proposed,       \* proposals: committed_at of each, or Never
          campaign,       \* the row of campaigns, or NoCampaign
          frozen,         \* programs: created_at, or Never
          activated,      \* program_activations: activated_at, or Never
          evidence,       \* development_results of each hypothesis, or Pending
          status,         \* the latest status in campaign_events
          candidate,      \* candidates: the hypothesis selected, or None
          materialized,   \* materializations: the stages bound so far
          authorization,  \* stage_authorizations with their latest event
          opened,         \* stage_executions: opened_at of each stage, or Never
          decision,       \* stage_decisions of each stage
          artifact,       \* final_artifacts has its row
          evaluating      \* the stage each operator is measuring, or None

campaignVars == <<proposed, campaign, frozen, activated>>
resultVars == <<evidence, candidate>>
stageVars == <<materialized, authorization, opened, decision, artifact>>
vars == <<now, campaignVars, resultVars, status, stageVars, evaluating>>

Times == Nat \cup {Never}

NoCampaign == [proposal |-> None, issued_at |-> Never, expires_at |-> Never,
               known |-> Never]

Campaign == [proposal : Proposals, issued_at : Nat, expires_at : Nat, known : Nat]

Success == [terminal : {"SUCCESS"}, p : PValues, gates : BOOLEAN, rank : Ranks]

\* A proven failure counts with p-value 1 and no gate passed.
Failure == [terminal |-> "FAILED", p |-> One, gates |-> FALSE, rank |-> 0]

Pending == [terminal |-> "PENDING", p |-> 0, gates |-> FALSE, rank |-> 0]

NotIssued == [latest |-> "NONE", expires_at |-> Never, known |-> Never]

Authorization == [latest : {"ISSUED", "REVOKED"}, expires_at : Nat, known : Nat]

\* Statuses of a stage carry its number, those of the campaign 0.
Statuses == ({"NONE", "ADMITTED", "PROGRAM_FROZEN", "PROGRAM_ACTIVATED",
              "DEVELOPMENT_RESULTS_PARTIAL", "DEVELOPMENT_RESULTS_COMPLETE",
              "PROGRAM_REJECTED", "QUALIFIED_FOR_M104_OBSERVATION"} \X {0})
            \cup ({"ELIGIBLE", "OPENED"} \X Stages)

-----------------------------------------------------------------------------
(* holm_step_down(): the hypotheses in the order of p-value and identifier, *)
(* each compared with its threshold until the first that misses it.         *)

Before(g, h) == \/ evidence[g].p < evidence[h].p
                \/ evidence[g].p = evidence[h].p /\ g < h

Index(h) == Cardinality({g \in Hypotheses : Before(g, h)})

WithinThreshold(h) == evidence[h].p * (Cardinality(Hypotheses) - Index(h)) <= Alpha

\* Plausible bug: the stepping goes on behind a hypothesis that missed.
RejectedAlone(h) == WithinThreshold(h)

Rejected(h) == \A g \in Hypotheses : Before(g, h) \/ g = h => WithinThreshold(g)

Eligible == {h \in Hypotheses : evidence[h].gates /\ Rejected(h)}

\* The lowest ranking vector, then the lowest hypothesis hash.
Selected(h) ==
    /\ h \in Eligible
    /\ \A g \in Eligible : \/ evidence[h].rank < evidence[g].rank
                           \/ /\ evidence[h].rank = evidence[g].rank
                              /\ HashOf[h] <= HashOf[g]

\* A time sampled before the lock was had, by a call with an identifier that
\* became known at the given time.
SampledAt(since) == {t \in since .. now : t + Lag >= now}

\* The program protocol is checked against the clock whenever it is bound.
Prospective(at) == \A s \in Stages : WindowStart[s] > at

ChronologyHolds == /\ proposed[campaign.proposal] <= campaign.issued_at
                   /\ campaign.issued_at <= frozen
                   /\ frozen <= activated

-----------------------------------------------------------------------------
Init == /\ now = 0
        /\ proposed = [p \in Proposals |-> Never]
        /\ campaign = NoCampaign
        /\ frozen = Never
        /\ activated = Never
        /\ evidence = [h \in Hypotheses |-> Pending]
        /\ status = <<"NONE", 0>>
        /\ candidate = None
        /\ materialized = {}
        /\ authorization = [s \in Stages |-> NotIssued]
        /\ opened = [s \in Stages |-> Never]
        /\ decision = [s \in Stages |-> "none"]
        /\ artifact = FALSE
        /\ evaluating = [o \in Operators |-> None]

Tick == /\ now < MaxTime
        /\ now' = now + 1
        /\ UNCHANGED <<campaignVars, resultVars, status, stageVars, evaluating>>

\* _event(): what the latest row of campaign_events says.
Enter(name, stage) == status' = <<name, stage>>

CommitProposal(p) ==
    /\ proposed[p] = Never
    /\ \E at \in SampledAt(0) : proposed' = [proposed EXCEPT ![p] = at]
    /\ UNCHANGED <<now, campaign, frozen, activated, resultVars, status,
                   stageVars, evaluating>>

\* campaigns.anti_reset_key is UNIQUE.
AdmitCampaign(p) ==
    /\ proposed[p] # Never
    /\ campaign = NoCampaign
    /\ \E at \in SampledAt(0), v \in Validities :
          /\ at < ValidUntil[p]
          /\ campaign' = [proposal |-> p, issued_at |-> at,
                          expires_at |-> at + v, known |-> now]
    /\ Enter("ADMITTED", 0)
    /\ UNCHANGED <<now, proposed, frozen, activated, resultVars, stageVars,
                   evaluating>>

CreateProgram ==
    /\ status = <<"ADMITTED", 0>>
    /\ frozen = Never
    /\ \E at \in SampledAt(campaign.known) :
          /\ at < campaign.expires_at
          /\ Prospective(at)
          /\ frozen' = at
    /\ Enter("PROGRAM_FROZEN", 0)
    /\ UNCHANGED <<now, proposed, campaign, activated, resultVars, stageVars,
                   evaluating>>

ActivateProgram ==
    /\ status = <<"PROGRAM_FROZEN", 0>>
    /\ activated = Never
    /\ \E at \in SampledAt(campaign.known) :
          /\ at < campaign.expires_at
          /\ Prospective(at)
          /\ activated' = at
    /\ Enter("PROGRAM_ACTIVATED", 0)
    /\ UNCHANGED <<now, proposed, campaign, frozen, resultVars, stageVars,
                   evaluating>>

\* The verified M102 evidence of a trial that was authorised since the
\* activation and has ended; one that began before it is never accepted.
RecordDevelopmentResult(h) ==
    /\ status \in {<<"PROGRAM_ACTIVATED", 0>>, <<"DEVELOPMENT_RESULTS_PARTIAL", 0>>}
    /\ evidence[h] = Pending
    /\ ChronologyHolds
    /\ \E e \in Success \cup {Failure} : evidence' = [evidence EXCEPT ![h] = e]
    /\ \/ /\ \A g \in Hypotheses : evidence'[g] # Pending
          /\ Enter("DEVELOPMENT_RESULTS_COMPLETE", 0)
       \/ /\ \E g \in Hypotheses : evidence'[g] = Pending
          /\ Enter("DEVELOPMENT_RESULTS_PARTIAL", 0)
    /\ UNCHANGED <<now, campaignVars, candidate, stageVars, evaluating>>

\* Plausible bug: the first success may be selected before the others are in.
QualifyEarly ==
    /\ status \in {<<"DEVELOPMENT_RESULTS_PARTIAL", 0>>, <<"DEVELOPMENT_RESULTS_COMPLETE", 0>>}
    /\ \E h \in Hypotheses : Selected(h) /\ candidate' = h
    /\ Enter("ELIGIBLE", 1)
    /\ UNCHANGED <<now, campaignVars, evidence, stageVars, evaluating>>

QualifyDevelopment ==
    /\ status = <<"DEVELOPMENT_RESULTS_COMPLETE", 0>>
    /\ \/ /\ Eligible = {}
          /\ Enter("PROGRAM_REJECTED", 0)
          /\ UNCHANGED candidate
       \/ \E h \in Hypotheses : /\ Selected(h)
                                /\ candidate' = h
                                /\ Enter("ELIGIBLE", 1)
    /\ UNCHANGED <<now, campaignVars, evidence, stageVars, evaluating>>

-----------------------------------------------------------------------------
(* The protected stages. *)

\* The window is over; earlier stages are bound first.  Nothing else is asked:
\* the campaign may not be activated yet, or have ended.
RegisterMaterialization(s) ==
    /\ frozen # Never
    /\ s \notin materialized
    /\ \A r \in 1 .. s - 1 : r \in materialized
    /\ \E at \in SampledAt(0) : at > WindowEnd[s]
    /\ materialized' = materialized \cup {s}
    /\ UNCHANGED <<now, campaignVars, resultVars, status, authorization,
                   opened, decision, artifact, evaluating>>

\* stage_authorizations is UNIQUE in (program_id, stage).
AuthorizeStage(s) ==
    /\ status = <<"ELIGIBLE", s>>
    /\ candidate # None /\ s \in materialized
    /\ s > 1 => decision[s - 1] = "passed"
    /\ authorization[s] = NotIssued
    /\ \E at \in SampledAt(0), v \in Validities :
          authorization' = [authorization EXCEPT ![s] =
              [latest |-> "ISSUED", expires_at |-> at + v, known |-> now]]
    /\ UNCHANGED <<now, campaignVars, resultVars, status, materialized,
                   opened, decision, artifact, evaluating>>

\* Plausible bug: a consumed authorization may be revoked.
RevokeConsumed(s) ==
    /\ authorization[s] # NotIssued
    /\ authorization' = [authorization EXCEPT ![s].latest = "REVOKED"]
    /\ UNCHANGED <<now, campaignVars, resultVars, status, materialized,
                   opened, decision, artifact, evaluating>>

RevokeStageAuthorization(s) ==
    /\ authorization[s] # NotIssued
    /\ opened[s] = Never
    /\ authorization' = [authorization EXCEPT ![s].latest = "REVOKED"]
    /\ UNCHANGED <<now, campaignVars, resultVars, status, materialized,
                   opened, decision, artifact, evaluating>>

\* Plausible bug: the opening is written without its event.
OpenQuietly(o, s) ==
    /\ evaluating[o] = None
    /\ authorization[s].latest = "ISSUED"
    /\ status = <<"ELIGIBLE", s>>
    /\ opened[s] = Never
    /\ \E at \in SampledAt(authorization[s].known) :
          /\ at < authorization[s].expires_at
          /\ opened' = [opened EXCEPT ![s] = at]
    /\ evaluating' = [evaluating EXCEPT ![o] = s]
    /\ UNCHANGED <<now, campaignVars, resultVars, status, materialized,
                   authorization, decision, artifact>>

\* Consumption, execution and the OPENED event are one commit, and only then
\* is the protected input loaded.
OpenProtectedStage(o, s) ==
    /\ evaluating[o] = None
    /\ authorization[s].latest = "ISSUED"
    /\ status = <<"ELIGIBLE", s>>
    /\ opened[s] = Never
    /\ \E at \in SampledAt(authorization[s].known) :
          /\ at < authorization[s].expires_at
          /\ opened' = [opened EXCEPT ![s] = at]
    /\ Enter("OPENED", s)
    /\ evaluating' = [evaluating EXCEPT ![o] = s]
    /\ UNCHANGED <<now, campaignVars, resultVars, materialized,
                   authorization, decision, artifact>>

RecoverProtectedStage(o, s) ==
    /\ evaluating[o] = None
    /\ opened[s] # Never
    /\ decision[s] = "none"
    /\ evaluating' = [evaluating EXCEPT ![o] = s]
    /\ UNCHANGED <<now, campaignVars, resultVars, status, stageVars>>

\* Plausible bug: whoever measured last writes the decision.
DecideAgain(o, passed) ==
    LET s == evaluating[o] IN
    /\ s # None
    /\ decision' = [decision EXCEPT ![s] = IF passed THEN "passed" ELSE "failed"]
    /\ \/ ~ passed /\ Enter("PROGRAM_REJECTED", 0) /\ UNCHANGED artifact
       \/ passed /\ s < 3 /\ Enter("ELIGIBLE", s + 1) /\ UNCHANGED artifact
       \/ passed /\ s = 3 /\ Enter("QUALIFIED_FOR_M104_OBSERVATION", 0) /\ artifact' = TRUE
    /\ evaluating' = [evaluating EXCEPT ![o] = None]
    /\ UNCHANGED <<now, campaignVars, resultVars, materialized, authorization, opened>>

\* The second transaction of _evaluate_opened().  The measurement is a function
\* of the execution; here it may pass or fail whoever makes it.
Decide(o, passed) ==
    LET s == evaluating[o] IN
    /\ s # None
    /\ decision[s] = "none"
    /\ decision' = [decision EXCEPT ![s] = IF passed THEN "passed" ELSE "failed"]
    /\ \/ ~ passed /\ Enter("PROGRAM_REJECTED", 0) /\ UNCHANGED artifact
       \/ passed /\ s < 3 /\ Enter("ELIGIBLE", s + 1) /\ UNCHANGED artifact
       \/ passed /\ s = 3 /\ Enter("QUALIFIED_FOR_M104_OBSERVATION", 0) /\ artifact' = TRUE
    /\ evaluating' = [evaluating EXCEPT ![o] = None]
    /\ UNCHANGED <<now, campaignVars, resultVars, materialized, authorization, opened>>

\* The measurement fails, the stage is found decided, or the process dies.
AbandonEvaluation(o) ==
    /\ evaluating[o] # None
    /\ evaluating' = [evaluating EXCEPT ![o] = None]
    /\ UNCHANGED <<now, campaignVars, resultVars, status, stageVars>>

Next == \/ Tick \/ CreateProgram \/ ActivateProgram \/ QualifyDevelopment
        \/ \E p \in Proposals : CommitProposal(p) \/ AdmitCampaign(p)
        \/ \E h \in Hypotheses : RecordDevelopmentResult(h)
        \/ \E s \in Stages : \/ RegisterMaterialization(s) \/ AuthorizeStage(s)
                             \/ RevokeStageAuthorization(s)
        \/ \E o \in Operators :
              \/ \E s \in Stages : OpenProtectedStage(o, s) \/ RecoverProtectedStage(o, s)
              \/ \E passed \in BOOLEAN : Decide(o, passed)
              \/ AbandonEvaluation(o)

Spec == Init /\ [][Next]_vars

-----------------------------------------------------------------------------
(* Properties. *)

TypeOK == /\ now \in 0 .. MaxTime
          /\ proposed \in [Proposals -> Times]
          /\ campaign \in Campaign \cup {NoCampaign}
          /\ frozen \in Times /\ activated \in Times
          /\ evidence \in [Hypotheses -> Success \cup {Failure, Pending}]
          /\ status \in Statuses
          /\ candidate \in Hypotheses \cup {None}
          /\ materialized \subseteq Stages
          /\ authorization \in [Stages -> Authorization \cup {NotIssued}]
          /\ opened \in [Stages -> Times]
          /\ decision \in [Stages -> {"none", "passed", "failed"}]
          /\ artifact \in BOOLEAN
          /\ evaluating \in [Operators -> Stages \cup {None}]

Measured == \A h \in Hypotheses : evidence[h] # Pending
Passed(s) == decision[s] = "passed"
PassedBefore(s) == \A r \in 1 .. s - 1 : Passed(r)

\* Every operation asks only the latest campaign event what it may do, and the
\* tables tell the same story: however openings, recoveries and decisions
\* interleave, the status follows from the rows
\* (store.py:_latest_campaign_status).
StatusTellsTables ==
    /\ (status = <<"QUALIFIED_FOR_M104_OBSERVATION", 0>>) <=> artifact
    /\ artifact <=> \A s \in Stages : Passed(s)
    /\ (\E s \in Stages : decision[s] = "failed") => status = <<"PROGRAM_REJECTED", 0>>
    /\ \A s \in Stages :
          /\ status = <<"OPENED", s>> <=> opened[s] # Never /\ decision[s] = "none"
          /\ status = <<"ELIGIBLE", s>> <=>
                candidate # None /\ PassedBefore(s) /\ opened[s] = Never
                /\ \A r \in Stages : decision[r] # "failed"

\* An opening stands on an authorization of its own stage that was in force at
\* the time of the opening and can never be withdrawn again, on a candidate that
\* was fixed before, on the stage's materialization and on the passed decisions
\* of all earlier stages (docs/DELTAGRID_INDEPENDENT_RESEARCH_VALIDATION_GOVERNANCE.md,
\* "Evaluator, authorization, opening and recovery").
OpeningStands ==
    \A s \in Stages : opened[s] # Never =>
        /\ authorization[s].latest = "ISSUED"
        /\ authorization[s].known <= opened[s]
        /\ opened[s] < authorization[s].expires_at
        /\ candidate # None
        /\ s \in materialized
        /\ PassedBefore(s)

\* The candidate survives the closed test that Holm's procedure is a short form
\* of: every family of declared hypotheses it belongs to is rejected by a
\* Bonferroni test, so the error rate is alpha over the whole program, failed
\* and measured hypotheses together (statistics.py:holm_step_down).
CandidateSurvivesClosedTest ==
    candidate # None =>
        /\ Measured
        /\ evidence[candidate].gates
        /\ \A F \in SUBSET Hypotheses : candidate \in F =>
              \E g \in F : evidence[g].p * Cardinality(F) <= Alpha

\* What the campaign events say of the tables beside that, and what an operator
\* who measures has before him.
Links ==
    /\ status # <<"NONE", 0>> => campaign # NoCampaign
    /\ status \in {<<"PROGRAM_ACTIVATED", 0>>, <<"DEVELOPMENT_RESULTS_PARTIAL", 0>>}
          => activated # Never
    /\ status = <<"DEVELOPMENT_RESULTS_COMPLETE", 0>> => Measured
    /\ candidate # None => Measured /\ candidate \in Eligible
    /\ \A s \in Stages : /\ decision[s] # "none" => opened[s] # Never
                         /\ authorization[s] # NotIssued => s \in materialized
    /\ \A o \in Operators : evaluating[o] # None => opened[evaluating[o]] # Never

\* The inductive invariant: types, the story the tables and the status tell
\* together, the grounds of every opening, and the links between them
\* (store.py, all operations).
Inv == TypeOK /\ StatusTellsTables /\ OpeningStands /\ Links

Over == status \in {<<"PROGRAM_REJECTED", 0>>, <<"QUALIFIED_FOR_M104_OBSERVATION", 0>>}

\* A verdict is final: an evaluation that raced the one that decided, or a
\* recovery that comes later, changes neither a decision nor the outcome, and
\* no second campaign takes the place of one that was admitted.
VerdictIsFinal ==
    [][/\ Over => UNCHANGED <<status, candidate, evidence, opened, decision, artifact>>
       /\ \A s \in Stages : decision[s] # "none" => decision'[s] = decision[s]
       /\ campaign # NoCampaign => campaign' = campaign]_vars

Ladder == INSTANCE QualificationLadder WITH
    Height <- 3,
    active <- activated # Never,
    measured <- {h \in Hypotheses : evidence[h] # Pending},
    chosen <- candidate,
    rung <- IF Passed(3) THEN 3 ELSE IF Passed(2) THEN 2 ELSE IF Passed(1) THEN 1 ELSE 0,
    open <- \E s \in Stages : opened[s] # Never /\ decision[s] = "none",
    verdict <- IF artifact THEN "qualified"
               ELSE IF status = <<"PROGRAM_REJECTED", 0>> THEN "rejected" ELSE "pending"

\* The store keeps what QualificationLadder promises.
ClimbsLadder == Ladder!Spec
=============================================================================
