# A verification of DeltaGrid in TLA+

DeltaGrid is a research-governance system: it captures public market data,
publishes it as immutable releases, admits preregistered research trials,
executes them deterministically, keeps one-use authority over protected data,
and lets a founder run fixed actions on a private machine.  Nearly all of it is
bookkeeping that must stay correct when processes die, hang, run twice or
disagree about the time.  That bookkeeping is what this directory models.

The repository is large (about 260 000 lines).  Most of its Python is
historical numeric research code that runs once, sequentially, over fixed
inputs.  The state machines are in a few packages; they are listed first below
and they are what the modules follow, in the order of the plan.

## 1. Inventory

| Component | State it keeps | Operations | What is hard |
|---|---|---|---|
| Orchestrator service, `offchain/orchestration/service.py` | none of its own: the ledger and the artifact tree | create, cancel, recover, tick, run-until-idle | several foreground workers; leases and late workers; one stale time per tick; cancellation against a working step |
| Orchestrator ledger, `ledger.py` | runs, events (append only), claims (one row per run), receipts | one `BEGIN IMMEDIATE` transaction per mutation; replay check before every use | a history that no longer replays makes a run unusable; event limit; time regressions |
| Step actions and publication, `actions.py`, `strict_json.py` | files `runs/<run>/<step>/result.json` | capture, verify, publish | two durability boundaries; link(2) races; adoption of what is found; unsynced directories |
| Founder gateway, `web/founder/worker.ts`, `database.ts`, `migrations/0001` | command rows, events, receipts, nonces | create, expire, claim, start, complete | an answer lost after the commit; retries; expiry in flight |
| Founder agent, `ops/founder-agent/deltagrid_agent.py` | pending and archived receipts | one poll: reconcile, claim, validate, start, run, record, reconcile, archive | crash between any two steps; duplicate completion |
| Trial ledger (M94) and admission, `research/admission` | budgets, reservations, trial events, result links | register, reserve, append, complete | crash between reservation and admission; budget slots; terminal states |
| Reopening permits (M101), `research/reopening` | permits, permit events, consumptions | issue, revoke, reserve capacity, admit | two SQLite stores without a common transaction; revocation in flight |
| Development runtime (M102), `research/development_runtime` | execution specifications and results as files; a file lock per trial | execute, recover, terminalize | the authority snapshot is older than the finalization; a claim without an end |
| Result engine (M95), `research/engine_service` | event ledgers and results as files; no lock | execute, replay, terminalize | concurrent executors; publication against ledger |
| Statistical governance (M103), `research/statistical_governance` | campaigns, programs, authorizations, openings, decisions | propose, admit, activate, record, qualify, authorize, revoke, open, recover, evaluate | one-use openings with a crash before the decision; measurement outside the lock |
| Market data acquisition (M100), `market_data_acquisition` | batches, raw objects, receipts, observations, checkpoints; a file lock | capture, verify, back up | several commits per batch, one lock, crash leaves a running batch; two clocks |
| Market data custody (M99), `market_data_control` | releases as directories, a catalogue, raw objects, incidents; file locks | publish, verify, resolve as of | a rename and a catalogue row that no transaction joins; revisions and what was known when |
| Research director, `research/director` | a hash-chained ledger | plan, act, record | one process; replay |
| Control plane, cockpit, public projection, public site | none, or one immutable directory | read, render, export | none that interleaves |
| Paper-trading, risk, capital, back-test, AI packs, arbitrage prototype, Solidity registries, tooling | reports | compute | none that a state model would show |

Interactions.  Admission, development runtime and result engine share the trial
ledger; admission and runtime read the permit store, which the founder writes at
any time; the runtime and the engine keep their artifacts in directories that no
row names.  The orchestrator *reads* trial ledger and result root (through the
cockpit's projection) while those components write them; to the orchestrator
they are a source that may change at any moment.  The governance store records
development results.  The custody publishes what it is handed as batches.  The
founder agent calls the gateway over HTTP and starts the acquisition and
projection commands as child processes.  There are no callbacks between
components: they meet in SQLite files, in directories of immutable files, in
lock files and in HTTP requests.

What makes each correct:

* orchestrator: a run can always be read back; one accepted immutable receipt per
  step; what a late worker does cannot corrupt a run; cancellations and runs end;
* command channel: a command is executed at most once and, when executed, its
  receipt is recorded once and exactly;
* admission and permits: the two stores agree; capacity is never exceeded or
  resurrected; only a lost process or a locked database leaves anything undecided;
* runtime and engine: one outcome for each trial, with its evidence; only an
  authority that was current at the decision leads to a result; what a caller was
  told stays true;
* protected stages: one candidate, chosen after all is measured and corrected
  for multiplicity; opened at most once, decided at most once, only in order;
* acquisition: the journal always verifies; a failed batch contributes no
  observation, checkpoints never go back and leave no hole, revisions form one
  chain;
* releases: what is catalogued is whole and never changes; a reading at a
  decision time is fixed when the release is published; an orphan stays one.

`PROJECT.json` lists every component with what is modelled of it, and every
hazard with its line and the properties that would show it.

## 2. Plan

| Step | Modules | State |
|---|---|---|
| 1 | orchestrator: `WorkflowHistory`, `Orchestrator`, `ObservationRun`, `PowerLoss`, `OrchestratorProofs` | done |
| 2 | command channel: `CommandLifecycle`, `FounderCommand`, `FounderCommandProofs` | done |
| 3 | research trials: `TrialLifecycle`, `TrialAdmission`, `DevelopmentTrial`, `TrialAdmissionProofs`, `DevelopmentTrialProofs` | done |
| 4 | protected stages: `QualificationLadder`, `StatisticalGovernance`, `StatisticalGovernanceProofs` | done |
| 5 | acquisition: `ForwardRecord`, `AcquisitionJournal`, `AcquisitionJournalProofs` | done |
| 6 | releases: `ReleaseArchive`, `ReleaseStore`, `ReleaseStoreProofs` | done |
| 7 | result engine with concurrent executors: `ResultEngine`, `ResultEngineProofs` | done |
| 8 | director ledger, market data backup | open: sequential, one process each |

Each abstract specification states what somebody outside may rely on: an operator
of a run (`ObservationRun`), the founder of a command (`CommandLifecycle`), the
holder of a budget of a trial (`TrialLifecycle`), the campaign of its verdict
(`QualificationLadder`), a reader of the journal (`ForwardRecord`), a researcher
of a release (`ReleaseArchive`).

Every invariant and every action property that a passing run checks is the
consequence of a theorem, and so is the implementation of each abstract
specification.  Theorems worth proving next, about the algorithms rather than the
steps: that a history the replay check accepts has consecutive attempts of each
step and one success before the next step begins; that a release read at a later
decision time, or through a later release of its lineage, never selects an
earlier revision; and that histories still replay after a loss of power
(`PowerSpec`), which needs the part of the invariant that speaks of the ledger
apart from the part that speaks of files, since finding 2 breaks the latter.

## 3. The modules

### Orchestrator

**WorkflowHistory** has no state.  It defines the history of one run
(`workflow_events`), the status `_snapshot` derives from it, and the replay check
`_validate_history`, whose loop variables (`active`, `successful`,
`attempt_counts`, `cancel_pending`) appear as functions of a prefix.  Constants
are the number of steps and attempts and the retry delays, with the assumptions
the proofs use.

**Orchestrator** is the service.  `log`, `claims`, `receipts` are the tables of
the ledger, `artifacts` the files that exist; `source` is the version of the
observed research ledger and `clock` the true time.  For every worker `pc`,
`wnow`, `held`, `payload`, `failure` are the local variables of one `tick`.
Every ledger mutation is one SQLite transaction taken with `BEGIN IMMEDIATE`,
hence one action; between the transactions of a tick and between the filesystem
calls of a step everybody else may run:

    Recover -> ClaimOne -> Prepare -> Publish -> FinalizeSuccess | FinalizeFailure

with `ClaimNothing`, `ExecuteFails`, `FinalizeRejected` for the early exits and
`Abandon` for a process that dies or finds the database busy.  `wnow` is chosen
once, by the caller, as in the code.  The operator's commands are `CreateRun`,
`CancelRun`, `OperatorRecover`.  A transaction the code rolls back (a time before
the run's latest event, a full history, a claim from the future) is a disabled
action or, in a tick, the step that ends it.

Content is abstracted to what the properties tell apart: an artifact is the
version of the source it was derived from.  That is exact for the three compiled
steps, since verification and manifest are functions of the accepted snapshot.
Failure tokens are abstracted to retryable and not, with `ARTIFACT_CONFLICT`
kept apart.

**ObservationRun** is the abstract specification: a run has a status, finished
steps, attempts used and a cancellation flag, and eight small actions.  The run
checks `Orchestrator` implements it under `RunView`.

**PowerLoss** extends `Orchestrator` with the set of synced directory entries and
a loss of power that keeps the committed ledger and drops any unsynced artifact.

### Command channel

**FounderCommand** is the command channel: founder, gateway, network, and any
number of polls of the agent, which takes no lock of its own.  `status`,
`expires`, `receipt` are the columns of the gateway's tables that decide
anything; `pending` and `history` are the two directories of the agent; `runs`
counts how often an action was carried out.  `calls` holds the requests under
way: who sent one and whether the sender still waits, the next database
statement of its handler, and the time the handler read on arrival.  A handler
is not one action: `Arrive`, `ExpireStale`, then `SelectCandidate` and
`ClaimCandidate` for a claim, `MarkExecuting` and `ConfirmExecuting` for a start,
`FindReceipt` and `StoreReceipt` for a completion; other requests run between any
two.  A poll of `run_once` is

    List -> (Submit -> Archive)* -> AskForWork -> Validate -> RunAction
         -> WriteRecord -> List -> (Submit -> Archive)* -> Done

where `pc`, `todo`, `held`, `verdict`, `attempt` are its local variables.
`Retry` abandons the request it waits for, which may still be handled, and sends
another; `GiveUp` is a process that dies or has used its attempts; `DieWriting`
dies inside the write of the pending file; `Drop` loses a request at any
statement or answers it with an error.  The outcome of `validate_command` and of
the action are free choices, since the agent's clock, the worktree and the child
process are outside.  `claimed_by` is left out because there is one agent id.

**CommandLifecycle** is the abstract specification: a command is requested,
claimed, started, carried out at most once while it is executing, and ended
together with a receipt that tells whether it ran; before its start it may
lapse.

### Research trials

**TrialAdmission** is the trial ledger and the permit store with the two
admission services above them.  `budgets`, `reservedAt`, `history` are rows of
the ledger, `permit`, `consumed` rows of the authority store; `call` is the
admission each caller is in, `lost` the trials whose call was lost.  The two
stores are two databases, so an admission is several transactions, each its own
step; between any two another caller, the founder's `Revoke` or a crash may come,
and each may find its database locked.  A revocation samples its time
(`revoking`) before it waits for the write lock, as the code does.  A request is
reserved at most once, so a request names its trial.  The gates (dataset,
controls, repository state) are verdicts.

**DevelopmentTrial** puts the runtime above it: an executor takes the file lock
of a trial in its result runtime, captures the authority, claims a specification,
writes event ledger and result, replays them, completes the trial and verifies
once more.  `files` are the three artifacts of each trial in each runtime (absent,
torn, or written for the decision time that is their one free content), `lock`
the lock files, `run` what each executor is doing, `link` the result link of the
ledger.  A process may die inside a write and leave the file torn.  The authority
snapshot has one point of linearization, the read of the permit.

**ResultEngine** adds the engines that execute synthetic controls on the same
ledger, without any lock: `output` are their files, `session` what each is doing,
`told` what each last returned or raised.  What an engine computes is determined
by the trial, and its files are linked to their names when whole, so there is one
result, `TheResult`, and no torn file.  An engine that finds an artifact, a link
or a `COMPLETED` event of another takes it for its own.  A failure before the
trial is bound writes nothing, one after it fails the trial, unless reading back
shows the trial completed.  `LINKED_WHILE_ADMITTED` and `DATABASE_ERROR` are one
token in the code, `INTERNAL_INTEGRITY_FAILURE`; the model tells apart what
caused it.

**TrialLifecycle** is the abstract specification of a trial and of the slots of a
permit, implemented by `TrialAdmission`.

### Protected stages

**StatisticalGovernance** is the governance store for one campaign: `campaign`,
`program`, the results of the hypotheses, the candidate and its evidence, and for
each stage authorization, opening, artifact and decision.  Every operation is one
transaction, except the evaluation of an opened stage, which reads in one,
measures without a lock and decides in another, so that two operators may measure
one opening.  Every operation reads the clock before it waits for the lock, so it
works with a time up to `Lag` old.  The selection is modelled as the code does it:
the step-down test over all declared hypotheses, then the order of rank, adjusted
p-value and hash.  The property compares it with the closed test, which the
step-down procedure is meant to compute.

**QualificationLadder** is the abstract specification: measured, chosen once,
climbing one stage at a time, ended by the first failure.

### Market data

**AcquisitionJournal** is one capture from its lock to its last commit: the lock,
the batch row, the provider's two clocks, the funding configuration and every
feed, each answer written to the content-addressed store before the journal names
it, and one last transaction that lets observations and checkpoints in.  `book`
is what the provider says, which it may correct; `now` and `wall` are the
provider's time and the host's.  Requests, disk writes and commits fail at every
step, a reader may hold the journal, a collector may die anywhere.

**ForwardRecord** is the abstract specification: per event a sequence of revisions
that only grows, a whole capture at a time, and a coverage that never goes back.

**ReleaseStore** is the publication of releases: file lock, certification of what
is catalogued, merge with the parent, raw objects, a stage that is built and
verified, the rename, the catalogue row, and incidents for what failed.  `object`,
`published`, `incidents` are what is on disk, `catalogue`, `indexed` the rows,
`job` the publication each publisher is in and `answer` what its last call
returned.  A release is named by the hash of all it contains and its parent's
name: here it is the sequence of snapshots of its lineage.  A check that cannot
fail for what the program itself wrote is a guard (`Checked`), so that the model
would stop if it could.

**ReleaseArchive** is the abstract specification: an archive that only grows, and
for every release and decision time a reading, by as-of selection, that is fixed
when the release enters.

### Proofs and instances

**OrchestratorProofs**, **FounderCommandProofs**, **TrialAdmissionProofs**,
**DevelopmentTrialProofs**, **ResultEngineProofs**, **StatisticalGovernanceProofs**,
**AcquisitionJournalProofs** and **ReleaseStoreProofs** hold the theorems.
**MCOrchestrator**, **MCPowerLoss**, **MCFounderCommand**, **MCTrialAdmission**,
**MCDevelopmentTrial**, **MCResultEngine**, **MCStatisticalGovernance**,
**MCAcquisitionJournal** and **MCReleaseStore** give the functions and symmetries
of the instances.

Operators whose comment starts with "Plausible bug" are not part of any
specification: each is a variant of the definition that follows it, and shows
that the properties notice the difference.

## 4. The runs

| Run | Question | Bounds | Result |
|---|---|---|---|
| `race` | Do late workers, crashes, cancellation and a changing source corrupt history, artifacts or results, and do they stay within what an operator may expect of a run? | 1 run, 2 steps x 2 attempts, 2 workers, lease 2, time 6, 2 source versions | holds |
| `progress` | Does every run end, and every cancellation take effect, and is no attempt taken away early or accepted late, with clocks that are wrong? | 1 step x 2 attempts, 1 worker, clocks off by 1 either way, time 14 | holds under the fairness below |
| `first_artifact` | Is the first published snapshot authoritative, as documented? | 2 workers, lease 1 | violated, finding 1 |
| `power_loss` | Does an accepted receipt keep its artifact over a loss of power? | 1 worker, time 4 | violated, finding 2 |
| `command_race` | Do overlapping polls, lost answers, repetitions and crashes run a command twice, or part its receipt from its file? | 1 command, 2 polls, 2 requests under way, 1 retry, lifetime 1, time 1 | holds |
| `command_progress` | Is every recorded completion delivered, and does no command wait for ever? | 1 command, 1 poll at a time, 2 requests under way, 1 retry | holds under the fairness below, except behind a torn file |
| `admission` | Do two stores without a common transaction agree, is a permit never overspent, and is every reservation decided? | 3 trials of 2 budgets, 2 of them competing for the one slot of a permit, 2 callers, time 1 | holds under the fairness below, except for a lost call |
| `execution` | Has every trial one outcome, with its evidence and authorised in time, and does what executors and engines were told stand? | a development trial with 2 executors over 2 runtimes, or a control with 2 engines over 2 roots; 1 caller, time 1 | holds |
| `revocation` | Does a completed result stay readable after a later revocation, as documented? | 1 trial, 2 executors, 2 runtimes, time 1 | violated, finding 3 |
| `stages` | Is the candidate the one the closed test allows, and does it climb the stages one at a time, each opened and decided once? | 3 hypotheses, 2 p-values and 2 ranks (so with ties), 3 stages, 2 operators, times up to 1 old, time 5 | holds |
| `acquisition` | Does the journal always verify, without a hole, and grow by whole captures only? | 2 collectors, 2 batches, a feed of bars and one of funding, 1 correction, intervals of 3 ticks, 3 times, local clock 2 or 3 behind | holds under the fairness below, except for a lost collector |
| `release` | Is what is catalogued whole for ever, and does a publisher learn the truth? | 2 publishers, 3 publications, 2 failures or deaths, 2 releases, 4 versions of 2 observations, 3 decision times | holds under the fairness below |

Why the bounds are enough.

*Orchestrator.*  Two workers are what a race needs, one that is late and one that
has taken over; a third would be late in the same way.  Two steps distinguish the
capturing step from a step that reads back, and the last step from an earlier
one; two attempts distinguish a retry from the last attempt; two source versions
are what makes two captures differ.  `Horizon` stops the clock one skew beyond
every deadline and time stamp in the ledger: later times satisfy the same
comparisons.  Runs share no row, and a transaction over several claims treats
them one by one; the proofs hold for every set of runs.  `EventBudget` bounds the
histories by what the attempts allow, 27 events with the compiled three steps of
three attempts, far from the limit of 1000.

*Command channel.*  Two polls are what a race for one command, or for one pending
file, needs; two requests under way are an abandoned request and its repetition,
or the claims of two polls.  Time 1 is the deadline: `now = 0` is before it and
`now = 1` at it.  With one command the order of the queue and of the directory is
not exercised; the proofs have no such bound.  The liveness run has one poll at a
time, which is how launchd starts them.

*Trials.*  Two callers pass the gate together; three trials are two that compete
for the slot of a permit and one that wants the same trial number.  Time 1 lets a
revocation be sampled before and committed after a decision.  In `execution` the
constraint `OneKind` looks at the two kinds of trial one at a time: they share
the tables of the ledger and no row of them.  Two executors in two runtimes can
hold two locks at once, and in one runtime they exclude each other.

*Stages.*  Three hypotheses are the least for which the step-down test differs
from one comparison; with alpha 6 the p-value 2 passes at every step, 3 from the
second step on, and the 9 of a failed hypothesis at none.  Authorizations are valid
for one unit, so they may lapse, and a time sampled before the lock may be that of
an earlier unit.

*Acquisition.*  Three times are a first capture, one that catches up and one that
revises; an interval of three ticks leaves room for a safety margin of two and a
clock two behind.  *Releases.*  A first version, a correction, a correction known
too early and an observation of unknown availability are one case for each branch
of the as-of selection; two failures are one that strands a release and one that
hits whoever meets it.

Deadlock is checked for the command channel, admission and execution, where
somebody can always call again.  It is not for the orchestrator (when every run
has ended nothing has to happen), for `stages` (a campaign ends), for
`acquisition` and `release` (their bounds on batches and calls run out).

### Fairness

*Orchestrator* (`progress`).  The code has no scheduler: "operators progress work
explicitly".  `WF(Recover)` is the operator who ticks again; `WF(Step)` is a
process that goes on or dies (`Abandon` is one of its steps, so dying is always
allowed); `SF(ClaimOne)` says that not every tick dies before it claims; without
it an attempt would never start.  `WF(ClockTicks)` is the passage of time.
Nothing forces an attempt to succeed: attempts are bounded and the last one ends
the run.

*Command channel* (`command_progress`).  launchd starts a poll every 30 seconds
(`StartInterval`), so `WF(Agent)`; a poll that has started a step goes on or dies,
and strong fairness of `Submit`, `Archive` and `AskForWork` says that it does not
die at the same step in every poll.  A request is handled or lost
(`WF(Handle)`), and strong fairness of `AwaitedStep` says that an unreliable
network does not lose every awaited claim, or every awaited completion, at the
same statement.  Starts get none, and neither does the write of the record: a
command may expire, or be left executing.

The exception in `CompletionDelivered` and `QueueMoves`, `Blocked`, is a file left
half written by a crash inside `write_pending_receipt`, which creates it under
its final name.  Every later poll stops at it before it asks for work, so no
other completion is delivered and no command is claimed until somebody removes
it.  And a command whose agent dies after the start was acknowledged and before
its record is written stays `EXECUTING`: the expiry covers only requested and
claimed commands.  No document promises otherwise, so neither is a finding.

*Admission, acquisition, releases.*  Each operation runs in the foreground of the
process that called it, and every wait in it has a timeout, so weak fairness of
the next step (`CallerStep`, `CollectorStep`, `Proceed`) is the process going on;
crashes and locked databases are steps without fairness that may come at any
time.  `ReservationDecided` and `CaptureDecided` name the lost process as the one
exception, since nothing in the code resumes its work.  No fairness is assumed of
founders, operators or clocks.  Trials in execution and protected stages state no
progress: nothing repeats an execution, and a stage whose authorization lapsed
unopened has no further one.

### Findings

1. *First artifact.*  The documentation says the first published snapshot is
   authoritative and every later replay reuses its bytes.  The trace: a worker
   captures version 1 and hangs; its lease ends; the source changes; a second
   worker looks for the artifact, finds none and captures version 2; the late
   worker links version 1; the second one then fails with `ARTIFACT_CONFLICT`,
   which is not retryable, and the run fails although its first artifact is
   valid.
2. *Adoption without a sync.*  A worker that finds the artifact of an attempt
   that died between link and directory fsync adopts it and commits its receipt.
   A loss of power keeps the receipt and may drop the file; every later step
   then fails to read it back.
3. *Revocation in the past.*  The documentation says completed verified results
   remain readable after later revocation.  A revocation reads the clock and then
   waits for the write lock, so it may be committed after an execution, with a
   time before its authority decision.  The completed result is verified against
   the authority at that decision time and is refused from then on.
   `AuthorisedBeforeRevocation` therefore speaks of the time of the commit.

One more disagreement is a named case of a property and not a run of its own.
An engine reads the status of its trial before the link: if another engine
completes the trial in between, the first one raises `INTERNAL_INTEGRITY_FAILURE`,
whereas the documentation and the concurrency test expect both to return the one
linked result.  Nothing is lost, and a repetition returns the result; the last
conjunct of `EngineAnswersStand` says that this happens in no other case.

## 5. Proofs

Every theorem holds for every value of the constants that satisfies the named
assumptions in the modules that declare them, which say no more than that
configured numbers are naturals, sentinels differ from what they stand beside,
hashes differ where their hypotheses do, and the few sets that are counted are
finite.  Two say more.  `AcquisitionAssumption` takes the offset a healthy clock
may have to be no larger than the margin after which a bar counts as closed (both
are 5 000 ms, `MAX_CLOCK_OFFSET_MS` and `CLOSE_SAFETY_MARGIN_MS`), and the clocks
to be more than an interval and a margin past zero (they are milliseconds since
1970, an interval is an hour).  `ReleaseAssumption` gives the fields of an
observation their types.  Each component has an inductive
invariant that TLC found true on small instances before it was proved; the runs
above check the properties, which are its consequences.

### The orchestrator

`OrchestratorProofs`, for every number of runs, workers, steps, attempts, every
lease, skew and bound:

| Theorem | Statement |
|---|---|
| `Soundness` | `Spec => []Inv` |
| `TypeCorrect` | `Spec => []TypeOK` |
| `ArtifactSafety` | `Spec => []AcceptedArtifactStands` |
| `LineageSafety` | `Spec => []OneLineage` |
| `TerminalFinality` | `Spec => TerminalIsFinal` |
| `HistorySound` | `Spec => []HistoryInv` |
| `ReplaySafety` | `Spec => []HistoryReplayable` |
| `LeaseSafety` | `Spec => []LeaseHonoured` |
| `BudgetSafety` | `Spec => []EventBudget` |
| `RoomRemains` | `Spec => []RoomToEnd`: with `MaxEvents` at least `EventLimit`, no transaction is refused for the length of a history |
| `RunsImplement` | `Spec => RefinesObservationRun`, the implementation of `ObservationRun` |

The safety properties are not inductive alone.  That an accepted receipt names
what is on disk depends on what a worker believes when it finalizes, so `Inv`
adds `WorkersSound`: a worker past its claim holds a claim that was granted when
its run already had the receipts of all earlier steps (`Granted`); what it wants
to publish for a later step derives from the first receipt (`Derived`); and what
it reports as done is on disk (`Published`).  Those facts survive the loss of the
lease because receipts and artifacts only grow, which is why a late worker is
harmless.  Whether it is accepted at all depends on the fencing comparison with
the claim row; `OneClaimPerRun` and `ClaimsAreCurrent` say that a row still there
is for the current step of a run that has not ended.  `TerminalIsFinal` follows:
every action that appends to a run either tests that it has not ended or consumes
a claim row, and an ended run has none.  (A late worker's time also precedes the
event of the expiry that took its claim, so the order of events would refuse it
as well: the claim comparison is the first of two defences.)

The proof has one lemma per action, with one step for each conjunct the action
can disturb.

`HistoryReplayable` is about whole histories, and a replay check that looks at
every prefix is not an invariant one can push through a transaction directly.
`HistoryInv` adds `RunStands` for each run: its history replays and keeps the
leases, and the run stands in one of three places, which its latest events tell:
it has ended; it is at rest before the first or the next attempt of its current
step (`AtRest`); or it has exactly one claim row, for the one open attempt of the
history (`UnderClaim`).  Each place bounds the events so far by the steps done and
the attempts begun of the current one.

The proof is in three layers.  The first is about sequences: what an event
appended to a history changes of its digests (open attempt, successes, claimed
attempts, requested cancellation), that what the check said of earlier events it
still says (`AllowedStands`), and for each kind of event when it is admitted as
the next one.  The second is about one run: `Whole` is the replay check without
its last clauses, which hold only between transactions, for a cancellation must be
settled by the event that follows; `Whole` grows with every event that
`Continues` the history, and each transaction (register, claim, cancel, lose,
succeed) leaves the run in one of the three places again.  The same lemmas state
what the transaction is to an operator, a move of `ObservationRun`.  The third is
the ledger: a transaction touches one run, or, in a recovery, every run whose
lease is over, and is `Quiet` for the others.  The theorems follow.  That a
lease is never cut short rests on `UnderClaim` (the claim expires `Lease` after
the event that opened the attempt) and on the two comparisons with that deadline
in the code, `expires_at <= now` in the recovery and `now < expires_at` in the
fencing, being each other's negation.

### The command channel

`FounderCommandProofs`, for every number of commands, polls, requests under way
and retries, and every lifetime:

| Theorem | Statement |
|---|---|
| `Soundness` | `Spec => []Inv` |
| `ReceiptSafety` | `Spec => []ReceiptsAgree` |
| `SingleHolder` | `Spec => []HeldByOne` |
| `PromiseKept` | `Spec => KeepsPromise`, the implementation of `CommandLifecycle` |

`KeepsPromise` needs to know, when an action runs, that its command is executing
and has not run; and, when a receipt is stored, that its record tells the truth
about an action that may have run long before.  `Inv` therefore follows a command
through its one holder.  `HoldersSound`: a held command was claimed, until its
holder writes the record nobody has one, and up to the action it has not run.
`RecordsTrue`: nothing happened to a command nobody claimed, and each record
tells whether its command ran.  `RequestsSound`: a completion, however late it is
handled, carries the record that is or was in the pending file.  `AwaitsOne`:
an answer reaches a poll only for the request it waits for, so the answer to an
abandoned start can not make an action run.  A command is claimed in one
statement that tests it is still requested, so there is never a second holder,
and there is one record for each command because only its holder writes it.

The proof has one lemma per action.  The helper lemmas describe what several of
them do to the requests: forget one (`Shed...`), move one to its next statement
(`GoOn...`), answer one (`Answer...`), send one (`Send...`).  `PromiseKept` adds
one lemma for each action the founder can see.

### Research trials

`TrialAdmissionProofs`, for every set of trials, budgets, permits and callers:

| Theorem | Statement |
|---|---|
| `AdmissionSound` | `AdmissionSpec => []AdmissionInv` |
| `StoresAgree` | `AdmissionSpec => []AdmittedOwnsSlot` |
| `CapacitySafety` | `AdmissionSpec => []PermitNotOverspent` |
| `RefusalsStrandNothing` | `AdmissionSpec => []StrandedOnlyByFailure` |
| `RevocationCloses` | `AdmissionSpec => RevocationClosesPermit` |
| `AdmissionImplements` | `AdmissionSpec => KeepsLifecycle`, the implementation of `TrialLifecycle` |

`DevelopmentTrialProofs`, with every set of executors and runtimes besides:

| Theorem | Statement |
|---|---|
| `ExecutionSound` | `Spec => []Inv` |
| `OneOutcomeOnly` | `Spec => []CompletedOnce` |
| `AuthoritySafety` | `Spec => []AuthorisedBeforeRevocation` |
| `ClaimsAnswered` | `Spec => []ClaimAnswered` |
| `Exclusion` | `Spec => []OneWriter` |
| `EvidenceSafety` | `Spec => EvidenceStands` |
| `ExecutionImplements` | `Spec => KeepsLifecycle`, still, with the executors |

`ResultEngineProofs`, with every set of engines and the executors beside them:

| Theorem | Statement |
|---|---|
| `EngineSound` | `EngineSpec => []EngineInv` |
| `ControlsSettled` | `EngineSpec => []ControlSettledOnce` |
| `EngineAnswersSafe` | `EngineSpec => []EngineAnswersStand` |
| `DevelopmentUndisturbed` | `EngineSpec => [](CompletedOnce /\ AuthorisedBeforeRevocation /\ ClaimAnswered)` |
| `EvidenceBesideEngines` | `EngineSpec => EvidenceStands` |
| `LedgerImplements` | `EngineSpec => KeepsLifecycle`, still, with executors and engines |

No transaction covers the two stores, so the link between them is what a call
knows.  `CallStands` says it: from its reservation to its end a call is the only
one with its trial, which is reserved for the call's time; it has no slot before
it takes one, and goes on to `ADMITTED` only with a slot taken at that time.
`RowsStand` is what the rows tell without any call.  Together with the types and
the three row properties they are inductive.  That a reservation is unique to its
call is where the `UNIQUE` request hash enters the proof.

The execution adds `RunStands`: past the lock an executor holds it, its decision
was authorised when it claims, and what it finalizes is what it verified.  From
it follows that the trial that is completed is linked to artifacts of one
specification; `EvidenceStands` follows from every write testing that the name is
free while the lock excludes a second writer.

The engines take no lock, so no invariant can say that one works alone.
`SessionStands` says only what no other engine can undo: the trial of a session
was admitted, and files are not taken away, so an engine about to complete a
trial has both of its artifacts in its root.  `ControlSettledOnce` then rests on
the ledger alone: a completion and its link are one transaction that tests the
status, and the result is determined by the trial, so it does not matter whose
files the link names.  What the invariant of the development runtime says is about
development trials, what an engine does is about controls, and the two never name
a row of each other: that is why the theorems of the runtime hold beside the
engines, and the proof is that every engine step leaves those rows alone.

### Protected stages

`StatisticalGovernanceProofs`, for every set of hypotheses, p-values, ranks,
operators, windows and every lag:

| Theorem | Statement |
|---|---|
| `Soundness` | `Spec => []Inv` |
| `StatusSafety` | `Spec => []StatusTellsTables` |
| `OpeningSafety` | `Spec => []OpeningStands` |
| `SelectionIsClosedTest` | `Spec => []CandidateSurvivesClosedTest` |
| `VerdictStands` | `Spec => VerdictIsFinal` |
| `Climbs` | `Spec => ClimbsLadder`, the implementation of `QualificationLadder` |

The operations look at the latest campaign event, the properties speak of the
rows: `StatusTellsTables` and `Links` keep the two together, and with
`OpeningStands` they are inductive.  A decision is accepted only in the status
`OPENED` of its stage, which by `StatusTellsTables` is an opening without a
decision, so whoever measured second is refused.  `SelectionIsClosedTest` rests
on a lemma about the step-down test alone: a hypothesis it rejects is rejected in
every family it belongs to by a Bonferroni test at the size of the family.

### Market data

`AcquisitionJournalProofs`, for every set of collectors and feeds, any number of
batches and corrections, every interval, sweep, catch-up limit, margin and clock
error the assumption allows:

| Theorem | Statement |
|---|---|
| `JournalSound` | `Spec => []JournalInv` |
| `JournalSafety` | `Spec => []JournalVerifies` |
| `CoverageSafety` | `Spec => []CheckpointCovers` |
| `RecordKept` | `Spec => KeepsRecord`, the implementation of `ForwardRecord` |

`JournalVerifies` compares what different commits of one batch wrote, so
`JournalInv` ties the rows to the collector between them: `JobStands` says how
many receipts it has at each program counter, that its batch is the running one
while it holds the lock, and that the observations it holds back (`CandidatesStand`)
continue the chains that are committed; `BatchesStand` says that a finished
batch declares the counts its rows have.  There is
no hole behind a checkpoint because the first window begins at the hour that
becomes the origin (`FirstHour`), and every later one at or before the earliest
checkpoint unless the origin comes later, and its commit moves all checkpoints to
its end together (`CheckpointsStand`).  The assumption on the clocks keeps that
first hour from being cut off at zero.  The one on the margin is why nothing is
recorded as available before it happened: the end of a window comes from the
provider's clock less the margin, the availability from the host's, which a
healthy pair lets lag by no more than the offset.
`RecordKept` maps each event to the sequence of its committed revisions; only the
last commit of a capture moves it, by the whole capture.

`ReleaseStoreProofs`, for every set of publishers, records, raw objects, batches
and decision times:

| Theorem | Statement |
|---|---|
| `Soundness` | `Spec => []Inv` |
| `CatalogueSafety` | `Spec => []CataloguedCertifies` |
| `AnswersSafety` | `Spec => []AnswersTrue` |
| `ChecksNeverFail` | `Spec => []ChecksPass` |
| `OrphanSafety` | `Spec => OrphanStays` |
| `ArchiveKept` | `Spec => KeepsArchive`, the implementation of `ReleaseArchive` |

The argument is one of growth: no step takes away a directory, a row or a whole
object, so a release that verified once verifies for good (`Grows`).  `JobStands`
adds what a publisher that may die or fail anywhere has established so far: in the
critical section it has the lock, from the stage on its release verifies and its
parent is catalogued, at the insertion its directory is there.  `ChecksNeverFail`
is the reason the model may treat a check of the program's own work as a guard.
`ArchiveKept` needs that a reading of a release depends on the release alone.

### What is only model-checked

The six liveness properties (`EveryRunEnds`, `CancellationHonoured`,
`CompletionDelivered`, `QueueMoves`, `ReservationDecided`, `CaptureDecided`) and
`PublicationEnds`: temporal formulas under fairness, which with `ENABLED` are
outside what the proof system handles.  So is induction over data, which is why no
theorem speaks of what a recursive definition computes for every input.  Modules
with theorems use recursive functions and no recursive operators.  The three
findings are counterexamples, which only a run can show.

## 6. Not modelled

*Everywhere.*  Record hashes, schema checks and file permissions (they defend
against edits from outside the program), JSON and argument parsing, wording of
messages, the text form of times.

*Orchestrator.*  The content of snapshots beyond its origin; the order of
runs as SQL compares their times as text (`service.py:307`), in which a whole
second comes after its own fractions: it decides who is served first, not what
happens to a run.

*Command channel.*  Tokens, signatures and nonces, whose verdict is a request
handled or refused; the event and security-event rows; what an action does
besides having run.

*Trials.*  What the gates, the kernel and the accounting compute; `REJECTED` and
`SUPERSEDED`, which no operation writes.

*Protected stages.*  The bootstrap and the sample statistics behind a p-value,
the checks of a document, the measurement itself; campaigns of other anti-reset
keys.  A stage has one authorization row (`store.py:109`), so an authorization
that lapses or is revoked unopened ends the climb without a verdict; no document
promises otherwise.

*Acquisition.*  Repetitions inside one request (a request is answered or not), the
evidence bodies of failed requests and of the clocks, the fields of a bar, more
than one funding row for each capture.  A provider answers completely, and the
request budget suffices.  The local clock is not set back: a batch that ended
before it began would be refused by every later verification.  A
gap longer than the catch-up limit ends forward acquisition for good.  The backup
reads what the lock protects.

*Releases.*  The audit and migration of the legacy store, the inspection of what
recovery would find (it writes nothing; it reads rows before directories and may
call a publication in between an orphan), manifests and resource bounds, one class
of lineage only, and the loss of power: failures and deaths are those of a
process.  The hash of a release is taken to be injective.

*Components.*  The research director is a ledger of one foreground process; the
control plane, the cockpit and the public site read; the backup and the public
exporter each write one directory in one process; statistics, kernels, alpha
search, paper-trading, risk, back-test and AI packs are sequential numeric code
without shared state, which is most of the repository's lines.  The reason of
each is its note in `PROJECT.json`.
