------------------------- MODULE AcquisitionJournal -------------------------
(* The forward acquisition of market data: a collector takes the runtime lock,
   opens a batch, asks the provider for its clocks, its funding configuration
   and every feed, persists each answer as it comes, and lets observations and
   checkpoints into the journal in one last transaction.  Answers are bodies in
   a content-addressed file store written before the journal names them.
   A second collector, a provider that corrects what it published, two clocks,
   failing requests and disks, a journal locked by a reader, and death at any
   step are modelled; the content of an answer is the set of events it gives.  *)
EXTENDS Integers, Sequences, FiniteSets, FiniteSetsExt

CONSTANTS
  Collectors,     \* processes that may capture
  Order,          \* the feeds (stream and symbol) in the order they are asked for
  BarFeeds,       \* the feeds of bars; the others are settled funding
  Times,          \* the provider's times at which something may happen
  Skews,          \* what the local clock may show beyond the provider's time
  Lags,           \* how far one host's clock may be behind the other's
  Interval,       \* INTERVAL_MS
  Margin,         \* CLOSE_SAFETY_MARGIN_MS
  MaxOffset,      \* MAX_CLOCK_OFFSET_MS
  Sweep,          \* REVISION_SWEEP_HOURS
  Catchup,        \* MAX_CATCHUP_HOURS
  MaxBatches,     \* bound: batches begun
  MaxCorrections, \* bound: corrections by the provider
  NoOne

\* The clocks are far from the epoch, and the margin before a bar counts as
\* closed is no smaller than the offset a healthy clock may have.
ASSUME AcquisitionAssumption ==
  /\ Order # <<>> /\ Order \in Seq({Order[i] : i \in DOMAIN Order})
  /\ \A i, j \in DOMAIN Order : Order[i] = Order[j] => i = j
  /\ Interval \in Nat \ {0} /\ {Margin, MaxOffset, Sweep, Catchup} \subseteq Nat
  /\ MaxOffset <= Margin
  /\ {MaxBatches, MaxCorrections} \subseteq Nat
  /\ Times \subseteq Nat /\ Skews \subseteq Int /\ Lags \subseteq Nat /\ Skews # {}
  /\ \E first, last \in Times : \A t \in Times : first <= t /\ t <= last
  /\ \A t \in Times, lag \in Lags : Interval + Margin <= t - lag
  /\ NoOne \notin Collectors

Feeds == {Order[i] : i \in DOMAIN Order}
Horizon == (Max(Times) \div Interval) * Interval
Hours == {h \in 0 .. Horizon - Interval : h % Interval = 0}
EventOf(f, h) == [feed |-> f, opens |-> h,
                  time |-> IF f \in BarFeeds THEN h + Interval - 1 ELSE h]
Events == {EventOf(f, h) : f \in Feeds, h \in Hours}
Batch == 1 .. MaxBatches
Clocks == <<"spot_time", "futures_time">>
Info == <<"info", {}>>

VARIABLES
  now, wall,      \* the provider's time and the local clock
  book,           \* event -> the payload the provider gives for it
  corrections,    \* how often it has changed one
  lock,           \* holder of the acquisition lock
  batch,          \* capture_batches: id -> status and the counts it declares
  receipts,       \* receipts: id -> how many of its requests have one
  registered,     \* raw_objects: bodies the journal names
  whole, torn,    \* files that hold their body, and a part of it
  observations,   \* observations of committed transactions
  checkpoint,     \* checkpoints: feed -> next event time, 0 for no row
  configs,        \* funding_configs: the batches whose rows are committed
  job             \* collector -> its progress and its open transaction

journalVars == <<batch, receipts, registered, observations, checkpoint, configs>>
fileVars == <<whole, torn>>
vars == <<now, wall, book, corrections, lock, fileVars, journalVars, job>>

-----------------------------------------------------------------------------
(* The journal as its readers compute it                                       *)

Begun(status) == [status |-> status, receipts |-> 0, observed |-> 0]
Status(s) == {b \in Batch : batch[b].status = s}
Running == Status("RUNNING")
ObservationsOf(b) == {o \in observations : o.batch = b}

\* latest_successful_observation: the rows of complete batches alone
Revisions(e) == {o \in observations : o.event = e /\ o.batch \in Status("COMPLETE")}
Latest(e) == CHOOSE o \in Revisions(e) : \A p \in Revisions(e) : p.revision <= o.revision

Floor(t) == (t \div Interval) * Interval
Earliest == Min({checkpoint[f] : f \in {g \in Feeds : checkpoint[g] # 0}})
Origin ==
  LET seen == {o.event.time : o \in {p \in observations : p.batch \in Status("COMPLETE")}}
  IN IF seen = {} THEN 0 ELSE Floor(Min(seen))
LatestClosed(asOf) == Floor(asOf - Margin)

\* _capture_window: where this capture begins and the time it covers up to
InitialWindow(asOf) ==
  LET start == Max({0, LatestClosed(asOf) - Interval}) IN <<start, start + Interval>>
CatchupFromLatest(asOf) ==
  <<Max({Origin, LatestClosed(asOf) - Sweep * Interval}), LatestClosed(asOf)>>
CatchupWindow(asOf) ==
  <<Max({Origin, Min({Earliest, LatestClosed(asOf)}) - Sweep * Interval}), LatestClosed(asOf)>>
Window(asOf) ==
  IF \A f \in Feeds : checkpoint[f] = 0 THEN InitialWindow(asOf) ELSE CatchupWindow(asOf)
GapTooLong(asOf) ==
  /\ \E f \in Feeds : checkpoint[f] # 0
  /\ LatestClosed(asOf) - Earliest > Catchup * Interval

\* What the provider answers: the events that open in the window and by now.
Answer(f, from, to) ==
  {[event |-> e, payload |-> book[e]] :
     e \in {x \in Events : x.feed = f /\ x.opens \in from .. Max({from, to - 1}) /\ x.opens <= now}}

\* _normalize_bar and _normalize_funding drop what the provider has not settled.
Settled(e, asOf) ==
  IF e.feed \in BarFeeds THEN e.time < asOf - Margin ELSE e.time <= asOf

NoJob == [pc |-> "idle", batch |-> 0, asOf |-> 0, healthy |-> TRUE, window |-> <<0, 0>>,
          receipts |-> 0, asked |-> 0,
          candidates |-> {}, configs |-> {}, rows |-> {}]
-----------------------------------------------------------------------------
Payloads == {1, 2}
Candidate == [event : Events, payload : Payloads, available : Int]
Observation == [event : Events, payload : Payloads, available : Int, batch : Batch,
                revision : Nat \ {0}, supersedes : Nat]
Job == [pc : {"idle", "spot_time", "futures_time", "info", "feeds", "rows", "raise", "lost"},
        batch : Batch \cup {0}, asOf : Int, healthy : BOOLEAN, window : Int \X Int,
        receipts : Nat, asked : 0 .. Len(Order),
        candidates : SUBSET Candidate, configs : SUBSET Batch, rows : SUBSET Observation]

TypeOK ==
  /\ now \in Times /\ wall \in Int
  /\ book \in [Events -> Payloads] /\ corrections \in 0 .. MaxCorrections
  /\ lock \in Collectors \cup {NoOne}
  /\ batch \in [Batch -> [status : {"NONE", "RUNNING", "COMPLETE", "FAILED"},
                          receipts : Nat, observed : Nat]]
  /\ receipts \in [Batch -> Nat]
  /\ observations \subseteq Observation
  /\ checkpoint \in [Feeds -> Hours \cup {Horizon}]
  /\ configs \subseteq Batch
  /\ job \in [Collectors -> Job]

Init ==
  /\ now = Min(Times) /\ wall \in {now + s : s \in Skews}
  /\ book = [e \in Events |-> 1] /\ corrections = 0
  /\ lock = NoOne
  /\ batch = [b \in Batch |-> Begun("NONE")]
  /\ receipts = [b \in Batch |-> 0]
  /\ registered = {} /\ whole = {} /\ torn = {}
  /\ observations = {}
  /\ checkpoint = [f \in Feeds |-> 0]
  /\ configs = {}
  /\ job = [c \in Collectors |-> NoJob]
-----------------------------------------------------------------------------
(* The world                                                                   *)

\* Time passes; the local clock drifts but is never set back.
Tick ==
  /\ \E t \in {x \in Times : x > now}, s \in Skews :
       /\ t + s >= wall
       /\ now' = t /\ wall' = t + s
  /\ UNCHANGED <<book, corrections, lock, fileVars, journalVars, job>>

\* The provider corrects a bar it has published, possibly back.
Correct ==
  /\ corrections < MaxCorrections /\ corrections' = corrections + 1
  /\ \E e \in Events : e.feed \in BarFeeds /\ e.time < now /\ book' = [book EXCEPT ![e] = 3 - @]
  /\ UNCHANGED <<now, wall, lock, fileVars, journalVars, job>>

worldVars == <<now, wall, book, corrections>>
-----------------------------------------------------------------------------
(* A capture                                                                   *)

\* The capture gives up: what it holds in memory and in its open transaction is
\* of no further use.
GiveUp(c, pc) == job' = [job EXCEPT ![c] = [NoJob EXCEPT !.pc = pc, !.batch = job[c].batch]]

\* The lock is free and no batch is RUNNING: the new batch is committed.  A
\* RUNNING batch, or a lock held for two seconds, sends the caller away.
Begin(c) ==
  /\ job[c].pc = "idle" /\ lock = NoOne
  /\ Running = {} /\ Status("NONE") # {}
  /\ LET b == Min(Status("NONE")) IN
       /\ batch' = [batch EXCEPT ![b] = Begun("RUNNING")]
       /\ job' = [job EXCEPT ![c] = [NoJob EXCEPT !.pc = "spot_time", !.batch = b]]
  /\ lock' = c
  /\ UNCHANGED <<worldVars, fileVars, receipts, registered, observations, checkpoint, configs>>

PersistUncompared(c, bodies) ==
  /\ whole' = whole \cup (bodies \ torn) /\ UNCHANGED torn
  /\ receipts' = [receipts EXCEPT ![job[c].batch] = @ + 1]
  /\ registered' = registered \cup bodies
  /\ configs' = configs \cup job[c].configs

\* _persist_attempts: the bodies are on disk, their receipts and every earlier
\* statement of the open transaction are committed.
Persist(c, bodies) ==
  /\ bodies \cap torn = {}
  /\ whole' = whole \cup bodies /\ UNCHANGED torn
  /\ receipts' = [receipts EXCEPT ![job[c].batch] = @ + 1]
  /\ registered' = registered \cup bodies
  /\ configs' = configs \cup job[c].configs

\* The local clock is close enough to what a host shows.
Healthy(server) == server - wall \in -MaxOffset .. MaxOffset

Answered(c) == [job[c] EXCEPT !.receipts = @ + 1, !.configs = {}]

\* A provider clock; a clock body never recurs, so its file is not kept.
ReadSpotClock(c) ==
  /\ job[c].pc = "spot_time"
  /\ Persist(c, {})
  /\ job' = [job EXCEPT ![c] = [Answered(c) EXCEPT
               !.pc = "futures_time", !.asOf = now, !.healthy = Healthy(now)]]
  /\ UNCHANGED <<worldVars, lock, batch, observations, checkpoint>>

\* With both clocks read the capture fixes its time and its window, or gives up.
ReadFuturesClock(c) ==
  /\ job[c].pc = "futures_time"
  /\ \E lag \in Lags :
       LET asOf == Min({job[c].asOf, now - lag})
           window == Window(asOf)
           sound == /\ job[c].healthy /\ Healthy(now - lag)
                    /\ ~GapTooLong(asOf) /\ window[1] <= window[2]
       IN /\ Persist(c, {})
          /\ IF sound
             THEN job' = [job EXCEPT ![c] = [Answered(c) EXCEPT
                            !.pc = "info", !.asOf = asOf, !.window = window]]
             ELSE GiveUp(c, "raise")
  /\ UNCHANGED <<worldVars, lock, batch, observations, checkpoint>>

\* The funding configuration is written after its receipt is committed, into
\* the transaction the next answer will commit.
ReadFundingInfo(c) ==
  /\ job[c].pc = "info"
  /\ Persist(c, {Info})
  /\ job' = [job EXCEPT ![c] = [Answered(c) EXCEPT
               !.pc = "feeds", !.configs = {job[c].batch}]]
  /\ UNCHANGED <<worldVars, lock, batch, observations, checkpoint>>

Candidates(c, answer) ==
  LET from == job[c].window[1]
      to == job[c].window[2]
  IN {[event |-> x.event, payload |-> x.payload, available |-> wall] :
        x \in {y \in answer : /\ Settled(y.event, job[c].asOf)
                              /\ y.event.time \in from .. to + Interval - 1}}

NextFeed(c) == Order[job[c].asked + 1]
NextAnswer(c) == Answer(NextFeed(c), job[c].window[1], job[c].window[2])
FeedBody(answer) == <<"feed", answer>>

\* One feed; its events become candidates, in memory only.
ReadFeed(c) ==
  /\ job[c].pc = "feeds" /\ job[c].asked < Len(Order)
  /\ Persist(c, {FeedBody(NextAnswer(c))})
  /\ job' = [job EXCEPT ![c] = [Answered(c) EXCEPT
               !.asked = @ + 1, !.candidates = @ \cup Candidates(c, NextAnswer(c))]]
  /\ UNCHANGED <<worldVars, lock, batch, observations, checkpoint>>

\* add_observation: nothing for a payload the latest revision already has,
\* the next revision otherwise.
IsNews(x) == Revisions(x.event) = {} \/ Latest(x.event).payload # x.payload
RowOf(c, x) ==
  LET last == IF Revisions(x.event) = {} THEN 0 ELSE Latest(x.event).revision
  IN [event |-> x.event, payload |-> x.payload, available |-> x.available,
      batch |-> job[c].batch, revision |-> last + 1, supersedes |-> last]

AddObservations(c) ==
  /\ job[c].pc = "feeds" /\ job[c].asked = Len(Order)
  /\ job' = [job EXCEPT ![c].pc = "rows",
                        ![c].rows = {RowOf(c, x) : x \in {y \in job[c].candidates : IsNews(y)}}]
  /\ UNCHANGED <<worldVars, lock, fileVars, journalVars>>

RegressesNever(c) == FALSE
Regresses(c) == \E f \in Feeds : checkpoint[f] # 0 /\ job[c].window[2] < checkpoint[f]

\* finish_batch: rows, checkpoints and the batch's end in one commit.
FinishBatch(c) ==
  /\ job[c].pc = "rows" /\ ~Regresses(c)
  /\ observations' = observations \cup job[c].rows
  /\ configs' = configs \cup job[c].configs
  /\ checkpoint' = [f \in Feeds |-> job[c].window[2]]
  /\ batch' = [batch EXCEPT ![job[c].batch] =
                 [status |-> "COMPLETE", receipts |-> job[c].receipts, observed |-> Cardinality(job[c].rows)]]
  /\ job' = [job EXCEPT ![c] = NoJob] /\ lock' = NoOne
  /\ UNCHANGED <<worldVars, fileVars, receipts, registered>>

CheckpointRegressionEscapes(c) ==
  /\ job[c].pc = "rows" /\ Regresses(c)
  /\ job' = [job EXCEPT ![c] = NoJob] /\ lock' = NoOne
  /\ UNCHANGED <<worldVars, fileVars, journalVars>>

CheckpointRegression(c) ==
  /\ job[c].pc = "rows" /\ Regresses(c)
  /\ GiveUp(c, "raise")
  /\ UNCHANGED <<worldVars, lock, fileVars, journalVars>>
-----------------------------------------------------------------------------
(* What can go wrong in a capture                                              *)

Asking(c) ==
  \/ job[c].pc \in {"spot_time", "futures_time", "info"}
  \/ job[c].pc = "feeds" /\ job[c].asked < Len(Order)

BodiesAsked(c) ==
  CASE job[c].pc = "info" -> {Info}
    [] job[c].pc = "feeds" -> {FeedBody(NextAnswer(c))}
    [] OTHER -> {}

\* The request fails without an answer, or with answers that are no use: those
\* are evidence, and are committed all the same.
RequestFails(c) ==
  /\ Asking(c)
  /\ \/ /\ UNCHANGED <<fileVars, receipts, registered, configs>>
        /\ GiveUp(c, "raise")
     \/ /\ Persist(c, {})
        /\ GiveUp(c, "raise")
  /\ UNCHANGED <<worldVars, lock, batch, observations, checkpoint>>

\* A body is written under its final name: what stops the write stays there.
TearBody(c) ==
  \E body \in BodiesAsked(c) \ (whole \cup torn) :
    torn' = torn \cup {body} /\ UNCHANGED whole

\* The file is complete and nothing names it yet.
FillBody(c) ==
  /\ Asking(c) /\ BodiesAsked(c) \cap torn = {}
  /\ whole' = whole \cup BodiesAsked(c) /\ UNCHANGED torn

\* The disk fails inside the write: a part of the body stays under its name.
WriteFails(c) ==
  /\ Asking(c)
  /\ TearBody(c)
  /\ GiveUp(c, "raise")
  /\ UNCHANGED <<worldVars, lock, journalVars>>

\* RAW_OBJECT_CONFLICT: the name is taken by something else.
ObjectConflict(c) ==
  /\ Asking(c) /\ BodiesAsked(c) \cap torn # {}
  /\ GiveUp(c, "raise")
  /\ UNCHANGED <<worldVars, lock, fileVars, journalVars>>

\* The handler: roll back, then seal the batch with the counts of its rows.
MarkFailed(c) ==
  LET b == job[c].batch IN
  /\ job[c].pc = "raise"
  /\ batch' = [batch EXCEPT ![b] = [status |-> "FAILED", receipts |-> receipts[b],
                                    observed |-> 0]]
  /\ job' = [job EXCEPT ![c] = NoJob] /\ lock' = NoOne
  /\ UNCHANGED <<worldVars, fileVars, receipts, registered, observations, checkpoint, configs>>

\* A reader holds the journal for longer than the busy timeout: the statement
\* under way fails, and so may the handler's own.
JournalBusy(c) ==
  /\ job[c].pc \in {"rows", "raise"} \/ Asking(c)
  /\ IF job[c].pc = "raise"
     THEN GiveUp(c, "lost") /\ lock' = NoOne
     ELSE GiveUp(c, "raise") /\ UNCHANGED lock
  /\ UNCHANGED fileVars \/ FillBody(c)
  /\ UNCHANGED <<worldVars, journalVars>>

\* Death frees the lock and forgets the open transaction; inside the write of a
\* body it leaves a part of it.
Die(c) ==
  /\ job[c].pc \notin {"idle", "lost"}
  /\ GiveUp(c, "lost") /\ lock' = NoOne
  /\ UNCHANGED fileVars \/ FillBody(c) \/ (Asking(c) /\ TearBody(c))
  /\ UNCHANGED <<worldVars, journalVars>>

CollectorStep(c) ==
  \/ ReadSpotClock(c) \/ ReadFuturesClock(c) \/ ReadFundingInfo(c) \/ ReadFeed(c)
  \/ AddObservations(c) \/ FinishBatch(c) \/ CheckpointRegression(c)
  \/ RequestFails(c) \/ WriteFails(c) \/ ObjectConflict(c) \/ MarkFailed(c) \/ JournalBusy(c)

Next ==
  \/ Tick \/ Correct
  \/ \E c \in Collectors : Begin(c) \/ CollectorStep(c) \/ Die(c)

Spec == Init /\ [][Next]_vars

\* A collector that is alive runs on: every wait of its code has a timeout.
FairSpec == Spec /\ \A c \in Collectors : WF_vars(CollectorStep(c))
-----------------------------------------------------------------------------
(* Properties                                                                  *)

\* Whenever no batch is RUNNING, verify_journal accepts the journal: declared
\* counts are the rows', failed batches have no observation, checkpoints exist
\* for every feed exactly if a batch is complete, revisions form gapless chains
\* available in order and not before their event, every funding configuration
\* has its receipt, and every named file is whole.
JournalVerifies ==
  Running = {} =>
    /\ \A b \in Status("COMPLETE") \cup Status("FAILED") :
         /\ batch[b].receipts = receipts[b]
         /\ batch[b].observed = Cardinality(ObservationsOf(b))
    /\ \A o \in observations :
         /\ o.batch \in Status("COMPLETE")
         /\ o.available >= o.event.time
         /\ o.supersedes = o.revision - 1
         /\ o.revision > 1 =>
              \E p \in Revisions(o.event) :
                p.revision = o.revision - 1 /\ p.available <= o.available
         /\ \A p \in Revisions(o.event) : p.revision = o.revision => p = o
    /\ \A f \in Feeds : checkpoint[f] # 0 <=> Status("COMPLETE") # {}
    /\ \A b \in configs : receipts[b] > Len(Clocks)
    /\ registered \subseteq whole /\ whole \cap torn = {}

\* A provider that answers completely leaves no hole: from the first recorded
\* hour to a feed's checkpoint every event has an observation, over any failed,
\* late or repeated captures.
CheckpointCovers ==
  \A e \in Events :
    (Status("COMPLETE") # {} /\ e.opens >= Origin /\ e.time < checkpoint[e.feed])
      => Revisions(e) # {}

\* The parts of the inductive invariant.  Batches: what they declare is what
\* their rows are, and only a complete one has observations.
BatchesStand ==
  /\ \A b \in Status("COMPLETE") \cup Status("FAILED") :
       /\ batch[b].receipts = receipts[b]
       /\ batch[b].observed = Cardinality(ObservationsOf(b))
  /\ \A b \in Status("NONE") : receipts[b] = 0
  /\ \A o \in observations : o.batch \in Status("COMPLETE")
  /\ \A b \in configs : receipts[b] > Len(Clocks)

\* The revisions of an event are numbered without a gap, in the order of their
\* availability, which is neither before the event nor after the local clock.
ChainStands(e) ==
  LET chain == {o \in observations : o.event = e} IN
  /\ IsFiniteSet(chain) /\ {o.revision : o \in chain} = 1 .. Cardinality(chain)
  /\ \A o, p \in chain : /\ o.revision = p.revision => o = p
                         /\ p.revision <= o.revision => p.available <= o.available
  /\ \A o \in chain : /\ e.time <= o.available /\ o.available <= wall
                      /\ o.supersedes = o.revision - 1

\* All feeds are covered up to the same time, from the first complete batch on.
CheckpointsStand ==
  \A f \in Feeds : /\ checkpoint[f] # 0 <=> Status("COMPLETE") # {}
                   /\ \A g \in Feeds : checkpoint[g] = checkpoint[f]

FilesStand == registered \subseteq whole /\ whole \cap torn = {}

\* A collector under way has the lock and a RUNNING batch, and what it has read
\* so far is what it will write: its window is the one the journal asks for, its
\* candidates are the whole of the window for the feeds it has asked for, each
\* event once, available after everything the journal has.
Capturing == {"info", "feeds", "rows"}
CandidatesStand(j) ==
  /\ \A x \in j.candidates :
       /\ \E i \in 1 .. j.asked : x.event.feed = Order[i]
       /\ j.window[1] <= x.event.time
       /\ x.event.time <= x.available /\ x.available <= wall
       /\ \A o \in observations : o.available <= x.available
       /\ \A y \in j.candidates : x.event = y.event => x = y
  /\ \A i \in 1 .. j.asked, e \in Events :
       e.feed = Order[i] /\ e.opens \in j.window[1] .. j.window[2] - 1
         => \E x \in j.candidates : x.event = e

JobStands(c) ==
  LET j == job[c] IN
  /\ j.pc = "idle" <=> j.batch = 0
  /\ j.pc \notin {"idle", "lost"} => lock = c /\ j.batch \in Running
  /\ j.pc \notin {"idle", "lost", "raise"} => j.receipts = receipts[j.batch]
  /\ j.pc \in {"futures_time"} \cup Capturing => j.receipts >= 1
  /\ j.pc \in Capturing => j.receipts >= 2
  /\ j.pc \in {"feeds", "rows"} => j.receipts >= 3
  /\ j.configs \subseteq {j.batch} /\ (j.configs # {} => j.pc \in {"feeds", "rows"})
  /\ j.pc = "futures_time" => /\ j.asOf \in Times /\ j.asOf <= now
                              /\ j.healthy => j.asOf - MaxOffset <= wall
  /\ j.pc \in Capturing => /\ Interval + Margin <= j.asOf /\ j.asOf <= now
                           /\ j.asOf - MaxOffset <= wall
                           /\ j.window = Window(j.asOf) /\ j.window[1] <= j.window[2]
                           /\ CandidatesStand(j)
  /\ j.pc \in {"spot_time", "futures_time", "info"} => j.candidates = {} /\ j.asked = 0
  /\ j.pc = "rows" => /\ j.asked = Len(Order)
                      /\ j.rows = {RowOf(c, x) : x \in {y \in j.candidates : IsNews(y)}}

\* The inductive invariant (service.py:_capture_once_with_transport, journal.py).
JournalInv ==
  /\ TypeOK /\ BatchesStand /\ (\A e \in Events : ChainStands(e))
  /\ CheckpointsStand /\ FilesStand /\ CheckpointCovers
  /\ \A c \in Collectors : JobStands(c)

\* Every batch begun is ended by its collector; only a death or a journal kept
\* locked while the failure is recorded leaves one RUNNING for good.
CaptureDecided ==
  \A b \in Batch :
    b \in Running ~>
      \/ b \notin Running
      \/ \E c \in Collectors : job[c].batch = b /\ job[c].pc = "lost"

RecordOf(e) ==
  [i \in 1 .. Cardinality({o \in observations : o.event = e}) |->
     LET o == CHOOSE x \in observations : x.event = e /\ x.revision = i
     IN [payload |-> o.payload, available |-> o.available]]

\* The journal keeps the promise of forward acquisition: records are extended by
\* whole captures, never rewritten, never back-dated, and coverage only grows.
Promise == INSTANCE ForwardRecord WITH
  record <- [e \in Events |-> RecordOf(e)], coverage <- checkpoint
KeepsRecord == Promise!RecordSpec
=============================================================================
