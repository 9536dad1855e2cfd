--------------------------- MODULE FounderCommand ---------------------------
(***************************************************************************)
(* The founder command channel: the gateway (web/founder), a worker whose  *)
(* requests interleave at every database statement, and the agent on the   *)
(* founder's machine (ops/founder-agent), a process that polls once and    *)
(* exits, reached by a network that loses requests and answers.            *)
(*                                                                         *)
(* A poll is                                                               *)
(*   reconcile pending receipts -> claim -> validate -> start -> run       *)
(*     -> record -> reconcile                                              *)
(* and may die anywhere.  All polls share one agent id, one directory of   *)
(* pending receipts and one of archived ones.                              *)
(***************************************************************************)
EXTENDS Integers, FiniteSetsExt

CONSTANTS Commands,    \* command ids: natural numbers, in the order of file names
          Polls,       \* agent processes; the agent takes no lock of its own
          Slots,       \* requests under way at once (bound)
          Retries,     \* transport retries of start and complete (2)
          Lifetime,    \* COMMAND_TTL_SECONDS
          MaxTime,     \* bound on the clock
          NoCommand, NoRecord, NoCall, Torn

ASSUME CommandsAssumption == Commands \subseteq Nat /\ NoCommand \notin Commands
ASSUME SlotsAssumption == Slots \subseteq Nat
ASSUME NumbersAssumption == Retries \in Nat /\ Lifetime \in Nat \ {0} /\ MaxTime \in Nat

Outcome == {"SUCCEEDED", "FAILED", "REJECTED"}
CommandStatus == Outcome \cup {"NONE", "REQUESTED", "CLAIMED", "EXECUTING", "EXPIRED"}

\* A completion record: two records differ in their times and digests, here in
\* the poll that wrote them.
Record == [status: Outcome, poll: Polls]

\* A request under way: which poll sent it and whether it still waits for the
\* answer; the next statement of its handler; the time the handler read.
Call == [poll: Polls, awaited: BOOLEAN, path: {"claim", "start", "complete"},
         command: Commands \cup {NoCommand}, record: Record \cup {NoRecord},
         stage: {"sent", "expire", "first", "second"}, now: Nat]

ASSUME SentinelAssumption == NoRecord \notin Record /\ Torn \notin Record
                             /\ Torn # NoRecord /\ NoCall \notin Call

VARIABLES
    status,     \* founder_command_requests.status
    expires,    \* founder_command_requests.expires_at
    receipt,    \* founder_command_receipts
    calls,      \* [Slots -> Call or NoCall]
    pending,    \* pending-completions/<command>.json
    history,    \* history/<command>.json
    runs,       \* how often a command's action was carried out
    pc,         \* what each poll is doing
    todo,       \* pending files its reconciliation has listed and not done
    held,       \* the command it claimed
    verdict,    \* how the command ends, once the poll knows
    attempt,    \* transport attempts of the current request
    clock

gateway == <<status, expires, receipt>>
files == <<pending, history>>
poll == <<pc, todo, held, verdict, attempt>>
vars == <<status, expires, receipt, calls, pending, history, runs,
          pc, todo, held, verdict, attempt, clock>>

Init ==
    /\ status = [c \in Commands |-> "NONE"]
    /\ expires = [c \in Commands |-> 0]
    /\ receipt = [c \in Commands |-> NoRecord]
    /\ calls = [k \in Slots |-> NoCall]
    /\ pending = [c \in Commands |-> NoRecord]
    /\ history = [c \in Commands |-> NoRecord]
    /\ runs = [c \in Commands |-> 0]
    /\ pc = [p \in Polls |-> "idle"]
    /\ todo = [p \in Polls |-> {}]
    /\ held = [p \in Polls |-> NoCommand]
    /\ verdict = [p \in Polls |-> "NONE"]
    /\ attempt = [p \in Polls |-> 0]
    /\ clock = 0

----------------------------------------------------------------------------
(* The founder and time.                                                   *)

RequestCommand(c) ==
    /\ status[c] = "NONE"
    /\ status' = [status EXCEPT ![c] = "REQUESTED"]
    /\ expires' = [expires EXCEPT ![c] = clock + Lifetime]
    /\ UNCHANGED <<receipt, calls, files, runs, poll, clock>>

\* Time matters only up to the last deadline.
ClockTicks ==
    /\ clock < MaxTime
    /\ \E c \in Commands : status[c] # "NONE" /\ clock < expires[c]
    /\ clock' = clock + 1
    /\ UNCHANGED <<gateway, calls, files, runs, poll>>

----------------------------------------------------------------------------
(* The agent's side of a request (signed_request).                         *)

FreeSlots == {k \in Slots : calls[k] = NoCall}

\* Which slot is taken makes no difference: the first free one.
Send(p, path, c, record) ==
    \E k \in FreeSlots :
        /\ \A j \in FreeSlots : k <= j
        /\ calls' = [calls EXCEPT ![k] =
              [poll |-> p, awaited |-> TRUE, path |-> path, command |-> c,
               record |-> record, stage |-> "sent", now |-> 0]]

Awaited(p) == {k \in Slots : calls[k] # NoCall /\ calls[k].poll = p /\ calls[k].awaited}

\* What a poll leaves in memory when it ends is gone.
EndPoll(p) ==
    /\ pc' = [pc EXCEPT ![p] = "idle"]
    /\ todo' = [todo EXCEPT ![p] = {}]
    /\ held' = [held EXCEPT ![p] = NoCommand]
    /\ verdict' = [verdict EXCEPT ![p] = "NONE"]
    /\ attempt' = [attempt EXCEPT ![p] = 0]

\* Nobody waits for the answer any more; the gateway may still handle it.
Forsake(p) ==
    calls' = [k \in Slots |-> IF k \in Awaited(p)
                              THEN [calls[k] EXCEPT !.awaited = FALSE] ELSE calls[k]]

\* No answer within the timeout: start and complete are sent again with a fresh
\* nonce, a claim is not.  The first request may still be handled.
MayRetry(p) == pc[p] \in {"starting", "completing"} /\ attempt[p] < Retries

Retry(p) ==
    /\ MayRetry(p)
    /\ \E k \in Awaited(p), j \in FreeSlots :
        /\ \A i \in FreeSlots : j <= i
        /\ calls' = [calls EXCEPT ![k].awaited = FALSE,
                                  ![j] = [calls[k] EXCEPT !.stage = "sent", !.now = 0]]
    /\ attempt' = [attempt EXCEPT ![p] = @ + 1]
    /\ UNCHANGED <<gateway, files, runs, pc, todo, held, verdict, clock>>

\* The process dies or is killed, or has no answer to its last attempt.
GiveUp(p) ==
    /\ pc[p] # "idle"
    /\ Forsake(p)
    /\ EndPoll(p)
    /\ UNCHANGED <<gateway, files, runs, clock>>

----------------------------------------------------------------------------
(* One poll of the agent (run_once).                                       *)

\* reconcile_pending_completions lists the directory, once before it asks for
\* work and once after it recorded a completion.
List(p) ==
    /\ pc[p] \in {"idle", "list"}
    /\ pc' = [pc EXCEPT ![p] = "reconcile"]
    /\ todo' = [todo EXCEPT ![p] = {c \in Commands : pending[c] # NoRecord}]
    /\ UNCHANGED <<gateway, calls, files, runs, held, verdict, attempt, clock>>

\* sorted(): the smallest file name comes first.
First(p) == Min(todo[p])

\* Plausible bug: the receipt is archived when it is sent.
SubmitAndArchive(p) ==
    /\ pc[p] = "reconcile" /\ todo[p] # {}
    /\ pending[First(p)] \in Record
    /\ Send(p, "complete", First(p), pending[First(p)])
    /\ history' = [history EXCEPT ![First(p)] = pending[First(p)]]
    /\ pc' = [pc EXCEPT ![p] = "completing"]
    /\ attempt' = [attempt EXCEPT ![p] = 0]
    /\ UNCHANGED <<gateway, pending, runs, todo, held, verdict, clock>>

Submit(p) ==
    /\ pc[p] = "reconcile" /\ todo[p] # {}
    /\ pending[First(p)] \in Record
    /\ Send(p, "complete", First(p), pending[First(p)])
    /\ pc' = [pc EXCEPT ![p] = "completing"]
    /\ attempt' = [attempt EXCEPT ![p] = 0]
    /\ UNCHANGED <<gateway, files, runs, todo, held, verdict, clock>>

\* A file that is gone or does not parse ends the poll, whatever comes behind.
BadPending(p) ==
    /\ pc[p] = "reconcile" /\ todo[p] # {}
    /\ pending[First(p)] \notin Record
    /\ EndPoll(p)
    /\ UNCHANGED <<gateway, calls, files, runs, clock>>

\* archive_pending_receipt, after the gateway acknowledged the record.
Archive(p) ==
    /\ pc[p] = "archive"
    /\ IF history[First(p)] = NoRecord /\ pending[First(p)] # NoRecord
       THEN /\ history' = [history EXCEPT ![First(p)] = pending[First(p)]]
            /\ pending' = [pending EXCEPT ![First(p)] = NoRecord]
            /\ todo' = [todo EXCEPT ![p] = @ \ {First(p)}]
            /\ pc' = [pc EXCEPT ![p] = "reconcile"]
            /\ UNCHANGED <<held, verdict, attempt>>
       ELSE EndPoll(p) /\ UNCHANGED files
    /\ UNCHANGED <<gateway, calls, runs, clock>>

AskForWork(p) ==
    /\ pc[p] = "reconcile" /\ todo[p] = {} /\ verdict[p] = "NONE"
    /\ Send(p, "claim", NoCommand, NoRecord)
    /\ pc' = [pc EXCEPT ![p] = "claiming"]
    /\ UNCHANGED <<gateway, files, runs, todo, held, verdict, attempt, clock>>

Done(p) ==
    /\ pc[p] = "reconcile" /\ todo[p] = {} /\ verdict[p] # "NONE"
    /\ EndPoll(p)
    /\ UNCHANGED <<gateway, calls, files, runs, clock>>

\* validate_command: the commit, the worktree and the agent's own clock decide.
\* A rejected command is started too, so that its rejection can be recorded.
Validate(p) ==
    /\ pc[p] = "validate"
    /\ \E v \in {"NONE", "REJECTED"} : verdict' = [verdict EXCEPT ![p] = v]
    /\ Send(p, "start", held[p], NoRecord)
    /\ pc' = [pc EXCEPT ![p] = "starting"]
    /\ attempt' = [attempt EXCEPT ![p] = 0]
    /\ UNCHANGED <<gateway, files, runs, todo, held, clock>>

\* run_action.
RunAction(p) ==
    /\ pc[p] = "run"
    /\ runs' = [runs EXCEPT ![held[p]] = @ + 1]
    /\ \E v \in {"SUCCEEDED", "FAILED"} : verdict' = [verdict EXCEPT ![p] = v]
    /\ pc' = [pc EXCEPT ![p] = "record"]
    /\ UNCHANGED <<gateway, calls, files, todo, held, attempt, clock>>

\* write_pending_receipt: exclusive creation, so an existing file is an error.
WriteRecord(p) ==
    /\ pc[p] = "record"
    /\ IF pending[held[p]] = NoRecord
       THEN /\ pending' = [pending EXCEPT ![held[p]] =
                              [status |-> verdict[p], poll |-> p]]
            /\ pc' = [pc EXCEPT ![p] = "list"]
            /\ UNCHANGED <<todo, held, verdict, attempt>>
       ELSE EndPoll(p) /\ UNCHANGED pending
    /\ UNCHANGED <<gateway, calls, history, runs, clock>>

\* The file is written in place: a process that dies in between leaves a part.
DieWriting(p) ==
    /\ pc[p] = "record"
    /\ pending[held[p]] = NoRecord
    /\ pending' = [pending EXCEPT ![held[p]] = Torn]
    /\ EndPoll(p)
    /\ UNCHANGED <<gateway, calls, history, runs, clock>>

----------------------------------------------------------------------------
(* The gateway: one action per database statement of handleAgentRoute.     *)

\* The answer reaches the poll, if it still waits for it.
Answer(k, next) ==
    /\ calls' = [calls EXCEPT ![k] = NoCall]
    /\ IF calls[k].awaited
       THEN /\ pc' = [pc EXCEPT ![calls[k].poll] = next]
            /\ UNCHANGED <<todo, held, verdict, attempt>>
       ELSE UNCHANGED poll

\* An error status ends the poll, and so does an empty queue.
AnswerEnd(k) ==
    /\ calls' = [calls EXCEPT ![k] = NoCall]
    /\ IF calls[k].awaited THEN EndPoll(calls[k].poll) ELSE UNCHANGED poll

At(k, path, stage) ==
    calls[k] # NoCall /\ calls[k].path = path /\ calls[k].stage = stage

GoOn(k, stage) ==
    calls' = [calls EXCEPT ![k].stage = stage] /\ UNCHANGED poll

\* Accepted by verifyAgentRequest; from here on the handler uses this time.
Arrive(k) ==
    /\ calls[k] # NoCall /\ calls[k].stage = "sent"
    /\ calls' = [calls EXCEPT ![k].stage = "expire", ![k].now = clock]
    /\ UNCHANGED <<gateway, files, runs, poll, clock>>

\* Refused, lost, or broken off between two statements (an error status).
Drop(k) ==
    /\ calls[k] # NoCall
    /\ AnswerEnd(k)
    /\ UNCHANGED <<gateway, files, runs, clock>>

\* Plausible bug: a claimed command is not expired.
ExpireRequestedOnly(k) ==
    /\ calls[k] # NoCall /\ calls[k].stage = "expire"
    /\ status' = [c \in Commands |->
          IF status[c] = "REQUESTED" /\ expires[c] <= calls[k].now
          THEN "EXPIRED" ELSE status[c]]
    /\ GoOn(k, "first")
    /\ UNCHANGED <<expires, receipt, files, runs, clock>>

ExpireStale(k) ==
    /\ calls[k] # NoCall /\ calls[k].stage = "expire"
    /\ status' = [c \in Commands |->
          IF status[c] \in {"REQUESTED", "CLAIMED"} /\ expires[c] <= calls[k].now
          THEN "EXPIRED" ELSE status[c]]
    /\ GoOn(k, "first")
    /\ UNCHANGED <<expires, receipt, files, runs, clock>>

Claimable(now) == {c \in Commands : status[c] = "REQUESTED" /\ expires[c] > now}

\* claimCommand reads the oldest claimable command in one statement ...
SelectCandidate(k) ==
    /\ At(k, "claim", "first")
    /\ IF Claimable(calls[k].now) = {} THEN AnswerEnd(k)
       ELSE /\ \E c \in Claimable(calls[k].now) :
                  /\ \A d \in Claimable(calls[k].now) : expires[c] <= expires[d]
                  /\ calls' = [calls EXCEPT ![k].command = c, ![k].stage = "second"]
            /\ UNCHANGED poll
    /\ UNCHANGED <<gateway, files, runs, clock>>

Grant(k) ==
    /\ calls' = [calls EXCEPT ![k] = NoCall]
    /\ IF calls[k].awaited
       THEN /\ pc' = [pc EXCEPT ![calls[k].poll] = "validate"]
            /\ held' = [held EXCEPT ![calls[k].poll] = calls[k].command]
            /\ UNCHANGED <<todo, verdict, attempt>>
       ELSE UNCHANGED poll

\* Plausible bug: the candidate is handed out without looking at the update.
ClaimCandidateUnseen(k) ==
    /\ At(k, "claim", "second")
    /\ LET c == calls[k].command
       IN  status' = IF status[c] = "REQUESTED" /\ expires[c] > calls[k].now
                     THEN [status EXCEPT ![c] = "CLAIMED"] ELSE status
    /\ Grant(k)
    /\ UNCHANGED <<expires, receipt, files, runs, clock>>

\* ... and claims it in another, which finds it gone if somebody was faster.
ClaimCandidate(k) ==
    /\ At(k, "claim", "second")
    /\ LET c == calls[k].command
       IN  IF status[c] = "REQUESTED" /\ expires[c] > calls[k].now
           THEN status' = [status EXCEPT ![c] = "CLAIMED"] /\ Grant(k)
           ELSE UNCHANGED status /\ AnswerEnd(k)
    /\ UNCHANGED <<expires, receipt, files, runs, clock>>

\* The agent goes on to the action, or to the record of its rejection.
Started(k) ==
    Answer(k, IF verdict[calls[k].poll] = "REJECTED" THEN "record" ELSE "run")

MarkExecuting(k) ==
    /\ At(k, "start", "first")
    /\ LET c == calls[k].command
       IN  IF status[c] = "CLAIMED" /\ expires[c] > calls[k].now
           THEN status' = [status EXCEPT ![c] = "EXECUTING"] /\ Started(k)
           ELSE UNCHANGED status /\ GoOn(k, "second")
    /\ UNCHANGED <<expires, receipt, files, runs, clock>>

\* Plausible bug: the repetition is acknowledged without looking at the command.
ConfirmUnseen(k) ==
    /\ At(k, "start", "second")
    /\ Started(k)
    /\ UNCHANGED <<gateway, files, runs, clock>>

\* The same start again is acknowledged while the command is executing.
ConfirmExecuting(k) ==
    /\ At(k, "start", "second")
    /\ LET c == calls[k].command
       IN  IF status[c] = "EXECUTING" /\ expires[c] > calls[k].now
           THEN Started(k) ELSE AnswerEnd(k)
    /\ UNCHANGED <<gateway, files, runs, clock>>

\* Plausible bug: a stored receipt is not looked for.
FindReceiptNever(k) ==
    /\ At(k, "complete", "first")
    /\ GoOn(k, "second")
    /\ UNCHANGED <<gateway, files, runs, clock>>

\* completeCommand: an exact replay is acknowledged, another record is refused.
FindReceipt(k) ==
    /\ At(k, "complete", "first")
    /\ LET stored == receipt[calls[k].command]
       IN  \/ stored = NoRecord /\ GoOn(k, "second")
           \/ stored # NoRecord /\ stored = calls[k].record /\ Answer(k, "archive")
           \/ stored # NoRecord /\ stored # calls[k].record /\ AnswerEnd(k)
    /\ UNCHANGED <<gateway, files, runs, clock>>

\* One D1 batch: the status and the receipt together or neither.
StoreReceipt(k) ==
    /\ At(k, "complete", "second")
    /\ LET c == calls[k].command
       IN  IF status[c] = "EXECUTING"
           THEN /\ status' = [status EXCEPT ![c] = calls[k].record.status]
                /\ receipt' = [receipt EXCEPT ![c] = calls[k].record]
                /\ Answer(k, "archive")
           ELSE UNCHANGED <<status, receipt>> /\ AnswerEnd(k)
    /\ UNCHANGED <<expires, files, runs, clock>>

----------------------------------------------------------------------------
Handle(k) ==
    \/ Arrive(k) \/ ExpireStale(k)
    \/ SelectCandidate(k) \/ ClaimCandidate(k)
    \/ MarkExecuting(k) \/ ConfirmExecuting(k)
    \/ FindReceipt(k) \/ StoreReceipt(k)

Agent(p) ==
    \/ List(p) \/ Submit(p) \/ BadPending(p) \/ Archive(p) \/ Done(p)
    \/ AskForWork(p) \/ Validate(p) \/ RunAction(p) \/ WriteRecord(p)

Trouble(p) == Retry(p) \/ GiveUp(p) \/ DieWriting(p)

Next ==
    \/ \E c \in Commands : RequestCommand(c)
    \/ ClockTicks
    \/ \E p \in Polls : Agent(p) \/ Trouble(p)
    \/ \E k \in Slots : Handle(k) \/ Drop(k)

Spec == Init /\ [][Next]_vars

\* launchd starts a poll every 30 seconds; a running poll goes on or dies, and
\* does not die at the same place every time; a request is handled or lost,
\* and not every one a poll waits for is lost at the same statement.
AwaitedStep(p, path, stage) ==
    \E k \in Awaited(p) : calls[k].path = path /\ calls[k].stage = stage /\ Handle(k)

Fairness ==
    /\ WF_vars(ClockTicks)
    /\ \A k \in Slots : WF_vars(Handle(k))
    /\ \A p \in Polls :
        /\ WF_vars(Agent(p))
        /\ SF_vars(Submit(p)) /\ SF_vars(Archive(p)) /\ SF_vars(AskForWork(p))
        /\ \A path \in {"claim", "complete"} :
              SF_vars(AwaitedStep(p, path, "sent")) /\ SF_vars(AwaitedStep(p, path, "expire"))
        /\ SF_vars(AwaitedStep(p, "complete", "first"))
        /\ SF_vars(AwaitedStep(p, "complete", "second"))

FairSpec == Spec /\ Fairness

----------------------------------------------------------------------------
(* Properties.                                                             *)

TypeOK ==
    /\ status \in [Commands -> CommandStatus]
    /\ expires \in [Commands -> Nat]
    /\ receipt \in [Commands -> Record \cup {NoRecord}]
    /\ calls \in [Slots -> Call \cup {NoCall}]
    /\ pending \in [Commands -> Record \cup {NoRecord, Torn}]
    /\ history \in [Commands -> Record \cup {NoRecord}]
    /\ runs \in [Commands -> Nat]
    /\ pc \in [Polls -> {"idle", "list", "reconcile", "completing", "archive",
                         "claiming", "validate", "starting", "run", "record"}]
    /\ todo \in [Polls -> SUBSET Commands]
    /\ held \in [Polls -> Commands \cup {NoCommand}]
    /\ verdict \in [Polls -> Outcome \cup {"NONE"}]
    /\ attempt \in [Polls -> 0..Retries]
    /\ clock \in Nat

\* "A receipt moves to immutable local history only after the server
\* acknowledges the exact terminal record", and what the gateway stores is on
\* the founder's machine too, as a pending or an archived file.
ReceiptsAgree ==
    \A c \in Commands :
        /\ history[c] # NoRecord => receipt[c] = history[c] /\ pending[c] = NoRecord
        /\ receipt[c] # NoRecord => receipt[c] \in {pending[c], history[c]}

\* No two polls ever work on one command, though claims race between two
\* statements and answers are lost.
HeldByOne ==
    \A p, q \in Polls : held[p] = held[q] /\ held[p] # NoCommand => p = q

\* The founder's view: taken, started and run at most once, never run when
\* expired, ended together with a receipt that tells whether it ran.
Promise == INSTANCE CommandLifecycle WITH
    receipt <- [c \in Commands |->
                  IF receipt[c] = NoRecord THEN "NONE" ELSE receipt[c].status]

KeepsPromise == Promise!Lifecycle

Blocked == \E c \in Commands : pending[c] = Torn

\* "A network outage leaves durable local evidence to retry on the next poll
\* instead of silently losing the completion": a recorded completion is
\* acknowledged and archived in the end, unless a half-written file, of this
\* command or another, stands in the way.
CompletionDelivered ==
    \A c \in Commands : pending[c] \in Record ~> history[c] \in Record \/ Blocked

\* No command waits for ever to be started: it is, or it expires.
QueueMoves ==
    \A c \in Commands :
        status[c] \in {"REQUESTED", "CLAIMED"} ~>
            status[c] \notin {"REQUESTED", "CLAIMED"} \/ Blocked
----------------------------------------------------------------------------
(* Why it is so: the invariant behind the safety properties.               *)

\* What the program counter of a poll says while it waits.
Waiting == [claim |-> "claiming", start |-> "starting", complete |-> "completing"]

\* A poll waits for one request at a time, the one its program counter names,
\* and the answer is about the command it then works on.
AwaitsOne ==
    \A p \in Polls : \A k \in Awaited(p) :
        /\ pc[p] = Waiting[calls[k].path]
        /\ \A j \in Awaited(p) : j = k
        /\ calls[k].path = "start" => calls[k].command = held[p]
        /\ calls[k].path = "complete" => todo[p] # {} /\ calls[k].command = First(p)

\* However late a request is handled, it names a command, and a completion
\* carries the one record ever written for its command.
RequestsSound ==
    \A k \in Slots : calls[k] # NoCall =>
        /\ calls[k].path = "start" => calls[k].command \in Commands
        /\ calls[k].path = "claim" /\ calls[k].stage = "second" => calls[k].command \in Commands
        /\ calls[k].path = "complete" =>
              /\ calls[k].command \in Commands /\ calls[k].record \in Record
              /\ calls[k].record \in {pending[calls[k].command], history[calls[k].command]}

Untouched(c) == pending[c] = NoRecord /\ history[c] = NoRecord /\ receipt[c] = NoRecord

\* A held command was claimed; until the poll that holds it writes its record
\* nobody has one, and up to the action it has not run.
HolderSound(p) ==
    /\ held[p] # NoCommand => status[held[p]] \notin {"NONE", "REQUESTED"}
    /\ pc[p] \in {"validate", "starting", "run", "record"} =>
          held[p] # NoCommand /\ Untouched(held[p])
    /\ pc[p] \in {"validate", "starting", "run"} => runs[held[p]] = 0
    /\ pc[p] = "starting" => verdict[p] \in {"NONE", "REJECTED"}
    /\ pc[p] \in {"run", "record"} => status[held[p]] = "EXECUTING"
    /\ pc[p] = "record" =>
          verdict[p] \in Outcome /\ (verdict[p] = "REJECTED" <=> runs[held[p]] = 0)
    /\ pc[p] = "archive" => todo[p] # {} /\ receipt[First(p)] # NoRecord

HoldersSound == \A p \in Polls : HolderSound(p)

\* Nothing happened to a command nobody claimed, and every record tells whether
\* its command ran.
RecordsTrue ==
    \A c \in Commands :
        /\ status[c] \in {"NONE", "REQUESTED"} => Untouched(c) /\ runs[c] = 0
        /\ \A r \in {pending[c], history[c]} \cap Record : r.status = "REJECTED" <=> runs[c] = 0

\* The invariant the proofs rest on: the safety properties with what each poll,
\* each request and each record may be relied on for.
Inv ==
    /\ TypeOK /\ ReceiptsAgree /\ HeldByOne
    /\ AwaitsOne /\ RequestsSound /\ HoldersSound /\ RecordsTrue
=============================================================================
