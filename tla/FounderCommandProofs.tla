------------------------ MODULE FounderCommandProofs ------------------------
(***************************************************************************)
(* Proofs about the founder command channel, for any number of commands,   *)
(* polls, requests under way and retries: its invariant, and that it       *)
(* implements the lifecycle the founder is promised.                       *)
(***************************************************************************)
EXTENDS FounderCommand, WellFoundedInduction, TLAPS

\* A nonempty set of natural numbers has a least element.
LEMMA LeastExists ==
    ASSUME NEW S, S \subseteq Nat, S # {}
    PROVE  \E x \in S : \A y \in S : x <= y
<1>. DEFINE R == OpToRel(<, Nat)
<1>1. \E x \in S : \A y \in S : ~ (<<y, x>> \in R)
  BY WFMin, NatLessThanWellFounded
<1>2. \A x, y \in Nat : x < y => <<x, y>> \in R
  BY DEF OpToRel
<1>. HIDE DEF R
<1>3. PICK x \in S : \A y \in S : ~ (<<y, x>> \in R)
  BY <1>1
<1>4. ASSUME NEW y \in S
      PROVE  x <= y
  <2>1. x \in Nat /\ y \in Nat
    OBVIOUS
  <2>2. ~ (<<y, x>> \in R)
    BY <1>3
  <2>3. ~ (y < x)
    BY <1>2, <2>1, <2>2
  <2>. QED
    BY <2>1, <2>3
<1>. QED
  BY <1>4

\* The file a reconciliation takes next is one it listed.
LEMMA FirstIsListed ==
    ASSUME NEW p \in Polls, todo[p] \subseteq Commands, todo[p] # {}
    PROVE  First(p) \in todo[p]
<1>1. \E x \in todo[p] : \A y \in todo[p] : x <= y
  BY LeastExists, CommandsAssumption
<1>. QED
  BY <1>1 DEF First, Min

\* A request forgotten or no longer awaited disturbs no other request.
Shed ==
    /\ calls' \in [Slots -> Call \cup {NoCall}]
    /\ \A k \in Slots : \/ calls'[k] \in {calls[k], NoCall}
                        \/ calls[k] # NoCall /\ calls'[k] = [calls[k] EXCEPT !.awaited = FALSE]

\* What a forgotten request leaves behind is still sound.
LEMMA ShedRequests ==
    ASSUME RequestsSound, Shed, TypeOK, UNCHANGED files
    PROVE  RequestsSound'
<1>. SUFFICES ASSUME NEW k \in Slots, calls'[k] # NoCall
              PROVE  /\ calls'[k].path = "start" => calls'[k].command \in Commands
                     /\ calls'[k].path = "claim" /\ calls'[k].stage = "second" =>
                           calls'[k].command \in Commands
                     /\ calls'[k].path = "complete" =>
                           /\ calls'[k].command \in Commands /\ calls'[k].record \in Record
                           /\ calls'[k].record \in {pending[calls'[k].command],
                                                    history[calls'[k].command]}
  BY DEF RequestsSound, files
<1>1. calls[k] # NoCall /\ calls[k] \in Call
  BY DEF Shed, TypeOK
<1>2. /\ calls'[k].path = calls[k].path /\ calls'[k].stage = calls[k].stage
      /\ calls'[k].command = calls[k].command /\ calls'[k].record = calls[k].record
  BY <1>1 DEF Shed, Call
<1>. QED
  BY <1>1, <1>2 DEF RequestsSound

\* A request that is still awaited was awaited before, by the same poll.
LEMMA ShedAwaited ==
    ASSUME TypeOK, Shed, NEW p \in Polls, NEW k \in Awaited(p)'
    PROVE  k \in Awaited(p) /\ calls'[k] = calls[k]
<1>1. k \in Slots /\ calls'[k] # NoCall /\ calls'[k].awaited /\ calls'[k].poll = p
  BY DEF Awaited
<1>2. calls[k] \in Call \cup {NoCall}
  BY <1>1 DEF TypeOK
<1>3. ~(calls[k] # NoCall /\ calls'[k] = [calls[k] EXCEPT !.awaited = FALSE])
  BY <1>1, <1>2 DEF Call
<1>. QED
  BY <1>1, <1>3 DEF Shed, Awaited

\* What the awaited request of a poll looks like depends on the poll alone.
LEMMA SameFirst ==
    ASSUME NEW p \in Polls, todo'[p] = todo[p]
    PROVE  First(p)' = First(p)
BY DEF First

\* The polls that still wait are the ones that are left alone.
LEMMA ShedAwaits ==
    ASSUME AwaitsOne, TypeOK, Shed,
           \A p \in Polls : Awaited(p)' = {} \/
               (pc'[p] = pc[p] /\ todo'[p] = todo[p] /\ held'[p] = held[p])
    PROVE  AwaitsOne'
<1>. SUFFICES ASSUME NEW p \in Polls, NEW k \in Awaited(p)'
              PROVE  /\ pc'[p] = Waiting[calls'[k].path]
                     /\ \A j \in Awaited(p)' : j = k
                     /\ calls'[k].path = "start" => calls'[k].command = held'[p]
                     /\ calls'[k].path = "complete" =>
                           todo'[p] # {} /\ calls'[k].command = First(p)'
  BY DEF AwaitsOne, Waiting
<1>1. k \in Awaited(p) /\ calls'[k] = calls[k]
  BY ShedAwaited
<1>2. /\ pc[p] = Waiting[calls[k].path]
      /\ \A j \in Awaited(p) : j = k
      /\ calls[k].path = "start" => calls[k].command = held[p]
      /\ calls[k].path = "complete" => todo[p] # {} /\ calls[k].command = First(p)
  BY <1>1 DEF AwaitsOne
<1>3. pc'[p] = pc[p] /\ todo'[p] = todo[p] /\ held'[p] = held[p]
  OBVIOUS
<1>4. Awaited(p)' \subseteq Awaited(p)
  BY ShedAwaited
<1>5. First(p)' = First(p)
  BY <1>3, SameFirst
<1>. QED
  BY <1>1, <1>2, <1>3, <1>4, <1>5

\* A poll that ends and waits for nothing, whatever ended it.
LEMMA PollEnds ==
    ASSUME Inv, NEW p \in Polls, EndPoll(p), Shed, Awaited(p)' = {},
           UNCHANGED <<gateway, files, runs, clock>>
    PROVE  Inv'
<1>1. TypeOK'
  BY NumbersAssumption DEF Inv, TypeOK, EndPoll, Shed, gateway, files
<1>2. HeldByOne'
  BY DEF Inv, TypeOK, HeldByOne, EndPoll
<1>3. AwaitsOne'
  <2>1. \A q \in Polls : q # p =>
            pc'[q] = pc[q] /\ todo'[q] = todo[q] /\ held'[q] = held[q]
    BY DEF Inv, TypeOK, EndPoll
  <2>. QED
    BY <2>1, ShedAwaits DEF Inv
<1>4. RequestsSound'
  BY ShedRequests DEF Inv
<1>5. HoldersSound'
  <2>. SUFFICES ASSUME NEW q \in Polls
                PROVE  HolderSound(q)'
    BY DEF HoldersSound
  <2>1. CASE q = p
    BY <2>1 DEF Inv, TypeOK, EndPoll, HolderSound
  <2>2. CASE q # p
    <3>1. /\ pc'[q] = pc[q] /\ todo'[q] = todo[q] /\ held'[q] = held[q]
          /\ verdict'[q] = verdict[q]
      BY <2>2 DEF Inv, TypeOK, EndPoll
    <3>. QED
      BY <3>1, SameFirst DEF Inv, HoldersSound, HolderSound, Untouched, gateway, files
  <2>. QED
    BY <2>1, <2>2
<1>6. ReceiptsAgree' /\ RecordsTrue'
  BY DEF Inv, ReceiptsAgree, RecordsTrue, Untouched, gateway, files
<1>. QED
  BY <1>1, <1>2, <1>3, <1>4, <1>5, <1>6 DEF Inv

\* What only the requests and the clock of the retries see.
LEMMA OnlyRequests ==
    ASSUME Inv, calls' \in [Slots -> Call \cup {NoCall}], AwaitsOne', RequestsSound',
           UNCHANGED <<gateway, files, runs, poll, clock>>
    PROVE  Inv'
<1>1. TypeOK' /\ HeldByOne' /\ ReceiptsAgree' /\ RecordsTrue'
  BY DEF Inv, TypeOK, HeldByOne, ReceiptsAgree, RecordsTrue, Untouched, gateway, files, poll
<1>2. HoldersSound'
  <2>1. \A p \in Polls : First(p)' = First(p)
    BY SameFirst DEF poll
  <2>. QED
    BY <2>1 DEF Inv, HoldersSound, HolderSound, Untouched, gateway, files, poll
<1>. QED
  BY <1>1, <1>2 DEF Inv

\* A request that is over, for a poll that still waited or for nobody.
LEMMA CallOver ==
    ASSUME TypeOK, AwaitsOne, NEW k \in Slots, calls[k] # NoCall,
           calls' = [calls EXCEPT ![k] = NoCall]
    PROVE  /\ Shed /\ calls[k].poll \in Polls
           /\ \A p \in Polls : calls[k].awaited /\ p = calls[k].poll => Awaited(p)' = {}
<1>1. Shed
  BY DEF Shed, TypeOK
<1>2. calls[k].poll \in Polls
  BY DEF TypeOK, Call
<1>3. ASSUME calls[k].awaited, NEW p \in Polls, p = calls[k].poll
      PROVE  Awaited(p)' = {}
  <2>1. k \in Awaited(p)
    BY <1>3 DEF Awaited
  <2>2. \A j \in Awaited(p)' : j \in Awaited(p) /\ j # k
    BY <1>1, ShedAwaited DEF Awaited, TypeOK
  <2>. QED
    BY <2>1, <2>2 DEF AwaitsOne
<1>. QED
  BY <1>1, <1>2, <1>3

\* An error status, for a poll that still waits and then ends, or for nobody.
LEMMA EndKeeps ==
    ASSUME Inv, NEW k \in Slots, calls[k] # NoCall, AnswerEnd(k),
           UNCHANGED <<gateway, files, runs, clock>>
    PROVE  Inv'
<1>1. calls' = [calls EXCEPT ![k] = NoCall]
  BY DEF AnswerEnd
<1>2. /\ Shed /\ calls[k].poll \in Polls
      /\ \A p \in Polls : calls[k].awaited /\ p = calls[k].poll => Awaited(p)' = {}
  BY <1>1, CallOver DEF Inv
<1>3. CASE calls[k].awaited
  <2>1. PICK p \in Polls : p = calls[k].poll
    BY <1>2
  <2>2. EndPoll(p) /\ Awaited(p)' = {}
    BY <1>2, <1>3, <2>1 DEF AnswerEnd
  <2>. QED
    BY <1>2, <2>2, PollEnds
<1>4. CASE ~calls[k].awaited
  <2>1. UNCHANGED poll
    BY <1>4 DEF AnswerEnd
  <2>2. AwaitsOne' /\ RequestsSound'
    BY <1>2, <2>1, ShedAwaits, ShedRequests DEF Inv, poll
  <2>. QED
    BY <1>2, <2>1, <2>2, OnlyRequests DEF Shed
<1>. QED
  BY <1>3, <1>4

\* A handler that goes on to its next statement: d is what is left of the request.
LEMMA GoOnKeeps ==
    ASSUME Inv, NEW k \in Slots, calls[k] # NoCall,
           NEW d \in Call, calls' = [calls EXCEPT ![k] = d],
           d.path = calls[k].path, d.poll = calls[k].poll, d.awaited = calls[k].awaited,
           d.path # "claim" => d.command = calls[k].command /\ d.record = calls[k].record,
           d.path = "claim" /\ d.stage = "second" => d.command \in Commands,
           UNCHANGED poll
    PROVE  /\ calls' \in [Slots -> Call \cup {NoCall}]
           /\ AwaitsOne'
           /\ UNCHANGED files => RequestsSound'
<1>1. calls'[k] = d /\ d # NoCall /\ \A j \in Slots : j # k => calls'[j] = calls[j]
  BY SentinelAssumption DEF Inv, TypeOK
<1>2. calls' \in [Slots -> Call \cup {NoCall}]
  BY DEF Inv, TypeOK
<1>3. AwaitsOne'
  <2>. SUFFICES ASSUME NEW p \in Polls, NEW i \in Awaited(p)'
                PROVE  /\ pc'[p] = Waiting[calls'[i].path]
                       /\ \A j \in Awaited(p)' : j = i
                       /\ calls'[i].path = "start" => calls'[i].command = held'[p]
                       /\ calls'[i].path = "complete" =>
                             todo'[p] # {} /\ calls'[i].command = First(p)'
    BY DEF AwaitsOne, Waiting
  <2>1. Awaited(p)' = Awaited(p)
    BY <1>1 DEF Awaited
  <2>2. /\ calls'[i].path = calls[i].path
        /\ calls[i].path # "claim" => calls'[i].command = calls[i].command
    BY <1>1 DEF Awaited
  <2>3. First(p)' = First(p)
    BY SameFirst DEF poll
  <2>. QED
    BY <2>1, <2>2, <2>3 DEF Inv, AwaitsOne, poll
<1>4. ASSUME UNCHANGED files
      PROVE  RequestsSound'
  <2>. SUFFICES ASSUME NEW j \in Slots, calls'[j] # NoCall
                PROVE  /\ calls'[j].path = "start" => calls'[j].command \in Commands
                       /\ calls'[j].path = "claim" /\ calls'[j].stage = "second" =>
                             calls'[j].command \in Commands
                       /\ calls'[j].path = "complete" =>
                             /\ calls'[j].command \in Commands /\ calls'[j].record \in Record
                             /\ calls'[j].record \in {pending[calls'[j].command],
                                                      history[calls'[j].command]}
    BY <1>4 DEF RequestsSound, files
  <2>1. CASE j = k
    BY <1>1, <2>1 DEF Inv, RequestsSound
  <2>2. CASE j # k
    BY <1>1, <2>2 DEF Inv, RequestsSound
  <2>. QED
    BY <2>1, <2>2
<1>. QED
  BY <1>2, <1>3, <1>4

\* The answer to the request a poll waits for lets it go on with something else.
LEMMA AnswerAwaits ==
    ASSUME Inv, NEW k \in Slots, calls[k] # NoCall, UNCHANGED files,
           calls' = [calls EXCEPT ![k] = NoCall],
           \A p \in Polls : ~(calls[k].awaited /\ calls[k].poll = p) =>
               pc'[p] = pc[p] /\ todo'[p] = todo[p] /\ held'[p] = held[p]
    PROVE  calls' \in [Slots -> Call \cup {NoCall}] /\ AwaitsOne' /\ RequestsSound'
<1>1. /\ Shed /\ calls[k].poll \in Polls
      /\ \A p \in Polls : calls[k].awaited /\ p = calls[k].poll => Awaited(p)' = {}
  BY CallOver DEF Inv
<1>2. AwaitsOne'
  BY <1>1, ShedAwaits DEF Inv
<1>. QED
  BY <1>1, <1>2, ShedRequests DEF Inv, Shed

\* A poll that does not say it waits waits for nothing.
LEMMA NotWaiting ==
    ASSUME Inv, NEW p \in Polls, pc[p] \notin {"claiming", "starting", "completing"}
    PROVE  Awaited(p) = {}
<1>. SUFFICES ASSUME NEW k \in Awaited(p)
              PROVE  FALSE
  OBVIOUS
<1>1. pc[p] = Waiting[calls[k].path]
  BY DEF Inv, AwaitsOne
<1>2. calls[k].path \in {"claim", "start", "complete"}
  BY DEF Inv, TypeOK, Awaited, Call
<1>. QED
  BY <1>1, <1>2 DEF Waiting

\* A request sent by a poll that waits for nothing else.
LEMMA SendKeeps ==
    ASSUME Inv, NEW p \in Polls, Awaited(p) = {}, UNCHANGED <<files, todo, held>>,
           NEW path \in {"claim", "start", "complete"},
           NEW c \in Commands \cup {NoCommand}, NEW r \in Record \cup {NoRecord},
           Send(p, path, c, r),
           pc' = [pc EXCEPT ![p] = Waiting[path]],
           path = "start" => c = held[p] /\ c \in Commands,
           path = "complete" => /\ todo[p] # {} /\ c = First(p) /\ c \in Commands
                                /\ r \in Record /\ r \in {pending[c], history[c]}
    PROVE  calls' \in [Slots -> Call \cup {NoCall}] /\ AwaitsOne' /\ RequestsSound'
<1>. DEFINE d == [poll |-> p, awaited |-> TRUE, path |-> path, command |-> c,
                  record |-> r, stage |-> "sent", now |-> 0]
<1>1. PICK k \in FreeSlots : calls' = [calls EXCEPT ![k] = d]
  BY DEF Send
<1>2. d \in Call /\ d # NoCall
  <2>1. d \in Call
    BY DEF Call
  <2>. HIDE DEF d
  <2>. QED
    BY <2>1, SentinelAssumption
<1>3. /\ calls'[k] = d /\ calls[k] = NoCall /\ k \in Slots
      /\ \A j \in Slots : j # k => calls'[j] = calls[j]
  BY <1>1 DEF FreeSlots, Inv, TypeOK
<1>4. calls' \in [Slots -> Call \cup {NoCall}]
  BY <1>1, <1>2 DEF Inv, TypeOK
<1>5. AwaitsOne'
  <2>. SUFFICES ASSUME NEW q \in Polls, NEW i \in Awaited(q)'
                PROVE  /\ pc'[q] = Waiting[calls'[i].path]
                       /\ \A j \in Awaited(q)' : j = i
                       /\ calls'[i].path = "start" => calls'[i].command = held'[q]
                       /\ calls'[i].path = "complete" =>
                             todo'[q] # {} /\ calls'[i].command = First(q)'
    BY DEF AwaitsOne, Waiting
  <2>1. First(q)' = First(q)
    BY SameFirst
  <2>2. CASE q = p
    <3>1. Awaited(p)' = {k}
      BY <1>2, <1>3 DEF Awaited
    <3>. QED
      BY <1>3, <2>1, <2>2, <3>1 DEF Inv, TypeOK
  <2>3. CASE q # p
    <3>1. Awaited(q)' = Awaited(q) /\ k \notin Awaited(q)
      BY <1>2, <1>3, <2>3 DEF Awaited
    <3>2. i \in Slots /\ calls'[i] = calls[i]
      BY <1>3, <3>1 DEF Awaited
    <3>3. pc'[q] = pc[q]
      BY <2>3 DEF Inv, TypeOK
    <3>. QED
      BY <2>1, <3>1, <3>2, <3>3 DEF Inv, AwaitsOne
  <2>. QED
    BY <2>2, <2>3
<1>6. RequestsSound'
  <2>. SUFFICES ASSUME NEW j \in Slots, calls'[j] # NoCall
                PROVE  /\ calls'[j].path = "start" => calls'[j].command \in Commands
                       /\ calls'[j].path = "claim" /\ calls'[j].stage = "second" =>
                             calls'[j].command \in Commands
                       /\ calls'[j].path = "complete" =>
                             /\ calls'[j].command \in Commands /\ calls'[j].record \in Record
                             /\ calls'[j].record \in {pending[calls'[j].command],
                                                      history[calls'[j].command]}
    BY DEF RequestsSound, files
  <2>1. CASE j = k
    BY <1>3, <2>1
  <2>2. CASE j # k
    BY <1>3, <2>2 DEF Inv, RequestsSound
  <2>. QED
    BY <2>1, <2>2
<1>. QED
  BY <1>4, <1>5, <1>6

(***************************************************************************)
(* The gateway.                                                            *)
(***************************************************************************)

\* The request is accepted and the handler reads its time.
LEMMA ArriveKeeps ==
    ASSUME Inv, NEW k \in Slots, Arrive(k)
    PROVE  Inv'
<1>. DEFINE d == [calls[k] EXCEPT !.stage = "expire", !.now = clock]
<1>1. calls[k] \in Call /\ calls[k] # NoCall /\ clock \in Nat
  BY DEF Arrive, Inv, TypeOK
<1>2. /\ d \in Call /\ d.path = calls[k].path /\ d.poll = calls[k].poll
      /\ d.awaited = calls[k].awaited /\ d.command = calls[k].command
      /\ d.record = calls[k].record /\ d.stage = "expire"
  BY <1>1 DEF Call
<1>3. calls' = [calls EXCEPT ![k] = d]
  BY <1>1 DEF Arrive, Inv, TypeOK
<1>. HIDE DEF d
<1>. QED
  BY <1>1, <1>2, <1>3, GoOnKeeps, OnlyRequests DEF Arrive

\* A request is refused, lost or broken off.
LEMMA DropKeeps ==
    ASSUME Inv, NEW k \in Slots, Drop(k)
    PROVE  Inv'
BY EndKeeps DEF Drop

\* GoOn leaves everything of a request but its stage.
LEMMA GoOnFields ==
    ASSUME Inv, NEW k \in Slots, calls[k] # NoCall,
           NEW stage \in {"expire", "first", "second"}, GoOn(k, stage),
           stage = "second" => calls[k].path # "claim"
    PROVE  /\ calls' \in [Slots -> Call \cup {NoCall}]
           /\ AwaitsOne'
           /\ UNCHANGED files => RequestsSound'
           /\ UNCHANGED poll
<1>. DEFINE d == [calls[k] EXCEPT !.stage = stage]
<1>1. calls[k] \in Call
  BY DEF Inv, TypeOK
<1>2. /\ d \in Call /\ d.path = calls[k].path /\ d.poll = calls[k].poll
      /\ d.awaited = calls[k].awaited /\ d.command = calls[k].command
      /\ d.record = calls[k].record /\ d.stage = stage
  BY <1>1 DEF Call
<1>3. calls' = [calls EXCEPT ![k] = d] /\ UNCHANGED poll
  BY <1>1 DEF GoOn, Inv, TypeOK
<1>. HIDE DEF d
<1>. QED
  BY <1>2, <1>3, GoOnKeeps

\* Expiry ends commands nobody has started.
LEMMA ExpireStaleKeeps ==
    ASSUME Inv, NEW k \in Slots, ExpireStale(k)
    PROVE  Inv'
<1>1. /\ calls' \in [Slots -> Call \cup {NoCall}] /\ AwaitsOne' /\ RequestsSound'
      /\ UNCHANGED poll
  BY GoOnFields DEF ExpireStale, files
<1>2. \A c \in Commands :
          /\ status'[c] \in CommandStatus
          /\ status'[c] \in {"NONE", "REQUESTED"} => status[c] \in {"NONE", "REQUESTED"}
          /\ status[c] \notin {"NONE", "REQUESTED"} => status'[c] \notin {"NONE", "REQUESTED"}
          /\ status[c] = "EXECUTING" => status'[c] = "EXECUTING"
  BY DEF ExpireStale, Inv, TypeOK, CommandStatus
<1>3. UNCHANGED <<expires, receipt, files, runs, clock>>
  BY DEF ExpireStale
<1>4. TypeOK'
  <2>1. status' \in [Commands -> CommandStatus]
    BY <1>2 DEF ExpireStale
  <2>. QED
    BY <1>1, <1>3, <2>1 DEF Inv, TypeOK, files, poll
<1>5. HeldByOne' /\ ReceiptsAgree'
  BY <1>1, <1>3 DEF Inv, HeldByOne, ReceiptsAgree, files, poll
<1>6. HoldersSound'
  <2>. SUFFICES ASSUME NEW q \in Polls
                PROVE  HolderSound(q)'
    BY DEF HoldersSound
  <2>1. HolderSound(q) /\ First(q)' = First(q)
    BY <1>1, SameFirst DEF Inv, HoldersSound, poll
  <2>2. held[q] # NoCommand => held[q] \in Commands
    BY DEF Inv, TypeOK
  <2>. QED
    BY <1>1, <1>2, <1>3, <2>1, <2>2 DEF HolderSound, Untouched, files, poll
<1>7. RecordsTrue'
  BY <1>2, <1>3 DEF Inv, RecordsTrue, Untouched, files
<1>. QED
  BY <1>1, <1>4, <1>5, <1>6, <1>7 DEF Inv

\* The first statement of a claim only looks.
LEMMA SelectCandidateKeeps ==
    ASSUME Inv, NEW k \in Slots, SelectCandidate(k)
    PROVE  Inv'
<1>1. /\ calls[k] # NoCall /\ calls[k] \in Call /\ calls[k].path = "claim"
      /\ UNCHANGED <<gateway, files, runs, clock>>
  BY DEF SelectCandidate, At, Inv, TypeOK
<1>2. CASE Claimable(calls[k].now) = {}
  BY <1>1, <1>2, EndKeeps DEF SelectCandidate
<1>3. CASE Claimable(calls[k].now) # {}
  <2>1. PICK c \in Commands :
            /\ calls' = [calls EXCEPT ![k].command = c, ![k].stage = "second"]
            /\ UNCHANGED poll
    BY <1>3 DEF SelectCandidate, Claimable
  <2>. DEFINE d == [calls[k] EXCEPT !.command = c, !.stage = "second"]
  <2>2. /\ d \in Call /\ d.path = calls[k].path /\ d.poll = calls[k].poll
        /\ d.awaited = calls[k].awaited /\ d.command = c
    BY <1>1 DEF Call
  <2>3. calls' = [calls EXCEPT ![k] = d]
    BY <1>1, <2>1 DEF Inv, TypeOK
  <2>. HIDE DEF d
  <2>. QED
    BY <1>1, <2>1, <2>2, <2>3, GoOnKeeps, OnlyRequests
<1>. QED
  BY <1>2, <1>3

\* A command nobody claimed is handed to one poll, or to nobody who listens.
LEMMA ClaimCandidateKeeps ==
    ASSUME Inv, NEW k \in Slots, ClaimCandidate(k)
    PROVE  Inv'
<1>. DEFINE c == calls[k].command
            p == calls[k].poll
<1>1. /\ calls[k] # NoCall /\ calls[k] \in Call /\ calls[k].path = "claim"
      /\ c \in Commands /\ p \in Polls
      /\ UNCHANGED <<expires, receipt, files, runs, clock>>
  BY DEF ClaimCandidate, At, Inv, TypeOK, RequestsSound, Call
<1>2. CASE ~(status[c] = "REQUESTED" /\ expires[c] > calls[k].now)
  BY <1>1, <1>2, EndKeeps DEF ClaimCandidate, gateway
<1>3. CASE status[c] = "REQUESTED" /\ expires[c] > calls[k].now
  <2>1. status' = [status EXCEPT ![c] = "CLAIMED"] /\ Grant(k)
    BY <1>3 DEF ClaimCandidate
  <2>2. calls' \in [Slots -> Call \cup {NoCall}] /\ AwaitsOne' /\ RequestsSound'
    <3>1. \A q \in Polls : ~(calls[k].awaited /\ calls[k].poll = q) =>
               pc'[q] = pc[q] /\ todo'[q] = todo[q] /\ held'[q] = held[q]
      BY <2>1 DEF Grant, poll, Inv, TypeOK
    <3>. QED
      BY <1>1, <2>1, <3>1, AnswerAwaits DEF Grant
  <2>3. Untouched(c) /\ runs[c] = 0 /\ \A q \in Polls : held[q] # c
    <3>1. c # NoCommand
      BY <1>1, CommandsAssumption
    <3>. QED
      BY <1>1, <1>3, <3>1 DEF Inv, RecordsTrue, HoldersSound, HolderSound
  <2>4. /\ UNCHANGED <<todo, verdict, attempt>>
        /\ \/ UNCHANGED poll
           \/ pc' = [pc EXCEPT ![p] = "validate"] /\ held' = [held EXCEPT ![p] = c]
    BY <2>1 DEF Grant, poll
  <2>5. TypeOK'
    BY <1>1, <2>1, <2>2, <2>4 DEF Inv, TypeOK, CommandStatus, files, poll
  <2>6. HeldByOne'
    BY <1>1, <2>3, <2>4 DEF Inv, TypeOK, HeldByOne, poll
  <2>7. HoldersSound'
    <3>. SUFFICES ASSUME NEW q \in Polls
                  PROVE  HolderSound(q)'
      BY DEF HoldersSound
    <3>1. HolderSound(q) /\ First(q)' = First(q)
      BY <2>4, SameFirst DEF Inv, HoldersSound
    <3>2. held[q] # NoCommand => held[q] \in Commands /\ held[q] # c
      BY <2>3 DEF Inv, TypeOK
    <3>3. CASE q = p /\ pc' = [pc EXCEPT ![p] = "validate"] /\ held' = [held EXCEPT ![p] = c]
      <4>1. pc'[q] = "validate" /\ held'[q] = c /\ status'[c] = "CLAIMED"
        BY <1>1, <2>1, <3>3 DEF Inv, TypeOK
      <4>. QED
        BY <1>1, <2>3, <4>1, CommandsAssumption DEF HolderSound, Untouched, files
    <3>4. CASE pc'[q] = pc[q] /\ held'[q] = held[q]
      <4>1. held[q] # NoCommand => status'[held[q]] = status[held[q]]
        BY <2>1, <3>2 DEF Inv, TypeOK
      <4>2. pc[q] \in {"run", "record"} => held[q] # NoCommand
        BY <3>1 DEF HolderSound
      <4>. QED
        BY <1>1, <2>4, <3>1, <3>4, <4>1, <4>2 DEF HolderSound, Untouched, files
    <3>. QED
      BY <1>1, <2>4, <3>3, <3>4 DEF Inv, TypeOK, poll
  <2>8. RecordsTrue' /\ ReceiptsAgree'
    BY <1>1, <2>1 DEF Inv, TypeOK, RecordsTrue, ReceiptsAgree, Untouched, files
  <2>. QED
    BY <2>2, <2>5, <2>6, <2>7, <2>8 DEF Inv
<1>. QED
  BY <1>2, <1>3

\* A poll whose start is acknowledged goes on to the action or to its record.
LEMMA StartedKeeps ==
    ASSUME Inv, NEW k \in Slots, calls[k] # NoCall, calls[k].path = "start", Started(k),
           status[calls[k].command] \in {"CLAIMED", "EXECUTING"},
           status' = [status EXCEPT ![calls[k].command] = "EXECUTING"],
           UNCHANGED <<expires, receipt, files, runs, clock>>
    PROVE  Inv'
<1>1. PICK c \in Commands : c = calls[k].command
  BY DEF Inv, RequestsSound
<1>2. PICK p \in Polls : p = calls[k].poll
  BY DEF Inv, TypeOK, Call
<1>3. PICK next \in {"run", "record"} :
          /\ next = IF verdict[p] = "REJECTED" THEN "record" ELSE "run"
          /\ Answer(k, next)
  BY <1>2 DEF Started
<1>4. /\ UNCHANGED <<todo, held, verdict, attempt>>
      /\ IF calls[k].awaited THEN pc' = [pc EXCEPT ![p] = next] ELSE UNCHANGED pc
  BY <1>2, <1>3 DEF Answer, poll
<1>5. calls' \in [Slots -> Call \cup {NoCall}] /\ AwaitsOne' /\ RequestsSound'
  <2>1. \A q \in Polls : ~(calls[k].awaited /\ calls[k].poll = q) => pc'[q] = pc[q]
    BY <1>2, <1>4 DEF Inv, TypeOK
  <2>. QED
    BY <1>3, <1>4, <2>1, AnswerAwaits DEF Answer
<1>6. status[c] \in {"CLAIMED", "EXECUTING"} /\ status' = [status EXCEPT ![c] = "EXECUTING"]
  BY <1>1
<1>7. TypeOK'
  <2>1. status' \in [Commands -> CommandStatus]
    BY <1>6 DEF Inv, TypeOK, CommandStatus
  <2>2. pc' \in [Polls -> {"idle", "list", "reconcile", "completing", "archive",
                          "claiming", "validate", "starting", "run", "record"}]
    BY <1>4 DEF Inv, TypeOK
  <2>. QED
    BY <1>4, <1>5, <2>1, <2>2 DEF Inv, TypeOK, files
<1>8. HeldByOne' /\ ReceiptsAgree'
  BY <1>4 DEF Inv, HeldByOne, ReceiptsAgree, files
<1>9. HoldersSound'
  <2>. SUFFICES ASSUME NEW q \in Polls
                PROVE  HolderSound(q)'
    BY DEF HoldersSound
  <2>1. HolderSound(q) /\ First(q)' = First(q)
    BY <1>4, SameFirst DEF Inv, HoldersSound
  <2>2. held[q] # NoCommand => held[q] \in Commands
    BY DEF Inv, TypeOK
  <2>3. \A d \in Commands :
            /\ status'[d] \in {"NONE", "REQUESTED"} <=> status[d] \in {"NONE", "REQUESTED"}
            /\ status[d] = "EXECUTING" => status'[d] = "EXECUTING"
            /\ d = c => status'[d] = "EXECUTING"
    BY <1>6 DEF Inv, TypeOK
  <2>4. CASE pc'[q] = pc[q]
    BY <1>4, <2>1, <2>2, <2>3, <2>4 DEF HolderSound, Untouched, files
  <2>5. CASE calls[k].awaited /\ q = p
    <3>1. k \in Awaited(p)
      BY <1>2, <2>5 DEF Awaited
    <3>2. pc[p] = "starting" /\ held[p] = c
      BY <1>1, <3>1 DEF Inv, AwaitsOne, Waiting
    <3>3. pc'[p] = next
      BY <1>4, <2>5 DEF Inv, TypeOK
    <3>. QED
      BY <1>3, <1>4, <2>1, <2>2, <2>3, <2>5, <3>2, <3>3
      DEF HolderSound, Untouched, files, Outcome
  <2>. QED
    BY <1>4, <2>4, <2>5 DEF Inv, TypeOK
<1>10. RecordsTrue'
  BY <1>6 DEF Inv, TypeOK, RecordsTrue, Untouched, files
<1>. QED
  BY <1>5, <1>7, <1>8, <1>9, <1>10 DEF Inv

\* The first statement of a start.
LEMMA MarkExecutingKeeps ==
    ASSUME Inv, NEW k \in Slots, MarkExecuting(k)
    PROVE  Inv'
<1>1. /\ calls[k] # NoCall /\ calls[k].path = "start"
      /\ UNCHANGED <<expires, receipt, files, runs, clock>>
  BY DEF MarkExecuting, At
<1>2. CASE status[calls[k].command] = "CLAIMED" /\ expires[calls[k].command] > calls[k].now
  BY <1>1, <1>2, StartedKeeps DEF MarkExecuting
<1>3. CASE ~(status[calls[k].command] = "CLAIMED" /\ expires[calls[k].command] > calls[k].now)
  <2>1. UNCHANGED status /\ GoOn(k, "second")
    BY <1>3 DEF MarkExecuting
  <2>. QED
    BY <1>1, <2>1, GoOnFields, OnlyRequests DEF gateway, files
<1>. QED
  BY <1>2, <1>3

\* The repetition of a start.
LEMMA ConfirmExecutingKeeps ==
    ASSUME Inv, NEW k \in Slots, ConfirmExecuting(k)
    PROVE  Inv'
<1>1. /\ calls[k] # NoCall /\ calls[k].path = "start"
      /\ UNCHANGED <<gateway, files, runs, clock>>
  BY DEF ConfirmExecuting, At
<1>2. CASE status[calls[k].command] = "EXECUTING" /\ expires[calls[k].command] > calls[k].now
  <2>1. Started(k)
    BY <1>2 DEF ConfirmExecuting
  <2>2. status' = [status EXCEPT ![calls[k].command] = "EXECUTING"]
    BY <1>1, <1>2 DEF gateway, Inv, TypeOK
  <2>. QED
    BY <1>1, <1>2, <2>1, <2>2, StartedKeeps DEF gateway
<1>3. CASE ~(status[calls[k].command] = "EXECUTING" /\ expires[calls[k].command] > calls[k].now)
  BY <1>1, <1>3, EndKeeps DEF ConfirmExecuting
<1>. QED
  BY <1>2, <1>3

\* A completion is acknowledged: its receipt was there, or is stored together
\* with the end of the command.  Nobody is before the record of the command any
\* more, so only the poll that waits for the answer is concerned.
LEMMA AcknowledgedKeeps ==
    ASSUME Inv, NEW k \in Slots, calls[k] # NoCall, calls[k].path = "complete",
           NEW c \in Commands, c = calls[k].command, Answer(k, "archive"),
           \/ UNCHANGED <<status, receipt>> /\ receipt[c] # NoRecord
           \/ /\ status[c] = "EXECUTING"
              /\ status' = [status EXCEPT ![c] = calls[k].record.status]
              /\ receipt' = [receipt EXCEPT ![c] = calls[k].record],
           UNCHANGED <<expires, files, runs, clock>>
    PROVE  Inv'
<1>1. PICK p \in Polls : p = calls[k].poll
  BY DEF Inv, TypeOK, Call
<1>2. PICK r \in Record : r = calls[k].record /\ r \in {pending[c], history[c]}
  BY DEF Inv, RequestsSound
<1>3. r # NoRecord /\ r.status \in Outcome
  BY SentinelAssumption DEF Record
<1>4. /\ UNCHANGED <<todo, held, verdict, attempt, pending, history>>
      /\ IF calls[k].awaited THEN pc' = [pc EXCEPT ![p] = "archive"] ELSE UNCHANGED pc
  BY <1>1 DEF Answer, poll, files
<1>5. calls' \in [Slots -> Call \cup {NoCall}] /\ AwaitsOne' /\ RequestsSound'
  <2>1. \A q \in Polls : ~(calls[k].awaited /\ calls[k].poll = q) => pc'[q] = pc[q]
    BY <1>1, <1>4 DEF Inv, TypeOK
  <2>. QED
    BY <1>4, <2>1, AnswerAwaits DEF Answer
<1>6. /\ status' \in [Commands -> CommandStatus] /\ receipt' \in [Commands -> Record \cup {NoRecord}]
      /\ \A d \in Commands : d # c => status'[d] = status[d] /\ receipt'[d] = receipt[d]
      /\ status'[c] \in {"NONE", "REQUESTED"} => status[c] \in {"NONE", "REQUESTED"}
      /\ receipt'[c] # NoRecord
      /\ receipt'[c] = receipt[c] \/ receipt'[c] = r
  BY <1>2, <1>3 DEF Inv, TypeOK, CommandStatus, Outcome
<1>7. TypeOK'
  <2>1. pc' \in [Polls -> {"idle", "list", "reconcile", "completing", "archive",
                          "claiming", "validate", "starting", "run", "record"}]
    BY <1>4 DEF Inv, TypeOK
  <2>. QED
    BY <1>4, <1>5, <1>6, <2>1 DEF Inv, TypeOK
<1>8. HeldByOne'
  BY <1>4 DEF Inv, HeldByOne
<1>9. ReceiptsAgree'
  BY <1>2, <1>3, <1>4, <1>6 DEF Inv, ReceiptsAgree
<1>10. HoldersSound'
  <2>. SUFFICES ASSUME NEW q \in Polls
                PROVE  HolderSound(q)'
    BY DEF HoldersSound
  <2>1. HolderSound(q) /\ First(q)' = First(q)
    BY <1>4, SameFirst DEF Inv, HoldersSound
  <2>2. held[q] # NoCommand => held[q] \in Commands
    BY DEF Inv, TypeOK
  <2>3. held[q] = c => pc[q] \notin {"validate", "starting", "run", "record"}
    BY <1>2, <1>3, <2>1 DEF HolderSound, Untouched
  <2>4. todo[q] # {} => First(q) \in Commands
    BY FirstIsListed DEF Inv, TypeOK
  <2>5. held[q] # NoCommand => status'[held[q]] \notin {"NONE", "REQUESTED"}
    BY <1>6, <2>1, <2>2 DEF HolderSound
  <2>6. CASE pc'[q] = pc[q]
    BY <1>4, <1>6, <2>1, <2>2, <2>3, <2>4, <2>5, <2>6 DEF HolderSound, Untouched
  <2>7. CASE calls[k].awaited /\ q = p
    <3>1. k \in Awaited(p)
      BY <1>1, <2>7 DEF Awaited
    <3>2. todo[p] # {} /\ First(p) = c
      BY <3>1 DEF Inv, AwaitsOne
    <3>3. pc'[p] = "archive"
      BY <1>4, <2>7 DEF Inv, TypeOK
    <3>. QED
      BY <1>4, <1>6, <2>1, <2>5, <2>7, <3>2, <3>3 DEF HolderSound
  <2>. QED
    BY <1>4, <2>6, <2>7 DEF Inv, TypeOK
<1>11. RecordsTrue'
  <2>. SUFFICES ASSUME NEW d \in Commands
                PROVE  /\ status'[d] \in {"NONE", "REQUESTED"} => Untouched(d)' /\ runs'[d] = 0
                       /\ \A x \in {pending'[d], history'[d]} \cap Record :
                              x.status = "REJECTED" <=> runs'[d] = 0
    BY DEF RecordsTrue
  <2>1. status[c] \notin {"NONE", "REQUESTED"}
    BY <1>2, <1>3 DEF Inv, RecordsTrue, Untouched
  <2>. QED
    BY <1>4, <1>6, <2>1 DEF Inv, RecordsTrue, Untouched
<1>. QED
  BY <1>5, <1>7, <1>8, <1>9, <1>10, <1>11 DEF Inv

\* The first statement of a completion.
LEMMA FindReceiptKeeps ==
    ASSUME Inv, NEW k \in Slots, FindReceipt(k)
    PROVE  Inv'
<1>1. PICK c \in Commands : c = calls[k].command
  BY DEF Inv, RequestsSound, FindReceipt, At
<1>2. /\ calls[k] # NoCall /\ calls[k].path = "complete" /\ calls[k].record \in Record
      /\ UNCHANGED <<gateway, files, runs, clock>>
  BY DEF Inv, RequestsSound, FindReceipt, At
<1>3. CASE receipt[c] = NoRecord
  <2>1. GoOn(k, "second")
    BY <1>1, <1>3 DEF FindReceipt
  <2>. QED
    BY <1>2, <2>1, GoOnFields, OnlyRequests DEF files
<1>4. CASE receipt[c] # NoRecord /\ receipt[c] = calls[k].record
  <2>1. Answer(k, "archive")
    BY <1>1, <1>4 DEF FindReceipt
  <2>. QED
    BY <1>1, <1>2, <1>4, <2>1, AcknowledgedKeeps DEF gateway
<1>5. CASE receipt[c] # NoRecord /\ receipt[c] # calls[k].record
  <2>1. AnswerEnd(k)
    BY <1>1, <1>5 DEF FindReceipt
  <2>. QED
    BY <1>2, <2>1, EndKeeps
<1>. QED
  BY <1>3, <1>4, <1>5

\* The batch of a completion.
LEMMA StoreReceiptKeeps ==
    ASSUME Inv, NEW k \in Slots, StoreReceipt(k)
    PROVE  Inv'
<1>1. PICK c \in Commands : c = calls[k].command
  BY DEF Inv, RequestsSound, StoreReceipt, At
<1>2. /\ calls[k] # NoCall /\ calls[k].path = "complete"
      /\ UNCHANGED <<expires, files, runs, clock>>
  BY DEF StoreReceipt, At
<1>3. CASE status[c] = "EXECUTING"
  <2>1. /\ status' = [status EXCEPT ![c] = calls[k].record.status]
        /\ receipt' = [receipt EXCEPT ![c] = calls[k].record]
        /\ Answer(k, "archive")
    BY <1>1, <1>3 DEF StoreReceipt
  <2>. QED
    BY <1>1, <1>2, <1>3, <2>1, AcknowledgedKeeps
<1>4. CASE status[c] # "EXECUTING"
  BY <1>1, <1>2, <1>4, EndKeeps DEF StoreReceipt, gateway
<1>. QED
  BY <1>3, <1>4

(***************************************************************************)
(* The agent, the founder and time.                                        *)
(***************************************************************************)

\* A poll that waits for nothing and keeps the requests as they are.
LEMMA CallsKept ==
    ASSUME Inv, NEW p \in Polls, Awaited(p) = {}, UNCHANGED calls,
           \A q \in Polls : q # p =>
               pc'[q] = pc[q] /\ todo'[q] = todo[q] /\ held'[q] = held[q]
    PROVE  Shed /\ Awaited(p)' = {} /\ AwaitsOne'
<1>1. Shed
  BY DEF Shed, Inv, TypeOK
<1>2. Awaited(p)' = {}
  BY DEF Awaited
<1>. QED
  BY <1>1, <1>2, ShedAwaits DEF Inv

\* What a poll does by itself leaves the others as sound as they were.
LEMMA OthersSound ==
    ASSUME HoldersSound, NEW q \in Polls, UNCHANGED <<gateway, files, runs>>,
           pc'[q] = pc[q], todo'[q] = todo[q], held'[q] = held[q], verdict'[q] = verdict[q]
    PROVE  HolderSound(q)'
BY SameFirst DEF HoldersSound, HolderSound, Untouched, gateway, files

\* A poll that ends by itself.
LEMMA QuitKeeps ==
    ASSUME Inv, NEW p \in Polls, pc[p] \notin {"claiming", "starting", "completing"},
           EndPoll(p), UNCHANGED <<gateway, calls, files, runs, clock>>
    PROVE  Inv'
<1>1. Awaited(p) = {}
  BY NotWaiting
<1>2. Shed /\ Awaited(p)' = {}
  <2>1. \A q \in Polls : q # p =>
               pc'[q] = pc[q] /\ todo'[q] = todo[q] /\ held'[q] = held[q]
    BY DEF EndPoll, Inv, TypeOK
  <2>. QED
    BY <1>1, <2>1, CallsKept
<1>. QED
  BY <1>2, PollEnds

\* A poll lists the pending files.
LEMMA ListKeeps ==
    ASSUME Inv, NEW p \in Polls, List(p)
    PROVE  Inv'
<1>1. Awaited(p) = {}
  BY NotWaiting DEF List
<1>2. /\ pc' = [pc EXCEPT ![p] = "reconcile"] /\ todo'[p] \subseteq Commands
      /\ todo' = [todo EXCEPT ![p] = todo'[p]]
      /\ UNCHANGED <<gateway, calls, files, runs, held, verdict, attempt, clock>>
  BY DEF List, Inv, TypeOK
<1>3. \A q \in Polls : q # p =>
               pc'[q] = pc[q] /\ todo'[q] = todo[q] /\ held'[q] = held[q]
  BY <1>2 DEF Inv, TypeOK
<1>4. AwaitsOne'
  BY <1>1, <1>2, <1>3, CallsKept
<1>5. TypeOK'
  BY <1>2 DEF Inv, TypeOK, gateway, files
<1>6. HoldersSound'
  <2>. SUFFICES ASSUME NEW q \in Polls
                PROVE  HolderSound(q)'
    BY DEF HoldersSound
  <2>1. CASE q = p
    BY <1>2, <2>1 DEF Inv, TypeOK, HoldersSound, HolderSound, gateway
  <2>2. CASE q # p
    BY <1>2, <1>3, <2>2, OthersSound DEF Inv
  <2>. QED
    BY <2>1, <2>2
<1>7. HeldByOne' /\ RequestsSound' /\ ReceiptsAgree' /\ RecordsTrue'
  BY <1>2 DEF Inv, HeldByOne, RequestsSound, ReceiptsAgree, RecordsTrue, Untouched, gateway, files
<1>. QED
  BY <1>4, <1>5, <1>6, <1>7 DEF Inv

\* A poll that sends a request and waits for its answer.
LEMMA SendingKeeps ==
    ASSUME Inv, NEW p \in Polls, UNCHANGED <<gateway, files, runs, todo, held, clock>>,
           calls' \in [Slots -> Call \cup {NoCall}], AwaitsOne', RequestsSound',
           NEW next \in {"claiming", "starting", "completing"},
           pc' = [pc EXCEPT ![p] = next],
           next = "starting" => pc[p] = "validate" /\ verdict'[p] \in {"NONE", "REJECTED"},
           verdict' \in [Polls -> Outcome \cup {"NONE"}],
           \A q \in Polls : q # p => verdict'[q] = verdict[q],
           attempt' \in [Polls -> 0..Retries]
    PROVE  Inv'
<1>1. TypeOK'
  BY DEF Inv, TypeOK, gateway, files
<1>2. HoldersSound'
  <2>. SUFFICES ASSUME NEW q \in Polls
                PROVE  HolderSound(q)'
    BY DEF HoldersSound
  <2>1. CASE q = p
    <3>1. pc'[p] = next /\ HolderSound(p)
      BY DEF Inv, TypeOK, HoldersSound
    <3>. QED
      BY <2>1, <3>1 DEF HolderSound, Untouched, gateway, files
  <2>2. CASE q # p
    <3>1. pc'[q] = pc[q]
      BY <2>2 DEF Inv, TypeOK
    <3>. QED
      BY <2>2, <3>1, OthersSound DEF Inv
  <2>. QED
    BY <2>1, <2>2
<1>3. HeldByOne' /\ ReceiptsAgree' /\ RecordsTrue'
  BY DEF Inv, HeldByOne, ReceiptsAgree, RecordsTrue, Untouched, gateway, files
<1>. QED
  BY <1>1, <1>2, <1>3 DEF Inv

\* A poll sends the record of a pending file.
LEMMA SubmitKeeps ==
    ASSUME Inv, NEW p \in Polls, Submit(p)
    PROVE  Inv'
<1>1. Awaited(p) = {}
  BY NotWaiting DEF Submit
<1>2. PICK c \in Commands : c = First(p)
  BY FirstIsListed DEF Submit, Inv, TypeOK
<1>3. PICK r \in Record : r = pending[c]
  BY <1>2 DEF Submit
<1>4. /\ Send(p, "complete", c, r) /\ todo[p] # {}
      /\ pc' = [pc EXCEPT ![p] = "completing"] /\ attempt' = [attempt EXCEPT ![p] = 0]
      /\ UNCHANGED <<gateway, files, runs, todo, held, verdict, clock>>
  BY <1>2, <1>3 DEF Submit
<1>5. calls' \in [Slots -> Call \cup {NoCall}] /\ AwaitsOne' /\ RequestsSound'
  <2>1. pc' = [pc EXCEPT ![p] = Waiting["complete"]]
    BY <1>4 DEF Waiting
  <2>. QED
    BY <1>1, <1>2, <1>3, <1>4, <2>1, SendKeeps
<1>6. attempt' \in [Polls -> 0..Retries] /\ verdict' \in [Polls -> Outcome \cup {"NONE"}]
  BY <1>4, NumbersAssumption DEF Inv, TypeOK
<1>. QED
  BY <1>4, <1>5, <1>6, SendingKeeps

\* A poll claims.
LEMMA AskForWorkKeeps ==
    ASSUME Inv, NEW p \in Polls, AskForWork(p)
    PROVE  Inv'
<1>1. Awaited(p) = {}
  BY NotWaiting DEF AskForWork
<1>2. /\ Send(p, "claim", NoCommand, NoRecord) /\ pc' = [pc EXCEPT ![p] = "claiming"]
      /\ UNCHANGED <<gateway, files, runs, todo, held, verdict, attempt, clock>>
  BY DEF AskForWork
<1>3. calls' \in [Slots -> Call \cup {NoCall}] /\ AwaitsOne' /\ RequestsSound'
  <2>1. pc' = [pc EXCEPT ![p] = Waiting["claim"]]
    BY <1>2 DEF Waiting
  <2>. QED
    BY <1>1, <1>2, <2>1, SendKeeps
<1>4. attempt' \in [Polls -> 0..Retries] /\ verdict' \in [Polls -> Outcome \cup {"NONE"}]
  BY <1>2 DEF Inv, TypeOK
<1>. QED
  BY <1>2, <1>3, <1>4, SendingKeeps

\* A poll validates and starts the command it holds.
LEMMA ValidateKeeps ==
    ASSUME Inv, NEW p \in Polls, Validate(p)
    PROVE  Inv'
<1>1. Awaited(p) = {} /\ pc[p] = "validate"
  BY NotWaiting DEF Validate
<1>2. PICK c \in Commands : c = held[p]
  BY <1>1 DEF Inv, TypeOK, HoldersSound, HolderSound
<1>3. PICK v \in {"NONE", "REJECTED"} : verdict' = [verdict EXCEPT ![p] = v]
  BY DEF Validate
<1>4. /\ Send(p, "start", c, NoRecord)
      /\ pc' = [pc EXCEPT ![p] = "starting"] /\ attempt' = [attempt EXCEPT ![p] = 0]
      /\ UNCHANGED <<gateway, files, runs, todo, held, clock>>
  BY <1>2 DEF Validate
<1>5. calls' \in [Slots -> Call \cup {NoCall}] /\ AwaitsOne' /\ RequestsSound'
  <2>1. pc' = [pc EXCEPT ![p] = Waiting["start"]]
    BY <1>4 DEF Waiting
  <2>. QED
    BY <1>1, <1>2, <1>4, <2>1, SendKeeps
<1>6. /\ attempt' \in [Polls -> 0..Retries] /\ verdict' \in [Polls -> Outcome \cup {"NONE"}]
      /\ verdict'[p] \in {"NONE", "REJECTED"}
      /\ \A q \in Polls : q # p => verdict'[q] = verdict[q]
  BY <1>3, <1>4, NumbersAssumption DEF Inv, TypeOK, Outcome
<1>. QED
  BY <1>1, <1>4, <1>5, <1>6, SendingKeeps

\* The acknowledged record moves from the pending to the archived files.
LEMMA ArchiveKeeps ==
    ASSUME Inv, NEW p \in Polls, Archive(p)
    PROVE  Inv'
<1>1. pc[p] = "archive" /\ Awaited(p) = {} /\ UNCHANGED <<gateway, calls, runs, clock>>
  BY NotWaiting DEF Archive
<1>2. PICK c \in Commands : c = First(p) /\ c \in todo[p] /\ receipt[c] # NoRecord
  BY <1>1, FirstIsListed DEF Inv, TypeOK, HoldersSound, HolderSound
<1>3. CASE ~(history[c] = NoRecord /\ pending[c] # NoRecord)
  <2>1. EndPoll(p) /\ UNCHANGED files
    BY <1>2, <1>3 DEF Archive
  <2>. QED
    BY <1>1, <2>1, QuitKeeps
<1>4. CASE history[c] = NoRecord /\ pending[c] # NoRecord
  <2>1. /\ history' = [history EXCEPT ![c] = pending[c]]
        /\ pending' = [pending EXCEPT ![c] = NoRecord]
        /\ todo' = [todo EXCEPT ![p] = @ \ {c}]
        /\ pc' = [pc EXCEPT ![p] = "reconcile"]
        /\ UNCHANGED <<held, verdict, attempt>>
    BY <1>2, <1>4 DEF Archive
  <2>2. receipt[c] = pending[c] /\ pending[c] \in Record
    BY <1>2, <1>4 DEF Inv, TypeOK, ReceiptsAgree
  <2>3. \A q \in Polls : q # p =>
               pc'[q] = pc[q] /\ todo'[q] = todo[q] /\ held'[q] = held[q]
    BY <2>1 DEF Inv, TypeOK
  <2>4. AwaitsOne'
    BY <1>1, <2>3, CallsKept
  <2>5. TypeOK'
    BY <1>1, <2>1, <2>2 DEF Inv, TypeOK, gateway
  <2>6. /\ history'[c] = pending[c] /\ pending'[c] = NoRecord
        /\ \A d \in Commands : d # c => history'[d] = history[d] /\ pending'[d] = pending[d]
    BY <2>1 DEF Inv, TypeOK
  <2>7. RequestsSound'
    <3>. SUFFICES ASSUME NEW k \in Slots, calls[k] # NoCall, calls[k].path = "complete"
                  PROVE  calls[k].record \in {pending'[calls[k].command],
                                              history'[calls[k].command]}
      BY <1>1 DEF Inv, RequestsSound
    <3>1. /\ calls[k].command \in Commands /\ calls[k].record \in Record
          /\ calls[k].record \in {pending[calls[k].command], history[calls[k].command]}
      BY DEF Inv, RequestsSound
    <3>. QED
      BY <1>4, <2>6, <3>1, SentinelAssumption
  <2>8. HoldersSound'
    <3>. SUFFICES ASSUME NEW q \in Polls
                  PROVE  HolderSound(q)'
      BY DEF HoldersSound
    <3>1. HolderSound(q) /\ (held[q] # NoCommand => held[q] \in Commands)
      BY DEF Inv, TypeOK, HoldersSound
    <3>2. held[q] = c => pc[q] \notin {"validate", "starting", "run", "record"}
      BY <1>2, <3>1 DEF HolderSound, Untouched
    <3>3. CASE q = p
      <4>1. pc'[p] = "reconcile"
        BY <2>1 DEF Inv, TypeOK
      <4>. QED
        BY <1>1, <2>1, <3>1, <3>3, <4>1 DEF HolderSound, gateway
    <3>4. CASE q # p
      <4>1. First(q)' = First(q)
        BY <2>3, <3>4, SameFirst
      <4>. QED
        BY <1>1, <2>1, <2>3, <2>6, <3>1, <3>2, <3>4, <4>1 DEF HolderSound, Untouched, gateway
    <3>. QED
      BY <3>3, <3>4
  <2>9. ReceiptsAgree' /\ HeldByOne'
    BY <1>1, <2>1, <2>2, <2>6 DEF Inv, ReceiptsAgree, HeldByOne, gateway
  <2>10. RecordsTrue'
    BY <1>1, <1>2, <2>2, <2>6, SentinelAssumption DEF Inv, RecordsTrue, Untouched, gateway
  <2>. QED
    BY <2>4, <2>5, <2>7, <2>8, <2>9, <2>10 DEF Inv
<1>. QED
  BY <1>3, <1>4

\* The holder of a command is alone with it.
LEMMA NoOtherHolder ==
    ASSUME Inv, NEW p \in Polls, NEW c \in Commands, held[p] = c, NEW q \in Polls, q # p
    PROVE  held[q] # c
BY CommandsAssumption DEF Inv, HeldByOne

\* The action of the held command runs, once.
LEMMA RunActionKeeps ==
    ASSUME Inv, NEW p \in Polls, RunAction(p)
    PROVE  Inv'
<1>1. /\ pc[p] = "run" /\ Awaited(p) = {}
      /\ UNCHANGED <<gateway, calls, files, todo, held, attempt, clock>>
  BY NotWaiting DEF RunAction
<1>2. PICK c \in Commands : /\ c = held[p] /\ Untouched(c) /\ runs[c] = 0
                            /\ status[c] = "EXECUTING"
  BY <1>1 DEF Inv, TypeOK, HoldersSound, HolderSound
<1>3. PICK v \in {"SUCCEEDED", "FAILED"} : verdict' = [verdict EXCEPT ![p] = v]
  BY DEF RunAction
<1>4. runs' = [runs EXCEPT ![c] = 1] /\ pc' = [pc EXCEPT ![p] = "record"]
  BY <1>2 DEF RunAction, Inv, TypeOK
<1>5. TypeOK'
  BY <1>1, <1>3, <1>4 DEF Inv, TypeOK, Outcome, gateway, files
<1>6. \A q \in Polls : q # p =>
          /\ pc'[q] = pc[q] /\ todo'[q] = todo[q] /\ held'[q] = held[q]
          /\ verdict'[q] = verdict[q]
  BY <1>1, <1>3, <1>4 DEF Inv, TypeOK
<1>7. AwaitsOne'
  BY <1>1, <1>6, CallsKept
<1>8. HoldersSound'
  <2>. SUFFICES ASSUME NEW q \in Polls
                PROVE  HolderSound(q)'
    BY DEF HoldersSound
  <2>1. HolderSound(q) /\ First(q)' = First(q)
    BY <1>1, SameFirst DEF Inv, HoldersSound
  <2>2. CASE q = p
    <3>1. pc'[p] = "record" /\ verdict'[p] = v /\ runs'[c] = 1
      BY <1>3, <1>4 DEF Inv, TypeOK
    <3>. QED
      BY <1>1, <1>2, <2>1, <2>2, <3>1 DEF HolderSound, Untouched, Outcome, gateway, files
  <2>3. CASE q # p
    <3>1. held[q] # NoCommand => held[q] \in Commands /\ runs'[held[q]] = runs[held[q]]
      BY <1>2, <1>4, <2>3, NoOtherHolder DEF Inv, TypeOK
    <3>. QED
      BY <1>1, <1>6, <2>1, <2>3, <3>1 DEF HolderSound, Untouched, gateway, files
  <2>. QED
    BY <2>2, <2>3
<1>9. RecordsTrue'
  <2>1. \A d \in Commands : d # c => runs'[d] = runs[d]
    BY <1>4 DEF Inv, TypeOK
  <2>. QED
    BY <1>1, <1>2, <2>1, SentinelAssumption DEF Inv, RecordsTrue, Untouched, gateway, files
<1>10. HeldByOne' /\ RequestsSound' /\ ReceiptsAgree'
  BY <1>1 DEF Inv, HeldByOne, RequestsSound, ReceiptsAgree, gateway, files
<1>. QED
  BY <1>5, <1>7, <1>8, <1>9, <1>10 DEF Inv

\* The first record of a command appears, whole or torn; its holder goes on or dies.
LEMMA RecordAppears ==
    ASSUME Inv, NEW p \in Polls, pc[p] = "record", NEW c \in Commands, c = held[p],
           NEW x \in Record \cup {Torn},
           x \in Record => (x.status = "REJECTED" <=> runs[c] = 0),
           pending' = [pending EXCEPT ![c] = x],
           UNCHANGED <<gateway, calls, history, runs, clock>>,
           pc'[p] \in {"list", "idle"}, held'[p] \in {held[p], NoCommand},
           TypeOK',
           \A q \in Polls : q # p => /\ pc'[q] = pc[q] /\ todo'[q] = todo[q]
                                     /\ held'[q] = held[q] /\ verdict'[q] = verdict[q]
    PROVE  Inv'
<1>1. Untouched(c) /\ status[c] = "EXECUTING" /\ x # NoRecord
  BY SentinelAssumption DEF Inv, HoldersSound, HolderSound
<1>2. pending'[c] = x /\ \A d \in Commands : d # c => pending'[d] = pending[d]
  BY DEF Inv, TypeOK
<1>3. AwaitsOne'
  BY NotWaiting, CallsKept
<1>4. HeldByOne'
  BY DEF Inv, TypeOK, HeldByOne
<1>5. RequestsSound'
  <2>. SUFFICES ASSUME NEW k \in Slots, calls[k] # NoCall, calls[k].path = "complete"
                PROVE  calls[k].record \in {pending'[calls[k].command],
                                            history[calls[k].command]}
    BY DEF Inv, RequestsSound
  <2>1. /\ calls[k].command \in Commands /\ calls[k].record # NoRecord
        /\ calls[k].record \in {pending[calls[k].command], history[calls[k].command]}
    BY SentinelAssumption DEF Inv, RequestsSound
  <2>. QED
    BY <1>1, <1>2, <2>1 DEF Untouched
<1>6. HoldersSound'
  <2>. SUFFICES ASSUME NEW q \in Polls
                PROVE  HolderSound(q)'
    BY DEF HoldersSound
  <2>1. HolderSound(q)
    BY DEF Inv, HoldersSound
  <2>2. CASE q = p
    BY <2>1, <2>2 DEF HolderSound, gateway
  <2>3. CASE q # p
    <3>1. held[q] # NoCommand => held[q] \in Commands /\ pending'[held[q]] = pending[held[q]]
      BY <1>2, <2>3, NoOtherHolder DEF Inv, TypeOK
    <3>2. First(q)' = First(q)
      BY <2>3, SameFirst
    <3>. QED
      BY <2>1, <2>3, <3>1, <3>2 DEF HolderSound, Untouched, gateway
  <2>. QED
    BY <2>2, <2>3
<1>7. ReceiptsAgree'
  BY <1>1, <1>2 DEF Inv, ReceiptsAgree, Untouched, gateway
<1>8. RecordsTrue'
  BY <1>1, <1>2 DEF Inv, RecordsTrue, Untouched, gateway
<1>. QED
  BY <1>3, <1>4, <1>5, <1>6, <1>7, <1>8 DEF Inv

\* The pending file of the held command is written.
LEMMA WriteRecordKeeps ==
    ASSUME Inv, NEW p \in Polls, WriteRecord(p)
    PROVE  Inv'
<1>1. pc[p] = "record" /\ UNCHANGED <<gateway, calls, history, runs, clock>>
  BY DEF WriteRecord
<1>2. PICK c \in Commands : /\ c = held[p] /\ pending[c] = NoRecord
                            /\ verdict[p] \in Outcome
                            /\ verdict[p] = "REJECTED" <=> runs[c] = 0
  BY <1>1 DEF Inv, TypeOK, HoldersSound, HolderSound, Untouched
<1>. DEFINE x == [status |-> verdict[p], poll |-> p]
<1>3. /\ pending' = [pending EXCEPT ![c] = x] /\ pc' = [pc EXCEPT ![p] = "list"]
      /\ UNCHANGED <<todo, held, verdict, attempt>>
  BY <1>2 DEF WriteRecord
<1>4. x \in Record /\ (x.status = "REJECTED" <=> runs[c] = 0)
  BY <1>2 DEF Record
<1>. HIDE DEF x
<1>5. TypeOK'
  BY <1>1, <1>3, <1>4 DEF Inv, TypeOK, gateway
<1>6. pc'[p] = "list" /\ \A q \in Polls : q # p => pc'[q] = pc[q]
  BY <1>3 DEF Inv, TypeOK
<1>. QED
  BY <1>1, <1>2, <1>3, <1>4, <1>5, <1>6, RecordAppears

\* The process dies inside the write.
LEMMA DieWritingKeeps ==
    ASSUME Inv, NEW p \in Polls, DieWriting(p)
    PROVE  Inv'
<1>1. /\ pc[p] = "record" /\ UNCHANGED <<gateway, calls, history, runs, clock>>
      /\ EndPoll(p)
  BY DEF DieWriting
<1>2. PICK c \in Commands : c = held[p]
  BY <1>1 DEF Inv, TypeOK, HoldersSound, HolderSound
<1>3. pending' = [pending EXCEPT ![c] = Torn]
  BY <1>2 DEF DieWriting
<1>4. TypeOK'
  BY <1>1, <1>3, NumbersAssumption DEF Inv, TypeOK, EndPoll, gateway
<1>5. /\ pc'[p] = "idle" /\ held'[p] = NoCommand
      /\ \A q \in Polls : q # p => /\ pc'[q] = pc[q] /\ todo'[q] = todo[q]
                                   /\ held'[q] = held[q] /\ verdict'[q] = verdict[q]
  BY <1>1 DEF EndPoll, Inv, TypeOK
<1>. QED
  BY <1>1, <1>2, <1>3, <1>4, <1>5, RecordAppears, SentinelAssumption

\* The process dies anywhere else, or has no answer.
LEMMA GiveUpKeeps ==
    ASSUME Inv, NEW p \in Polls, GiveUp(p)
    PROVE  Inv'
<1>1. /\ EndPoll(p) /\ UNCHANGED <<gateway, files, runs, clock>>
      /\ calls' = [k \in Slots |-> IF k \in Awaited(p)
                                   THEN [calls[k] EXCEPT !.awaited = FALSE] ELSE calls[k]]
  BY DEF GiveUp, Forsake
<1>2. ASSUME NEW k \in Slots, calls[k] # NoCall
      PROVE  [calls[k] EXCEPT !.awaited = FALSE] \in Call
  <2>1. calls[k] \in Call
    BY <1>2 DEF Inv, TypeOK
  <2>. QED
    BY <2>1 DEF Call
<1>3. Shed
  BY <1>1, <1>2 DEF Shed, Awaited, Inv, TypeOK
<1>4. Awaited(p)' = {}
  <2>. SUFFICES ASSUME NEW k \in Awaited(p)'
                PROVE  FALSE
    OBVIOUS
  <2>1. k \in Awaited(p) /\ calls'[k] = calls[k]
    BY <1>3, ShedAwaited DEF Inv
  <2>2. calls[k] \in Call /\ calls[k].awaited
    BY <2>1 DEF Awaited, Inv, TypeOK
  <2>3. calls'[k] = [calls[k] EXCEPT !.awaited = FALSE]
    BY <1>1, <2>1 DEF Awaited
  <2>. QED
    BY <2>1, <2>2, <2>3 DEF Call
<1>. QED
  BY <1>1, <1>3, <1>4, PollEnds

\* The repeated request is the awaited one now.
LEMMA RetryKeeps ==
    ASSUME Inv, NEW p \in Polls, Retry(p)
    PROVE  Inv'
<1>1. PICK k \in Awaited(p), j \in FreeSlots :
          calls' = [calls EXCEPT ![k].awaited = FALSE,
                                 ![j] = [calls[k] EXCEPT !.stage = "sent", !.now = 0]]
  BY DEF Retry
<1>2. /\ k \in Slots /\ j \in Slots /\ calls[k] \in Call /\ calls[k] # NoCall /\ calls[j] = NoCall
      /\ calls[k].awaited = TRUE /\ calls[k].poll = p
  BY DEF Awaited, FreeSlots, Inv, TypeOK, Call
<1>. DEFINE old == [calls[k] EXCEPT !.awaited = FALSE]
            new == [calls[k] EXCEPT !.stage = "sent", !.now = 0]
<1>3. /\ old \in Call /\ old.awaited = FALSE /\ old.path = calls[k].path
      /\ old.stage = calls[k].stage /\ old.command = calls[k].command
      /\ old.record = calls[k].record
  BY <1>2 DEF Call
<1>4. /\ new \in Call /\ new.awaited = TRUE /\ new.poll = p /\ new.path = calls[k].path
      /\ new.stage = "sent" /\ new.command = calls[k].command /\ new.record = calls[k].record
  BY <1>2 DEF Call
<1>5. /\ calls'[k] = old /\ calls'[j] = new
      /\ \A i \in Slots : i # k /\ i # j => calls'[i] = calls[i]
  BY <1>1, <1>2 DEF Inv, TypeOK
<1>6. calls' \in [Slots -> Call \cup {NoCall}]
  BY <1>1, <1>2, <1>3, <1>4 DEF Inv, TypeOK
<1>. HIDE DEF old, new
<1>7. /\ UNCHANGED <<gateway, files, runs, pc, todo, held, verdict, clock>>
      /\ attempt[p] < Retries /\ attempt' = [attempt EXCEPT ![p] = @ + 1]
  BY DEF Retry, MayRetry
<1>8. AwaitsOne'
  <2>. SUFFICES ASSUME NEW q \in Polls, NEW i \in Awaited(q)'
                PROVE  /\ pc'[q] = Waiting[calls'[i].path]
                       /\ \A m \in Awaited(q)' : m = i
                       /\ calls'[i].path = "start" => calls'[i].command = held'[q]
                       /\ calls'[i].path = "complete" =>
                             todo'[q] # {} /\ calls'[i].command = First(q)'
    BY DEF AwaitsOne, Waiting
  <2>1. First(q)' = First(q)
    BY <1>7, SameFirst
  <2>2. CASE q = p
    <3>1. \A m \in Awaited(p) : m = k
      BY DEF Inv, AwaitsOne
    <3>2. Awaited(p)' \subseteq {j}
      BY <1>2, <1>3, <1>5, <3>1 DEF Awaited
    <3>. QED
      BY <1>4, <1>5, <1>7, <2>1, <2>2, <3>2 DEF Inv, AwaitsOne
  <2>3. CASE q # p
    <3>1. Awaited(q)' = Awaited(q) /\ j \notin Awaited(q) /\ k \notin Awaited(q)
      BY <1>2, <1>3, <1>4, <1>5, <2>3 DEF Awaited
    <3>2. i \in Slots /\ calls'[i] = calls[i]
      BY <1>5, <3>1 DEF Awaited
    <3>. QED
      BY <1>7, <2>1, <3>1, <3>2 DEF Inv, AwaitsOne
  <2>. QED
    BY <2>2, <2>3
<1>9. RequestsSound'
  <2>. SUFFICES ASSUME NEW i \in Slots, calls'[i] # NoCall
                PROVE  /\ calls'[i].path = "start" => calls'[i].command \in Commands
                       /\ calls'[i].path = "claim" /\ calls'[i].stage = "second" =>
                             calls'[i].command \in Commands
                       /\ calls'[i].path = "complete" =>
                             /\ calls'[i].command \in Commands /\ calls'[i].record \in Record
                             /\ calls'[i].record \in {pending[calls'[i].command],
                                                      history[calls'[i].command]}
    BY <1>7 DEF RequestsSound, files
  <2>1. CASE i = k
    BY <1>2, <1>3, <1>5, <2>1 DEF Inv, RequestsSound
  <2>2. CASE i = j
    BY <1>2, <1>4, <1>5, <2>2 DEF Inv, RequestsSound
  <2>3. CASE i # k /\ i # j
    BY <1>5, <2>3 DEF Inv, RequestsSound
  <2>. QED
    BY <2>1, <2>2, <2>3
<1>10. TypeOK'
  <2>1. attempt' \in [Polls -> 0..Retries]
    BY <1>7, NumbersAssumption DEF Inv, TypeOK
  <2>. QED
    BY <1>6, <1>7, <2>1 DEF Inv, TypeOK, gateway, files
<1>11. HoldersSound'
  BY <1>7, OthersSound DEF Inv, HoldersSound
<1>12. HeldByOne' /\ ReceiptsAgree' /\ RecordsTrue'
  BY <1>7 DEF Inv, HeldByOne, ReceiptsAgree, RecordsTrue, Untouched, gateway, files
<1>. QED
  BY <1>8, <1>9, <1>10, <1>11, <1>12 DEF Inv

\* A new command concerns nobody yet.
LEMMA RequestCommandKeeps ==
    ASSUME Inv, NEW c \in Commands, RequestCommand(c)
    PROVE  Inv'
<1>1. /\ status[c] = "NONE" /\ status' = [status EXCEPT ![c] = "REQUESTED"]
      /\ expires' = [expires EXCEPT ![c] = clock + Lifetime]
      /\ UNCHANGED <<receipt, calls, files, runs, poll, clock>>
  BY DEF RequestCommand
<1>2. TypeOK'
  BY <1>1, NumbersAssumption DEF Inv, TypeOK, CommandStatus, files, poll
<1>3. \A q \in Polls : held[q] # c
  BY <1>1, CommandsAssumption DEF Inv, HoldersSound, HolderSound
<1>4. HoldersSound'
  <2>. SUFFICES ASSUME NEW q \in Polls
                PROVE  HolderSound(q)'
    BY DEF HoldersSound
  <2>1. HolderSound(q) /\ First(q)' = First(q)
    BY <1>1, SameFirst DEF Inv, HoldersSound, poll
  <2>2. held[q] # NoCommand => status'[held[q]] = status[held[q]]
    BY <1>1, <1>3 DEF Inv, TypeOK
  <2>3. pc[q] \in {"run", "record"} => held[q] # NoCommand
    BY <2>1 DEF HolderSound
  <2>. QED
    BY <1>1, <2>1, <2>2, <2>3 DEF HolderSound, Untouched, files, poll
<1>5. AwaitsOne'
  <2>1. \A q \in Polls : First(q)' = First(q) /\ Awaited(q)' = Awaited(q)
    BY <1>1, SameFirst DEF poll, Awaited
  <2>. QED
    BY <1>1, <2>1 DEF Inv, AwaitsOne, Waiting, poll
<1>6. RequestsSound' /\ HeldByOne' /\ ReceiptsAgree'
  BY <1>1 DEF Inv, RequestsSound, HeldByOne, ReceiptsAgree, files, poll
<1>7. RecordsTrue'
  BY <1>1 DEF Inv, TypeOK, RecordsTrue, Untouched, files
<1>. QED
  BY <1>2, <1>4, <1>5, <1>6, <1>7 DEF Inv

\* Time and a stuttering step touch nothing the invariant looks at.
LEMMA QuietKeeps ==
    ASSUME Inv, UNCHANGED <<gateway, calls, files, runs, poll>>, clock' \in Nat
    PROVE  Inv'
<1>1. TypeOK'
  BY DEF Inv, TypeOK, gateway, files, poll
<1>2. \A q \in Polls : First(q)' = First(q) /\ Awaited(q)' = Awaited(q)
  BY SameFirst DEF poll, Awaited
<1>3. AwaitsOne'
  BY <1>2 DEF Inv, AwaitsOne, Waiting, poll
<1>4. HoldersSound'
  BY <1>2, OthersSound DEF Inv, HoldersSound, poll
<1>5. RequestsSound' /\ HeldByOne' /\ ReceiptsAgree' /\ RecordsTrue'
  BY DEF Inv, RequestsSound, HeldByOne, ReceiptsAgree, RecordsTrue, Untouched,
         gateway, files, poll
<1>. QED
  BY <1>1, <1>3, <1>4, <1>5 DEF Inv

\* The invariant holds at the start.
LEMMA InitSound == Init => Inv
<1>. SUFFICES ASSUME Init
              PROVE  Inv
  OBVIOUS
<1>1. TypeOK
  BY NumbersAssumption DEF Init, TypeOK, CommandStatus
<1>2. AwaitsOne /\ RequestsSound
  BY DEF Init, AwaitsOne, RequestsSound, Awaited
<1>3. HoldersSound /\ HeldByOne
  BY DEF Init, HoldersSound, HolderSound, HeldByOne
<1>4. ReceiptsAgree /\ RecordsTrue
  BY SentinelAssumption DEF Init, ReceiptsAgree, RecordsTrue, Untouched
<1>. QED
  BY <1>1, <1>2, <1>3, <1>4 DEF Inv

\* Every step keeps the invariant.
LEMMA StepSound == Inv /\ [Next]_vars => Inv'
<1>. SUFFICES ASSUME Inv, [Next]_vars
              PROVE  Inv'
  OBVIOUS
<1>1. CASE \E c \in Commands : RequestCommand(c)
  BY <1>1, RequestCommandKeeps
<1>2. CASE ClockTicks
  BY <1>2, QuietKeeps DEF ClockTicks, Inv, TypeOK
<1>3. ASSUME NEW p \in Polls, Agent(p)
      PROVE  Inv'
  <2>1. CASE BadPending(p)
    BY <2>1, QuitKeeps DEF BadPending
  <2>2. CASE Done(p)
    BY <2>2, QuitKeeps DEF Done
  <2>. QED
    BY <1>3, <2>1, <2>2, ListKeeps, SubmitKeeps, ArchiveKeeps, AskForWorkKeeps,
       ValidateKeeps, RunActionKeeps, WriteRecordKeeps DEF Agent
<1>4. ASSUME NEW p \in Polls, Trouble(p)
      PROVE  Inv'
  BY <1>4, RetryKeeps, GiveUpKeeps, DieWritingKeeps DEF Trouble
<1>5. ASSUME NEW k \in Slots, Handle(k)
      PROVE  Inv'
  BY <1>5, ArriveKeeps, ExpireStaleKeeps, SelectCandidateKeeps, ClaimCandidateKeeps,
     MarkExecutingKeeps, ConfirmExecutingKeeps, FindReceiptKeeps, StoreReceiptKeeps DEF Handle
<1>6. CASE \E k \in Slots : Drop(k)
  BY <1>6, DropKeeps
<1>7. CASE UNCHANGED vars
  BY <1>7, QuietKeeps DEF vars, gateway, files, poll, Inv, TypeOK
<1>. QED
  BY <1>1, <1>2, <1>3, <1>4, <1>5, <1>6, <1>7 DEF Next

\* The invariant: what is held, sent, recorded and archived fits together, whatever is
\* lost, repeated or interrupted.
THEOREM Soundness == Spec => []Inv
<1>. QED
  BY InitSound, StepSound, PTL DEF Spec

\* A stored receipt has its file on the founder's machine, and what is archived is
\* exactly what the gateway stored.
THEOREM ReceiptSafety == Spec => []ReceiptsAgree
<1>1. Inv => ReceiptsAgree
  BY DEF Inv
<1>. QED
  BY <1>1, Soundness, PTL

\* No two polls ever work on one command.
THEOREM SingleHolder == Spec => []HeldByOne
<1>1. Inv => HeldByOne
  BY DEF Inv
<1>. QED
  BY <1>1, Soundness, PTL

(***************************************************************************)
(* The founder's view: every step is a step of the lifecycle or none.      *)
(***************************************************************************)

\* What the founder does not see.
LEMMA Unseen ==
    ASSUME UNCHANGED <<status, runs, receipt>>
    PROVE  UNCHANGED Promise!lifecycle
BY DEF Promise!lifecycle

\* A request is a step of the lifecycle.
LEMMA RequestAdvances ==
    ASSUME NEW c \in Commands, RequestCommand(c)
    PROVE  Promise!Live
<1>1. Promise!Advance(c, "NONE", "REQUESTED")
  BY DEF RequestCommand, Promise!Advance
<1>. QED
  BY <1>1 DEF Promise!Live

\* So is the expiry of any number of commands.
LEMMA ExpiryLapses ==
    ASSUME Inv, NEW k \in Slots, ExpireStale(k)
    PROVE  Promise!Live
<1>. DEFINE late == {c \in Commands : /\ status[c] \in {"REQUESTED", "CLAIMED"}
                                      /\ expires[c] <= calls[k].now}
<1>1. status' = [c \in Commands |-> IF c \in late THEN "EXPIRED" ELSE status[c]]
  BY DEF ExpireStale
<1>2. late \in SUBSET {c \in Commands : status[c] \in {"REQUESTED", "CLAIMED"}}
  OBVIOUS
<1>3. UNCHANGED <<runs, receipt>>
  BY DEF ExpireStale
<1>. HIDE DEF late
<1>4. Promise!Lapse
  BY <1>1, <1>2, <1>3 DEF Promise!Lapse
<1>. QED
  BY <1>4 DEF Promise!Live

\* A claim that finds its candidate unclaimed advances it.
LEMMA ClaimAdvances ==
    ASSUME Inv, NEW k \in Slots, ClaimCandidate(k)
    PROVE  Promise!Live \/ UNCHANGED Promise!lifecycle
<1>1. PICK c \in Commands : c = calls[k].command
  BY DEF ClaimCandidate, At, Inv, RequestsSound
<1>2. UNCHANGED <<runs, receipt>>
  BY DEF ClaimCandidate
<1>3. CASE status[c] = "REQUESTED" /\ expires[c] > calls[k].now
  <2>1. Promise!Advance(c, "REQUESTED", "CLAIMED")
    BY <1>1, <1>2, <1>3 DEF ClaimCandidate, Promise!Advance
  <2>. QED
    BY <2>1 DEF Promise!Live
<1>4. CASE ~(status[c] = "REQUESTED" /\ expires[c] > calls[k].now)
  BY <1>1, <1>2, <1>4, Unseen DEF ClaimCandidate
<1>. QED
  BY <1>3, <1>4

\* A start within the lifetime of a claimed command advances it.
LEMMA StartAdvances ==
    ASSUME Inv, NEW k \in Slots, MarkExecuting(k)
    PROVE  Promise!Live \/ UNCHANGED Promise!lifecycle
<1>1. PICK c \in Commands : c = calls[k].command
  BY DEF MarkExecuting, At, Inv, RequestsSound
<1>2. UNCHANGED <<runs, receipt>>
  BY DEF MarkExecuting, files
<1>3. CASE status[c] = "CLAIMED" /\ expires[c] > calls[k].now
  <2>1. Promise!Advance(c, "CLAIMED", "EXECUTING")
    BY <1>1, <1>2, <1>3 DEF MarkExecuting, Promise!Advance
  <2>. QED
    BY <2>1 DEF Promise!Live
<1>4. CASE ~(status[c] = "CLAIMED" /\ expires[c] > calls[k].now)
  BY <1>1, <1>2, <1>4, Unseen DEF MarkExecuting
<1>. QED
  BY <1>3, <1>4

\* Only a started command that has not run is carried out.
LEMMA ActionCarries ==
    ASSUME Inv, NEW p \in Polls, RunAction(p)
    PROVE  Promise!Live
<1>1. PICK c \in Commands : c = held[p] /\ runs[c] = 0 /\ status[c] = "EXECUTING"
  BY DEF RunAction, Inv, TypeOK, HoldersSound, HolderSound
<1>2. Promise!Carry(c)
  BY <1>1 DEF RunAction, gateway, Promise!Carry, Inv, TypeOK
<1>. QED
  BY <1>2 DEF Promise!Live

\* The record that ends a command tells whether it ran.
LEMMA ReceiptEnds ==
    ASSUME Inv, NEW k \in Slots, StoreReceipt(k)
    PROVE  Promise!Live \/ UNCHANGED Promise!lifecycle
<1>1. PICK c \in Commands : c = calls[k].command
  BY DEF StoreReceipt, At, Inv, RequestsSound
<1>2. PICK r \in Record : r = calls[k].record /\ r \in {pending[c], history[c]}
  BY <1>1 DEF StoreReceipt, At, Inv, RequestsSound
<1>3. /\ r # NoRecord /\ r.status \in {"SUCCEEDED", "FAILED", "REJECTED"}
      /\ r.status = "REJECTED" <=> runs[c] = 0
  BY <1>2, SentinelAssumption DEF Record, Outcome, Inv, RecordsTrue
<1>4. UNCHANGED runs
  BY DEF StoreReceipt
<1>5. CASE status[c] = "EXECUTING"
  <2>1. status' = [status EXCEPT ![c] = r.status] /\ receipt' = [receipt EXCEPT ![c] = r]
    BY <1>1, <1>2, <1>5 DEF StoreReceipt
  <2>. DEFINE told == [d \in Commands |->
                         IF receipt[d] = NoRecord THEN "NONE" ELSE receipt[d].status]
  <2>2. told' = [told EXCEPT ![c] = r.status]
    BY <1>3, <2>1 DEF Inv, TypeOK
  <2>3. Promise!End(c, r.status)
    BY <1>3, <1>4, <1>5, <2>1, <2>2 DEF Promise!End
  <2>. QED
    BY <1>3, <2>3 DEF Promise!Live
<1>6. CASE status[c] # "EXECUTING"
  BY <1>1, <1>4, <1>6, Unseen DEF StoreReceipt
<1>. QED
  BY <1>5, <1>6

\* Every step is one of the lifecycle or is not seen.
LEMMA StepKeepsPromise ==
    ASSUME Inv, [Next]_vars
    PROVE  Promise!Live \/ UNCHANGED Promise!lifecycle
<1>1. CASE \E c \in Commands : RequestCommand(c)
  BY <1>1, RequestAdvances
<1>2. CASE ClockTicks
  BY <1>2, Unseen DEF ClockTicks, gateway
<1>3. ASSUME NEW p \in Polls, Agent(p)
      PROVE  Promise!Live \/ UNCHANGED Promise!lifecycle
  <2>1. CASE RunAction(p)
    BY <2>1, ActionCarries
  <2>2. CASE List(p) \/ Submit(p) \/ BadPending(p)
    BY <2>2, Unseen DEF List, Submit, BadPending, gateway
  <2>3. CASE Archive(p) \/ Done(p) \/ AskForWork(p)
    BY <2>3, Unseen DEF Archive, Done, AskForWork, gateway
  <2>4. CASE Validate(p) \/ WriteRecord(p)
    BY <2>4, Unseen DEF Validate, WriteRecord, gateway
  <2>. QED
    BY <1>3, <2>1, <2>2, <2>3, <2>4 DEF Agent
<1>4. ASSUME NEW p \in Polls, Trouble(p)
      PROVE  UNCHANGED Promise!lifecycle
  BY <1>4, Unseen DEF Trouble, Retry, GiveUp, DieWriting, gateway
<1>5. ASSUME NEW k \in Slots, Handle(k)
      PROVE  Promise!Live \/ UNCHANGED Promise!lifecycle
  <2>1. CASE Arrive(k) \/ SelectCandidate(k)
    BY <2>1, Unseen DEF Arrive, SelectCandidate, gateway
  <2>2. CASE ConfirmExecuting(k) \/ FindReceipt(k)
    BY <2>2, Unseen DEF ConfirmExecuting, FindReceipt, gateway
  <2>. QED
    BY <1>5, <2>1, <2>2, ExpiryLapses, ClaimAdvances, StartAdvances, ReceiptEnds DEF Handle
<1>6. CASE \E k \in Slots : Drop(k)
  BY <1>6, Unseen DEF Drop, gateway
<1>7. CASE UNCHANGED vars
  BY <1>7, Unseen DEF vars
<1>. QED
  BY <1>1, <1>2, <1>3, <1>4, <1>5, <1>6, <1>7 DEF Next

\* The channel implements the lifecycle the founder is promised: a command is taken,
\* started and run at most once, never after it expired, and ends with its receipt.
THEOREM PromiseKept == Spec => KeepsPromise
<1>1. Init => Promise!Start
  BY DEF Init, Promise!Start
<1>2. Inv /\ [Next]_vars => [Promise!Live]_(Promise!lifecycle)
  BY StepKeepsPromise
<1>. QED
  BY <1>1, <1>2, Soundness, PTL DEF Spec, KeepsPromise, Promise!Lifecycle

=============================================================================
