-------------------------- MODULE CommandLifecycle --------------------------
(***************************************************************************)
(* What the founder is promised of a command, whatever the network and the *)
(* agent do: it is taken and started at most once, it runs at most once    *)
(* and only after it was started, an expired one never runs, and it ends   *)
(* together with its one receipt, which tells whether it ran.              *)
(***************************************************************************)
EXTENDS Naturals

CONSTANT Commands

VARIABLES status,   \* [Commands -> CommandStatus]; "NONE" is not requested
          runs,     \* [Commands -> Nat]: how often the action was carried out
          receipt   \* [Commands -> status told by the receipt, or "NONE"]

lifecycle == <<status, runs, receipt>>

Start ==
    /\ status = [c \in Commands |-> "NONE"]
    /\ runs = [c \in Commands |-> 0]
    /\ receipt = [c \in Commands |-> "NONE"]

Advance(c, from, to) ==
    /\ status[c] = from
    /\ status' = [status EXCEPT ![c] = to]
    /\ UNCHANGED <<runs, receipt>>

\* One request to the gateway may expire many commands.
Lapse ==
    /\ \E late \in SUBSET {c \in Commands : status[c] \in {"REQUESTED", "CLAIMED"}} :
          status' = [c \in Commands |-> IF c \in late THEN "EXPIRED" ELSE status[c]]
    /\ UNCHANGED <<runs, receipt>>

Carry(c) ==
    /\ status[c] = "EXECUTING" /\ runs[c] = 0
    /\ runs' = [runs EXCEPT ![c] = 1]
    /\ UNCHANGED <<status, receipt>>

\* A rejection is a command that did not run; any other end is one that did.
End(c, outcome) ==
    /\ status[c] = "EXECUTING"
    /\ outcome \in {"SUCCEEDED", "FAILED", "REJECTED"}
    /\ (outcome = "REJECTED") <=> (runs[c] = 0)
    /\ status' = [status EXCEPT ![c] = outcome]
    /\ receipt' = [receipt EXCEPT ![c] = outcome]
    /\ UNCHANGED runs

Live ==
    \/ \E c \in Commands :
          \/ Advance(c, "NONE", "REQUESTED")
          \/ Advance(c, "REQUESTED", "CLAIMED")
          \/ Advance(c, "CLAIMED", "EXECUTING")
          \/ Carry(c)
          \/ \E outcome \in {"SUCCEEDED", "FAILED", "REJECTED"} : End(c, outcome)
    \/ Lapse

Lifecycle == Start /\ [][Live]_lifecycle
=============================================================================
