--------------------------- MODULE ObservationRun ---------------------------
(***************************************************************************)
(* What the orchestrator promises about runs, without ledger, leases,      *)
(* files, clocks or workers: each run takes its steps strictly in order,   *)
(* gives each step a bounded number of attempts, ends at most once, and    *)
(* begins no attempt after a cancellation was requested.                   *)
(***************************************************************************)
EXTENDS Integers

CONSTANTS Runs, NSteps, MaxAttempts

VARIABLE runs   \* what an operator can see of each run

RunState ==
    [status : {"UNKNOWN", "PENDING", "RUNNING", "WAITING_RETRY",
               "COMPLETED", "FAILED", "CANCELLED"},
     done : 0..NSteps,       \* steps with an accepted receipt
     tries : 0..MaxAttempts, \* attempts begun of the current step
     cancel : BOOLEAN]       \* cancellation requested

Unknown == [status |-> "UNKNOWN", done |-> 0, tries |-> 0, cancel |-> FALSE]

Init == runs = [r \in Runs |-> Unknown]

Register(s, t) == s = Unknown /\ t = [s EXCEPT !.status = "PENDING"]

Begin(s, t) ==
    /\ s.status \in {"PENDING", "WAITING_RETRY"} /\ ~s.cancel
    /\ t = [s EXCEPT !.status = "RUNNING", !.tries = @ + 1]

Succeed(s, t) ==
    /\ s.status = "RUNNING"
    /\ \/ s.cancel /\ t.status = "CANCELLED"
       \/ ~s.cancel /\ s.done + 1 = NSteps /\ t.status = "COMPLETED"
       \/ ~s.cancel /\ s.done + 1 < NSteps /\ t.status = "PENDING"
    /\ t = [s EXCEPT !.status = t.status, !.done = @ + 1, !.tries = 0]

\* An attempt is lost to a failure or to the end of its lease.
Lose(s, t) ==
    /\ s.status = "RUNNING"
    /\ \/ s.cancel /\ t.status = "CANCELLED"
       \/ ~s.cancel /\ t.status = "FAILED"
       \/ ~s.cancel /\ s.tries < MaxAttempts /\ t.status = "WAITING_RETRY"
    /\ t = [s EXCEPT !.status = t.status]

Cancel(s, t) ==
    \/ /\ s.status = "RUNNING" /\ ~s.cancel
       /\ t = [s EXCEPT !.cancel = TRUE]
    \/ /\ s.status \in {"PENDING", "WAITING_RETRY"}
       /\ t = [s EXCEPT !.cancel = TRUE, !.status = "CANCELLED"]

Move(s, t) ==
    Register(s, t) \/ Begin(s, t) \/ Succeed(s, t) \/ Lose(s, t) \/ Cancel(s, t)

\* One run moves, or one recovery ends the expired attempts of several.
Next ==
    /\ runs' \in [Runs -> RunState]
    /\ \/ \E r \in Runs : /\ Move(runs[r], runs'[r])
                          /\ \A q \in Runs \ {r} : runs'[q] = runs[q]
       \/ \A r \in Runs : runs'[r] = runs[r] \/ Lose(runs[r], runs'[r])

Spec == Init /\ [][Next]_runs
=============================================================================
