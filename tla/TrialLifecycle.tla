--------------------------- MODULE TrialLifecycle ---------------------------
(***************************************************************************)
(* What the trial ledger and the permit store promise together: a trial    *)
(* is reserved, then admitted or stopped, an admitted trial ends completed *)
(* or failed, and a trial that needs a permit is admitted only with a slot *)
(* of that permit, of which there are never more than it fixes.  Nothing   *)
(* here speaks of calls, databases, clocks or crashes.                     *)
(***************************************************************************)
EXTENDS Naturals, FiniteSets

CONSTANTS Trials,    \* the trials, one for each admission request
          Permits,   \* the permits a founder may issue
          NoPermit,  \* the permit of a trial that needs none
          PermitOf,  \* the permit each trial asks for
          Fixed      \* fixed_trial_budget of each permit

VARIABLES status,    \* the latest status of each trial
          slots      \* the trials that own a slot of their permit

vars == <<status, slots>>

Statuses == {"none", "RESERVED", "ADMITTED", "STOPPED", "COMPLETED", "FAILED"}

SlotsOf(p) == {t \in slots : PermitOf[t] = p}

Init == /\ status = [t \in Trials |-> "none"]
        /\ slots = {}

Move(t, from, to) == /\ status[t] = from
                     /\ status' = [status EXCEPT ![t] = to]
                     /\ UNCHANGED slots

Reserve(t) == Move(t, "none", "RESERVED")

TakeSlot(t) == /\ status[t] = "RESERVED"
               /\ PermitOf[t] \in Permits
               /\ t \notin slots
               /\ Cardinality(SlotsOf(PermitOf[t])) < Fixed[PermitOf[t]]
               /\ slots' = slots \cup {t}
               /\ UNCHANGED status

Admit(t) == /\ PermitOf[t] = NoPermit \/ t \in slots
            /\ Move(t, "RESERVED", "ADMITTED")

Stop(t) == Move(t, "RESERVED", "STOPPED")

Complete(t) == Move(t, "ADMITTED", "COMPLETED")

Fail(t) == Move(t, "ADMITTED", "FAILED")

Next == \E t \in Trials : \/ Reserve(t) \/ TakeSlot(t) \/ Admit(t) \/ Stop(t)
                          \/ Complete(t) \/ Fail(t)

Spec == Init /\ [][Next]_vars
=============================================================================
