------------------------- MODULE QualificationLadder -------------------------
(***************************************************************************)
(* What statistical governance promises about one campaign: all declared   *)
(* hypotheses are measured before one of them is chosen, the choice is     *)
(* made once, the choice climbs the protected stages one at a time, each   *)
(* is opened once, and the first failure ends the campaign.  Nothing here  *)
(* speaks of authorizations, times, transactions or crashes.               *)
(***************************************************************************)
EXTENDS Naturals

CONSTANTS Hypotheses,   \* the hypotheses the program declares
          Height,       \* number of protected stages
          None          \* no hypothesis

VARIABLES active,       \* the program was activated
          measured,     \* the hypotheses with a terminal result
          chosen,       \* the one candidate
          rung,         \* protected stages passed
          open,         \* the next stage was opened and awaits its decision
          verdict       \* "pending", "rejected" or "qualified"

vars == <<active, measured, chosen, rung, open, verdict>>

Init == /\ active = FALSE
        /\ measured = {}
        /\ chosen = None
        /\ rung = 0
        /\ open = FALSE
        /\ verdict = "pending"

Activate == /\ ~ active
            /\ active' = TRUE
            /\ UNCHANGED <<measured, chosen, rung, open, verdict>>

Measure(h) == /\ active
              /\ h \notin measured
              /\ measured' = measured \cup {h}
              /\ UNCHANGED <<active, chosen, rung, open, verdict>>

Undecided == measured = Hypotheses /\ chosen = None /\ verdict = "pending"

Choose(h) == /\ Undecided
             /\ chosen' = h
             /\ UNCHANGED <<active, measured, rung, open, verdict>>

Dismiss == /\ Undecided
           /\ verdict' = "rejected"
           /\ UNCHANGED <<active, measured, chosen, rung, open>>

OpenNext == /\ chosen # None /\ verdict = "pending" /\ ~ open
            /\ open' = TRUE
            /\ UNCHANGED <<active, measured, chosen, rung, verdict>>

Pass == /\ open
        /\ open' = FALSE
        /\ rung' = rung + 1
        /\ verdict' = IF rung' = Height THEN "qualified" ELSE verdict
        /\ UNCHANGED <<active, measured, chosen>>

Fail == /\ open
        /\ open' = FALSE
        /\ verdict' = "rejected"
        /\ UNCHANGED <<active, measured, chosen, rung>>

Next == \/ Activate \/ Dismiss \/ OpenNext \/ Pass \/ Fail
        \/ \E h \in Hypotheses : Measure(h) \/ Choose(h)

Spec == Init /\ [][Next]_vars
=============================================================================
