---------------------------- MODULE ForwardRecord ----------------------------
(* What the forward acquisition promises its readers: for every market event a
   record of revisions that is only ever extended, one whole capture at a time,
   and per feed a coverage that never goes back.  A revision differs from the
   one it supersedes, and is available neither before it nor before the event.  *)
EXTENDS Integers, Sequences

CONSTANTS Events, Feeds

VARIABLES
  record,    \* event -> sequence of revisions [payload, available]
  coverage   \* feed -> time up to which events have been recorded, 0 for none

recordVars == <<record, coverage>>

RecordInit ==
  /\ record = [e \in Events |-> <<>>]
  /\ coverage = [f \in Feeds |-> 0]

\* One more revision of the event at the end of its record.
Revised(e, old, new) ==
  /\ Len(new) = Len(old) + 1
  /\ SubSeq(new, 1, Len(old)) = old
  /\ new[Len(new)].available >= e.time
  /\ old # <<>> =>
       /\ new[Len(new)].payload # old[Len(old)].payload
       /\ new[Len(new)].available >= old[Len(old)].available

\* A capture extends the records it found news for and moves every feed's
\* coverage to the same later or equal time, all at once.
Capture ==
  /\ \A e \in Events : record'[e] = record[e] \/ Revised(e, record[e], record'[e])
  /\ \A f, g \in Feeds : coverage'[f] = coverage'[g] /\ coverage'[f] >= coverage[f]

RecordSpec == RecordInit /\ [][Capture]_recordVars
=============================================================================
