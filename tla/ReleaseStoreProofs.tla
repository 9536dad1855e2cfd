------------------------- MODULE ReleaseStoreProofs -------------------------
(* Proofs about ReleaseStore, for every set of publishers, records, responses,
   batches and decision times, and every bound.  The inductive invariant is Inv.
   A step touches the catalogue only in InsertRelease, the directories only in
   Rename, and never a whole file: so what verified once verifies for good.     *)
EXTENDS ReleaseStore, NaturalsInduction, WellFoundedInduction, TLAPS

\* Nothing that a release needs is taken away.
Grows ==
  /\ published \subseteq published' /\ catalogue \subseteq catalogue'
  /\ \A o \in Objects : object[o] = "whole" => object'[o] = "whole"

\* Evidence that is whole stays whole.
EvidenceKept == \A i \in Whole : i \in Whole'
-----------------------------------------------------------------------------
(* Releases                                                                    *)

\* A batch on a parent is the parent's lineage with one snapshot more.
LEMMA AppendFacts ==
  ASSUME NEW P \in Seq(SUBSET Records), NEW m \in SUBSET Records
  PROVE  LET r == Append(P, m) IN
         /\ r \in Release /\ Len(r) = Len(P) + 1 /\ Len(P) \in Nat
         /\ Snapshot(r) = m
         /\ Parent(r) = P
         /\ Lineage(r) \ {r} \subseteq Lineage(P)
<1> DEFINE r == Append(P, m)
<1>1. /\ r \in Seq(SUBSET Records) /\ Len(r) = Len(P) + 1 /\ Len(P) \in Nat
      /\ \A i \in 1 .. Len(P) : r[i] = P[i]
      /\ r[Len(P) + 1] = m
  OBVIOUS
<1>2. r # <<>>
  BY <1>1
<1>3. \A n \in 1 .. Len(P) : SubSeq(r, 1, n) = SubSeq(P, 1, n)
  BY <1>1
<1>4. SubSeq(r, 1, Len(P)) = P
  BY <1>1
<1>5. SubSeq(r, 1, Len(r)) = r
  BY <1>1
<1>6. Lineage(r) \ {r} \subseteq Lineage(P)
  BY <1>1, <1>3, <1>5 DEF Lineage
<1> QED
  BY <1>1, <1>2, <1>4, <1>6 DEF Release, NoRelease, Snapshot, Parent

\* Every release is of its own lineage, and its snapshot is a set of records.
LEMMA ReleaseFacts ==
  ASSUME NEW r \in Release
  PROVE  r \in Lineage(r) /\ Snapshot(r) \in SUBSET Records
<1>1. Len(r) \in Nat /\ Len(r) > 0 /\ SubSeq(r, 1, Len(r)) = r
  BY DEF Release, NoRelease
<1>2. r[Len(r)] \in SUBSET Records
  BY <1>1 DEF Release
<1>3. r \in Lineage(r)
  <2>1. Len(r) \in 1 .. Len(r)
    BY <1>1
  <2> QED
    BY <1>1, <2>1 DEF Lineage
<1> QED
  BY <1>2, <1>3 DEF Snapshot

\* The responses that a set of records cites are objects.
LEMMA ObjectsAre ==
  ASSUME ReleaseAssumption, NEW S \in SUBSET Records
  PROVE  ObjectsOf(S) \subseteq Objects
BY DEF ReleaseAssumption, ObjectsOf

\* What verified once verifies for good.
LEMMA VerifiesForGood ==
  ASSUME ReleaseAssumption, TypeOK, Grows, NEW r \in Release, Verifies(r)
  PROVE  Verifies(r)'
<1>1. ASSUME NEW a \in Release, Stored(Snapshot(a)) PROVE Stored(Snapshot(a))'
  <2>1. ObjectsOf(Snapshot(a)) \subseteq Objects
    BY ReleaseFacts, ObjectsAre
  <2> QED
    BY <1>1, <2>1 DEF Stored, Grows
<1>2. \A a \in Lineage(r) \ {r} : a \in catalogue /\ a \in published /\ Stored(Snapshot(a))
  BY DEF Verifies
<1>3. \A a \in Lineage(r) \ {r} : a \in Release
  BY <1>2 DEF TypeOK
<1>4. \A a \in Lineage(r) \ {r} : a \in catalogue' /\ a \in published' /\ Stored(Snapshot(a))'
  BY <1>1, <1>2, <1>3 DEF Grows
<1>5. Stored(Snapshot(r))'
  BY <1>1 DEF Verifies
<1> QED
  BY <1>4, <1>5 DEF Verifies

LEMMA CertifiesForGood ==
  ASSUME ReleaseAssumption, TypeOK, Grows, NEW r \in Release, Certifies(r)
  PROVE  Certifies(r)'
BY VerifiesForGood DEF Certifies, Grows

\* What a publisher is about to name is a release.
LEMMA TargetFacts ==
  ASSUME ReleaseAssumption, TypeOK, NEW p \in Publishers
  PROVE  LET P == job[p].parent IN
         /\ Merged(p) \in SUBSET Records /\ Target(p) \in Release
         /\ Len(Target(p)) = Len(P) + 1 /\ Len(P) \in Nat
         /\ Snapshot(Target(p)) = Merged(p) /\ Parent(Target(p)) = P
         /\ Lineage(Target(p)) \ {Target(p)} \subseteq Lineage(P)
         /\ P # NoRelease => Snapshot(P) \subseteq Merged(p)
<1> DEFINE P == job[p].parent
<1>1. job[p] \in Job
  BY DEF TypeOK
<1>2. P \in Seq(SUBSET Records)
  <2>1. NoRelease \in Seq(SUBSET Records)
    BY DEF NoRelease
  <2>2. P \in Release \cup {NoRelease}
    BY <1>1 DEF Job
  <2> QED
    BY <2>1, <2>2 DEF Release
<1>3. P # NoRelease => Snapshot(P) \in SUBSET Records
  BY <1>2, ReleaseFacts DEF Release
<1>4. job[p].batch.records \in SUBSET Records
  BY <1>1 DEF Job, ReleaseAssumption, NoBatch
<1>5. Merged(p) \in SUBSET Records /\ (P # NoRelease => Snapshot(P) \subseteq Merged(p))
  BY <1>3, <1>4 DEF Merged
<1> QED
  BY <1>2, <1>5, AppendFacts DEF Target

\* What is merged with a catalogued parent verifies when its chains hold and its
\* responses are stored.
LEMMA MergedVerifies ==
  ASSUME ReleaseAssumption, Inv, NEW p \in Publishers, At(p, "objects"), Stored(Merged(p))
  PROVE  /\ Target(p) # NoRelease /\ Verifies(Target(p))
         /\ Len(Target(p)) > 1 => Parent(Target(p)) \in catalogue
<1> DEFINE P == job[p].parent
<1>1. (P = NoRelease \/ P \in catalogue) /\ ValidChains(Merged(p))
  BY DEF Inv, JobStands, ParentCatalogued
<1>2. P # NoRelease => Certifies(P)
  BY <1>1 DEF Inv
<1>3. /\ Target(p) \in Release /\ Len(Target(p)) = Len(P) + 1 /\ Len(P) \in Nat
      /\ Snapshot(Target(p)) = Merged(p) /\ Parent(Target(p)) = P
      /\ Lineage(Target(p)) \ {Target(p)} \subseteq Lineage(P)
      /\ P # NoRelease => Snapshot(P) \subseteq Merged(p)
  BY TargetFacts DEF Inv
<1>4. Len(P) > 0 => P # NoRelease
  BY DEF NoRelease
<1>5. Inherits(Target(p))
  BY <1>3, <1>4 DEF Inherits
<1>6. ASSUME NEW a \in Lineage(P)
      PROVE  /\ a \in catalogue /\ a \in published
             /\ Stored(Snapshot(a)) /\ ValidChains(Snapshot(a)) /\ Inherits(a)
  <2>1. P # NoRelease
    BY <1>6 DEF Lineage, NoRelease
  <2> QED
    BY <1>1, <1>2, <1>6, <2>1 DEF Certifies, Verifies
<1>7. Verifies(Target(p))
  BY <1>1, <1>3, <1>5, <1>6 DEF Verifies
<1> QED
  BY <1>1, <1>3, <1>4, <1>7 DEF Release
-----------------------------------------------------------------------------
(* Types                                                                       *)

LEMMA NoJobTyped == NoJob \in Job
<1>1. NoBatch \in Batches \cup {NoBatch} /\ NoRelease \in Release \cup {NoRelease}
  OBVIOUS
<1> QED
  BY <1>1 DEF NoJob, Job, Reasons

\* What an exception does to the job of its publisher.
LEMMA RaiseFacts ==
  ASSUME TypeOK, NEW p \in Publishers, NEW reason \in Reasons, Raise(p, reason),
         job[p].pc \in Section
  PROVE  /\ job' \in [Publishers -> Job] /\ job'[p].pc = "record"
         /\ \A q \in Publishers \ {p} : job'[q] = job[q]
<1>1. job[p] \in Job
  BY DEF TypeOK
<1>4. [job[p] EXCEPT !.pc = "record", !.cause = <<job[p].pc, reason>>] \in Job
  BY <1>1 DEF Job, Section
<1>5. job' = [job EXCEPT ![p] =
                [job[p] EXCEPT !.pc = "record", !.cause = <<job[p].pc, reason>>]]
  BY DEF Raise
<1>6. job'[p] = [job[p] EXCEPT !.pc = "record", !.cause = <<job[p].pc, reason>>]
  BY <1>5 DEF TypeOK
<1> QED
  BY <1>1, <1>4, <1>5, <1>6 DEF TypeOK, Job

LEMMA GotoFacts ==
  ASSUME TypeOK, NEW p \in Publishers, NEW pc, Goto(p, pc),
         pc \in {"normalize", "rename", "insert", "reread", "index"}
  PROVE  /\ job' \in [Publishers -> Job]
         /\ job'[p] = [job[p] EXCEPT !.pc = pc]
         /\ job'[p].pc = pc
         /\ job'[p].release = job[p].release /\ job'[p].cause = job[p].cause
         /\ \A q \in Publishers \ {p} : job'[q] = job[q]
BY DEF Goto, TypeOK, Job, Section

LEMMA IdentifiedFacts ==
  ASSUME ReleaseAssumption, TypeOK, NEW p \in Publishers, NEW pc, NEW reason \in Reasons,
         Identified(p, pc, reason), pc \in {"record", "stage"}
  PROVE  /\ job' \in [Publishers -> Job]
         /\ job'[p].pc = pc /\ job'[p].release = Target(p)
         /\ \A q \in Publishers \ {p} : job'[q] = job[q]
<1>1. job[p] \in Job /\ Target(p) \in Release
  BY TargetFacts DEF TypeOK
<1>3. [job[p] EXCEPT !.release = Target(p), !.pc = pc, !.cause = <<"objects", reason>>] \in Job
  BY <1>1 DEF Job, Section
<1>4. job' = [job EXCEPT ![p] = [job[p] EXCEPT !.release = Target(p), !.pc = pc,
                                             !.cause = <<"objects", reason>>]]
  BY DEF Identified
<1> QED
  BY <1>1, <1>3, <1>4 DEF TypeOK, Job, Section

LEMMA LeaveFacts ==
  ASSUME TypeOK, NEW p \in Publishers, NEW reply, Leave(p, reply)
  PROVE  /\ job' \in [Publishers -> Job] /\ job'[p] = NoJob
         /\ \A q \in Publishers \ {p} : job'[q] = job[q] /\ answer'[q] = answer[q]
         /\ answer'[p] = reply /\ DOMAIN answer' = Publishers
         /\ lock' \in Publishers \cup {NoOne}
         /\ \A q \in Publishers \ {p} : lock = q => lock' = q
BY NoJobTyped DEF Leave, TypeOK

\* A file that is left half written replaces none.
LEMMA HalfWrittenFacts ==
  ASSUME TypeOK, NEW p \in Publishers, HalfWritten(p)
  PROVE  /\ object' \in [Objects -> {"absent", "torn", "whole"}]
         /\ \A o \in Objects : object[o] = "whole" => object'[o] = "whole"
         /\ \A i \in DOMAIN incidents' : incidents'[i] \in {"torn", "whole"}
         /\ EvidenceKept
BY DEF HalfWritten, Evidence, TypeOK, EvidenceKept, Whole

\* Evidence that is written is whole, and takes nothing else away.
LEMMA EvidenceFacts ==
  ASSUME TypeOK, NEW p \in Publishers, WriteIncident(p)
  PROVE  /\ \A i \in DOMAIN incidents' : incidents'[i] \in {"torn", "whole"}
         /\ EvidenceKept
         /\ Incident(p) \in Whole'
BY DEF WriteIncident, Evidence, TypeOK, EvidenceKept, Whole
-----------------------------------------------------------------------------
(* Steps                                                                       *)

\* A directory and a row may be added, a file written that was not whole.
LEMMA StepGrows ==
  ASSUME TypeOK, NEW p \in Publishers, Call(p) \/ Proceed(p) \/ Fails(p) \/ Die(p)
  PROVE  Grows /\ EvidenceKept
<1>1. CASE Fails(p) \/ NotRecorded(p) \/ Die(p)
  <2>1. HalfWritten(p) \/ UNCHANGED <<object, incidents>>
    BY <1>1 DEF Fails, NotRecorded, Die
  <2>2. UNCHANGED <<published, catalogue>>
    BY <1>1 DEF Fails, NotRecorded, Die
  <2>3. CASE HalfWritten(p)
    BY <2>2, <2>3, HalfWrittenFacts DEF Grows
  <2>4. CASE UNCHANGED <<object, incidents>>
    BY <2>2, <2>4 DEF Grows, EvidenceKept, Whole
  <2> QED
    BY <2>1, <2>3, <2>4
<1>2. CASE WriteIncident(p)
  BY <1>2, EvidenceFacts DEF WriteIncident, storeVars, Grows
<1>3. CASE PersistObject(p)
  BY <1>3 DEF PersistObject, incidentVars, Grows, EvidenceKept, Whole, TypeOK
<1>4. CASE Rename(p) \/ InsertRelease(p)
  BY <1>4 DEF Rename, InsertRelease, incidentVars, Grows, EvidenceKept, Whole
<1>5. CASE UNCHANGED <<storeVars, incidents>>
  BY <1>5 DEF storeVars, Grows, EvidenceKept, Whole
<1>6. \/ Fails(p) \/ NotRecorded(p) \/ Die(p) \/ WriteIncident(p) \/ PersistObject(p)
      \/ Rename(p) \/ InsertRelease(p) \/ UNCHANGED <<storeVars, incidents>>
  BY DEF Proceed, Call, Enter, Busy, Normalize, ObjectInvalid, ReturnExisting, RefuseOrphan,
     RefuseMore, BeginStage, VerifyStage, Return, IndexIncident, incidentVars
<1> QED
  BY <1>1, <1>2, <1>3, <1>4, <1>5, <1>6

\* A publisher that has left, or never was inside, relies on nothing.
LEMMA OutsideStands ==
  ASSUME NEW p \in Publishers, job'[p].pc \in {"idle", "waiting"}
  PROVE  JobStands(p)'
BY DEF JobStands, At, Section

\* Nor does one whose failure is not recorded yet, but for the lock.
LEMMA RecordingStands ==
  ASSUME NEW p \in Publishers, job'[p].pc = "record", lock' = p
  PROVE  JobStands(p)'
BY DEF JobStands, At, Section

\* What another publisher relies on: it has the lock, or nothing.
LEMMA OthersStand ==
  ASSUME ReleaseAssumption, Inv, NEW p \in Publishers, NEW q \in Publishers \ {p},
         job'[q] = job[q], Grows, EvidenceKept,
         job[p].pc \in Section \/ (UNCHANGED catalogue /\ (lock = q => lock' = q))
  PROVE  JobStands(q)'
<1>1. JobStands(p) /\ JobStands(q) /\ TypeOK
  BY DEF Inv
<1>2. CASE job[q].pc \notin Section
  <2>1. job[q].pc \in {"idle", "waiting"}
    BY <1>1, <1>2 DEF TypeOK, Job
  <2> QED
    BY <2>1, OutsideStands
<1>3. CASE job[q].pc \in Section
  <2>1. UNCHANGED catalogue /\ lock' = q
    BY <1>1, <1>3 DEF JobStands
  <2>2. \A r \in Release : Verifies(r) => Verifies(r)'
    BY <1>1, VerifiesForGood
  <2>3. job[q].release # NoRelease => job[q].release \in Release
    BY <1>1 DEF TypeOK, Job
  <2>4. /\ ParentCatalogued(q)' <=> ParentCatalogued(q)
        /\ Merged(q)' = Merged(q) /\ Incident(q)' = Incident(q)
        /\ \A pc : At(q, pc)' <=> At(q, pc)
    BY <2>1 DEF ParentCatalogued, Merged, Incident, At
  <2>5. Incident(q) \in Whole => Incident(q)' \in Whole'
    BY <2>4 DEF EvidenceKept
  <2>6. job[q].release \in published => job'[q].release \in published'
    BY DEF Grows
  <2> QED
    BY <1>1, <2>1, <2>2, <2>3, <2>4, <2>5, <2>6 DEF JobStands
<1> QED
  BY <1>2, <1>3

\* What is left to show of a step of one publisher.
LEMMA Assemble ==
  ASSUME ReleaseAssumption, Inv, NEW p \in Publishers, TypeOK', JobStands(p)',
         Call(p) \/ Proceed(p) \/ Fails(p) \/ Die(p),
         \A q \in Publishers \ {p} : job'[q] = job[q] /\ answer'[q] = answer[q],
         \/ job[p].pc \in Section
         \/ UNCHANGED catalogue /\ \A q \in Publishers \ {p} : lock = q => lock' = q,
         \A r \in catalogue' \ catalogue : Certifies(r)',
         answer'[p].kind = "PUBLISHED" => answer'[p].about \in catalogue',
         answer'[p].kind = "FAILED" => answer'[p].about \in Whole',
         indexed' \subseteq indexed \cup Whole'
  PROVE  Inv'
<1>1. TypeOK /\ AnswersTrue /\ \A r \in catalogue : Certifies(r)
  BY DEF Inv
<1>2. Grows /\ EvidenceKept
  BY <1>1, StepGrows
<1>3. \A q \in Publishers : JobStands(q)'
  <2>1. ASSUME NEW q \in Publishers \ {p} PROVE JobStands(q)'
    <3>1. /\ job'[q] = job[q]
          /\ job[p].pc \in Section \/ (UNCHANGED catalogue /\ (lock = q => lock' = q))
      OBVIOUS
    <3> QED
      BY <1>2, <3>1, OthersStand
  <2> QED
    BY <2>1
<1>4. \A r \in catalogue' : Certifies(r)'
  <2>1. \A r \in catalogue : Certifies(r)'
    BY <1>1, <1>2, CertifiesForGood DEF TypeOK
  <2> QED
    BY <2>1
<1>5. AnswersTrue'
  <2>1. ASSUME NEW q \in Publishers
        PROVE  /\ answer'[q].kind = "PUBLISHED" => answer'[q].about \in catalogue'
               /\ answer'[q].kind = "FAILED" => answer'[q].about \in Whole'
    BY <1>1, <1>2 DEF AnswersTrue, Grows, EvidenceKept
  <2>2. indexed' \subseteq Whole'
    BY <1>1, <1>2 DEF AnswersTrue, EvidenceKept
  <2> QED
    BY <2>1, <2>2 DEF AnswersTrue
<1> QED
  BY <1>3, <1>4, <1>5 DEF Inv

LEMMA EnteringKeepsInv ==
  ASSUME ReleaseAssumption, Inv, NEW p \in Publishers, Call(p) \/ Enter(p)
  PROVE  Inv'
<1>1. TypeOK /\ AnswersTrue
  BY DEF Inv
<1>2. CASE Call(p)
  <2>1. PICK b \in Batches, parent \in published \cup {NoRelease} :
          job' = [job EXCEPT ![p] =
                    [NoJob EXCEPT !.pc = "waiting", !.batch = b, !.parent = parent]]
    BY <1>2 DEF Call
  <2>2. [NoJob EXCEPT !.pc = "waiting", !.batch = b, !.parent = parent] \in Job
    BY <1>1, NoJobTyped DEF TypeOK, Job
  <2>3. /\ job' \in [Publishers -> Job] /\ job'[p].pc = "waiting"
        /\ \A q \in Publishers \ {p} : job'[q] = job[q]
    BY <1>1, <2>1, <2>2 DEF TypeOK, NoJob
  <2>4. calls' \in 0 .. MaxCalls
    <3>1. calls < MaxCalls /\ calls' = calls + 1
      BY <1>2 DEF Call
    <3>2. calls \in 0 .. MaxCalls /\ MaxCalls \in Nat
      BY <1>1 DEF TypeOK, ReleaseAssumption
    <3> QED
      BY <3>1, <3>2
  <2>5. UNCHANGED <<lock, object, published, catalogue, incidents, indexed, faults, answer>>
    BY <1>2 DEF Call, storeVars, incidentVars
  <2>6. TypeOK'
    BY <1>1, <2>3, <2>4, <2>5 DEF TypeOK
  <2>7. JobStands(p)'
    BY <2>3, OutsideStands
  <2>8. Whole' = Whole
    BY <2>5 DEF Whole
  <2> QED
    BY <1>1, <1>2, <2>3, <2>5, <2>6, <2>7, <2>8, Assemble DEF AnswersTrue
<1>3. CASE Enter(p)
  <2>1. UNCHANGED <<object, published, catalogue, incidents, indexed, calls, faults, answer>>
        /\ lock = NoOne /\ lock' = p
    BY <1>3 DEF Enter, storeVars, incidentVars
  <2>2. /\ job' \in [Publishers -> Job] /\ job'[p].pc = "normalize"
        /\ \A q \in Publishers \ {p} : job'[q] = job[q]
    BY <1>1, <1>3, GotoFacts DEF Enter
  <2>3. TypeOK'
    BY <1>1, <2>1, <2>2 DEF TypeOK
  <2>4. JobStands(p)'
    BY <2>1, <2>2 DEF JobStands, At, Section
  <2>5. Whole' = Whole
    BY <2>1 DEF Whole
  <2>6. \A q \in Publishers : lock # q
    BY <2>1 DEF ReleaseAssumption
  <2> QED
    BY <1>1, <1>3, <2>1, <2>2, <2>3, <2>4, <2>5, <2>6, Assemble DEF AnswersTrue, Proceed
<1> QED
  BY <1>2, <1>3

\* Every way out of the section, told or not.
LEMMA LeavingKeepsInv ==
  ASSUME ReleaseAssumption, Inv, NEW p \in Publishers,
         Busy(p) \/ ReturnExisting(p) \/ Return(p) \/ NotRecorded(p) \/ IndexIncident(p) \/ Die(p)
  PROVE  Inv'
<1>1. TypeOK /\ AnswersTrue /\ JobStands(p)
  BY DEF Inv
<1>2. PICK reply : Leave(p, reply)
  BY DEF Busy, ReturnExisting, Return, NotRecorded, IndexIncident, Die
<1>3. /\ job' \in [Publishers -> Job] /\ job'[p] = NoJob
      /\ \A q \in Publishers \ {p} : job'[q] = job[q] /\ answer'[q] = answer[q]
      /\ DOMAIN answer' = Publishers /\ lock' \in Publishers \cup {NoOne}
      /\ \A q \in Publishers \ {p} : lock = q => lock' = q
  BY <1>1, <1>2, LeaveFacts
<1>4. UNCHANGED <<published, catalogue, calls>>
  BY DEF Busy, ReturnExisting, Return, NotRecorded, IndexIncident, Die, storeVars
<1>5. faults' \in 0 .. MaxFaults
  BY <1>1 DEF Busy, ReturnExisting, Return, NotRecorded, IndexIncident, Die, Fault, TypeOK,
     ReleaseAssumption
<1>6. HalfWritten(p) \/ UNCHANGED <<object, incidents>>
  BY DEF Busy, ReturnExisting, Return, NotRecorded, IndexIncident, Die, storeVars, incidentVars
<1>7. /\ object' \in [Objects -> {"absent", "torn", "whole"}]
      /\ \A i \in DOMAIN incidents' : incidents'[i] \in {"torn", "whole"}
      /\ EvidenceKept
  <2>1. CASE HalfWritten(p)
    BY <1>1, <2>1, HalfWrittenFacts
  <2>2. CASE UNCHANGED <<object, incidents>>
    BY <1>1, <2>2 DEF TypeOK, EvidenceKept, Whole
  <2> QED
    BY <1>6, <2>1, <2>2
<1>8. TypeOK'
  BY <1>1, <1>3, <1>4, <1>5, <1>7 DEF TypeOK
<1>9. JobStands(p)'
  BY <1>3, OutsideStands DEF NoJob
<1>10. /\ answer'[p].kind = "PUBLISHED" => answer'[p].about \in catalogue'
       /\ answer'[p].kind = "FAILED" => answer'[p].about \in Whole'
       /\ indexed' \subseteq indexed \cup Whole'
  <2>1. CASE Busy(p)
    BY <1>1, <2>1, LeaveFacts DEF Busy, Answer, incidentVars
  <2>2. CASE ReturnExisting(p)
    BY <1>1, <1>4, <2>2, LeaveFacts DEF ReturnExisting, Answer, incidentVars
  <2>3. CASE Return(p)
    BY <1>1, <1>4, <2>3, LeaveFacts DEF Return, Answer, incidentVars, JobStands
  <2>4. CASE NotRecorded(p)
    BY <1>1, <2>4, LeaveFacts DEF NotRecorded, Answer
  <2>5. CASE IndexIncident(p)
    BY <1>1, <1>7, <2>5, LeaveFacts DEF IndexIncident, Answer, JobStands, EvidenceKept
  <2>6. CASE Die(p)
    BY <1>1, <2>6, LeaveFacts DEF Die, Answer
  <2> QED
    BY <2>1, <2>2, <2>3, <2>4, <2>5, <2>6
<1> QED
  BY <1>3, <1>4, <1>8, <1>9, <1>10, Assemble DEF Proceed

\* Every step inside the section that changes no more than the files, and leaves
\* what was told and what was indexed alone.
LEMMA InsideKeepsInv ==
  ASSUME ReleaseAssumption, Inv, NEW p \in Publishers, Proceed(p) \/ Fails(p),
         job[p].pc \in Section, job' \in [Publishers -> Job],
         \A q \in Publishers \ {p} : job'[q] = job[q],
         object' \in [Objects -> {"absent", "torn", "whole"}],
         published' \subseteq Release, catalogue' \subseteq Release,
         \A i \in DOMAIN incidents' : incidents'[i] \in {"torn", "whole"},
         faults' \in 0 .. MaxFaults, UNCHANGED <<lock, indexed, calls, answer>>,
         \A r \in catalogue' \ catalogue : Certifies(r)',
         JobStands(p)'
  PROVE  Inv'
<1>1. TypeOK /\ AnswersTrue
  BY DEF Inv
<1>2. TypeOK'
  BY <1>1 DEF TypeOK
<1>3. Grows /\ EvidenceKept
  BY <1>1, StepGrows
<1>4. /\ answer'[p].kind = "PUBLISHED" => answer'[p].about \in catalogue'
      /\ answer'[p].kind = "FAILED" => answer'[p].about \in Whole'
  BY <1>1, <1>3 DEF AnswersTrue, Grows, EvidenceKept
<1> QED
  BY <1>2, <1>4, Assemble

\* The lock is that of the publisher that is inside.
LEMMA InsideHolds ==
  ASSUME Inv, NEW p \in Publishers, job[p].pc \in Section
  PROVE  lock = p
BY DEF Inv, JobStands

\* Every exception, that of a fault among them.
LEMMA RaisingKeepsInv ==
  ASSUME ReleaseAssumption, Inv, NEW p \in Publishers, Proceed(p) \/ Fails(p),
         job[p].pc \in Section, NEW reason \in Reasons, Raise(p, reason),
         HalfWritten(p) \/ UNCHANGED <<object, incidents>>,
         faults' \in 0 .. MaxFaults,
         UNCHANGED <<lock, published, catalogue, indexed, calls, answer>>
  PROVE  Inv'
<1>1. TypeOK /\ lock = p
  BY InsideHolds DEF Inv
<1>2. /\ job' \in [Publishers -> Job] /\ job'[p].pc = "record"
      /\ \A q \in Publishers \ {p} : job'[q] = job[q]
  BY <1>1, RaiseFacts
<1>3. JobStands(p)'
  BY <1>1, <1>2, RecordingStands
<1>4. /\ object' \in [Objects -> {"absent", "torn", "whole"}]
      /\ \A i \in DOMAIN incidents' : incidents'[i] \in {"torn", "whole"}
  <2>1. CASE HalfWritten(p)
    BY <1>1, <2>1, HalfWrittenFacts
  <2>2. CASE UNCHANGED <<object, incidents>>
    BY <1>1, <2>2 DEF TypeOK
  <2> QED
    BY <2>1, <2>2
<1>5. published' \subseteq Release /\ catalogue' \subseteq Release
  BY <1>1 DEF TypeOK
<1> QED
  BY <1>2, <1>3, <1>4, <1>5, InsideKeepsInv

LEMMA FailsKeepsInv ==
  ASSUME ReleaseAssumption, Inv, NEW p \in Publishers, Fails(p)
  PROVE  Inv'
<1>1. job[p].pc \in Section /\ "FAILURE" \in Reasons
  BY DEF Fails, Section, Reasons
<1>2. faults' \in 0 .. MaxFaults
  BY DEF Fails, Fault, Inv, TypeOK, ReleaseAssumption
<1> QED
  BY <1>1, <1>2, RaisingKeepsInv DEF Fails

LEMMA NormalizeKeepsInv ==
  ASSUME ReleaseAssumption, Inv, NEW p \in Publishers, Normalize(p)
  PROVE  Inv'
<1>1. /\ TypeOK /\ job[p].pc = "normalize" /\ job[p].pc \in Section
      /\ UNCHANGED <<lock, object, published, catalogue, incidents, indexed, calls, faults, answer>>
  BY DEF Inv, Normalize, At, Section, storeVars, incidentVars
<1>2. faults' \in 0 .. MaxFaults
  BY <1>1 DEF TypeOK
<1>3. CASE \E reason \in Reasons : Raise(p, reason)
  BY <1>1, <1>2, <1>3, RaisingKeepsInv DEF Proceed
<1>4. CASE /\ ParentCatalogued(p) /\ ValidChains(Merged(p))
           /\ job' = [job EXCEPT ![p].pc = "objects", ![p].todo = job[p].batch.raw]
  <2>1. job[p] \in Job /\ job[p].batch.raw \in SUBSET Objects
    BY <1>1 DEF TypeOK, Job, NoBatch, ReleaseAssumption
  <2>2. [job[p] EXCEPT !.pc = "objects", !.todo = job[p].batch.raw] \in Job
    BY <2>1 DEF Job, Section
  <2>3. job' = [job EXCEPT ![p] = [job[p] EXCEPT !.pc = "objects", !.todo = job[p].batch.raw]]
    BY <1>4
  <2>4. /\ job' \in [Publishers -> Job] /\ job'[p].pc = "objects"
        /\ job'[p].parent = job[p].parent /\ job'[p].batch = job[p].batch
        /\ \A q \in Publishers \ {p} : job'[q] = job[q]
    BY <1>1, <2>1, <2>2, <2>3 DEF TypeOK, Job
  <2>5. ParentCatalogued(p)' /\ Merged(p)' = Merged(p) /\ lock' = p
    BY <1>1, <1>4, <2>4, InsideHolds DEF ParentCatalogued, Merged
  <2>6. JobStands(p)'
    BY <1>4, <2>4, <2>5 DEF JobStands, At
  <2> QED
    BY <1>1, <1>2, <2>4, <2>6, InsideKeepsInv DEF TypeOK, Proceed
<1> QED
  BY <1>3, <1>4 DEF Normalize, Reasons

LEMMA PersistObjectKeepsInv ==
  ASSUME ReleaseAssumption, Inv, NEW p \in Publishers, PersistObject(p)
  PROVE  Inv'
<1>1. /\ TypeOK /\ job[p].pc = "objects" /\ job[p].pc \in Section
      /\ UNCHANGED <<lock, published, catalogue, incidents, indexed, calls, faults, answer>>
  BY DEF Inv, PersistObject, At, Section, incidentVars
<1>2. faults' \in 0 .. MaxFaults
  BY <1>1 DEF TypeOK
<1>3. PICK o \in job[p].todo :
        \/ Raise(p, "RAW_OBJECT_CONFLICT") /\ UNCHANGED object
        \/ /\ object' = [object EXCEPT ![o] = "whole"]
           /\ job' = [job EXCEPT ![p].todo = @ \ {o}]
  BY DEF PersistObject
<1>4. CASE Raise(p, "RAW_OBJECT_CONFLICT") /\ UNCHANGED object
  <2>1. "RAW_OBJECT_CONFLICT" \in Reasons
    BY DEF Reasons
  <2> QED
    BY <1>1, <1>2, <1>4, <2>1, RaisingKeepsInv DEF Proceed
<1>5. CASE /\ object' = [object EXCEPT ![o] = "whole"]
           /\ job' = [job EXCEPT ![p].todo = @ \ {o}]
  <2>1. job[p] \in Job
    BY <1>1 DEF TypeOK
  <2>2. [job[p] EXCEPT !.todo = @ \ {o}] \in Job
    BY <2>1 DEF Job
  <2>3. job' = [job EXCEPT ![p] = [job[p] EXCEPT !.todo = @ \ {o}]]
    BY <1>5
  <2>4. /\ job' \in [Publishers -> Job] /\ job'[p].pc = "objects"
        /\ job'[p].parent = job[p].parent /\ job'[p].batch = job[p].batch
        /\ \A q \in Publishers \ {p} : job'[q] = job[q]
    BY <1>1, <2>1, <2>2, <2>3 DEF TypeOK, Job
  <2>5. /\ ParentCatalogued(p) /\ ValidChains(Merged(p))
        /\ (ParentCatalogued(p)' <=> ParentCatalogued(p)) /\ Merged(p)' = Merged(p) /\ lock' = p
    BY <1>1, <2>4, InsideHolds DEF Inv, JobStands, At, ParentCatalogued, Merged
  <2>6. JobStands(p)'
    BY <2>4, <2>5 DEF JobStands, At
  <2> QED
    BY <1>1, <1>2, <1>5, <2>4, <2>6, InsideKeepsInv DEF TypeOK, Proceed
<1> QED
  BY <1>3, <1>4, <1>5

\* The name of the release becomes known: it may be refused, or a stage be begun.
LEMMA IdentifyingKeepsInv ==
  ASSUME ReleaseAssumption, Inv, NEW p \in Publishers,
         ObjectInvalid(p) \/ RefuseOrphan(p) \/ RefuseMore(p) \/ BeginStage(p)
  PROVE  Inv'
<1>1. /\ TypeOK /\ job[p].pc = "objects" /\ job[p].pc \in Section
      /\ UNCHANGED <<lock, object, published, catalogue, incidents, indexed, calls, faults, answer>>
  BY DEF Inv, ObjectInvalid, RefuseOrphan, RefuseMore, BeginStage, ReadyToIdentify, At, Section,
     storeVars, incidentVars
<1>2. faults' \in 0 .. MaxFaults
  BY <1>1 DEF TypeOK
<1>3. CASE ObjectInvalid(p)
  <2>1. "RAW_OBJECT_HASH_MISMATCH" \in Reasons /\ Raise(p, "RAW_OBJECT_HASH_MISMATCH")
    BY <1>3 DEF Reasons, ObjectInvalid
  <2> QED
    BY <1>1, <1>2, <1>3, <2>1, RaisingKeepsInv DEF Proceed
<1>4. CASE RefuseOrphan(p) \/ RefuseMore(p)
  <2>1. \E reason \in Reasons : Identified(p, "record", reason)
    BY <1>4 DEF RefuseOrphan, RefuseMore, Reasons
  <2>2. /\ job' \in [Publishers -> Job] /\ job'[p].pc = "record"
        /\ \A q \in Publishers \ {p} : job'[q] = job[q]
    BY <1>1, <2>1, IdentifiedFacts
  <2>3. JobStands(p)'
    BY <1>1, <2>2, InsideHolds, RecordingStands
  <2> QED
    BY <1>1, <1>2, <1>4, <2>2, <2>3, InsideKeepsInv DEF TypeOK, Proceed
<1>5. CASE BeginStage(p)
  <2>1. Identified(p, "stage", "NONE") /\ "NONE" \in Reasons
    BY <1>5 DEF BeginStage, Reasons
  <2>2. PICK r : r = Target(p)
    OBVIOUS
  <2>3. /\ job' \in [Publishers -> Job] /\ job'[p].pc = "stage" /\ job'[p].release = r
        /\ \A q \in Publishers \ {p} : job'[q] = job[q]
    BY <1>1, <2>1, <2>2, IdentifiedFacts
  <2>4. /\ r # NoRelease /\ Verifies(r) /\ r \in Release
        /\ Len(r) > 1 => Parent(r) \in catalogue
    BY <1>1, <1>5, <2>2, MergedVerifies, TargetFacts DEF BeginStage, ReadyToIdentify
  <2>5. Verifies(r)'
    <3>1. Grows
      BY <1>1, <1>5, StepGrows DEF Proceed
    <3> QED
      BY <1>1, <2>4, <3>1, VerifiesForGood
  <2>6. Cardinality(catalogue') < MaxReleases /\ lock' = p
    BY <1>1, <1>5, InsideHolds DEF BeginStage
  <2>7. JobStands(p)'
    BY <1>1, <2>3, <2>4, <2>5, <2>6 DEF JobStands, At
  <2> QED
    BY <1>1, <1>2, <1>5, <2>3, <2>7, InsideKeepsInv DEF TypeOK, Proceed
<1> QED
  BY <1>3, <1>4, <1>5

\* The stage verifies, takes its place among the releases and is catalogued.
LEMMA PublishingKeepsInv ==
  ASSUME ReleaseAssumption, Inv, NEW p \in Publishers,
         VerifyStage(p) \/ Rename(p) \/ InsertRelease(p)
  PROVE  Inv'
<1>1. PICK r : r = job[p].release
  OBVIOUS
<1>2. /\ TypeOK /\ job[p].pc \in {"stage", "rename", "insert"} /\ job[p].pc \in Section
      /\ UNCHANGED <<lock, object, incidents, indexed, calls, faults, answer>>
  BY DEF Inv, VerifyStage, Rename, InsertRelease, At, Section, storeVars, incidentVars
<1>3. /\ r \in Release /\ Verifies(r) /\ Cardinality(catalogue) < MaxReleases
      /\ Len(r) > 1 => Parent(r) \in catalogue
      /\ job[p].pc = "insert" => r \in published
  <2>1. JobStands(p) /\ job[p] \in Job
    BY <1>2 DEF Inv, TypeOK
  <2> QED
    BY <1>1, <1>2, <2>1 DEF JobStands, Job, At
<1>4. PICK pc \in {"rename", "insert", "reread"} : Goto(p, pc) /\
        \/ pc = "rename" /\ UNCHANGED <<published, catalogue>>
        \/ pc = "insert" /\ published' = published \cup {r} /\ UNCHANGED catalogue
        \/ pc = "reread" /\ catalogue' = catalogue \cup {r} /\ UNCHANGED published /\ r \in published
  BY <1>1, <1>3 DEF VerifyStage, Rename, InsertRelease, At, storeVars
<1>5. /\ job' \in [Publishers -> Job] /\ job'[p].pc = pc /\ job'[p].release = r
      /\ \A q \in Publishers \ {p} : job'[q] = job[q]
  BY <1>1, <1>2, <1>4, GotoFacts
<1>6. Verifies(r)'
  <2>1. Grows
    BY <1>2, StepGrows DEF Proceed
  <2> QED
    BY <1>2, <1>3, <2>1, VerifiesForGood
<1>7. lock' = p
  BY <1>2, InsideHolds
<1>8. \A x \in catalogue' \ catalogue : Certifies(x)'
  BY <1>4, <1>6 DEF Certifies
<1>9. JobStands(p)'
  BY <1>3, <1>4, <1>5, <1>6, <1>7 DEF JobStands, At, Release
<1>10. faults' \in 0 .. MaxFaults /\ published' \subseteq Release /\ catalogue' \subseteq Release
  BY <1>2, <1>3, <1>4 DEF TypeOK
<1> QED
  BY <1>2, <1>5, <1>8, <1>9, <1>10, InsideKeepsInv DEF TypeOK, Proceed

LEMMA WriteIncidentKeepsInv ==
  ASSUME ReleaseAssumption, Inv, NEW p \in Publishers, WriteIncident(p)
  PROVE  Inv'
<1>1. /\ TypeOK /\ job[p].pc = "record" /\ job[p].pc \in Section /\ Goto(p, "index")
      /\ UNCHANGED <<lock, object, published, catalogue, indexed, calls, faults, answer>>
  BY DEF Inv, WriteIncident, At, Section, storeVars
<1>2. /\ job' \in [Publishers -> Job] /\ job'[p].pc = "index"
      /\ job'[p].release = job[p].release /\ job'[p].cause = job[p].cause
      /\ \A q \in Publishers \ {p} : job'[q] = job[q]
  BY <1>1, GotoFacts
<1>3. Incident(p)' \in Whole'
  BY <1>1, <1>2, EvidenceFacts DEF Incident
<1>4. JobStands(p)'
  BY <1>1, <1>2, <1>3, InsideHolds DEF JobStands, At
<1>5. \A i \in DOMAIN incidents' : incidents'[i] \in {"torn", "whole"}
  BY <1>1, EvidenceFacts
<1> QED
  BY <1>1, <1>2, <1>4, <1>5, InsideKeepsInv DEF TypeOK, Proceed
-----------------------------------------------------------------------------
(* Results                                                                     *)

LEMMA InitHasInv ==
  ASSUME ReleaseAssumption, Init
  PROVE  Inv
<1>1. TypeOK
  BY NoJobTyped DEF Init, TypeOK, ReleaseAssumption
<1>2. \A p \in Publishers : job[p].pc = "idle" /\ answer[p].kind = "NONE"
  BY DEF Init, NoJob, Answer
<1>3. \A p \in Publishers : JobStands(p)
  BY <1>2 DEF JobStands, At, Section
<1> QED
  BY <1>1, <1>2, <1>3 DEF Init, Inv, AnswersTrue

LEMMA StepKeepsInv ==
  ASSUME ReleaseAssumption, Inv, [Next]_vars
  PROVE  Inv'
<1>1. ASSUME NEW p \in Publishers, Call(p) \/ Proceed(p) \/ Fails(p) \/ Die(p)
      PROVE  Inv'
  BY <1>1, EnteringKeepsInv, LeavingKeepsInv, FailsKeepsInv, NormalizeKeepsInv,
     PersistObjectKeepsInv, IdentifyingKeepsInv, PublishingKeepsInv, WriteIncidentKeepsInv
     DEF Proceed
<1>2. CASE UNCHANGED vars
  <2>1. UNCHANGED <<lock, object, published, catalogue, incidents, indexed, calls, faults, job, answer>>
    BY <1>2 DEF vars, storeVars, incidentVars
  <2>2. TypeOK' /\ AnswersTrue'
    BY <2>1 DEF Inv, TypeOK, AnswersTrue, Whole
  <2>3. \A r : (Verifies(r)' <=> Verifies(r)) /\ (Certifies(r)' <=> Certifies(r))
    BY <2>1 DEF Certifies, Verifies, Stored
  <2>4. \A p \in Publishers : JobStands(p)' <=> JobStands(p)
    BY <2>1, <2>3 DEF JobStands, At, ParentCatalogued, Merged, Incident, Whole
  <2> QED
    BY <2>1, <2>2, <2>3, <2>4 DEF Inv
<1> QED
  BY <1>1, <1>2 DEF Next

\* In every reachable state the types hold, every publisher may rely on what it
\* checked, and all that is catalogued would be certified again.
THEOREM Soundness == Spec => []Inv
<1>1. Init => Inv
  BY ReleaseAssumption, InitHasInv
<1>2. Inv /\ [Next]_vars => Inv'
  BY ReleaseAssumption, StepKeepsInv
<1> QED
  BY <1>1, <1>2, PTL DEF Spec

\* Whatever fails or dies on the way, a release a resolver can find is all there,
\* with its lineage and the very bytes of every response it cites.
THEOREM CatalogueSafety == Spec => []CataloguedCertifies
<1>1. Inv => CataloguedCertifies
  BY DEF Inv, CataloguedCertifies, Certifies, Verifies, Stored
<1> QED
  BY <1>1, Soundness, PTL

\* A release a publisher was given is found; a failure it was told of left whole
\* evidence; and no row names evidence that is not whole.
THEOREM AnswersSafety == Spec => []AnswersTrue
<1>1. Inv => AnswersTrue
  BY DEF Inv
<1> QED
  BY <1>1, Soundness, PTL

\* No verification on the way ever fails: what the catalogue holds certifies, the
\* stage verifies, there is room for it, and the row just written is read back.
THEOREM ChecksNeverFail == Spec => []ChecksPass
<1>1. Inv => ChecksPass
  <2>1. ASSUME Inv, NEW p \in Publishers PROVE Checked(p)
    <3>1. JobStands(p) /\ \A x \in catalogue : Certifies(x)
      BY <2>1 DEF Inv
    <3> QED
      BY <3>1 DEF Checked, JobStands, At, Certifies
  <2> QED
    BY <2>1 DEF ChecksPass
<1> QED
  BY <1>1, Soundness, PTL

\* A directory that no publisher is about to catalogue stays as it is: nothing
\* ever catalogues it.
LEMMA StepKeepsOrphans ==
  ASSUME Inv, [Next]_vars
  PROVE  Orphans \subseteq Orphans'
<1>1. TypeOK /\ \A p \in Publishers : JobStands(p)
  BY DEF Inv
<1>2. ASSUME NEW p \in Publishers, Call(p) \/ Proceed(p) \/ Fails(p) \/ Die(p),
             NEW r \in Orphans
      PROVE  r \in Orphans'
  <2>1. r \in published /\ r \notin catalogue /\ (job[p].release = r => job[p].pc # "insert")
    BY <1>2 DEF Orphans, At
  <2>2. r \in published'
    BY <1>1, <1>2, <2>1, StepGrows DEF Grows
  <2>3. r \notin catalogue'
    BY <1>2, <2>1 DEF Call, Proceed, Enter, Busy, Normalize, PersistObject, ObjectInvalid,
       ReturnExisting, RefuseOrphan, RefuseMore, BeginStage, VerifyStage, Rename, InsertRelease,
       Return, WriteIncident, NotRecorded, IndexIncident, Fails, Die, At, storeVars
  <2>4. \A q \in Publishers \ {p} : job'[q] = job[q]
    BY <1>1, <1>2 DEF Call, Proceed, Enter, Busy, Normalize, PersistObject, ObjectInvalid,
       ReturnExisting, RefuseOrphan, RefuseMore, BeginStage, VerifyStage, Rename, InsertRelease,
       Return, WriteIncident, NotRecorded, IndexIncident, Fails, Die, TypeOK, Raise, Goto,
       Leave, Identified
  <2>5. job'[p].pc = "insert" => Rename(p)
    <3>1. CASE Rename(p)
      BY <3>1
    <3>2. CASE Call(p)
      BY <1>1, <3>2 DEF Call, TypeOK, NoJob
    <3>3. CASE Enter(p) \/ VerifyStage(p) \/ InsertRelease(p) \/ WriteIncident(p)
      <4>1. PICK pc \in {"normalize", "rename", "reread", "index"} : Goto(p, pc)
        BY <3>3 DEF Enter, VerifyStage, InsertRelease, WriteIncident
      <4> QED
        BY <1>1, <4>1, GotoFacts
    <3>4. CASE Busy(p) \/ ReturnExisting(p) \/ Return(p) \/ NotRecorded(p) \/ IndexIncident(p) \/ Die(p)
      <4>1. job'[p] = NoJob
        BY <1>1, <3>4, LeaveFacts DEF Busy, ReturnExisting, Return, NotRecorded, IndexIncident, Die
      <4> QED
        BY <4>1 DEF NoJob
    <3>5. CASE Normalize(p) \/ PersistObject(p) \/ ObjectInvalid(p) \/ Fails(p)
      BY <1>1, <3>5 DEF Normalize, PersistObject, ObjectInvalid, Fails, Raise, TypeOK, Job, At
    <3>6. CASE RefuseOrphan(p) \/ RefuseMore(p) \/ BeginStage(p)
      BY <1>1, <3>6 DEF RefuseOrphan, RefuseMore, BeginStage, Identified, TypeOK, Job
    <3> QED
      BY <1>2, <3>1, <3>2, <3>3, <3>4, <3>5, <3>6 DEF Proceed
  <2>6. CASE Rename(p)
    <3>1. job[p].release # r /\ job'[p].release = job[p].release
      BY <1>1, <2>1, <2>6, GotoFacts DEF Rename
    <3> QED
      BY <1>2, <2>2, <2>3, <2>4, <3>1 DEF Orphans, At
  <2>7. CASE ~Rename(p)
    BY <1>2, <2>2, <2>3, <2>4, <2>5, <2>7 DEF Orphans, At
  <2> QED
    BY <2>6, <2>7
<1>3. CASE UNCHANGED vars
  BY <1>3 DEF vars, storeVars, Orphans, At
<1> QED
  BY <1>2, <1>3 DEF Next

\* An orphan is one for good, whatever is published, fails or dies after it.
THEOREM OrphanSafety == Spec => OrphanStays
<1>1. Inv /\ [Next]_vars => [Orphans \subseteq Orphans']_vars
  BY StepKeepsOrphans
<1> QED
  BY <1>1, Soundness, PTL DEF Spec, OrphanStays
-----------------------------------------------------------------------------
(* The archive of releases                                                     *)

LEMMA HasLeast ==
  ASSUME NEW T, T \subseteq Nat, T # {}
  PROVE  \E x \in T : \A y \in T : x <= y
<1>1. IsWellFoundedOn(OpToRel(<, Nat), Nat)
  BY NatLessThanWellFounded, Zenon
<1>2. PICK x \in T : \A y \in T : <<y, x>> \notin OpToRel(<, Nat)
  BY <1>1, WFMin, Zenon
<1>3. \A a, b \in Nat : a < b => <<a, b>> \in OpToRel(<, Nat)
  BY DEF OpToRel
<1>4. \A y \in T : ~(y < x)
  BY <1>2, <1>3
<1> QED
  BY <1>4

\* A version that is available has every earlier version available before it.
LEMMA EarlierAvailable ==
  ASSUME ReleaseAssumption, NEW S \in SUBSET Records, ValidChains(S), NEW t \in Int,
         NEW y \in Archive!Visible(S, t), NEW n \in Nat, n <= Fact[y].revision
  PROVE  \E z \in Archive!Visible(S, t) :
           Fact[z].logical = Fact[y].logical /\ Fact[z].revision = n
<1> DEFINE V == Archive!Visible(S, t)
           T == {k \in Nat : k >= n /\ \E z \in V :
                   Fact[z].logical = Fact[y].logical /\ Fact[z].revision = k}
<1>1. \A z \in V : z \in S /\ Fact[z].revision \in Nat /\ Fact[z].known /\ Fact[z].available <= t
                   /\ Fact[z].available \in Int
  BY DEF Archive!Visible, ReleaseAssumption
<1>2. T # {}
  <2>1. Fact[y].revision \in T
    BY <1>1
  <2> QED
    BY <2>1
<1>3. PICK k \in T : \A j \in T : k <= j
  <2>1. T \subseteq Nat
    OBVIOUS
  <2> HIDE DEF T
  <2> QED
    BY <1>2, <2>1, HasLeast
<1>4. PICK z \in V : Fact[z].logical = Fact[y].logical /\ Fact[z].revision = k
  BY <1>3
<1>5. CASE k > n
  <2>1. k # 0
    BY <1>5
  <2>2. PICK w \in S : Follows(z, w)
    BY <1>1, <1>4, <2>1 DEF ValidChains
  <2>3. w \in V
    <3>1. w \in Records /\ Fact[w].available \in Int /\ Fact[w].known \in BOOLEAN
      BY DEF ReleaseAssumption
    <3>2. Fact[w].known /\ Fact[w].available <= Fact[z].available
      BY <1>1, <2>2, <3>1 DEF Follows
    <3>3. Fact[z].available <= t /\ Fact[z].available \in Int
      BY <1>1
    <3> QED
      BY <3>1, <3>2, <3>3 DEF Archive!Visible
  <2>4. Fact[w].logical = Fact[y].logical /\ k = Fact[w].revision + 1 /\ Fact[w].revision \in Nat
    BY <1>1, <1>4, <2>2, <2>3 DEF Follows
  <2>5. Fact[w].revision \in T
    BY <1>5, <2>3, <2>4
  <2> QED
    BY <1>3, <2>4, <2>5
<1>6. k >= n /\ k \in Nat
  BY <1>3
<1>7. CASE k = n
  BY <1>4, <1>7
<1> QED
  BY <1>5, <1>6, <1>7

\* Of two available versions the earlier one is superseded by an available one.
LEMMA EarlierSuperseded ==
  ASSUME ReleaseAssumption, NEW S \in SUBSET Records, ValidChains(S), NEW t \in Int,
         NEW x \in Archive!Visible(S, t), NEW y \in Archive!Visible(S, t),
         Fact[x].logical = Fact[y].logical, Fact[x].revision < Fact[y].revision
  PROVE  \E z \in Archive!Visible(S, t) : Fact[z].supersedes = x
<1>1. x \in S /\ y \in S /\ Fact[x].revision \in Nat /\ Fact[y].revision \in Nat
  BY DEF Archive!Visible, ReleaseAssumption
<1>2. PICK z \in Archive!Visible(S, t) :
        Fact[z].logical = Fact[y].logical /\ Fact[z].revision = Fact[x].revision + 1
  <2>1. Fact[x].revision + 1 \in Nat /\ Fact[x].revision + 1 <= Fact[y].revision
    BY <1>1
  <2> QED
    BY <2>1, EarlierAvailable
<1>3. z \in S /\ Fact[z].revision # 0
  BY <1>1, <1>2 DEF Archive!Visible
<1>4. PICK w \in S : Follows(z, w)
  BY <1>3 DEF ValidChains
<1>5. Fact[w].revision \in Nat /\ Fact[w].revision = Fact[x].revision
  BY <1>1, <1>2, <1>4 DEF Follows, ReleaseAssumption
<1>6. w = x
  BY <1>1, <1>2, <1>4, <1>5 DEF Follows, ValidChains
<1> QED
  BY <1>4, <1>6 DEF Follows

\* A version that supersedes another is a later one of the same observation.
LEMMA SupersedingIsLater ==
  ASSUME ReleaseAssumption, NEW S \in SUBSET Records, ValidChains(S),
         NEW x \in S, NEW y \in S, Fact[y].supersedes = x
  PROVE  /\ Fact[y].logical = Fact[x].logical /\ Fact[y].revision = Fact[x].revision + 1
         /\ Fact[y].known => Fact[x].known /\ Fact[x].available <= Fact[y].available
<1>1. Fact[y].revision # 0
  BY DEF ValidChains, ReleaseAssumption
<1>2. PICK w \in S : Follows(y, w)
  BY <1>1 DEF ValidChains
<1>3. w = x
  BY <1>2 DEF Follows
<1> QED
  BY <1>2, <1>3 DEF Follows, ReleaseAssumption

\* Chains that validate_revision_chains accepts are causal at every time: no
\* version is known before the one it supersedes, none is current besides another.
LEMMA ChainsAreCausal ==
  ASSUME ReleaseAssumption, NEW S \in SUBSET Records, ValidChains(S)
  PROVE  Archive!Causal(S)
<1> SUFFICES ASSUME NEW t \in Times
             PROVE  /\ \A x \in Archive!Visible(S, t) :
                         Fact[x].supersedes \in Archive!Visible(S, t) \cup {NoRecord}
                    /\ \A x, y \in Archive!Current(S, t) :
                         Fact[x].logical = Fact[y].logical => x = y
  BY DEF Archive!Causal
<1>1. t \in Int
  BY DEF ReleaseAssumption
<1>2. \A x \in S : /\ Fact[x].revision \in Nat /\ Fact[x].known \in BOOLEAN
                   /\ Fact[x].available \in Int
  BY DEF ReleaseAssumption
<1>3. ASSUME NEW x \in Archive!Visible(S, t)
      PROVE  Fact[x].supersedes \in Archive!Visible(S, t) \cup {NoRecord}
  <2>1. x \in S /\ Fact[x].known /\ Fact[x].available <= t
    BY DEF Archive!Visible
  <2>2. CASE Fact[x].revision = 0
    BY <2>1, <2>2 DEF ValidChains
  <2>3. CASE Fact[x].revision # 0
    <3>1. PICK y \in S : Follows(x, y)
      BY <2>1, <2>3 DEF ValidChains
    <3>2. Fact[x].supersedes = y /\ Fact[y].known /\ Fact[y].available <= Fact[x].available
      BY <1>2, <2>1, <3>1 DEF Follows
    <3>3. Fact[y].available <= t
      <4>1. Fact[x].available \in Int /\ Fact[y].available \in Int
        BY <1>2, <2>1
      <4> QED
        BY <1>1, <2>1, <3>2, <4>1
    <3> QED
      BY <3>2, <3>3 DEF Archive!Visible
  <2> QED
    BY <2>2, <2>3
<1>4. ASSUME NEW x \in Archive!Current(S, t), NEW y \in Archive!Current(S, t),
             Fact[x].logical = Fact[y].logical
      PROVE  x = y
  <2>1. /\ x \in Archive!Visible(S, t) /\ y \in Archive!Visible(S, t)
        /\ \A z \in Archive!Visible(S, t) : Fact[z].supersedes # x /\ Fact[z].supersedes # y
    BY DEF Archive!Current
  <2>2. x \in S /\ y \in S
    BY <2>1 DEF Archive!Visible
  <2>3. ~(Fact[x].revision < Fact[y].revision) /\ ~(Fact[y].revision < Fact[x].revision)
    BY <1>1, <1>4, <2>1, EarlierSuperseded
  <2>4. Fact[x].revision = Fact[y].revision
    BY <1>2, <2>2, <2>3
  <2> QED
    BY <1>4, <2>2, <2>4 DEF ValidChains
<1> QED
  BY <1>3, <1>4

\* The highest available revision is the one that nothing available supersedes:
\* resolve_release reads what the archive promises.
LEMMA ResolveReadsAsOf ==
  ASSUME ReleaseAssumption, NEW r \in Release, ValidChains(Snapshot(r)), NEW t \in Times
  PROVE  Resolve(r, t) = Archive!AsOf(Snapshot(r), t)
<1> DEFINE S == Snapshot(r)
<1>1. S \in SUBSET Records /\ t \in Int
  BY ReleaseFacts DEF ReleaseAssumption
<1>2. CASE \E x \in S : ~Fact[x].known
  BY <1>2 DEF Resolve, Archive!AsOf
<1>3. CASE \A x \in S : Fact[x].known
  <2> DEFINE seen == Available(S, t)
             last == {x \in seen : \A y \in seen :
                        Fact[y].logical = Fact[x].logical => Fact[y].revision <= Fact[x].revision}
  <2>1. seen = Archive!Visible(S, t)
    BY <1>3 DEF Available, Archive!Visible
  <2>2. \A x \in seen : x \in S /\ Fact[x].revision \in Nat
    BY <1>1 DEF Available, ReleaseAssumption
  <2>3. ASSUME NEW x \in last PROVE x \in Archive!Current(S, t)
    <3>1. ASSUME NEW y \in seen, Fact[y].supersedes = x PROVE FALSE
      <4>1. Fact[y].logical = Fact[x].logical /\ Fact[y].revision = Fact[x].revision + 1
        BY <1>1, <2>2, <3>1, SupersedingIsLater
      <4>2. Fact[y].revision <= Fact[x].revision
        BY <4>1
      <4> QED
        BY <2>2, <4>1, <4>2
    <3> QED
      BY <2>1, <3>1 DEF Archive!Current
  <2>4. ASSUME NEW x \in Archive!Current(S, t) PROVE x \in last
    <3>1. x \in seen /\ \A z \in seen : Fact[z].supersedes # x
      BY <2>1 DEF Archive!Current
    <3>2. ASSUME NEW y \in seen, Fact[y].logical = Fact[x].logical
          PROVE  Fact[y].revision <= Fact[x].revision
      <4>1. ~(Fact[x].revision < Fact[y].revision)
        BY <1>1, <2>1, <3>1, <3>2, EarlierSuperseded
      <4> QED
        BY <2>2, <3>1, <4>1
    <3> QED
      BY <3>1, <3>2
  <2>5. Resolve(r, t) = last
    BY <1>3 DEF Resolve
  <2>6. Archive!AsOf(S, t) = Archive!Current(S, t)
    BY <1>3 DEF Archive!AsOf
  <2>7. Archive!Current(S, t) \subseteq seen
    BY <2>1 DEF Archive!Current
  <2> QED
    BY <2>3, <2>4, <2>5, <2>6, <2>7
<1> QED
  BY <1>2, <1>3

\* Only an insertion touches the catalogue, and it adds one release.
LEMMA CatalogueSteps ==
  ASSUME Inv, NEW p \in Publishers, Call(p) \/ Proceed(p) \/ Fails(p) \/ Die(p)
  PROVE  InsertRelease(p) \/ UNCHANGED catalogue
BY DEF Call, Proceed, Enter, Busy, Normalize, PersistObject, ObjectInvalid,
   ReturnExisting, RefuseOrphan, RefuseMore, BeginStage, VerifyStage, Rename,
   Return, WriteIncident, NotRecorded, IndexIncident, Fails, Die, storeVars

\* Reading what was catalogued before does not change when a release is added.
LEMMA ViewGrows ==
  ASSUME catalogue \subseteq catalogue'
  PROVE  /\ \A r \in catalogue, t \in Times : View'[<<r, t>>] = View[<<r, t>>]
         /\ \A r \in catalogue', t \in Times : View'[<<r, t>>] = Resolve(r, t)
BY DEF View

LEMMA InsertExtends ==
  ASSUME ReleaseAssumption, Inv, NEW p \in Publishers, InsertRelease(p)
  PROVE  [Archive!Extend]_(Archive!archiveVars)
<1>1. PICK r : r = job[p].release
  OBVIOUS
<1>2. catalogue' = catalogue \cup {r}
  BY <1>1 DEF InsertRelease
<1>3. /\ r \in Release /\ Cardinality(catalogue) < MaxReleases /\ Verifies(r)
      /\ Len(r) > 1 => Parent(r) \in catalogue
  <2>1. JobStands(p) /\ job[p] \in Job /\ job[p].pc = "insert"
    BY DEF Inv, TypeOK, InsertRelease, At
  <2> QED
    BY <1>1, <2>1 DEF JobStands, Job
<1>4. CASE r \in catalogue
  <2>1. catalogue' = catalogue
    BY <1>2, <1>4
  <2>2. View' = View
    BY <2>1 DEF View
  <2> QED
    BY <2>1, <2>2 DEF Archive!archiveVars
<1>5. CASE r \notin catalogue
  <2>1. Len(r) > 1 => Snapshot(Parent(r)) \subseteq Snapshot(r)
    BY <1>3 DEF Verifies, Inherits
  <2>2. ValidChains(Snapshot(r)) /\ Snapshot(r) \in SUBSET Records
    BY <1>3, ReleaseFacts DEF Verifies
  <2>3. Archive!Causal(Snapshot(r))
    BY <2>2, ChainsAreCausal
  <2>4. \A t \in Times : View'[<<r, t>>] = Archive!AsOf(Snapshot(r), t)
    BY <1>2, <1>3, <2>2, ViewGrows, ResolveReadsAsOf
  <2>5. Archive!Snapshot(r) = Snapshot(r) /\ Archive!Parent(r) = Parent(r)
        /\ Archive!Snapshot(Archive!Parent(r)) = Snapshot(Parent(r))
    BY DEF Archive!Snapshot, Archive!Parent, Snapshot, Parent
  <2>6. Archive!Publish(r)
    <3>1. Archive!Cardinality(catalogue) = Cardinality(catalogue)
      BY DEF Archive!Cardinality, Cardinality
    <3> QED
      BY <1>3, <2>1, <2>3, <2>4, <2>5, <3>1 DEF Archive!Publish
  <2>7. \A x \in catalogue, t \in Times : View'[<<x, t>>] = View[<<x, t>>]
    BY <1>2, ViewGrows
  <2> QED
    BY <1>2, <1>5, <2>6, <2>7 DEF Archive!Extend
<1> QED
  BY <1>4, <1>5

\* The catalogue with its resolver implements the archive: releases are only
\* added, each with its parent's evidence and within the limit; their readings
\* never change and show what was known at each time.
THEOREM ArchiveKept == Spec => KeepsArchive
<1>1. Init => Archive!ArchiveInit
  <2> SUFFICES ASSUME Init PROVE Archive!ArchiveInit
    OBVIOUS
  <2>1. catalogue = {}
    BY DEF Init
  <2>2. View = [k \in {} |-> Denied]
    BY <2>1 DEF View
  <2> QED
    BY <2>1, <2>2 DEF Archive!ArchiveInit
<1>2. Inv /\ [Next]_vars => [Archive!Extend]_(Archive!archiveVars)
  <2> SUFFICES ASSUME Inv, [Next]_vars PROVE [Archive!Extend]_(Archive!archiveVars)
    OBVIOUS
  <2>1. ASSUME UNCHANGED catalogue PROVE UNCHANGED Archive!archiveVars
    <3>1. View' = View
      BY <2>1 DEF View
    <3> QED
      BY <2>1, <3>1 DEF Archive!archiveVars
  <2>2. CASE UNCHANGED vars
    BY <2>1, <2>2 DEF vars, storeVars
  <2>3. ASSUME NEW p \in Publishers, Call(p) \/ Proceed(p) \/ Fails(p) \/ Die(p)
        PROVE  [Archive!Extend]_(Archive!archiveVars)
    BY <2>1, <2>3, CatalogueSteps, InsertExtends, ReleaseAssumption
  <2> QED
    BY <2>2, <2>3 DEF Next
<1> QED
  BY <1>1, <1>2, Soundness, PTL DEF Spec, KeepsArchive, Archive!ArchiveSpec
=============================================================================
