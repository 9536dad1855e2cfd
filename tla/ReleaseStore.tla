---------------------------- MODULE ReleaseStore ----------------------------
(* Publication of certified market-data releases.  A publisher takes the file
   lock, certifies what is catalogued, merges its batch of records with the
   parent release, stores raw responses in a content-addressed object store,
   builds and verifies a stage, renames it to its place among the releases and
   only then enters it in the catalogue.  Publishers may fail or die at every
   step; nothing they leave behind is ever removed or repaired.
   A release is named by the hash of all it contains and of its parent's name:
   here it is the sequence of the snapshots of its lineage.  Stages have names
   of their own and are read by nobody else, so only the rename shows them.    *)
EXTENDS Integers, Sequences, FiniteSets

CONSTANTS
  Publishers,
  Objects,      \* raw responses, each named by its hash
  Records,      \* versions of observations
  Fact,         \* record -> logical, revision, supersedes, known, available, object
  Batches,      \* what may be published: [records, raw], raw the objects supplied
  Times,        \* decision times
  MaxReleases,  \* maximum_acceptance_release_count
  MaxCalls,     \* bound: publications called
  MaxFaults,    \* bound: failures and deaths
  NoOne, NoRecord, Denied

ASSUME ReleaseAssumption ==
  /\ NoOne \notin Publishers /\ NoRecord \notin Records
  /\ \A x \in Records : /\ Fact[x].revision \in Nat /\ Fact[x].known \in BOOLEAN
                        /\ Fact[x].available \in Int /\ Fact[x].object \in Objects
  /\ Batches \subseteq [records : SUBSET Records, raw : SUBSET Objects]
  /\ Times \subseteq Int
  /\ MaxReleases \in Nat /\ MaxCalls \in Nat /\ MaxFaults \in Nat

VARIABLES
  lock,         \* holder of locks/publication.lock
  object,       \* objects/sha256: object -> absent, torn or whole
  published,    \* releases/: the directories that are there
  catalogue,    \* releases table of the catalogue
  incidents,    \* incidents/: evidence -> torn or whole, for what is there
  indexed,      \* incidents table of the catalogue
  calls, faults,
  job,          \* publisher -> the publication it is working on
  answer        \* publisher -> what its last call returned or raised

storeVars == <<object, published, catalogue>>
incidentVars == <<incidents, indexed>>
vars == <<lock, storeVars, incidentVars, calls, faults, job, answer>>

-----------------------------------------------------------------------------
(* Releases                                                                    *)

Snapshot(r) == r[Len(r)]
Parent(r) == SubSeq(r, 1, Len(r) - 1)
Lineage(r) == {SubSeq(r, 1, n) : n \in 1 .. Len(r)}
NoRelease == <<>>

\* Plausible bug: a revision may become known before the one it supersedes.
FollowsAnyTime(x, y) ==
  /\ Fact[x].logical = Fact[y].logical
  /\ Fact[x].revision = Fact[y].revision + 1
  /\ Fact[x].supersedes = y
  /\ Fact[x].known = Fact[y].known

\* validate_revision_chains: x may follow y as the next revision.
Follows(x, y) ==
  /\ Fact[x].logical = Fact[y].logical
  /\ Fact[x].revision = Fact[y].revision + 1
  /\ Fact[x].supersedes = y
  /\ Fact[x].known = Fact[y].known
  /\ Fact[x].known => Fact[y].available <= Fact[x].available

\* One record for each revision of an observation, from 0 without a gap.
ValidChains(S) ==
  /\ \A x, y \in S :
       Fact[x].logical = Fact[y].logical /\ Fact[x].revision = Fact[y].revision => x = y
  /\ \A x \in S :
       IF Fact[x].revision = 0 THEN Fact[x].supersedes = NoRecord
       ELSE \E y \in S : Follows(x, y)

ObjectsOf(S) == {Fact[x].object : x \in S}
\* Plausible bug: a read-back that looks for the files and not at their bytes.
StoredPresent(S) == \A o \in ObjectsOf(S) : object[o] # "absent"

Stored(S) == \A o \in ObjectsOf(S) : object[o] = "whole"
Inherits(r) == Len(r) > 1 => Snapshot(Parent(r)) \subseteq Snapshot(r)

\* _certify_internal, for the contents of a release that lies anywhere.
Verifies(r) ==
  /\ Stored(Snapshot(r)) /\ ValidChains(Snapshot(r)) /\ Inherits(r)
  /\ \A a \in Lineage(r) \ {r} :
       /\ a \in catalogue /\ a \in published
       /\ Stored(Snapshot(a)) /\ ValidChains(Snapshot(a)) /\ Inherits(a)
Certifies(r) == r \in published /\ Verifies(r)

\* resolve_release: of every observation the highest revision available by then.
Available(S, t) == {x \in S : Fact[x].available <= t}
Resolve(r, t) ==
  LET seen == Available(Snapshot(r), t)
  IN IF \E x \in Snapshot(r) : ~Fact[x].known THEN Denied
     ELSE {x \in seen : \A y \in seen :
             Fact[y].logical = Fact[x].logical => Fact[y].revision <= Fact[x].revision}

NoBatch == [records |-> {}, raw |-> {}]
NoJob == [pc |-> "idle", batch |-> NoBatch, parent |-> NoRelease, todo |-> {},
          release |-> NoRelease, cause |-> <<"NONE", "NONE">>]
Answer(kind, about) == [kind |-> kind, about |-> about]

\* The effective snapshot: what the parent holds and what the batch adds.
Merged(p) ==
  job[p].batch.records \cup
    IF job[p].parent = NoRelease THEN {} ELSE Snapshot(job[p].parent)
Target(p) == Append(job[p].parent, Merged(p))
Incident(p) == <<job[p].release, job[p].cause>>
Whole == {i \in DOMAIN incidents : incidents[i] = "whole"}

Release == Seq(SUBSET Records) \ {NoRelease}

Section == {"normalize", "objects", "stage", "rename", "insert", "reread", "record", "index"}
Reasons == {"NONE", "RELEASE_NOT_CATALOGUED", "REVISION_CHAIN", "RAW_OBJECT_BYTES_REQUIRED",
            "RAW_OBJECT_CONFLICT", "RAW_OBJECT_HASH_MISMATCH",
            "ORPHAN_RELEASE_REQUIRES_RECOVERY", "RELEASE_COUNT_LIMIT", "FAILURE"}

Job == [pc : Section \cup {"idle", "waiting"},
        batch : Batches \cup {NoBatch}, parent : Release \cup {NoRelease},
        todo : SUBSET Objects, release : Release \cup {NoRelease},
        cause : (Section \cup {"NONE"}) \X Reasons]

TypeOK ==
  /\ lock \in Publishers \cup {NoOne}
  /\ object \in [Objects -> {"absent", "torn", "whole"}]
  /\ published \subseteq Release /\ catalogue \subseteq Release
  /\ \A i \in DOMAIN incidents : incidents[i] \in {"torn", "whole"}
  /\ calls \in 0 .. MaxCalls /\ faults \in 0 .. MaxFaults
  /\ job \in [Publishers -> Job]
  /\ DOMAIN answer = Publishers

Init ==
  /\ lock = NoOne
  /\ object = [o \in Objects |-> "absent"]
  /\ published = {} /\ catalogue = {}
  /\ incidents = [i \in {} |-> "whole"] /\ indexed = {}
  /\ calls = 0 /\ faults = 0
  /\ job = [p \in Publishers |-> NoJob]
  /\ answer = [p \in Publishers |-> Answer("NONE", NoRelease)]
-----------------------------------------------------------------------------
At(p, pc) == job[p].pc = pc
Goto(p, pc) == job' = [job EXCEPT ![p].pc = pc]

\* The exception that leaves the critical section by way of _record_incident.
Raise(p, reason) ==
  job' = [job EXCEPT ![p].pc = "record", ![p].cause = <<job[p].pc, reason>>]

Leave(p, reply) ==
  /\ lock' = IF lock = p THEN NoOne ELSE lock
  /\ job' = [job EXCEPT ![p] = NoJob]
  /\ answer' = [answer EXCEPT ![p] = reply]

Fault == faults < MaxFaults /\ faults' = faults + 1

\* A caller names any release it has seen, catalogued or not, as the parent.
Call(p) ==
  /\ At(p, "idle") /\ calls < MaxCalls /\ calls' = calls + 1
  /\ \E b \in Batches, parent \in published \cup {NoRelease} :
       job' = [job EXCEPT ![p] = [NoJob EXCEPT !.pc = "waiting", !.batch = b, !.parent = parent]]
  /\ UNCHANGED <<lock, storeVars, incidentVars, faults, answer>>

Enter(p) ==
  /\ At(p, "waiting") /\ lock = NoOne
  /\ lock' = p /\ Goto(p, "normalize")
  /\ UNCHANGED <<storeVars, incidentVars, calls, faults, answer>>

Busy(p) ==
  /\ At(p, "waiting") /\ lock # NoOne
  /\ Leave(p, Answer("PUBLICATION_LOCK_BUSY", NoRelease))
  /\ UNCHANGED <<storeVars, incidentVars, calls, faults>>

\* What is verified again on the way, by the certifier and by the catalogue; the
\* publication fails when it does not hold.
Checked(p) ==
  LET r == job[p].release
  IN /\ At(p, "normalize") => \A x \in catalogue : Certifies(x)
     /\ At(p, "stage") => Verifies(r)
     /\ At(p, "insert") => /\ Certifies(r)
                           /\ Cardinality(catalogue) < MaxReleases
                           /\ Len(r) > 1 => Parent(r) \in catalogue
     /\ At(p, "reread") => r \in catalogue

ParentCatalogued(p) == job[p].parent \in catalogue \cup {NoRelease}

\* Every object of the batch is supplied or has a file already.
BytesAtHand(p) ==
  \A o \in ObjectsOf(job[p].batch.records) \ job[p].batch.raw : object[o] # "absent"

Normalize(p) ==
  /\ At(p, "normalize") /\ Checked(p)
  /\ \/ /\ ~ParentCatalogued(p)
        /\ Raise(p, "RELEASE_NOT_CATALOGUED")
     \/ /\ ParentCatalogued(p) /\ ~ValidChains(Merged(p))
        /\ Raise(p, "REVISION_CHAIN")
     \/ /\ ParentCatalogued(p) /\ ValidChains(Merged(p)) /\ ~BytesAtHand(p)
        /\ Raise(p, "RAW_OBJECT_BYTES_REQUIRED")
     \/ /\ ParentCatalogued(p) /\ ValidChains(Merged(p)) /\ BytesAtHand(p)
        /\ job' = [job EXCEPT ![p].pc = "objects", ![p].todo = job[p].batch.raw]
  /\ UNCHANGED <<lock, storeVars, incidentVars, calls, faults, answer>>

\* _persist_object: a file that is there must hold the very bytes.
PersistObject(p) ==
  /\ At(p, "objects")
  /\ \E o \in job[p].todo :
       \/ /\ object[o] = "torn" /\ Raise(p, "RAW_OBJECT_CONFLICT")
          /\ UNCHANGED object
       \/ /\ object[o] # "torn" /\ object' = [object EXCEPT ![o] = "whole"]
          /\ job' = [job EXCEPT ![p].todo = @ \ {o}]
  /\ UNCHANGED <<lock, published, catalogue, incidentVars, calls, faults, answer>>

\* All objects of the merged snapshot are read back; only then is the name of
\* the release known, and whether it is there already.
ReadyToIdentify(p) == At(p, "objects") /\ job[p].todo = {} /\ Stored(Merged(p))

ObjectInvalid(p) ==
  /\ At(p, "objects") /\ job[p].todo = {} /\ ~Stored(Merged(p))
  /\ Raise(p, "RAW_OBJECT_HASH_MISMATCH")
  /\ UNCHANGED <<lock, storeVars, incidentVars, calls, faults, answer>>

ReturnExisting(p) ==
  /\ ReadyToIdentify(p)
  /\ Target(p) \in published \cap catalogue /\ Certifies(Target(p))
  /\ Leave(p, Answer("PUBLISHED", Target(p)))
  /\ UNCHANGED <<storeVars, incidentVars, calls, faults>>

Identified(p, pc, reason) ==
  job' = [job EXCEPT ![p].release = Target(p), ![p].pc = pc, ![p].cause = <<"objects", reason>>]

\* Plausible bug: a publisher that finds its release in place catalogues it.
AdoptOrphan(p) ==
  /\ ReadyToIdentify(p) /\ Target(p) \in published \ catalogue
  /\ Identified(p, "insert", "NONE")
  /\ UNCHANGED <<lock, storeVars, incidentVars, calls, faults, answer>>

RefuseOrphan(p) ==
  /\ ReadyToIdentify(p) /\ Target(p) \in published \ catalogue
  /\ Identified(p, "record", "ORPHAN_RELEASE_REQUIRES_RECOVERY")
  /\ UNCHANGED <<lock, storeVars, incidentVars, calls, faults, answer>>

RefuseMore(p) ==
  /\ ReadyToIdentify(p) /\ Target(p) \notin published
  /\ Cardinality(catalogue) >= MaxReleases
  /\ Identified(p, "record", "RELEASE_COUNT_LIMIT")
  /\ UNCHANGED <<lock, storeVars, incidentVars, calls, faults, answer>>

BeginStage(p) ==
  /\ ReadyToIdentify(p) /\ Target(p) \notin published
  /\ Cardinality(catalogue) < MaxReleases
  /\ Identified(p, "stage", "NONE")
  /\ UNCHANGED <<lock, storeVars, incidentVars, calls, faults, answer>>

\* Database, manifest and certificate are written and verified in the stage.
VerifyStage(p) ==
  /\ At(p, "stage") /\ Checked(p)
  /\ Goto(p, "rename")
  /\ UNCHANGED <<lock, storeVars, incidentVars, calls, faults, answer>>

Rename(p) ==
  /\ At(p, "rename") /\ job[p].release \notin published
  /\ published' = published \cup {job[p].release}
  /\ Goto(p, "insert")
  /\ UNCHANGED <<lock, object, catalogue, incidentVars, calls, faults, answer>>

InsertRelease(p) ==
  /\ At(p, "insert") /\ Checked(p)
  /\ catalogue' = catalogue \cup {job[p].release}
  /\ Goto(p, "reread")
  /\ UNCHANGED <<lock, object, published, incidentVars, calls, faults, answer>>

Return(p) ==
  /\ At(p, "reread") /\ Checked(p)
  /\ Leave(p, Answer("PUBLISHED", job[p].release))
  /\ UNCHANGED <<storeVars, incidentVars, calls, faults>>
-----------------------------------------------------------------------------
(* What goes wrong                                                             *)

\* The evidence on disk with that of this failure, unless it is there already.
Evidence(p, state) ==
  [i \in DOMAIN incidents \cup {Incident(p)} |->
     IF i \in DOMAIN incidents THEN incidents[i] ELSE state]

\* A file that is being written in place may be left with a part of its bytes.
HalfWritten(p) ==
  \/ UNCHANGED <<object, incidents>>
  \/ /\ At(p, "objects")
     /\ \E o \in job[p].todo :
          object[o] = "absent" /\ object' = [object EXCEPT ![o] = "torn"]
     /\ UNCHANGED incidents
  \/ /\ At(p, "record") /\ Incident(p) \notin DOMAIN incidents
     /\ incidents' = Evidence(p, "torn")
     /\ UNCHANGED object

\* A disk, a database or a check fails at some boundary of this step.  The
\* catalogue row may have been committed before its failure is seen ("reread").
Fails(p) ==
  /\ job[p].pc \in {"normalize", "objects", "stage", "rename", "insert", "reread"}
  /\ Fault \/ (~Checked(p) /\ UNCHANGED faults)
  /\ HalfWritten(p) /\ Raise(p, "FAILURE")
  /\ UNCHANGED <<lock, published, catalogue, indexed, calls, answer>>

\* Plausible bug: evidence that is there is taken for whole.
WriteIncidentIfAbsent(p) ==
  /\ At(p, "record")
  /\ incidents' = Evidence(p, "whole")
  /\ Goto(p, "index")
  /\ UNCHANGED <<lock, storeVars, indexed, calls, faults, answer>>

\* _record_incident: evidence first, one file for equal failures, then its row.
WriteIncident(p) ==
  /\ At(p, "record") /\ Incident(p) \notin DOMAIN incidents \ Whole
  /\ incidents' = Evidence(p, "whole")
  /\ Goto(p, "index")
  /\ UNCHANGED <<lock, storeVars, indexed, calls, faults, answer>>

NotRecorded(p) ==
  /\ At(p, "record")
  /\ \/ Fault /\ HalfWritten(p)
     \/ /\ Incident(p) \in DOMAIN incidents \ Whole
        /\ UNCHANGED <<object, incidents, faults>>
  /\ Leave(p, Answer("INCIDENT_RECORD_FAILED", Incident(p)))
  /\ UNCHANGED <<published, catalogue, indexed, calls>>

\* A row that cannot be written is passed over in silence.
IndexIncident(p) ==
  /\ At(p, "index")
  /\ \/ indexed' = indexed \cup {Incident(p)} /\ UNCHANGED faults
     \/ Fault /\ UNCHANGED indexed
  /\ Leave(p, Answer("FAILED", Incident(p)))
  /\ UNCHANGED <<storeVars, incidents, calls>>

\* Plausible bug: a lock that is a file, and outlives its process.
DieHolding(p) ==
  /\ ~At(p, "idle") /\ Fault
  /\ HalfWritten(p)
  /\ job' = [job EXCEPT ![p] = NoJob] /\ answer' = [answer EXCEPT ![p] = Answer("NONE", NoRelease)]
  /\ UNCHANGED <<lock, published, catalogue, indexed, calls>>

\* The process dies, and the kernel frees its lock.
Die(p) ==
  /\ ~At(p, "idle") /\ Fault
  /\ HalfWritten(p)
  /\ Leave(p, Answer("NONE", NoRelease))
  /\ UNCHANGED <<published, catalogue, indexed, calls>>
-----------------------------------------------------------------------------
Proceed(p) ==
  \/ Enter(p) \/ Busy(p) \/ Normalize(p) \/ PersistObject(p) \/ ObjectInvalid(p)
  \/ ReturnExisting(p) \/ RefuseOrphan(p) \/ RefuseMore(p) \/ BeginStage(p)
  \/ VerifyStage(p) \/ Rename(p) \/ InsertRelease(p) \/ Return(p)
  \/ WriteIncident(p) \/ NotRecorded(p) \/ IndexIncident(p)

Next == \E p \in Publishers : Call(p) \/ Proceed(p) \/ Fails(p) \/ Die(p)

Spec == Init /\ [][Next]_vars

\* Publication runs in the foreground of the process that called it.
FairSpec == Spec /\ \A p \in Publishers : WF_vars(Proceed(p))
-----------------------------------------------------------------------------
(* Properties                                                                  *)

\* Whatever fails or dies on the way, a release a resolver can find is all
\* there, with its whole lineage and the very bytes of every response it cites.
CataloguedCertifies ==
  \A r \in catalogue :
    /\ r \in published /\ Lineage(r) \subseteq catalogue
    /\ \A o \in ObjectsOf(Snapshot(r)) : object[o] = "whole"

\* What a publisher was told stands: a release it was given is found, a failure
\* it was told of left whole evidence, and no row names evidence that is not.
AnswersTrue ==
  /\ \A p \in Publishers :
       /\ answer[p].kind = "PUBLISHED" => answer[p].about \in catalogue
       /\ answer[p].kind = "FAILED" => answer[p].about \in Whole
  /\ indexed \subseteq Whole

\* Renamed by a publisher that is gone, or failed, before it was catalogued.
Orphans ==
  {r \in published \ catalogue : \A p \in Publishers : job[p].release = r => ~At(p, "insert")}

\* An orphan is one for good: no later publication adopts it, or puts another in
\* its place, or enters it in the catalogue.
OrphanStays == [][Orphans \subseteq Orphans']_vars

\* A publication ends, and no failure or death keeps the store locked.
PublicationEnds ==
  \A p \in Publishers : ~At(p, "idle") ~> (At(p, "idle") /\ lock # p)

\* What a publisher may rely on between its steps: the section is its own; the
\* parent it merged with is catalogued and the chains hold; what it is about to
\* publish verifies and has room; and evidence that it is about to index is whole.
JobStands(p) ==
  LET r == job[p].release IN
  /\ job[p].pc \in Section => lock = p
  /\ At(p, "objects") => ParentCatalogued(p) /\ ValidChains(Merged(p))
  /\ job[p].pc \in {"stage", "rename", "insert"} =>
       /\ r # NoRelease /\ Verifies(r)
       /\ Cardinality(catalogue) < MaxReleases
       /\ Len(r) > 1 => Parent(r) \in catalogue
  /\ At(p, "insert") => r \in published
  /\ At(p, "reread") => r \in catalogue
  /\ At(p, "index") => Incident(p) \in Whole

\* The inductive invariant: types, what the publishers rely on, and that all that
\* is catalogued would be certified again (custody.py, _Publisher.publish).
Inv == /\ TypeOK
       /\ \A p \in Publishers : JobStands(p)
       /\ \A r \in catalogue : Certifies(r)
       /\ AnswersTrue

\* No verification on the way, of the catalogue, of a stage, of a published
\* directory or of the row just written, ever fails: what publishers left behind
\* certifies, however many of them failed or died (custody.py, publish).
ChecksPass == \A p \in Publishers : Checked(p)

\* The catalogue, read by the resolver, is the archive of ReleaseArchive.
View == [k \in catalogue \X Times |-> Resolve(k[1], k[2])]
Archive == INSTANCE ReleaseArchive WITH archive <- catalogue, view <- View
KeepsArchive == Archive!ArchiveSpec
=============================================================================
