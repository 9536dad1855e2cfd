--------------------------- MODULE ReleaseArchive ---------------------------
(* What the market-data custody promises a researcher: an archive of immutable
   releases, of which each child repeats its parent's evidence and adds to it,
   and a reading of every release at every decision time that is fixed when the
   release enters the archive.  The reading shows what was known then: of every
   chain of revisions the one that nothing known at that time supersedes.  A
   release is the sequence of snapshots of its lineage, its own snapshot last. *)
EXTENDS Integers, Sequences, FiniteSets

CONSTANTS
  Records,      \* versions of observations
  Fact,         \* record -> logical, revision, supersedes, known, available, object
  Times,        \* decision times
  MaxReleases,  \* maximum_acceptance_release_count
  NoRecord, Denied

VARIABLES
  archive,      \* the releases
  view          \* <<release, decision time>> -> the records selected, or Denied

archiveVars == <<archive, view>>

Snapshot(r) == r[Len(r)]
Parent(r) == SubSeq(r, 1, Len(r) - 1)

Visible(S, t) == {x \in S : Fact[x].known /\ Fact[x].available <= t}
Current(S, t) == {x \in Visible(S, t) : \A y \in Visible(S, t) : Fact[y].supersedes # x}
AsOf(S, t) == IF \E x \in S : ~Fact[x].known THEN Denied ELSE Current(S, t)

\* No revision is known before the one it supersedes, and there is never more
\* than one current version of an observation.
Causal(S) ==
  \A t \in Times :
    /\ \A x \in Visible(S, t) : Fact[x].supersedes \in Visible(S, t) \cup {NoRecord}
    /\ \A x, y \in Current(S, t) : Fact[x].logical = Fact[y].logical => x = y

ArchiveInit == archive = {} /\ view = [k \in {} |-> Denied]

Publish(r) ==
  /\ Cardinality(archive) < MaxReleases
  /\ Len(r) > 1 => Parent(r) \in archive /\ Snapshot(Parent(r)) \subseteq Snapshot(r)
  /\ Causal(Snapshot(r))
  /\ \A t \in Times : view'[<<r, t>>] = AsOf(Snapshot(r), t)

\* One release more, and no reading of an earlier one changes.
Extend ==
  /\ archive \subseteq archive'
  /\ \E r \in archive' \ archive : archive' = archive \cup {r} /\ Publish(r)
  /\ \A r \in archive, t \in Times : view'[<<r, t>>] = view[<<r, t>>]

ArchiveSpec == ArchiveInit /\ [][Extend]_archiveVars
=============================================================================
