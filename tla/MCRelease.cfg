\* Two publishers, parents and children, failures and deaths at every boundary.
SPECIFICATION FairSpec
CONSTANTS
  Publishers = {p1, p2}
  Objects = {"o1", "o2"}
  Records = {"a0", "a1", "early", "u0"}
  Fact <- FactDef
  Batches <- BatchesDef
  Times = {0, 1, 2}
  MaxReleases = 2
  MaxCalls = 3
  MaxFaults = 2
  NoOne = NoOne
  NoRecord = NoRecord
  Denied = Denied
INVARIANTS CataloguedCertifies AnswersTrue
PROPERTIES OrphanStays KeepsArchive PublicationEnds
\* Every call may have been made and answered.
CHECK_DEADLOCK FALSE
