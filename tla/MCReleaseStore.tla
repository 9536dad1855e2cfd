--------------------------- MODULE MCReleaseStore ---------------------------
(* One observation "a" with its first version, a correction, and a correction
   that no chain may hold because it is known before what it corrects, and one
   observation "u" whose availability is unknown, over two raw responses.       *)
EXTENDS ReleaseStore

V(logical, revision, supersedes, known, available, obj) ==
  [logical |-> logical, revision |-> revision, supersedes |-> supersedes,
   known |-> known, available |-> available, object |-> obj]
FactDef ==
  [a0 |-> V("a", 0, NoRecord, TRUE, 1, "o1"),
   a1 |-> V("a", 1, "a0", TRUE, 2, "o2"),
   early |-> V("a", 1, "a0", TRUE, 0, "o1"),
   u0 |-> V("u", 0, NoRecord, FALSE, 0, "o2")]

BatchesDef ==
  {[records |-> {"a0"}, raw |-> {"o1"}],
   [records |-> {"a1"}, raw |-> {"o2"}],
   [records |-> {"early"}, raw |-> {}],
   [records |-> {"u0"}, raw |-> {}]}
=============================================================================
