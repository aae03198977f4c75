------------------------- MODULE MCRepositoryCache -------------------------
(***************************************************************************)
(* Small instances of RepositoryCache.                                     *)
(***************************************************************************)
EXTENDS RepositoryCache, TLC

CONSTANTS j1, j2, t1, t2, p1, p2, r1, a, b

LocksOfRepos == {"mirror", "index"} \X Repos

\* The first version has a file, the second one more.
TwoVersions ==
  [r \in Repos |-> [v \in Versions |-> IF v = 0 THEN {a} ELSE {a, b}]]

\* Two executions of one repository, in one process each.
SharedTask == (j1 :> t1) @@ (j2 :> t2)
SharedRepo == (j1 :> r1) @@ (j2 :> r1)
SharedHome == (j1 :> p1) @@ (j2 :> p2)
=============================================================================
