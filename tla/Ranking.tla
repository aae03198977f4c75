------------------------------ MODULE Ranking ------------------------------
(***************************************************************************)
(* The order in which the index lists files and the skills of a task are   *)
(* taken: sorted by (-rank, name), and cut to the first few.               *)
(***************************************************************************)
EXTENDS Integers, Sequences, FiniteSets, SequencesExt, FiniteSetsExt

\* The greater rank first, then the smaller name.
Ahead(rank, m, n) == rank[m] > rank[n] \/ (rank[m] = rank[n] /\ m < n)

Ranked(rank, things) ==
  CHOOSE order \in [1 .. Cardinality(things) -> things] :
    \A i, j \in DOMAIN order : i < j => Ahead(rank, order[i], order[j])

\* order[:n]
First(n, order) == SubSeq(order, 1, Min({Len(order), n}))
=============================================================================
