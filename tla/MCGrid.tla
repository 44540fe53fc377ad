------------------------------ MODULE MCGrid ------------------------------
(***************************************************************************)
(* Bounded instances of the grid runner: two cells and two workers.        *)
(***************************************************************************)
EXTENDS GridRunner, TLC

CONSTANTS c1, c2, w1, w2

\* The whole grid, and a selection of it that overlaps.
Shards == {{c1, c2}, {c2}}
Pair == {{c1, c2}}

\* A launch may fail three times; or it leaves orphans behind, and one thing
\* more goes wrong.
FaultSets == {{"machine", "worker", "job"},
              {"main", "machine"}, {"main", "worker"}, {"main", "job"}}

WorkerSymmetry == Permutations({w1, w2})
=============================================================================
