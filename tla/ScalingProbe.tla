---------------------------- MODULE ScalingProbe ----------------------------
(***************************************************************************)
(* The cost projection of the main grid (measure_scaling and               *)
(* project_main_grid of sim/experiments/pilot.py): one worst-case run per  *)
(* cluster size is timed and kept in scaling_probe.json, which later       *)
(* projections read, while grid_main.yaml is amended between them.         *)
(***************************************************************************)
EXTENDS Naturals, FiniteSets, FiniteSetsExt

CONSTANTS
    Grids,       \* what grid_main.yaml may be amended to: horizon and sizes
    Seconds,     \* what a run takes, by horizon and cluster size
    RunsPerSize  \* the cells of a size times policies times seeds

ProbeAssumption ==
    /\ RunsPerSize \in Nat
    /\ \A g \in Grids : g.sizes # {} /\ IsFiniteSet(g.sizes)
    /\ \A g \in Grids, n \in UNION {h.sizes : h \in Grids} :
        Seconds[g.horizon][n] \in Nat

VARIABLES
    grid,        \* grid_main.yaml
    cache,       \* scaling_probe.json
    projection,  \* the last projection, with the rows it was made from
    listing      \* what load_results did: "none", "read" or "raises"

vars == <<grid, cache, projection, listing>>

NoFile == [body |-> "absent", horizon |-> 0, sizes |-> {}]
HalfFile == [NoFile EXCEPT !.body = "half"]
NoProjection == [rows |-> NoFile, total |-> 0]

\* The cached rows are taken if they were timed at the horizon of the grid; a
\* bare list of rows has no horizon.
Usable == cache.body = "stamped" /\ cache.horizon = grid.horizon

\* _measure_scaling_uncached
Measured == [body |-> "stamped", horizon |-> grid.horizon, sizes |-> grid.sizes]

\* project_main_grid: a size that was not timed costs as much as the dearest.
SecondsPerRun(rows, n) ==
    IF n \in rows.sizes THEN Seconds[rows.horizon][n]
    ELSE Max({Seconds[rows.horizon][k] : k \in rows.sizes})
Projected(rows) ==
    [rows |-> rows,
     total |-> MapThenSumSet(LAMBDA n : RunsPerSize * SecondsPerRun(rows, n),
                             grid.sizes)]

\* The directory may hold a probe of before the horizon was recorded, timed at
\* the horizon of that time.
Init == /\ grid \in Grids
        /\ cache \in {NoFile} \cup {[body |-> "legacy", horizon |-> g.horizon,
                                     sizes |-> g.sizes] : g \in Grids}
        /\ projection = NoProjection
        /\ listing = "none"

Amend == /\ \E g \in Grids \ {grid} : grid' = g
         /\ projection' = NoProjection
         /\ UNCHANGED <<cache, listing>>

\* "Delete the cache file or pass use_cache=False".
Delete == cache' = NoFile /\ UNCHANGED <<grid, projection, listing>>

ProjectFromCache ==
    /\ cache.body # "half" /\ Usable
    /\ projection' = Projected(cache)
    /\ UNCHANGED <<grid, cache, listing>>

\* The rows are timed and written to the final path.
ProjectAfresh ==
    /\ cache.body # "half" /\ ~Usable
    /\ cache' = Measured
    /\ projection' = Projected(Measured)
    /\ UNCHANGED <<grid, listing>>

\* The process is stopped while it writes them.
Interrupted ==
    /\ cache.body # "half" /\ ~Usable
    /\ cache' = HalfFile
    /\ UNCHANGED <<grid, projection, listing>>

\* load_results of grid.py parses every JSON file of the directory before it
\* looks whether it is a manifest.
LoadResults ==
    /\ listing' = IF cache.body = "half" THEN "raises" ELSE "read"
    /\ UNCHANGED <<grid, cache, projection>>

Next == \/ Amend \/ Delete \/ ProjectFromCache \/ ProjectAfresh
        \/ Interrupted \/ LoadResults

Spec == Init /\ [][Next]_vars

-----------------------------------------------------------------------------
(* Properties.                                                             *)

\* A projection never rests on runs timed at another horizon than that of the
\* grid it projects, whatever the history of the file: no stale probe drives
\* it (measure_scaling, pilot.py:123-146).
HorizonFresh ==
    projection # NoProjection => projection.rows.horizon = grid.horizon

\* What the projection announces is an upper bound of what the grid costs
\* (run_main_grid.py:38), whatever amendments came before it.
UpperBound ==
    projection # NoProjection =>
        projection.total >= MapThenSumSet(
            LAMBDA n : RunsPerSize * Seconds[grid.horizon][n], grid.sizes)

\* A file that is not a manifest never keeps the results from being read
\* (load_results, grid.py:407-420).
AuxiliaryHarmless == listing # "raises"
=============================================================================
