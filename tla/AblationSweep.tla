---------------------------- MODULE AblationSweep ----------------------------
(***************************************************************************)
(* The ablation sweep, sim/experiments/ablations.py: every variant of the  *)
(* tuned discipline with one element removed, over mixes, loads and seeds, *)
(* in one process, with one manifest per run under results/ablations/ and  *)
(* whatever is there already skipped.  Between two launches the cell of    *)
(* ablations.yaml or the tuned parameters may be changed.                  *)
(***************************************************************************)
EXTENDS Integers, FiniteSets, SequencesExt, Medians

CONSTANTS
    Variants,    \* ABLATIONS, in its order, "full" first
    Points,      \* the mixes, loads and seeds of the sweep, in the loops' order
    Settings,    \* the cells and tuned parameters a launch may be made with
    Yield,       \* the goodput of a run, by variant, setting and point
    MaxLaunches  \* BOUND: launches of the sweep

VARIABLES
    setting,   \* what the files say now
    dir,       \* the manifests in the results directory, by run id
    at,        \* position of the running launch in the loops, 0 if none runs
    launches,  \* how many launches there were
    ran,       \* runs of this launch
    returned   \* whether the last launch came to its end

vars == <<setting, dir, at, launches, ran, returned>>

\* The runs in the order of the nested loops.
Runs == FlattenSeq([v \in DOMAIN Variants |->
            [p \in DOMAIN Points |-> [variant |-> Variants[v], point |-> Points[p]]]])

\* A plausible bug: the seed is not part of the run id.
RunIdWithoutSeed(r) == <<r.variant, r.point.load>>
\* The run id: a hash of variant, mix, load and seed, and of nothing else.
RunId(r) == <<r.variant, r.point>>

Ids == {RunId(Runs[i]) : i \in DOMAIN Runs}
Absent == [setting |-> 0, variant |-> "none", goodput |-> 0]
OnDisk(r) == dir[RunId(r)] # Absent

\* _run_one: the tuned discipline with the override of the variant.
Manifest(r) == [setting |-> setting, variant |-> r.variant,
                goodput |-> Yield[r.variant][setting][r.point]]

Init ==
    /\ setting \in Settings
    /\ dir = [i \in Ids |-> Absent]
    /\ at = 0 /\ launches = 0 /\ ran = 0 /\ returned = FALSE

Launch == /\ at = 0 /\ launches < MaxLaunches
          /\ at' = 1 /\ launches' = launches + 1 /\ ran' = 0 /\ returned' = FALSE
          /\ UNCHANGED <<setting, dir>>

Onwards == IF at < Len(Runs) THEN at' = at + 1 /\ returned' = FALSE
                             ELSE at' = 0 /\ returned' = TRUE

Skip == /\ at > 0 /\ OnDisk(Runs[at])
        /\ Onwards
        /\ UNCHANGED <<setting, dir, launches, ran>>

\* The manifest appears by the rename, whole.
Run == /\ at > 0 /\ ~OnDisk(Runs[at])
       /\ dir' = [dir EXCEPT ![RunId(Runs[at])] = Manifest(Runs[at])]
       /\ ran' = ran + 1
       /\ Onwards
       /\ UNCHANGED <<setting, launches>>

\* Stopped in a run or before its rename, the launch leaves no manifest of it.
Interrupt == /\ at > 0
             /\ at' = 0 /\ returned' = FALSE
             /\ UNCHANGED <<setting, dir, launches, ran>>

\* Another cell, or a new tuning.
Reconfigure == /\ at = 0 /\ returned' = FALSE
               /\ \E s \in Settings \ {setting} : setting' = s
               /\ UNCHANGED <<dir, at, launches, ran>>

Next == Launch \/ Skip \/ Run \/ Interrupt \/ Reconfigure

Spec == Init /\ [][Next]_vars

(***************************************************************************)
(* ablation_effects: the median goodput of each variant, doubled, against  *)
(* that of the full discipline, over whatever is in the directory.         *)
(***************************************************************************)
Of(v) == {i \in Ids : dir[i].variant = v}
MedianOf(v) == Median2([i \in Of(v) |-> dir[i].goodput])

Reported == {v \in ToSet(Variants) : Of(v) # {}}
Effect(v) == IF Of("full") = {} THEN 0 ELSE MedianOf(v) - MedianOf("full")

-----------------------------------------------------------------------------
(* Properties.                                                             *)

\* A launch that returns leaves every run of every variant on disk, however
\* many launches before it were interrupted, and reports no more runs of its own
\* than the sweep has (run_ablations, ablations.py:103-125).
SweepComplete ==
    returned => /\ \A v \in ToSet(Variants) :
                        Cardinality(Of(v)) = Len(Points)
                /\ ran <= Len(Runs)

\* A manifest, once there, is never replaced, and a run is never counted that
\* was not made (append-only, ablations.py:104).
AppendOnly ==
    [][/\ \A i \in Ids : dir[i] # Absent => dir'[i] = dir[i]
       /\ ran' = ran + 1 <=> dir' # dir]_vars

\* A variant that yields at every point what the full discipline yields has no
\* effect: "the delta vs the full discipline is that element's contribution"
\* (ablations.py:4-6).
InertIsZero ==
    \A v \in Reported :
        (\A p \in ToSet(Points) : Yield[v][setting][p] = Yield["full"][setting][p])
            => Effect(v) = 0

\* The effects are never taken over the manifests of two cells or two tunings
\* (ablations.py:95-97).
NeverMixed ==
    Cardinality(Reported) > 1 =>
        \A i, j \in Ids : Absent \notin {dir[i], dir[j]} =>
                                dir[i].setting = dir[j].setting
=============================================================================
