------------------------------- MODULE Tuning -------------------------------
(***************************************************************************)
(* The tuning harness, sim/tuning/harness.py, as sim/tuning/report.py runs *)
(* it: every policy is tuned per workload family on a grid of parameters.  *)
(* One batch of simulations on the validation seeds selects the            *)
(* parameters, a second one on the held-out seeds scores them; both go     *)
(* through a pool of worker processes that finish in any order.            *)
(*                                                                         *)
(* A simulation is one step that yields a score.  All points have the same *)
(* number of runs, so that sums stand for means.                           *)
(***************************************************************************)
EXTENDS Naturals, FiniteSets, SequencesExt

CONSTANTS
    Configs,   \* tuning.yaml, as it is and as it may be edited by mistake
    Workers,   \* the processes of the pool
    Scores     \* what goodput a run may have

VARIABLES
    cfg,       \* the configuration of this tuning
    phase,     \* "start", "refused", "validation", "heldout", "written"
    task,      \* which (family, policy) is being tuned
    specs,     \* the batch of simulations, in order
    given,     \* how many of them were handed out
    busy,      \* per worker, the index of the run it executes, or 0
    truth,     \* what each run of the batch scored
    scores,    \* the list execute returns
    best,      \* the parameters selected
    results    \* the TuningResults, and in the end tuned_params.json

vars == <<cfg, phase, task, specs, given, busy, truth, scores, best, results>>

\* grid_points: the cross product of the axes, the last one varying fastest.  A
\* policy without axes has the one point of the floor.
GridPoints(axes) ==
    FoldLeft(LAMBDA points, axis :
                FlattenSeq([i \in DOMAIN points |->
                    [j \in DOMAIN axis |-> Append(points[i], axis[j])]]),
             <<(<<>>)>>, axes)

\* build_specs: every point on every seed at every load.
BuildSpecs(points, seeds, loads) ==
    FlattenSeq([p \in DOMAIN points |-> FlattenSeq([s \in DOMAIN seeds |->
        [l \in DOMAIN loads |->
            [point |-> points[p], seed |-> seeds[s], load |-> loads[l]]]])])

\* run_tuning: every policy, family by family.
Tasks == FlattenSeq([f \in DOMAIN cfg.families |->
    [p \in DOMAIN cfg.grids |->
        [family |-> cfg.families[f], policy |-> p, axes |-> cfg.grids[p]]]])
Points == GridPoints(Tasks[task].axes)

\* check_equal_budget; the policies without a grid are listed apart.
EqualBudget == \A p \in DOMAIN cfg.grids : cfg.grids[p] # <<>> =>
                    Len(GridPoints(cfg.grids[p])) = cfg.budget
\* check_seed_split
SeedSplit == ToSet(cfg.validation) \cap ToSet(cfg.heldout) = {}

Batch(points, seeds) ==
    /\ specs' = BuildSpecs(points, seeds, cfg.loads)
    /\ given' = 0
    /\ truth' = [i \in DOMAIN specs' |-> 0]
    /\ scores' = [i \in DOMAIN specs' |-> 0]

Init ==
    /\ cfg \in Configs
    /\ phase = "start" /\ task = 1
    /\ specs = <<>> /\ given = 0 /\ busy = [w \in Workers |-> 0]
    /\ truth = <<>> /\ scores = <<>> /\ best = <<>> /\ results = {}

\* main: fail before spending any compute if the protocol itself is broken.
Start ==
    /\ phase = "start"
    /\ IF EqualBudget /\ SeedSplit
       THEN phase' = "validation" /\ Batch(Points, cfg.validation)
       ELSE phase' = "refused" /\ UNCHANGED <<specs, given, truth, scores>>
    /\ UNCHANGED <<cfg, task, busy, best, results>>

(***************************************************************************)
(* execute: the pool hands the runs out in order and puts every score at   *)
(* the place of its run, whenever it comes in.                             *)
(***************************************************************************)
Take(w) ==
    /\ busy[w] = 0 /\ given < Len(specs)
    /\ given' = given + 1
    /\ busy' = [busy EXCEPT ![w] = given + 1]
    /\ UNCHANGED <<cfg, phase, task, specs, truth, scores, best, results>>

\* A plausible bug: scores are listed as they come in.
PlaceAsFinished(i) ==
    given - Cardinality({w \in Workers : busy[w] # 0}) + 1
Place(i) == i

\* run_one
Finish(w) ==
    /\ busy[w] # 0
    /\ \E s \in Scores :
        /\ truth' = [truth EXCEPT ![busy[w]] = s]
        /\ scores' = [scores EXCEPT ![Place(busy[w])] = s]
    /\ busy' = [busy EXCEPT ![w] = 0]
    /\ UNCHANGED <<cfg, phase, task, specs, given, best, results>>

BatchDone == given = Len(specs) /\ \A w \in Workers : busy[w] = 0

(***************************************************************************)
(* tune_policy.                                                            *)
(***************************************************************************)
SumSeq(s) == FoldLeft(LAMBDA a, b : a + b, 0, s)

RunsPerPoint == Len(cfg.validation) * Len(cfg.loads)
Trial(i) == SumSeq(SubSeq(scores, (i - 1) * RunsPerPoint + 1, i * RunsPerPoint))

\* The first trial of the highest score.
Winner == CHOOSE i \in DOMAIN Points : \A j \in DOMAIN Points :
            Trial(j) < Trial(i) \/ (Trial(j) = Trial(i) /\ i <= j)

Select ==
    /\ phase = "validation" /\ BatchDone
    /\ phase' = "heldout"
    /\ best' = Points[Winner]
    /\ Batch(<<Points[Winner]>>, cfg.heldout)
    /\ UNCHANGED <<cfg, task, busy, results>>

\* The held-out score is recorded, and the next policy is tuned.
Record ==
    /\ phase = "heldout" /\ BatchDone
    /\ results' = results \cup
        {[family |-> Tasks[task].family, policy |-> Tasks[task].policy,
          params |-> best, trials |-> Len(Points), heldout |-> SumSeq(scores)]}
    /\ IF task < Len(Tasks)
       THEN /\ task' = task + 1 /\ phase' = "validation"
            /\ Batch(GridPoints(Tasks[task + 1].axes), cfg.validation)
       ELSE /\ phase' = "written"
            /\ UNCHANGED <<task, specs, given, truth, scores>>
    /\ UNCHANGED <<cfg, busy, best>>

Next == Start \/ Select \/ Record \/ \E w \in Workers : Take(w) \/ Finish(w)

Spec == Init /\ [][Next]_vars

-----------------------------------------------------------------------------
(* What makes the tuning of the baselines fair (sim/tuning/README.md).     *)

\* What the runs of a point on these seeds really scored.
Earned(point, seeds) ==
    SumSeq([i \in DOMAIN specs |->
        IF specs[i].point = point /\ specs[i].seed \in seeds THEN truth[i] ELSE 0])
Before(p, q) == \E i, j \in DOMAIN Points : i < j /\ Points[i] = p /\ Points[j] = q

\* The parameters selected are the first of the grid, in its order, whose own
\* validation runs scored best, in whatever order the workers finished: the
\* list of scores and the slices cut out of it line up (harness.py:226-237).
ChoosesBest ==
    [][phase = "validation" /\ phase' = "heldout" =>
        \A p \in ToSet(Points) \ {best'} :
            LET mine == Earned(best', ToSet(cfg.validation))
                other == Earned(p, ToSet(cfg.validation))
            IN other < mine \/ (other = mine /\ Before(best', p))]_vars

\* The score reported is that of the selected parameters on the held-out seeds,
\* each of which was run at every load and none of which was ever run before
\* the parameters were fixed (harness.py:239-244).
HeldoutHonest ==
    [][results' # results => \E r \in results' \ results :
        /\ r.params = best
        /\ r.heldout = Earned(best, ToSet(cfg.heldout))
        /\ Len(specs) = Len(cfg.heldout) * Len(cfg.loads)
        /\ \A i \in DOMAIN specs : specs[i].seed \notin ToSet(cfg.validation)]_vars

\* Nobody with parameters was searched for harder than anybody else, and every
\* policy was tuned on every family (harness.py:274-283, report.py:131-136).
EqualSearch ==
    phase = "written" =>
        /\ \A f \in ToSet(cfg.families), p \in DOMAIN cfg.grids :
            \E r \in results : r.family = f /\ r.policy = p
        /\ \A r, s \in results :
            cfg.grids[r.policy] # <<>> /\ cfg.grids[s.policy] # <<>>
                => r.trials = s.trials
=============================================================================
