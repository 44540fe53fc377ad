---------------------------- MODULE MCExperiments ----------------------------
(***************************************************************************)
(* The experiment programs around the simulator, one of them at a time:    *)
(* what is generated, tuned, swept, projected and read out.  `question`    *)
(* says which of them a behaviour is about; the state of the others stays  *)
(* as it is.                                                               *)
(***************************************************************************)
EXTENDS Integers, Sequences

VARIABLES
    question,
    evidence,                                           \* the three readouts
    cfg, phase, task, specs, given, busy, truth, scores, best, results,
    grid, cache, projection, listing,
    setting, dir, at, launches, ran, returned,
    seed, passes

tuning == <<cfg, phase, task, specs, given, busy, truth, scores, best, results>>
probe == <<grid, cache, projection, listing>>
sweep == <<setting, dir, at, launches, ran, returned>>
workload == <<seed, passes>>
vars == <<question, evidence, tuning, probe, sweep, workload>>

(***************************************************************************)
(* Small bodies of evidence for the readouts.                              *)
(***************************************************************************)
CellAt(load) == [mix |-> 30, load |-> load, devices |-> 8, gap |-> 20]
Two == <<"fcfs", "niyama_style">>

\* The manifest of a slot of the grid: cell k, policy number p, seed s.
Manifest(k, load, p, s, goodput, ttft) ==
    [file |-> 100 * k + 10 * p + s, id |-> 100 * k + 10 * p + s,
     cell |-> CellAt(load), key |-> k, seed |-> s, horizon |-> 1500,
     policy |-> IF p = 0 THEN "reservation" ELSE Two[p],
     collapsed |-> FALSE, goodput |-> goodput, ttft |-> ttft, inGrid |-> TRUE]
Collapsed(m) == [m EXCEPT !.collapsed = TRUE, !.goodput = 0, !.ttft = 0]

\* Three core cells and a corner cell, one seed and one baseline.
Region ==
    LET Loads == <<70, 100, 130, 50>> IN
    {Manifest(k, Loads[k], 0, 1, g, t) :
        k \in 1..3, g \in {95, 107, 125}, t \in {10, 30}}
    \cup {Manifest(4, Loads[4], 0, 1, 125, 20)}
    \cup {Manifest(k, Loads[k], 1, 1, 100, 20) : k \in 1..4}

\* One cell over two seeds and two baselines, any run of which may collapse,
\* with a second copy of one run.
PairOfSeeds ==
    LET measured == {Manifest(1, 100, p, s, g, 20) :
                        p \in 0..2, s \in 1..2, g \in {100, 115}}
        synced == Manifest(1, 100, 1, 1, 115, 20)
    IN {m \in measured : m.file = synced.file => m = synced}
       \cup {Collapsed(m) : m \in {n \in measured : n.file # synced.file}}
       \cup {[synced EXCEPT !.file = 99]}

\* One cell, two seeds, two baselines.  Manifests are listed in the order of
\* their run ids, which are hashes: the seeds of the reservation policy come
\* in the other order.
PilotCell ==
    {IF m.policy = "reservation" THEN [m EXCEPT !.file = 103 - m.seed] ELSE m :
        m \in {Manifest(1, 100, p, s, g, 20) :
                    p \in 0..2, s \in 1..2, g \in {100, 115}}
              \cup {Manifest(1, 100, 0, s, g, 30) : s \in 1..2, g \in {100, 115}}}

\* Three policies at three points of a sweep, a second seed at the middle one.
SweptRun(x, s, p, r) ==
    [file |-> 100 * x + 10 * p + s, at |-> x, seed |-> s, rate |-> r,
     policy |-> <<"reservation", "niyama_style", "fcfs">>[p + 1],
     collapsed |-> FALSE]
SweptRuns == {SweptRun(x, 1, p, r) : x \in {0, 5, 10}, p \in 0..2, r \in {30, 90}}
             \cup {SweptRun(5, 2, 0, r) : r \in {30, 90}}

Verdict == INSTANCE ReadoutProperties WITH Possible <- Region, Baselines <- Two,
    GridSeeds <- {1}, GridDevices <- {8}, GridHorizon <- 1500
Pairing == INSTANCE ReadoutProperties WITH Possible <- PairOfSeeds,
    Baselines <- Two, GridSeeds <- {1, 2}, GridDevices <- {8}, GridHorizon <- 1500
Pilot == INSTANCE PilotSignal WITH Possible <- PilotCell, Baselines <- Two,
    GridSeeds <- {1, 2}, GridDevices <- {8}, GridHorizon <- 1500
Curves == INSTANCE SweepCurves WITH Possible <- SweptRuns, Sweep <- {0, 5, 10},
    Baselines <- {"niyama_style", "fcfs"}

(***************************************************************************)
(* Two policies tuned on a grid of two by one and of one by two points and *)
(* the floor without one, or over two seeds; the same with an unequal grid *)
(* and with a leaking seed split.                                          *)
(***************************************************************************)
Plain == [families |-> <<"mix_30">>, budget |-> 2, loads |-> <<70, 130>>,
          validation |-> <<1>>, heldout |-> <<101>>,
          grids |-> << <<<<5, 15>>, <<"tiered">>>>, <<<<1>>, <<50, 75>>>>, <<>> >>]
TuningFiles ==
    {Plain,
     [Plain EXCEPT !.validation = <<1, 2>>, !.grids = << <<<<5, 15>>>>, <<>> >>],
     [Plain EXCEPT !.grids[2] = <<<<1, 2>>, <<50, 75>>>>],
     [Plain EXCEPT !.heldout = <<1, 101>>]}
Tuned == INSTANCE Tuning WITH Configs <- TuningFiles, Workers <- {1, 2},
    Scores <- {0, 1, 2}

\* Two horizons and the cluster sizes the grid had in its amendments.
GridFiles == {[horizon |-> h, sizes |-> s] :
                h \in {300, 1500}, s \in (SUBSET {8, 16, 32}) \ {{}}}
Cost == [h \in {300, 1500} |-> [n \in {8, 16, 32} |-> (h \div 300) * n]]
Probe == INSTANCE ScalingProbe WITH Grids <- GridFiles, Seconds <- Cost,
    RunsPerSize <- 2

\* Three variants, the last of which changes nothing, over two loads and two
\* seeds, in two cells.
Places == <<[load |-> 70, seed |-> 1], [load |-> 70, seed |-> 2],
            [load |-> 130, seed |-> 1], [load |-> 130, seed |-> 2]>>
Yields(g) == [s \in 1..2 |-> [p \in {Places[i] : i \in 1..4} |->
                g - 20 * s - p.load]]
Ablated == INSTANCE AblationSweep WITH
    Variants <- <<"full", "A1_no_budget", "A4_tiered">>, Points <- Places,
    Settings <- {1, 2}, MaxLaunches <- 3,
    Yield <- [full |-> Yields(300), A1_no_budget |-> Yields(290),
              A4_tiered |-> Yields(300)]

\* Two passes over the workloads of some hundred seeds, a horizon of four.
Streams ==
    {[arrivals |-> <<1, u, 1, 20>>,
      burst |-> <<[start |-> b, duration |-> 1], [start |-> 1, duration |-> d]>>,
      class |-> <<c, 10>>, adversarial |-> <<a, 90>>,
      structure |-> <<n, 1, 2, 3, 0>>] :
        u \in {20, 60}, b \in {0, 3}, d \in {0, 3}, c \in {10, 70},
        a \in {5, 60}, n \in {1, 2}}
Generated == INSTANCE Workload WITH Seeds <- Streams, Passes <- {1, 2},
    Horizon <- 4, Diurnal <- [t \in 0..4 |-> <<100, 140, 100, 60, 100>>[t + 1]],
    Amplitude <- 40, BurstFactor <- 2, AgenticShare <- 50,
    MeanTokens <- [interactive |-> 100, agentic |-> 100], RunawayPct <- 50,
    Runaway <- [steps |-> 2, output |-> 3, gap |-> 50]

ASSUME ExperimentAssumption ==
    Probe!ProbeAssumption /\ Generated!WorkloadAssumption

(***************************************************************************)
(* One program at a time.                                                  *)
(***************************************************************************)
Questions == {"verdict", "pairing", "pilot", "curves", "tuning", "probe",
              "ablations", "workload"}
Asked(q) == question = q

Init ==
    /\ question \in Questions
    /\ evidence = {}
    /\ Tuned!Init
    /\ Probe!Init
    /\ Ablated!Init
    /\ Generated!Init
    /\ ~Asked("tuning") => cfg = Plain
    /\ ~Asked("probe") => /\ grid = CHOOSE g \in GridFiles : TRUE
                          /\ cache = Probe!NoFile
    /\ ~Asked("ablations") => setting = 1
    /\ ~Asked("workload") => seed = CHOOSE s \in Streams : TRUE

Reads ==
    /\ \/ Asked("verdict") /\ Verdict!Next
       \/ Asked("pairing") /\ Pairing!Next
       \/ Asked("pilot") /\ Pilot!Next
       \/ Asked("curves") /\ Curves!Next
    /\ UNCHANGED <<question, tuning, probe, sweep, workload>>
Tunes == /\ Asked("tuning") /\ Tuned!Next
         /\ UNCHANGED <<question, evidence, probe, sweep, workload>>
Projects == /\ Asked("probe") /\ Probe!Next
            /\ UNCHANGED <<question, evidence, tuning, sweep, workload>>
Sweeps == /\ Asked("ablations") /\ Ablated!Next
          /\ UNCHANGED <<question, evidence, tuning, probe, workload>>
Generates == /\ Asked("workload") /\ Generated!Next
             /\ UNCHANGED <<question, evidence, tuning, probe, sweep>>

Next == Reads \/ Tunes \/ Projects \/ Sweeps \/ Generates

Spec == Init /\ [][Next]_vars

-----------------------------------------------------------------------------
(* Properties.                                                             *)

\* The verdict is monotone in the evidence and free of the corners: more
\* goodput of the reservation policy never turns it down a class, a slower
\* first token never turns it up, and it is that of the core cells alone
\* (core_region_verdict, h1_readout.py).
VerdictSound ==
    Asked("verdict") => /\ Verdict!MoreNeverHurts
                        /\ Verdict!SlowerNeverHelps
                        /\ Verdict!CornersNeverCount

\* A verdict rests on measured pairs only: a copy of a manifest counts for
\* nothing, a collapsed run contributes no number, equal pairs are no
\* improvement, a seed left out is disclosed; and the pilot, which asks the
\* same question its own way, agrees where both see the same seeds.
EvidenceHonest ==
    /\ Asked("pairing") => /\ Pairing!CopiesNeverCount
                           /\ Pairing!CollapsedNeverMeasured
                           /\ Pairing!EqualPairsEqual
                           /\ Pairing!DroppedSeedsDisclosed
    /\ Asked("pilot") => Pilot!PilotAgrees

\* The two secondary readouts are what they are called: the area is a mean of
\* what was served, no policy that served less at every load is ahead in it,
\* and a completion-rate delta is taken from the runs without injection.
CurvesFair ==
    Asked("curves") => /\ Curves!MeanServed
                       /\ Curves!NeverFlattered
                       /\ Curves!DeltaFromNone

\* Whatever order the workers finish in, the parameters selected are those
\* that scored best on the validation seeds, the score reported is theirs on
\* seeds never used before, and no policy was searched for harder (harness.py).
SelectsBest ==
    /\ Tuned!ChoosesBest
    /\ Tuned!HeldoutHonest
    /\ [][Tuned!EqualSearch']_vars

\* An ablation sweep that was interrupted, however often, is completed by the
\* launch that returns, no manifest is ever replaced on the way, and a projection
\* never rests on a probe timed at another horizon (ablations.py, pilot.py).
SweepResumable ==
    /\ Ablated!AppendOnly
    /\ [][Ablated!SweepComplete' /\ Probe!HorizonFresh']_vars

\* Every pass over a generator yields the same flows however the passes
\* interleave, and they are what the engine takes them for: a context that
\* grows step by step, no tool-time after the last one, arrivals in order, in
\* the horizon and at a rate within the peak (generator.py, arrivals.py).
FlowsPaired ==
    Asked("workload") => /\ Generated!Paired
                         /\ Generated!FlowsSound
                         /\ Generated!ArrivalsSound
=============================================================================
