------------------------------ MODULE Readout ------------------------------
(***************************************************************************)
(* The mechanical H1 verdict, sim/analysis/h1_readout.py: a function from  *)
(* the manifests found in the results directory to SUPPORT, WEAK or KILL.  *)
(* The state is the evidence: manifests arrive one at a time, in any order *)
(* an interrupted, sharded and synced grid may leave them in, and the      *)
(* readout may be run at any moment.                                       *)
(*                                                                         *)
(* Improvements are in tenths of a percent, mixes and loads in percent,    *)
(* and medians are kept doubled, so that every number is an integer.  The  *)
(* bootstrap interval, which no branch reads, is left out.                 *)
(***************************************************************************)
EXTENDS Integers, FiniteSets, Sequences, Medians

CONSTANTS
    Possible,     \* the manifests that may be found
    Baselines,    \* the baseline policies in the order they are compared
    GridSeeds, GridDevices, GridHorizon  \* the axes the readout checks

VARIABLE evidence  \* the manifests in the results directory

Ours == "reservation"

SupportImprovement == 100
WeakImprovement == 50
SupportCellPct == 60
GuardrailPct == 5
GuardrailRegionPct == 50

(***************************************************************************)
(* Admitting the evidence.                                                 *)
(***************************************************************************)
OffGrid(m) ==
    \/ m.horizon # GridHorizon
    \/ m.cell.devices \notin GridDevices
    \/ m.seed \notin GridSeeds

\* A run synced twice is one run: the first file of a run id in load order.
EveryCopy(ms) == ms
FirstCopies(ms) ==
    {m \in ms : \A n \in ms : n.id = m.id => m.file <= n.file}
Admitted(ms) == FirstCopies(ms)

\* Two cell keys for one workload: manifests of two schemas.
MixedSchemas(ms) ==
    \E m, n \in Admitted(ms) : m.cell = n.cell /\ m.key # n.key

CellsOf(ms) == {m.cell : m \in Admitted(ms)}

\* A collapsed run has no metrics and takes no part.
Runs(ms, c, p) ==
    {m \in Admitted(ms) : m.cell = c /\ m.policy = p /\ ~m.collapsed}

\* What each run of a set of runs measured.
Goodputs(ms) == [m \in ms |-> m.goodput]
Ttfts(ms) == [m \in ms |-> m.ttft]

(***************************************************************************)
(* The verdict of a cell.                                                  *)
(***************************************************************************)
CornerExclusion(c) == c.gap > 15 * 60 \/ c.mix > 70 \/ c.load < 60

\* The baseline of the highest median; the earlier one of two equal ones.
Opponents(ms, c) == {i \in DOMAIN Baselines : Runs(ms, c, Baselines[i]) # {}}
Strength(ms, c, i) == Median2(Goodputs(Runs(ms, c, Baselines[i])))
BestBaseline(ms, c) ==
    LET rival == CHOOSE i \in Opponents(ms, c) :
                    \A j \in Opponents(ms, c) \ {i} :
                        \/ Strength(ms, c, j) < Strength(ms, c, i)
                        \/ Strength(ms, c, j) = Strength(ms, c, i) /\ i < j
    IN Baselines[rival]

\* Complete-case pairing: the runs of the seeds both policies completed, the
\* last loaded one of a seed.
Paired(ours, theirs) ==
    {m \in ours : /\ \E n \in theirs : n.seed = m.seed
                  /\ \A n \in ours : n.seed = m.seed => n.file <= m.file}

OursIn(ms, c) == Runs(ms, c, Ours)
TheirsIn(ms, c) == Runs(ms, c, BestBaseline(ms, c))

\* policies[best_name] with no baseline to take.
NoOpponent(ms, c) == OursIn(ms, c) # {} /\ Opponents(ms, c) = {}
HasVerdict(ms, c) ==
    /\ OursIn(ms, c) # {}
    /\ Opponents(ms, c) # {}
    /\ Paired(OursIn(ms, c), TheirsIn(ms, c)) # {}

\* In tenths of a percent; 0 against a baseline of median 0.
Relative(ours, theirs) ==
    IF theirs = 0 THEN 0 ELSE ((ours - theirs) * 1000) \div theirs
Improvement(ms, c) ==
    LET ours == OursIn(ms, c)
        theirs == TheirsIn(ms, c)
    IN Relative(Median2(Goodputs(Paired(ours, theirs))),
                Median2(Goodputs(Paired(theirs, ours))))

GuardrailOk(ms, c) ==
    LET ours == Median2(Ttfts(OursIn(ms, c)))
        theirs == Median2(Ttfts(TheirsIn(ms, c)))
    IN theirs > 0 => 100 * (ours - theirs) <= GuardrailPct * theirs

Supports(ms, c) ==
    /\ ~CornerExclusion(c)
    /\ Improvement(ms, c) >= SupportImprovement
    /\ GuardrailOk(ms, c)

(***************************************************************************)
(* The verdict over the core region.                                       *)
(***************************************************************************)
Core(ms) == {c \in CellsOf(ms) : HasVerdict(ms, c) /\ ~CornerExclusion(c)}

AtLeastPct(S, core, pct) == 100 * Cardinality(S) >= pct * Cardinality(core)
Intact(ms) == {c \in Core(ms) : GuardrailOk(ms, c)}
Supporting(ms) == {c \in Core(ms) : Supports(ms, c)}
MedianImprovement(ms) ==
    Median2([c \in Core(ms) |-> Improvement(ms, c)]) \div 2

\* The band the reason text of WEAK names.
WeakWithinBand(ms) ==
    /\ MedianImprovement(ms) >= WeakImprovement
    /\ MedianImprovement(ms) < SupportImprovement
WeakEnough(ms) == MedianImprovement(ms) >= WeakImprovement

Verdict(ms) ==
    IF MixedSchemas(ms) THEN "mixed schemas"
    ELSE IF \E c \in CellsOf(ms) : NoOpponent(ms, c) THEN "no opponent"
    ELSE IF Core(ms) = {} THEN "KILL"
    ELSE IF ~AtLeastPct(Intact(ms), Core(ms), GuardrailRegionPct) THEN "KILL"
    ELSE IF AtLeastPct(Supporting(ms), Core(ms), SupportCellPct) THEN "SUPPORT"
    ELSE IF WeakEnough(ms) THEN "WEAK"
    ELSE "KILL"

\* What the readout prints of the collapsed runs of a policy in a cell: a row
\* is partial when the policy's numbers come from the seeds it survived.
RunsThatCollapsed(ms, c, p) ==
    {m \in Admitted(ms) : m.cell = c /\ m.policy = p /\ m.collapsed}
CollapseRow(ms, c, p) ==
    [seeds |-> {m.seed : m \in RunsThatCollapsed(ms, c, p)},
     partial |-> RunsThatCollapsed(ms, c, p) # {} /\ Runs(ms, c, p) # {}]

\* main refuses evidence from outside the grid before it reads anything.
Readout(ms) == IF \E m \in ms : OffGrid(m) THEN "refused" ELSE Verdict(ms)

(***************************************************************************)
(* The directory fills.  A file, once there, stays as it is.               *)
(***************************************************************************)
Init == evidence = {}

Found(m) ==
    /\ \A n \in evidence : n.file # m.file
    /\ evidence' = evidence \cup {m}

Next == \E m \in Possible : Found(m)

Spec == Init /\ [][Next]_evidence
=============================================================================
