----------------------------- MODULE SweepCurves -----------------------------
(***************************************************************************)
(* The two secondary readouts of sim/analysis/h1_readout.py, functions of  *)
(* the manifests found in the h2 and h3 directories: the normalized area   *)
(* under served value over offered load (h2_auc), and the change of the    *)
(* compliant completion rate under runaway injection (h3_deltas).  Both    *)
(* take a median over whatever runs a policy has at a point of the sweep.  *)
(*                                                                         *)
(* Rates are in percent, medians are kept doubled, areas fourfold.         *)
(***************************************************************************)
EXTENDS Integers, FiniteSets, FiniteSetsExt, Medians

CONSTANTS
    Possible,   \* the manifests that may be found
    Sweep,      \* the swept loads or injections
    Baselines   \* the baseline policies

VARIABLE evidence

Ours == "reservation"

\* Both readouts take the metrics of every manifest; a collapsed run has none.
Raises(ms) == \E m \in ms : m.collapsed

Policies(ms) == {m.policy : m \in ms}
Swept(ms, p) == {m.at : m \in {n \in ms : n.policy = p}}
Rate2(ms, p, x) == 
    Median2([m \in {n \in ms : n.policy = p /\ n.at = x} |-> m.rate])

(***************************************************************************)
(* h2_auc.                                                                 *)
(***************************************************************************)
Before(ms, p, x) == Max({y \in Swept(ms, p) : y < x})

\* A plausible bug: the rectangle under the point on the right.
RectanglesRight(ms, p) ==
    MapThenSumSet(LAMBDA x : 2 * (x - Before(ms, p, x)) * Rate2(ms, p, x),
                  Swept(ms, p) \ {Min(Swept(ms, p))})
\* The trapezoids between the neighbouring points of the policy.
Area4(ms, p) ==
    MapThenSumSet(LAMBDA x : (x - Before(ms, p, x))
                        * (Rate2(ms, p, x) + Rate2(ms, p, Before(ms, p, x))),
                  Swept(ms, p) \ {Min(Swept(ms, p))})
Span(ms, p) == Max(Swept(ms, p)) - Min(Swept(ms, p))

\* The mean served value, fourfold; a policy with one load has area 0.
Auc4(ms, p) ==
    IF Cardinality(Swept(ms, p)) < 2 THEN 0 ELSE Area4(ms, p) \div Span(ms, p)

\* The reservation policy against the largest area of a baseline, 0 without.
BestBaseAuc4(ms) ==
    Max({0} \cup {Auc4(ms, b) : b \in Policies(ms) \cap Baselines})
OursAuc4(ms) == IF Ours \in Policies(ms) THEN Auc4(ms, Ours) ELSE 0
AheadInArea(ms) == OursAuc4(ms) > BestBaseAuc4(ms)

(***************************************************************************)
(* h3_deltas.                                                              *)
(***************************************************************************)
\* The rate without runaways, or 0 if that was not run.
Base2(ms, p) == IF 0 \in Swept(ms, p) THEN Rate2(ms, p, 0) ELSE 0
Delta2(ms, p, x) == Rate2(ms, p, x) - Base2(ms, p)
WorstDelta2(ms, p) == Min({Delta2(ms, p, x) : x \in Swept(ms, p)})

(***************************************************************************)
(* The directory fills.                                                    *)
(***************************************************************************)
Init == evidence = {}

Found(m) ==
    /\ \A n \in evidence : n.file # m.file
    /\ evidence' = evidence \cup {m}

Next == \E m \in Possible : Found(m)

Spec == Init /\ [][Next]_evidence

-----------------------------------------------------------------------------
(* What the two readouts promise of the evidence they are given.           *)

Readable == evidence # {} /\ ~Raises(evidence)
FullySwept(p) == Swept(evidence, p) = Sweep

\* The curve of q is that of p run backwards.
Mirrored(p, q) == \A x \in Sweep :
    Rate2(evidence, p, x) = Rate2(evidence, q, Min(Sweep) + Max(Sweep) - x)

\* The normalized area is a mean of what was served, over the whole load range
\* and not more or less than the extremes (h2_auc, "normalized (mean served
\* value)"): two policies whose curves mirror each other are level.
MeanServed ==
    Readable => \A p \in Policies(evidence) : FullySwept(p) =>
        LET rates == {Rate2(evidence, p, x) : x \in Sweep}
        IN /\ 2 * Min(rates) <= Auc4(evidence, p)
           /\ Auc4(evidence, p) <= 2 * Max(rates)
           /\ \A q \in Policies(evidence) :
                FullySwept(q) /\ Mirrored(p, q) => Auc4(evidence, p) = Auc4(evidence, q)

AsGoodWhereBothRan(b) ==
    \A x \in Swept(evidence, b) \cap Swept(evidence, Ours) :
        Rate2(evidence, b, x) >= Rate2(evidence, Ours, x)

\* Once both sweeps are complete, the reservation policy is not ahead in area if
\* some baseline served as much at every single load (h1_readout.py:355-368).
NeverFlattered ==
    Readable /\ FullySwept(Ours) =>
        \A b \in Policies(evidence) \cap Baselines :
            FullySwept(b) /\ AsGoodWhereBothRan(b) => ~AheadInArea(evidence)

\* The same of sweeps that are not complete: "A higher AUC is a better
\* graceful-degradation curve" (h1_readout.py:343-344).
HigherIsBetter ==
    Readable /\ Ours \in Policies(evidence) =>
        \A b \in Policies(evidence) \cap Baselines :
            /\ Swept(evidence, b) \cap Swept(evidence, Ours) # {}
            /\ AsGoodWhereBothRan(b)
            => ~AheadInArea(evidence)

\* The delta at a level is the change from no injection at all, for every policy
\* with runs at that level and without injection (h3_deltas).
DeltaFromNone ==
    Readable => \A p \in Policies(evidence) : 0 \in Swept(evidence, p) =>
        /\ WorstDelta2(evidence, p) <= 0
        /\ \A x \in Swept(evidence, p) : WorstDelta2(evidence, p)
                <= Rate2(evidence, p, x) - Rate2(evidence, p, 0)
        /\ \E x \in Swept(evidence, p) : WorstDelta2(evidence, p)
                = Rate2(evidence, p, x) - Rate2(evidence, p, 0)

\* No policy is shown to gain from injection for want of a run without it:
\* "completion-rate delta for compliant flows at 0/1/5/10 percent"
\* (h1_readout.py:377-378).
NoGainFromMissingBase ==
    Readable => \A p \in Policies(evidence) : WorstDelta2(evidence, p) <= 0

\* A policy that collapsed in a sweep is read as not having completed there
\* (grid.py, run_cell); the readout does not fail on it.
CollapseReadable == ~Raises(evidence)
=============================================================================
