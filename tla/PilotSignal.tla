---------------------------- MODULE PilotSignal ----------------------------
(***************************************************************************)
(* The H1 signal of the pilot, sim/experiments/pilot.py: the same question *)
(* as the readout's, asked per cell of the manifests as they are listed,   *)
(* before the grid is authorised.  It knows neither copies nor collapses.  *)
(***************************************************************************)
EXTENDS Readout

\* aggregate_by_cell: the runs of a policy, in load order.
Listed(ms, c, p) == {m \in ms : m.cell = c /\ m.policy = p}
Place(runs, m) == Cardinality({n \in runs : n.file <= m.file})

\* A collapsed manifest has no metrics to aggregate.
NoMetrics(ms) == \E m \in ms : m.collapsed

PilotOpponents(ms, c) ==
    {i \in DOMAIN Baselines : Listed(ms, c, Baselines[i]) # {}}
Strongest(ms, c) ==
    LET Median(i) == Median2(Goodputs(Listed(ms, c, Baselines[i]))) IN
    CHOOSE i \in PilotOpponents(ms, c) :
        \A j \in PilotOpponents(ms, c) \ {i} :
            \/ Median(j) < Median(i)
            \/ Median(j) = Median(i) /\ i < j

OursListed(ms, c) == Listed(ms, c, Ours)
TheirsListed(ms, c) == Listed(ms, c, Baselines[Strongest(ms, c)])

\* The samples the bootstrap resamples together: equal places of the lists.
Pairs(ms, c) ==
    {<<m, n>> \in OursListed(ms, c) \X TheirsListed(ms, c) :
        Place(OursListed(ms, c), m) = Place(TheirsListed(ms, c), n)}

\* Series of different lengths are an error of the bootstrap.
HasSignal(ms, c) ==
    /\ ~NoMetrics(ms)
    /\ OursListed(ms, c) # {}
    /\ PilotOpponents(ms, c) # {}
    /\ Cardinality(OursListed(ms, c)) = Cardinality(TheirsListed(ms, c))

Class(ms, c) ==
    LET improvement == Relative(Median2(Goodputs(OursListed(ms, c))),
                                Median2(Goodputs(TheirsListed(ms, c))))
    IN CASE improvement >= SupportImprovement -> "support"
         [] improvement < WeakImprovement -> "kill"
         [] OTHER -> "weak"

PilotGuardrailOk(ms, c) ==
    LET ours == Median2(Ttfts(OursListed(ms, c)))
        theirs == Median2(Ttfts(TheirsListed(ms, c)))
    IN theirs > 0 => 100 * (ours - theirs) <= GuardrailPct * theirs

PilotSupports(ms, c) == Class(ms, c) = "support" /\ PilotGuardrailOk(ms, c)

(***************************************************************************)
(* Properties.                                                             *)
(***************************************************************************)

\* The pilot and the readout agree: on a core cell whose two compared
\* policies completed the same seeds, the pilot counts the cell as supporting
\* exactly when the readout does.
PilotAgrees ==
    \A c \in {m.cell : m \in evidence} :
        /\ HasSignal(evidence, c) /\ HasVerdict(evidence, c)
        /\ ~CornerExclusion(c)
        /\ Cardinality(Paired(OursIn(evidence, c), TheirsIn(evidence, c)))
              = Cardinality(OursIn(evidence, c))
        => (PilotSupports(evidence, c) <=> Supports(evidence, c))

\* "CIs are 95 percent percentile bootstrap over the paired per-seed
\* samples" (write_readout): the two samples of a pair are of one seed.
PairsOfOneSeed ==
    \A c \in {m.cell : m \in evidence} :
        HasSignal(evidence, c) =>
            \A pair \in Pairs(evidence, c) : pair[1].seed = pair[2].seed
=============================================================================
