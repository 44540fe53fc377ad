------------------------ MODULE ReadoutProperties ------------------------
(***************************************************************************)
(* What a verdict drawn from the evidence must not depend on, and what its *)
(* documents say of it.                                                    *)
(***************************************************************************)
EXTENDS Readout

Verdicts == {"KILL", "WEAK", "SUPPORT"}
Rank(v) == CASE v = "KILL" -> 0 [] v = "WEAK" -> 1 [] v = "SUPPORT" -> 2

Instead(m, n) == (evidence \ {m}) \cup {n}

\* The verdict is monotone: a run of the reservation policy with a higher
\* goodput and everything else equal never turns the verdict down a class.
MoreNeverHurts ==
    \A m \in evidence, n \in Possible :
        /\ m.policy = Ours /\ ~m.collapsed /\ ~n.collapsed
        /\ n.file = m.file /\ n.ttft = m.ttft /\ n.goodput >= m.goodput
        /\ Verdict(evidence) \in Verdicts
        => Rank(Verdict(evidence)) <= Rank(Verdict(Instead(m, n)))

\* A slower first token of the reservation policy never turns the verdict up.
SlowerNeverHelps ==
    \A m \in evidence, n \in Possible :
        /\ m.policy = Ours /\ ~m.collapsed /\ ~n.collapsed
        /\ n.file = m.file /\ n.goodput = m.goodput /\ n.ttft >= m.ttft
        /\ Verdict(evidence) \in Verdicts
        => Rank(Verdict(evidence)) >= Rank(Verdict(Instead(m, n)))

\* The pre-flagged corners count neither for nor against: the verdict is the
\* one of the manifests of the core cells alone.
CornersNeverCount ==
    LET core == {m \in evidence : m.cell.gap <= 900 /\ m.cell.mix <= 70
                                  /\ m.cell.load >= 60}
    IN Verdict(evidence) \in Verdicts => Verdict(core) = Verdict(evidence)

\* A run synced twice changes nothing.
CopiesNeverCount ==
    LET once == {m \in evidence :
                    \A n \in evidence : n.id = m.id => m.file <= n.file}
    IN /\ Verdict(once) = Verdict(evidence)
       /\ \A c \in CellsOf(evidence) :
             HasVerdict(evidence, c) =>
                Improvement(once, c) = Improvement(evidence, c)

\* A run that hit its wall-clock cap contributes no number to any cell.
CollapsedNeverMeasured ==
    LET whole == {m \in evidence : ~m.collapsed} IN
    \A c \in CellsOf(whole) :
        /\ HasVerdict(evidence, c) <=> HasVerdict(whole, c)
        /\ HasVerdict(whole, c) =>
              /\ Improvement(whole, c) = Improvement(evidence, c)
              /\ GuardrailOk(whole, c) <=> GuardrailOk(evidence, c)

\* The improvement of a cell rests on genuine pairs: with the same goodput on
\* every seed both policies completed it is zero, whatever the seeds that
\* only one of them completed measured.
EqualPairsEqual ==
    \A c \in CellsOf(evidence) :
        /\ HasVerdict(evidence, c)
        /\ \A m \in OursIn(evidence, c), n \in TheirsIn(evidence, c) :
              m.seed = n.seed => m.goodput = n.goodput
        => Improvement(evidence, c) = 0

\* A seed the reservation policy completed and the comparison leaves out,
\* though the best baseline has a manifest for it, is disclosed as a collapse
\* and its cell as one with a selection effect.
DroppedSeedsDisclosed ==
    \A c \in CellsOf(evidence) :
        HasVerdict(evidence, c) =>
            \A n \in evidence :
                /\ n.cell = c /\ n.policy = BestBaseline(evidence, c)
                /\ n.seed \in {m.seed : m \in OursIn(evidence, c)}
                /\ n.seed \notin {m.seed : m \in TheirsIn(evidence, c)}
                => LET row == CollapseRow(evidence, c, n.policy)
                   IN n.seed \in row.seeds /\ row.partial

(***************************************************************************)
(* Statements of the documents the code does not bear out.                 *)
(***************************************************************************)

\* "Every manifest must describe a cell the grid config actually defines"
\* (assert_manifests_match_grid): evidence with a manifest of a workload the
\* grid does not have is refused.
OnlyGridCells ==
    LET defined == {m \in Possible : m.inGrid} IN
    Readout(evidence) # "refused" => evidence \subseteq defined

\* The reason of a WEAK verdict: the median improvement is in [5%, 10%).
WeakReasonTrue ==
    Verdict(evidence) = "WEAK" =>
        /\ MedianImprovement(evidence) >= WeakImprovement
        /\ MedianImprovement(evidence) < SupportImprovement

\* "Where the affected policy is the best baseline, the bias runs AGAINST the
\* reservation discipline": had the collapsed run of the best baseline been
\* counted with no goodput at all, the improvement would be no smaller.
CollapseBiasAgainst ==
    \A m \in evidence :
        LET counted == [m EXCEPT !.collapsed = FALSE, !.goodput = 0]
            c == m.cell
        IN /\ m.collapsed
           /\ HasVerdict(evidence, c)
           /\ m.policy = BestBaseline(evidence, c)
           /\ BestBaseline(Instead(m, counted), c) = m.policy
           => Improvement(evidence, c) <= Improvement(Instead(m, counted), c)

\* A cell without a comparison has no verdict, and the readout goes on
\* without it.
CellWithoutOpponentSkipped == Verdict(evidence) # "no opponent"
=============================================================================
