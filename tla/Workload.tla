------------------------------ MODULE Workload ------------------------------
(***************************************************************************)
(* The workload source, sim/workload: a seeded stream of flows that every  *)
(* policy of a cell is driven with.  Randomness comes from named streams   *)
(* of one seed (sim/core/seed.py); each pass over the generator draws from *)
(* fresh ones, and passes may be in progress at the same time.             *)
(*                                                                         *)
(* A stream is a sequence of draws, which begins anew when it ends; what a *)
(* distribution makes of a draw is the draw.  Time is counted in units,    *)
(* probabilities and factors in percent.                                   *)
(***************************************************************************)
EXTENDS Integers, FiniteSets, SequencesExt

CONSTANTS
    Seeds,        \* the draws of the streams under each seed, by name
    Passes,       \* passes over the one generator
    Horizon,      \* horizon_s
    Diurnal,      \* DiurnalSpec.factor at each time, in percent
    Amplitude,    \* its amplitude, in percent
    BurstFactor,  \* rate_multiplier
    AgenticShare, \* agentic_token_share, in percent
    MeanTokens,   \* mean_tokens_per_flow, by class
    RunawayPct,   \* runaway_fraction_of_agentic
    Runaway       \* RunawaySpec: multipliers of steps and output, gap in percent

WorkloadAssumption ==
    /\ Horizon \in Nat /\ Amplitude \in 0..99 /\ BurstFactor \in Nat \ {0}
    /\ \A t \in 0..Horizon : Diurnal[t] \in (100 - Amplitude)..(100 + Amplitude)
    /\ AgenticShare \in 0..100

VARIABLES
    seed,   \* the draws of the seed
    passes  \* each pass: positions in its streams, arrival times, flows so far

vars == <<seed, passes>>

Names == {"class", "structure", "adversarial"}
Draw(name, k) == seed[name][(k % Len(seed[name])) + 1]

(***************************************************************************)
(* Arrivals.                                                               *)
(***************************************************************************)
Clipped(t) == IF t > Horizon THEN Horizon ELSE t

\* generate_burst_intervals: the episodes by start.
Bursts ==
    LET drawn == [k \in DOMAIN seed["burst"] |->
            [start |-> seed["burst"][k].start,
             end |-> Clipped(seed["burst"][k].start + seed["burst"][k].duration)]]
    IN SortSeq(drawn, LAMBDA x, y : x.start < y.start)

\* _in_burst: a scan that stops at the first episode that is still to come.
InBurst(t) ==
    \E k \in DOMAIN Bursts :
        /\ Bursts[k].start <= t /\ t <= Bursts[k].end
        /\ \A j \in 1..(k - 1) : Bursts[j].start <= t

\* rate_at and peak_rate, in percent of the base rate.
RateAt(t) == Diurnal[t] * (IF InBurst(t) THEN BurstFactor ELSE 1)
PeakRate == (100 + Amplitude) * BurstFactor

\* arrival_times: a candidate is kept with the probability of its rate over
\* the peak.  Draws of the stream alternate between a gap and a chance.
Candidates ==
    [k \in 1..Horizon |-> FoldLeft(LAMBDA t, i : t + Draw("arrivals", 2 * (i - 1)),
                                   0, [i \in 1..k |-> i])]
ArrivalTimes ==
    LET kept == SelectSeq([k \in 1..Horizon |-> k],
            LAMBDA k : /\ Candidates[k] <= Horizon
                       /\ Draw("arrivals", 2 * k - 1) * PeakRate
                            < 100 * RateAt(Candidates[k]))
    IN [i \in DOMAIN kept |-> Candidates[kept[i]]]

(***************************************************************************)
(* A flow.                                                                 *)
(***************************************************************************)
\* agentic_flow_probability and the draw against it, without the division.
IsAgentic(u) ==
    LET agentic == AgenticShare * MeanTokens.interactive
        other == (100 - AgenticShare) * MeanTokens.agentic
    IN CASE AgenticShare = 0 -> FALSE
         [] AgenticShare = 100 -> TRUE
         [] OTHER -> u * (agentic + other) < 100 * agentic

AtLeastOne(n) == IF n < 1 THEN 1 ELSE n

\* Tool-time follows every step but the last.
GapAfter(j, n) == j < n

\* generate_flow from position `from` of the structure stream.
GeneratedFlow(id, t, cls, runaway, from) ==
    LET times(x, factor) == AtLeastOne(IF runaway THEN x * factor ELSE x)
        n == times(AtLeastOne(Draw("structure", from)), Runaway.steps)
        built == FoldLeft(
            LAMBDA b, j :
                LET inp == AtLeastOne(Draw("structure", b.pos))
                    out == times(AtLeastOne(Draw("structure", b.pos + 1)),
                                 Runaway.output)
                    gap == Draw("structure", b.pos + 2)
                             * (IF runaway THEN Runaway.gap ELSE 100)
                IN [pos |-> IF GapAfter(j, n) THEN b.pos + 3 ELSE b.pos + 2,
                    context |-> b.context + inp + out,
                    steps |-> Append(b.steps,
                        [prefill |-> inp, output |-> out,
                         context |-> b.context + inp + out,
                         gap |-> IF GapAfter(j, n) THEN gap ELSE 0])],
            [pos |-> from + 1, context |-> 0, steps |-> <<>>],
            [j \in 1..n |-> j])
    IN [flow |-> [id |-> id, at |-> t, cls |-> cls, runaway |-> runaway,
                  steps |-> built.steps],
        pos |-> built.pos]

(***************************************************************************)
(* Passes over the generator.                                              *)
(***************************************************************************)
NotBegun == [begun |-> FALSE, pos |-> [n \in Names |-> 0], times |-> <<>>,
             flows |-> <<>>]

Init == seed \in Seeds /\ passes = [i \in Passes |-> NotBegun]

\* A plausible bug: the streams are those of the generator, not of the pass.
StreamsOfGenerator(i) ==
    [n \in Names |-> FoldSet(LAMBDA a, b : IF a > b THEN a ELSE b, 0,
                             {passes[j].pos[n] : j \in Passes})]
\* A fresh SeedManager per pass.
FreshStreams(i) == [n \in Names |-> 0]

\* Until the first flow is asked for nothing happens; then all arrival times
\* are drawn at once.
Begin(i) ==
    /\ ~passes[i].begun
    /\ passes' = [passes EXCEPT ![i] =
            [begun |-> TRUE, pos |-> FreshStreams(i), times |-> ArrivalTimes,
             flows |-> <<>>]]
    /\ UNCHANGED seed

\* The next flow: its class, whether it runs away, its structure.
Yield(i) ==
    LET p == passes[i]
        id == Len(p.flows)
        agentic == IsAgentic(Draw("class", p.pos["class"]))
        runaway == /\ agentic
                   /\ Draw("adversarial", p.pos["adversarial"]) < RunawayPct
        made == GeneratedFlow(id, p.times[id + 1],
                              IF agentic THEN "agentic" ELSE "interactive",
                              runaway, p.pos["structure"])
    IN /\ p.begun /\ id < Len(p.times)
       /\ passes' = [passes EXCEPT
            ![i].flows = Append(@, made.flow),
            ![i].pos = [@ EXCEPT !["class"] = @ + 1,
                                 !["adversarial"] = @ + (IF agentic THEN 1 ELSE 0),
                                 !["structure"] = made.pos]]
       /\ UNCHANGED seed

Next == \E i \in Passes : Begin(i) \/ Yield(i)

Spec == Init /\ [][Next]_vars

-----------------------------------------------------------------------------
(* Properties.                                                             *)

\* Two passes over one generator give the same flows, however they interleave:
\* the comparison of two policies in a cell is paired (generator.py:57-80).
Paired ==
    \A i, j \in Passes :
        \/ IsPrefix(passes[i].flows, passes[j].flows)
        \/ IsPrefix(passes[j].flows, passes[i].flows)

\* A flow is what the engine takes it for: the context grows by every prefill
\* and output, the last one being what a pin must hold, and the tool-time after
\* the last step is zero, runaway or not (flow_structure.py:70-122).
FlowsSound ==
    \A i \in Passes : \A f \in ToSet(passes[i].flows) :
        /\ f.steps # <<>>
        /\ f.steps[Len(f.steps)].gap = 0
        /\ \A j \in DOMAIN f.steps :
            f.steps[j].context = f.steps[j].prefill + f.steps[j].output
                + (IF j = 1 THEN 0 ELSE f.steps[j - 1].context)

\* Flows arrive in order and within the horizon, and never with a probability
\* above one: in an episode of a burst or out of it, overlapping or not, the
\* rate is at most the peak and bursts do not stack (arrivals.py:66-124).
ArrivalsSound ==
    \A i \in Passes : LET ts == passes[i].times IN
        /\ \A k \in DOMAIN ts : ts[k] <= Horizon /\ (k > 1 => ts[k - 1] <= ts[k])
        /\ \A t \in 0..Horizon :
            /\ RateAt(t) <= PeakRate
            /\ RateAt(t) = Diurnal[t] * BurstFactor <=>
                \/ BurstFactor = 1
                \/ \E b \in ToSet(seed["burst"]) :
                        b.start <= t /\ t <= Clipped(b.start + b.duration)
=============================================================================
