------------------------------ MODULE Baselines ------------------------------
(***************************************************************************)
(* The baseline policies (sim/scheduler/policies), each composed with the  *)
(* engine: a run is driven by the one policy it was started with.  Each    *)
(* answers the same four events from its own books; what a policy does not *)
(* keep stays at its initial value.                                        *)
(***************************************************************************)
EXTENDS PolicyPass, EngineProperties

CONSTANTS
    Policies,          \* the policies a run may be started with
    ClassPriority,     \* class_priority of each flow's class
    BatchPct,          \* max_batch_fraction of vLLM, in percent
    Slo,               \* class_slo_s of each flow's class, 0 if it has none
    DeadlineRank,      \* the flows' deadlines, by rank
    NumDemotions,      \* num_demotions of Niyama
    InitialPct,        \* initial_window_fraction of CONCUR and MARS, in percent
    Increment,         \* their additive_increase, in flows
    DecreasePct,       \* their multiplicative_decrease, in percent
    CongestionPct,     \* their congestion_queue_threshold, in percent
    OversubscribedPct, \* the largest window of MARS, in percent of the slots
    NumLevels,         \* num_levels of FastServe and MARS
    Quantum            \* their quantum_tokens, scaled; level 0 first

KnownPolicies == {"fcfs", "vllm", "one class", "niyama", "concur", "mars", "mlfq"}

ASSUME PolicyAssumption == Policies \subseteq KnownPolicies
ASSUME PriorityAssumption ==
    /\ ClassPriority \in [Flows -> Nat] /\ Slo \in [Flows -> Nat]
    /\ DeadlineRank \in [Flows -> Nat]
    /\ NumDemotions \in Nat /\ BatchPct \in Nat
    /\ \A f, g \in Flows :
        f < g /\ Slo[f] = Slo[g] => DeadlineRank[f] <= DeadlineRank[g]
ASSUME WindowAssumption ==
    /\ InitialPct \in 0..100 /\ Increment \in Nat /\ DecreasePct \in 0..100
    /\ CongestionPct \in Nat /\ OversubscribedPct \in Nat
ASSUME LevelsAssumption ==
    /\ NumLevels \in Nat \ {0} /\ Quantum \in [1..NumLevels -> Nat \ {0}]

VARIABLES
    policy,              \* the policy of this run
    running,             \* _running: a set, in order for FastServe and MARS
    window, inFlight,    \* the admission window of CONCUR and MARS
    level, base, tracked, \* the levels of FastServe and MARS
    live, demotions, key \* the cliff of Niyama

windowVars == <<window, inFlight>>
levelVars == <<level, base, tracked>>
cliffVars == <<live, demotions, key>>
policyVars == <<queue, running, windowVars, levelVars, cliffVars>>
vars == <<engineVars, policy, policyVars>>

Fcfs == INSTANCE FcfsPolicy
Vllm == INSTANCE VllmPolicy
OneClass == INSTANCE VllmPolicy WITH ClassPriority <- [f \in Flows |-> 0]
Niyama == INSTANCE NiyamaPolicy
Concur == INSTANCE ConcurPolicy WITH CeilingPct <- 100
Mars == INSTANCE MarsPolicy WITH CeilingPct <- OversubscribedPct
Mlfq == INSTANCE MlfqPolicy

Windowed == policy \in {"concur", "mars"}
Levelled == policy \in {"mars", "mlfq"}
\* The policies that evict nobody, or on a tick only.
Faithful == {"fcfs", "one class", "mars", "mlfq"}

-----------------------------------------------------------------------------
StartWith ==
    /\ Init /\ policy \in Policies
    /\ queue = {} /\ running = IF Levelled THEN <<>> ELSE {}
    /\ window = IF Windowed THEN Mars!InitialWindow ELSE 0
    /\ inFlight = 0
    /\ level = [f \in Flows |-> 0] /\ base = [f \in Flows |-> 0]
    /\ tracked = {}
    /\ live = {} /\ demotions = [f \in Flows |-> 0]
    /\ key = [f \in Flows |-> 0]

AsFcfs == /\ policy = "fcfs" /\ Fcfs!PolicyAnswer
          /\ UNCHANGED <<policy, running, windowVars, levelVars, cliffVars>>
AsVllm == /\ policy = "vllm" /\ Vllm!PolicyAnswer
          /\ UNCHANGED <<policy, windowVars, levelVars, cliffVars>>
AsOneClass == /\ policy = "one class" /\ OneClass!PolicyAnswer
              /\ UNCHANGED <<policy, windowVars, levelVars, cliffVars>>
AsNiyama == /\ policy = "niyama" /\ Niyama!PolicyAnswer
            /\ UNCHANGED <<policy, windowVars, levelVars>>
AsConcur == /\ policy = "concur" /\ Concur!PolicyAnswer
            /\ UNCHANGED <<policy, levelVars, cliffVars>>
AsMars == /\ policy = "mars" /\ Mars!PolicyAnswer
          /\ UNCHANGED <<policy, cliffVars>>
AsMlfq == /\ policy = "mlfq" /\ Mlfq!PolicyAnswer
          /\ UNCHANGED <<policy, windowVars, cliffVars>>

Answer == \/ AsFcfs \/ AsVllm \/ AsOneClass \/ AsNiyama
          \/ AsConcur \/ AsMars \/ AsMlfq

\* What the engine does without asking; no baseline meters a flow.
EngineAlone(step) == step /\ UNCHANGED <<policy, policyVars>>
Handling == Answer \/ EngineAlone(HandlingStep \/ AdmitAggregate(Unmetered))
Next == Handling \/ EngineAlone(TriggerStep)

Spec == StartWith /\ [][Next]_vars

\* A trigger once taken is handled to its end.
FairSpec == Spec /\ TriggerFairness /\ WF_vars(Handling)

-----------------------------------------------------------------------------
\* Of the policies that evict nobody, or on a tick only, none makes the engine
\* raise: what a pass books against one snapshot is there when the engine places
\* it, through completions without tool-time and turns in which several decoders
\* finish.  vLLM, Niyama and CONCUR evict within the cascade of a completion,
\* and promise no such thing.
FaithfulNeverRaise == policy \in Faithful => ~failed

-----------------------------------------------------------------------------
(* The books of a policy, compared with the engine's.                      *)

\* _running, whichever way a policy keeps it.
Believed == IF Levelled THEN ToSet(running) ELSE running

\* Between two triggers what each policy believes agrees with the engine: what
\* runs and where (but first-come-first-served keeps no _running), how many
\* admitted flows are in flight, which flows can still be demoted; and the
\* queue is ordered by the priorities of now, not by those of the time its
\* entries were pushed.  Of vLLM, Niyama and CONCUR this says what holds while
\* none of their evictions hits an invocation that has just finished.
BooksExact ==
    /\ policy # "fcfs" => BooksMatch(Believed)
    /\ Windowed /\ Idle =>
           inFlight = Cardinality({f \in admitted : ~IsComplete(f)})
    /\ policy = "niyama" =>
           /\ Idle => live = {f \in 1..arrivals : ~IsComplete(f)}
           /\ \A f \in queue : key[f] = Niyama!EffectivePriority(demotions, f)

\* No work is lost between the queue, the gaps, the timers and the devices,
\* whoever is declined, evicted, paused or demoted on the way (with the same
\* proviso).
NoWorkLost == InOnePlace(queue)

-----------------------------------------------------------------------------
(* Who waits, and for what.                                                *)

\* A placed invocation whose memory is not enough for f even if it leaves.
TooSmallFor(f, r) ==
    HbmUsed(r.dev) - Kv(r.flow, r.step) + NextKv(f) > HbmCap

\* Between two triggers nobody waits without a cause.  First come first served:
\* no device has room.  Priorities: none has, nor would it if one invocation of
\* lower priority left, although one victim at most is evicted per attempt and
\* it is chosen without regard to its size.  CONCUR: the window is full, or no
\* device has room.
WaitsForCause ==
    Idle => \A f \in queue :
        CASE policy = "concur" -> \/ Cardinality(running) = window \div 100
                                  \/ \A d \in Devices : ~CanPlace(f, d)
          [] policy = "vllm" ->
                /\ \A d \in Devices : ~CanPlace(f, d)
                /\ \A r \in running : ClassPriority[r.flow] > ClassPriority[f]
                       => TooSmallFor(f, r)
          [] policy = "niyama" ->
                /\ \A d \in Devices : ~CanPlace(f, d)
                /\ LET prio(g) == Niyama!EffectivePriority(demotions, g) IN
                   \A r \in running : prio(r.flow) > prio(f) => TooSmallFor(f, r)
          [] OTHER -> \A d \in Devices : ~CanPlace(f, d)

\* With one class and a full batch vLLM is first-come-first-served: nothing is
\* ever evicted, and the same work goes to the same devices.
StepsAsFcfs ==
    [][policy = "one class" => Fcfs!Next]_<<engineVars, queue>>

-----------------------------------------------------------------------------
(* The admission window.                                                   *)

Ceiling == IF policy = "mars" THEN OversubscribedPct ELSE 100

\* The window stays between one flow and its ceiling, and no more flows are in
\* flight than the ceiling allows, rounded up to whole flows.
WithinCeiling ==
    /\ window \in 100..(Ceiling * TotalSlots)
    /\ inFlight * 100 < Ceiling * TotalSlots + 100

\* The cluster is kept inside the envelope of the window: window and flows in
\* flight stay within its ceiling, and no more flows wait or run than are in
\* flight.  CONCUR holds what runs at the window, whatever cut it last.
WindowKept ==
    Windowed =>
        /\ WithinCeiling
        /\ Idle => Cardinality(queue) + Cardinality(Believed) <= inFlight
        /\ policy = "concur" /\ Idle => Cardinality(running) * 100 <= window

-----------------------------------------------------------------------------
(* The levels.                                                             *)

\* Tokens an invocation must have been served to stand at level l.
ToReach(l) == Total(1..l, Quantum)

\* The policy answers a tick in this step.
TickAnswered == ~failed /\ stack # <<>> /\ Head(stack).op = "Tick" /\ stack' # stack

\* What the devices hold once the answer is executed.
HeldBy(run, d) == {r.flow : r \in {p \in ToSet(run) : p.dev = d}}
ShortOfMemory(f, run) ==
    \E d \in Devices :
        /\ Cardinality(HeldBy(run, d)) < MaxSlots
        /\ Total(HeldBy(run, d), [g \in Flows |-> NextKv(g)]) + NextKv(f) > HbmCap

\* Levels are earned and honoured.  Nobody stands lower than the service of
\* this very invocation explains, evictions and earlier invocations of the flow
\* notwithstanding; an eviction lifts nobody, since a level falls back only
\* when the flow goes on; and a tick leaves nobody waiting for a slot who
\* outranks a resident: memory is what keeps him out.
LevelsEarned ==
    [][Levelled =>
        /\ \A f \in Flows : [flow |-> f, step |-> Step(f)] \in tracked =>
               /\ ToReach(level[f]) <= Mlfq!Generated(f)
               /\ level'[f] >= level[f]
        /\ TickAnswered => \A f \in queue', r \in ToSet(running') :
               Mlfq!RankedBefore(f, r.flow) => ShortOfMemory(f, running')]_vars

-----------------------------------------------------------------------------
(* Progress.                                                               *)

\* What a policy admits is finished: evicting and pausing are not cancelling,
\* and a flow of low priority or level is served in the end (of a finite
\* workload).
AdmittedServed == <>[](\A f \in admitted : IsComplete(f))
=============================================================================
