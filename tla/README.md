# A TLA+ model of the reservation-discipline simulator

The program under `src/sim` is a discrete-event simulator of a small inference
cluster. It compares a *reservation discipline* for long agentic flows (a pin on
a device for a flow's whole life, a guarantee against preemption, a token budget
across all invocations of a flow) with baselines from the literature, over a grid
of cells that a resumable runner executes and a mechanical readout judges. What
it reports is only as good as its engine, its bookkeeping and its runner: if an
invocation is lost, memory handed out twice, service miscounted or a half-written
manifest read as a result, the numbers are wrong and no run fails. This directory
models those parts, checks them with TLC on small instances and proves what
matters most with TLAPS for every instance.

Contents: [components](#1-components) · [modules](#2-modules-and-how-they-correspond-to-the-code) ·
[runs](#3-runs) · [where code and documents disagree](#4-where-the-code-and-its-documents-disagree) ·
[proofs](#5-proofs) · [limits](#6-what-is-not-modelled-and-what-is-only-model-checked) ·
[plan](#7-plan)

## 1. Components

| Component | Source (under `src/sim`) | State it keeps | Operations | Modelled |
|---|---|---|---|---|
| Engine | `core/engine.py`, `core/types.py` | flows and invocations, `_reready`, `_pin_occupied`, SimPy processes | arrival, tick, gap and entry timers, device loop; executes Admit, Schedule, Preempt, Degrade | `Engine`, and its serve loop at the grain of SimPy events in `DeviceLoop` (partly: no Reject) |
| Devices, cluster | `cluster/device.py`, `cluster/cluster.py` | pins, residents, decode set, best-effort HBM, open interval | pin, unpin, spill, restore, reserve, release, capacity tests | in `Engine` |
| Service model | `cluster/service_model.py` | constants | rates, latencies, KV size | abstracted in `Engine` (partly) |
| Policy interface | `scheduler/interface.py` | none | four events in, six actions out, a snapshot of the cluster | `AnyPolicy`, `ClusterView` |
| Reservation discipline | `scheduler/policies/reservation.py` | `_ledger`, `_active`, `_running`, `_queue` | `on_event` for each event | `ReservationPolicy` |
| Policy queue | `scheduler/queueing.py` | a heap | push, pop, drain with a scan budget, re-key | `PolicyPass` |
| FCFS | `policies/fcfs.py` | a queue | first fit | `FcfsPolicy` |
| vLLM-, Niyama-style | `policies/vllm_style.py`, `niyama_style.py` | queue, `_running`, demotions, live flows | evict by priority, demote overdue work | `VllmPolicy`, `NiyamaPolicy` |
| CONCUR-, MARS-style | `policies/concur_style.py`, `mars_style.py` | AIMD window, in-flight count | gate, pause, fill | `Aimd`, `ConcurPolicy`, `MarsPolicy` |
| FastServe-style MLFQ | `policies/fastserve_mlfq.py` | levels, queue | demote, reconcile on ticks | `Levels`, `MlfqPolicy` |
| Metrics | `metrics/collectors.py` | counters, time integrals | one handler per engine event | `Metrics`, `MeteredRun` (partly: no latency distributions) |
| Workload, seeds | `workload/*.py`, `core/seed.py` | random streams | lazily yields flows | `Workload` (partly: no lifetime drift) |
| Orchestration | `core/orchestration.py` | none | builds objects from YAML | no |
| Grid runner | `experiments/grid.py` | manifests on disk | resume, shard, pool, cap wall time | `GridRunner` (partly: no YAML, no commit stamp) |
| Ablations, pilot, sensitivity | `experiments/ablations.py`, `pilot.py`, `run_main_grid.py` | manifests, `scaling_probe.json` | resumable sweep, signal, cost projection | `AblationSweep`, `PilotSignal`, `ScalingProbe` (partly) |
| Tuning | `tuning/*.py` | none | grid search, held-out scoring | `Tuning` (partly: no report text) |
| Analysis | `analysis/*.py` | none | verdict, secondary readouts, figures | `Readout`, `SweepCurves`, `Medians` (partly: no intervals, no figures) |
| Sanity, workload validation | `sanity/*.py`, `workload/valid*.py` | none | statistics of whole runs | no |

**How they interact.** The engine is the only caller of a policy (`_deliver`)
and the only writer of devices. An external trigger delivers an event; the policy
answers with a list of actions; executing one of them can deliver another event
before the next action is executed (`_admit` calls `_make_ready`, which calls
`_deliver`). Preempted invocations are parked on `_reready` and offered again when
the cascade is over. The collector is called from inside the engine's handlers.
Policy and engine keep separate books of the same facts: the policy's ledger and
the devices' pins, the policy's `_running` and the devices' residents, the
collector's counts and both. Above the simulator, programs communicate through
files only: the runner writes manifests, the readouts read whatever is there; a
tuning passes its parameters to the grid; a timed probe is cached for the cost
projection.

**What is hard.** There are no threads in a simulation, yet handlers nest, timers
outlive what they were armed for, a device loop is interrupted at the very instant
its timeout is due, and the service a decoder has received is only known after its
device has been *settled*. Memory vacated by a spilled pin is lent to best-effort
work and must come back without fail. Policies book a whole answer against one
snapshot. Around it, worker processes are killed, launches overlap and leave
orphans behind, and readers must not mistake what they left for results.
`PROJECT.json` lists the hazards one by one with the line where each bites.

**What makes each part correct.** *Engine and devices*: capacity is never handed
out twice, service is credited to exactly those who received it, budgets are
exact, a guarantee is never taken back, no invocation is lost, no wake-up is lost.
*Reservation discipline*: its books match the engine's, it never makes the engine
raise, a reserved flow never waits for capacity, capacity does not idle while
queued work fits, everybody is served eventually. *Baselines*: exact books,
placements the engine accepts, nobody waits without a cause, the admission window
and the levels mean what they say, a trigger ends, who is admitted is served.
*Metrics*: integrals of what happened. *Workload*: the same flows for every
policy. *Grid runner and sweeps*: a manifest is whole, stays, and is written for
every cell in the end. *Tuning, readouts*: the selection and the verdict follow
from the runs whatever the order, copies and collapses they come with.

## 2. Modules and how they correspond to the code

```
Capacity ── Engine ── ClusterView ─┬─ ReservationPolicy ─┬─ ReservationProperties ── MCReservation
                │                  │                     │       └── (INSTANCE) ReservationContract
                │                  │                     └─ MeteredRun ─┬─ MCMetrics
                │                  │                                    └─ MeteredProofs
                │                  └─ PolicyPass ─┬─ FcfsPolicy, VllmPolicy, NiyamaPolicy
                │                                 ├─ Aimd ── ConcurPolicy, MarsPolicy
                │                                 └─ Levels ── MlfqPolicy, MarsPolicy
                │                                 └─ Baselines (INSTANCE of each) ── MCBaselines
                └─ EngineProperties ── AnyPolicy ── MCAnyPolicy
DeviceLoop ─┬─ MCLoop       GridRunner ─┬─ MCGrid
            └─ LoopProofs               └─ GridProofs
Readout ── ReadoutProperties, PilotSignal; SweepCurves, Tuning, ScalingProbe,
AblationSweep, Workload ── (INSTANCE) MCExperiments
EngineProofs ─┬─ AnyPolicyProofs
              ├─ DisciplineProofs ── MeteredProofs
              └─ BaselineProofs ── (INSTANCE) FoldFacts
```

### The simulator

* **Capacity** — sums of memory. `Total(S, size)` is Python's `sum`, defined as
  the number of units `<<x, k>>` the holders own, so that a fact about a sum is
  a fact about a cardinality and no recursion is needed.
* **Engine** — state and handlers of the engine with its devices. One action per
  trigger (`Arrival`, `TickTimer`, `GapEnd`, `EnterDevice`, `EntryVoid`,
  `DecodeToken`, `IntervalEnd`), per part of a device-loop turn (`CompleteFlow`,
  `CompleteIntoGap`, `CompleteIntoNext`, `AbandonFlow`), per policy action and
  per guard that raises (`…Refused`). The call tree of a trigger is flattened
  into `stack`: the events still to be delivered and the actions still to be
  executed, innermost first. Python's `for action in actions` with nested
  deliveries is exactly this order. A device-loop turn keeps the rest of its two
  local lists in `finished` and `exhausted`, because policy code runs between
  their elements; the lists follow the order of the decode set, which the model
  leaves open.
* **ClusterView** — the snapshot a policy is given with every event.
* **ReservationPolicy** — `on_event` of the discipline, one action per branch,
  composed with the engine: the answer replaces the event on the stack in the
  same step, computed from the same snapshot the code passes. `Drain` is the
  first-fit pass of `_drain_besteffort` through `PolicyQueue.drain`, stated as
  the assignment it must produce instead of the loop that produces it.
  `Victims` is the shortest prefix of the eviction order that makes room for a
  restore.
* **ReservationContract** — what a reservation promises, without queues, pins,
  events or policies: clients, entitlements bounded in number and covered by
  memory, work that is begun and, for the entitled, never interrupted.
* **AnyPolicy** — the engine under a policy that answers anything: the part of
  the safety that does not depend on trusting a policy. Its only restrictions
  (`Sensible`) are those every policy of the repository obeys: it knows only
  flows that have arrived, admits a flow once and before anything else, and
  does not schedule an invocation that has stopped and is about to be completed.
* **PolicyPass** — what the baselines share: a drain of their queue against
  mirrors of the devices' capacity, so that the placements of one answer account
  for each other. Here the loop is kept, because what it does with what it
  declines, evicts and has booked is the question. `Drained` stands for
  `PolicyQueue.drain` and takes the two callbacks of the code as operators. The
  heap is the set of its entries with the order of their keys; Niyama, whose keys
  change, keeps the key an entry was pushed with.
* **FcfsPolicy, VllmPolicy, NiyamaPolicy, ConcurPolicy, MarsPolicy, MlfqPolicy** —
  one `on_event` each, with **Aimd** (window and admission gate) and **Levels**
  (demotion, keep-set) where two of them share it. A deadline is its rank; when a
  flow is overdue is left open, within what the deadlines imply.
* **Baselines** — the policies composed with the engine: `policy` says which one
  a run was started with, and what it does not keep stays at its initial value.
  One specification for all means that a property about books, waiting or
  progress is stated once and checked for seven configurations (the seventh,
  `one class`, is vLLM with equal priorities, which must take the steps of FCFS).
* **Metrics, MeteredRun** — the collector as a value that each handler call maps
  to the next one, and the run of the discipline in which every engine action
  makes the calls its code makes, in their order, with a clock that ends at the
  horizon. How many tokens fit between two ticks of the clock is left open. The
  variable `history` records what was true in each unit of time, so that what the
  collector integrates can be compared with what happened.
* **DeviceLoop** — the serve loop of one device with SimPy's idle
  event, timeout and interrupts. `Engine` takes a change of the decode set and the
  end of an interval as atomic; here a change only *pokes* the loop, which may be
  idle, waiting, already woken, or itself the process that makes the change. Two
  history variables (`generated`, `lossless`) record the service each invocation
  really received and whether an entering invocation was ever evicted.

### Around the simulator

* **GridRunner** — one results directory over many launches of
  `run_grid`. The file system is kept at the grain of open, write and rename, with
  writers that follow the file they opened; a simulation is one step. Faults: the
  machine stops, a worker is killed, the launching process is killed and leaves
  orphans, a job raises; and a launch that hangs is interrupted by its operator.
* **Readout, ReadoutProperties** — the mechanical H1 verdict as a function of the
  manifests found; manifests arrive one at a time in any order, so every subset is
  a body of evidence the readout may be run on. **PilotSignal** is the pilot's own
  way of asking the same question, **SweepCurves** the two secondary readouts,
  **Medians** the median they share.
* **Tuning** — search, selection and held-out scoring over a pool whose workers
  finish in any order. **ScalingProbe** — the cached timing behind the cost
  projection, with a configuration that is amended in between. **AblationSweep** —
  the resumable sweep, interrupted and relaunched. **Workload** — named random
  streams, arrivals thinned to a rate with bursts, the structure of a flow, and
  passes over one generator that interleave.
* **MCExperiments** — all of the latter, one at a time (`question`).

`MCReservation`, `MCAnyPolicy`, `MCBaselines`, `MCMetrics`, `MCLoop`, `MCGrid` and
`MCExperiments` hold the small instances.

| In the model | In the code |
|---|---|
| `cursor`, `phase`, `where`, `left`, `preemptions`, `output` | `flow.cursor` and the phase, `device_id`, `decode_remaining`, `preemptions`, `output_tokens` of the flow's current invocation |
| `admitted`, `abandoned`, `degraded`, `budget`, `pinDev` | the fields of `Flow` and its `reservation.device_id` |
| `pins`, `spilled`, `beHbm` | `Device.pins`, `Pin.spilled`, `besteffort_hbm_gib` |
| `accrued[d]` | `(now - interval_start) * interval_rate` of the open interval |
| `timers`, `gaps` | live `_enter_device` and `_gap_then_ready` processes |
| `occupied`, `reready` | `_pin_occupied`, `_reready` |
| `ledger`, `active`, `running`, `queue` | `_ledger`, `_active`, `_running`, `_queue` |
| `window`, `inFlight`, `level`, `base`, `demotions`, `live`, `key` | the windows in percent of a flow, in-flight counts, levels and the service they were earned from, Niyama's demotions, live flows and heap keys |
| `meter` | the `MetricsCollector` |
| `files[c]["tmp"]`, `files[c]["path"]` | `<run id>.json.tmp` and `<run id>.json` |
| `failed` | an engine guard raised `RuntimeError` |

**Abstractions.** In `Engine`, time is the order of triggers: any live timer may
fire next, and a decode interval may be cut at any whole token, which covers every
choice of latencies, gaps and rates. All decoders of a device receive service at
the same rate (`decode_rate_per_request`), so one counter per device is enough. KV
sizes are small integers; the `1e-9` and `1e-6` tolerances of the floating-point
code are exact comparisons here, and fractions are percentages. The degradation
draw is nondeterministic between the two ends of the curve. `timers` carry the
preemption count of their placement; no guard reads it — it exists so that
`EntryPaid` can be stated. In the readouts, medians are kept doubled and
improvements are in tenths of a percent.

## 3. Runs

| Run | Question | Instance | Distinct states |
|---|---|---|---|
| `tiered` | Do the books agree, is no work lost, does every restore succeed, does the engine never raise, is everybody served, is the contract kept? | one reserved flow with tool-time, two best-effort flows that compete for the 6 units of memory it leaves; TIERED | 15,728 |
| `strict` | Is the ledger backed by pins and bounded by K, is nothing idle that could be used, is the budget exact? | five flows, two devices, K = 2 for three eligible flows, one of them too big to pin; scan budget 1; budgets that end with an invocation, in the middle of one and with the last; degradation on queue depth; STRICT | 34,201 |
| `any_policy` | What does the engine enforce by itself? | three flows on one device of two slots, every answer of up to one action and every eviction followed by a placement, after any event | 2,234,828 |
| `baselines` | Are the baselines' books exact, their waiting justified, their windows kept? Does none of the faithful ones make the engine raise? | seven configurations; five flows, two devices of two slots and 3 units of memory: a flow that fills a device, two that come back from tool-time, one that goes on without; vLLM, Niyama and CONCUR meet the first four only | 1,337,865 |
| `baselines_served` | Is who was admitted served, are levels earned? | the same policies; four flows for two slots, with fairness | 34,524 |
| `metrics` | Do the lazy integrals equal the history? | a reserved and a best-effort flow that may run out of budget, horizon 4, warm-up 1; TIERED | 85,460 |
| `loop` | Is no wake-up lost and no service miscounted at the grain of SimPy events? | three invocations on two slots, a rate that depends on the batch, entries of no and of some latency, one preemption | 24,506 |
| `grid` | Are manifests whole and final, are all cells run in the end? | two cells in two overlapping selections, two workers; at any moment the machine stops, a worker is killed and a job raises, or the launching process is killed and one of these besides; up to five launches | 882,035 |
| `experiments` | Do verdicts, readouts, tuning, sweeps, projections and workloads follow from their inputs in any order and over any leftovers? | eight small questions, see `MCExperiments` | 179,110 |
| `lost_service`, `vllm_cycle`, `grid_half_file` | Documented claims the code does not meet | see section 4 | — |

**What they show.** `tiered`: a spilled pin always gets its memory back, by
evicting best-effort work that loses no work thereby; policy, engine, device and
idle metric agree on what runs (`BooksAgree`); and the whole implements
`ReservationContract` under the refinement at the end of `ReservationProperties`.
`strict`: the ledger is exactly the set of live pins and every settlement credits
all decoders; `WorkConserving` says that nothing that waits would fit, if the drain
got to it: what it places counts as examined (`queueing.py:105`), so an entry is
sure to be reached only while fewer entries than the scan budget are ahead of it
and running. `any_policy`: slots, the memory committed to pins, metering, the guarantee and the
life of a pin depend on no policy. The memory that pins and residents really hold does:
`CapacityRespected` bounds it, resident by resident, while each device counts its
residents exactly, and shows that one kind of step alone can end that, the completion or
abandonment of an invocation that was evicted after it had stopped (section 4). No such
step exists under the discipline and the faithful baselines, where the bound is proved
outright. `baselines`: one mirror field not booked, one
declined entry dropped, one in-flight count off, and a property breaks; the cause
of waiting is stated per policy, so the baselines are shown to compete as they
claim to. `FaithfulNeverRaise` is claimed of first come first served, one class, MARS
and FastServe only. Their instance holds what makes the engine raise under the others:
a step without tool-time that is followed by another, and two decoders that finish in
one turn beside a bigger flow that waits. `metrics`: the order of *integrate, then change* is right in every
handler. `loop`: what `Engine` takes as atomic is so, except for the loss of
section 4. `grid`: rename is atomic, resume is sound, and `run_grid` reports what
it did; with an orphaned worker it is not (section 4), so three of the four
properties speak of behaviours without one, while `GridCompletes` holds with them.
`experiments`: `VerdictSound` and `EvidenceHonest` compare the verdict of one body
of evidence with that of another that differs by one manifest, `SelectsBest`
compares the selection with the truth the workers saw, `FlowsPaired` the passes of
different policies with each other.

**Bounds.** The workload is finite, so the models of the simulator need few
artificial bounds: flows, devices, slots, memory and tokens are constants.
`MaxPending` limits the depth of nested answers and `MaxPreempts` the evictions of
one invocation, both in `AnyPolicy` only. `Grain` and `Horizon` of `DeviceLoop`
are the instants at which other processes act (service goes on after the last);
its `MaxPreempt` is 1, because what one preemption leaves behind is what the next
turn must cope with. In the grid each kind of fault strikes once, in the
combinations `FaultSets` lists: three launches may fail in a row, or one leaves
orphans and another fails beside them. `MaxLaunches` is five there, which leaves two
that complete, one per selection, and three for the ablation sweep. The instances are chosen by
the case that must happen: memory is tight enough that a spilled pin's memory is
lent out and must be taken back, K is smaller than the number of eligible flows,
two best-effort flows have to be told apart by size, a flow has tool-time and a
step without it. Two devices are needed for first fit and for pins elsewhere, and
`strict` and `baselines` have them; the eviction path concerns one device only.
`Baselines.cfg` has a state constraint, `LastForTheFaithful`: the fifth flow, which has the
step without tool-time, does not arrive under vLLM, Niyama or CONCUR, since these
three are known to fail over such a step (section 4) and what their books look like
after that says nothing more. So `BooksExact`, `NoWorkLost` and `WaitsForCause` are claims
about five flows for four policies and about four flows for three. The
constraint cuts every behaviour at an arrival, and no liveness is checked under it.
Flows are ordered by number and the code relies on that order, so there is no
symmetry, but for the interchangeable workers of `GridHalfFile.cfg`.

**Fairness.** Over the engine, `FairSpec` assumes that SimPy fires every timer it
holds, with the horizon taken as unbounded: arrivals, gaps, entries and intervals
are strongly fair, because a timer cannot fire while another trigger is handled
and so is enabled only again and again, though it stays scheduled. Handling a
trigger is weakly fair: a Python call runs on. Nothing is assumed about ticks;
nobody depends on them to be served. `DeviceLoop` assumes that the event queue is
processed; no policy is obliged to act. `GridRunner` assumes that processes run,
that a launch which can return does, and that an operator relaunches what is
missing and interrupts a launch that hangs — the resume procedure the documents
prescribe — and nothing about faults.

**Deadlock.** TLC's deadlock check is on wherever the system keeps going: with a
tick always possible between triggers, a deadlock would be a trigger whose
handling cannot continue. It is off where a behaviour may really end: in
`AnyPolicy.cfg` (a raised guard ends the run), `Metrics.cfg` (the horizon),
`Loop.cfg` (all invocations complete), `Grid.cfg` and `GridHalfFile.cfg` (the
launches are used up) and `Experiments.cfg` (a directory is full, a tuning written,
a generator out of flows).

**Mutants.** Each property has a mutant listed in `PROJECT.json`: an operator
next to the one it replaces, with the same parameters and a plausible bug
(named in the comment above it), under which the property is violated in the
same run.

## 4. Where the code and its documents disagree

1. **Service lost on eviction of an entering invocation** (`lost_service`,
   `SettlementCredits`). `_preempt` settles the device only for a victim in
   DECODE (`engine.py:500`) but restarts the device's interval in any case
   (`engine.py:516`). What the others decoded since the last settlement is lost.
   `docs/architecture.md:156` promises that preemption never loses or invents a
   token, and lines 162-165 that every change of the set settles first. In
   `strict`, where nobody is evicted while entering, the settlements are right.
2. **An eviction that cycles** (`vllm_cycle`, `CascadeEnds`). One victim is evicted
   per attempt (`vllm_style.py:122`); if that is not enough memory nobody is
   placed, the victim is offered again, fits, and is evicted again, all within one
   trigger. `vllm_style.py:14` and `docs/architecture.md:178` say that preemption
   cannot cycle. The Niyama-style policy has the same attempt.
3. **A half-written manifest** (`grid_half_file`, `NoHalfFileLeft`). The temporary
   file of a cell has one name for all writers (`grid.py:317`). A worker left by a
   killed launch and one of the next launch write into the same file, and the
   rename publishes the mixture; `grid.py:315` says that this never happens.

### Refuted statements

These were refuted by TLC while the models were built and have no run of their
own. Where a definition is named it is still in its module and can be added to a
configuration (`Verdict!`, `Pairing!`, `Pilot!`, `Curves!`, `Ablated!` name the
instances in `MCExperiments`; some need an instance with more evidence, as said).

*Engine and policies*

* `EntryPaid`: an entry timer is told stale by phase and device only
  (`engine.py:370`), so an invocation evicted while entering and placed on the same
  device again decodes before its own latency is over (`docs/architecture.md:149`).
  `tiered` has the behaviour.
* `~failed` for every baseline. A decoder in the `finished` list of a turn can be evicted
  in the cascade of an earlier one (`engine.py:459`): under the vLLM-style policy it is then
  completed as well as offered again. And since a completion without tool-time offers the
  next invocation first (`engine.py:557`), that policy may choose the completed,
  not yet announced one as its victim: the engine raises `RuntimeError`. The first needs
  two decoders that finish in one turn, both a bigger flow of higher priority. Niyama
  raises as vLLM does, with a flow of two steps without tool-time and another flow on a
  device of 3 units, which a third flow of higher priority needs whole; CONCUR raises in
  the instance of `baselines` without its state constraint.
* `HbmWithinLimit` under any policy, without the provisos of `CapacityRespected`. When a
  decoder in `finished` is evicted and completed all the same, the device takes its memory
  back twice; `Device.release` clamps the result at zero (`device.py:229-240`), so if
  another invocation was placed in between, `besteffort_hbm_gib` counts less than the
  residents hold. A pin admitted then makes a device of 4 units hold 5, although
  `pin_flow` says of its test that it is "enforced by the engine, not trusted to the
  policy" (`device.py:159-162`). TLC finds this under `AnyPolicy` in 24 steps.
* Ablation A1 has no per-request cap: `per_request_cap_tokens` is stored and never
  read (`reservation.py:162`, against `configs/policies.yaml:44`).
* One backlog cuts the CONCUR window again and again: every re-offer of a paused
  invocation is a ready event (`concur_style.py:121`).
* An earlier `WindowKept` held the flows in flight to the ceiling of the window. The gate
  compares the count with the window as it is (`mars_style.py:177`), so over a ceiling of
  1.5 flows a second one is let in; `WithinCeiling` rounds up.
* The MLFQ evicts residents for work that then does not fit in memory
  (`fastserve_mlfq.py:194`), and a demotion forgets what was served beyond the
  quantum (`:104`).
* A drain stops at its scan budget whether it placed what it examined or not
  (`queueing.py:105`), so an entry that is *next* in the queue, and fits, waits if the
  entries before it were all placed. An earlier form of `WorkConserving`, which
  counted only what is ahead in the queue, fell over five flows and a scan budget of 1.

*Metrics and runner*

* `UsefulWasGenerated`: with a warm-up, useful tokens can exceed the generated ones,
  because a completion counts whole (`collectors.py:276`).
* A manifest is overwritten, when an orphaned worker and a new one run the same cell
  (`grid.py:319`).

*Readouts*

* `OnlyGridCells`: a manifest of a cell that is not in the grid is admitted if its
  horizon, devices and seed are (`h1_readout.py:128`).
* `WeakReasonTrue`: of two core cells with +25 % and −5 % the median is 10 %, and the
  verdict is WEAK with a reason that says "improvement in 5-10 %" (`:324`).
* `CollapseBiasAgainst`: a collapsed run of the best baseline is said to bias the
  comparison against the reservation policy (`:274`). Its seed is dropped on both
  sides (`:240`), so the reservation policy may lose its own worst run with it and
  come out better than if the collapse had counted as no goodput at all.
* `CellWithoutOpponentSkipped`: a cell without any completed baseline run raises
  `KeyError` instead of being skipped (`:241`).
* `HigherIsBetter`, `NoGainFromMissingBase`, `CollapseReadable`: the area of a policy
  with fewer loads is not comparable (`:363`), a delta without a base run counts as a
  gain (`:392`), and a collapsed run makes the readout raise (`:353`).
* `PairsOfOneSeed`: the pilot pairs runs by place, not by seed (`pilot.py:78`).
  `UpperBound`: the projection takes the dearest *timed* size for an untimed bigger
  one (`pilot.py:194`). `AuxiliaryHarmless`: a half-written probe makes the loading
  of results raise (`pilot.py:143`).
* `NeverMixed`, `InertIsZero`: an ablation sweep resumed under another setting mixes
  both (`ablations.py:118`), and the effect of a variant that changes nothing is then
  not zero (`:145`).

## 5. Proofs

| Module | Shows |
|---|---|
| `EngineProofs` | `Total` is a natural number, additive over disjoint sets, monotone, bounded below by each part, unchanged by renaming; least and greatest elements exist. `EngineInv` holds initially and every engine action preserves it; what each engine action may do to pins, slots, memory and service, one lemma per action |
| `AnyPolicyProofs` | the engine under any policy: `EngineTypeOK`, `CapacityRespected`, `GuaranteeEnforced`, `PinLasts`, `NeverOverserved` — all that its run checks; and that no device holds more memory than it has if nobody is evicted after it stopped (`MemoryHolds`) |
| `DisciplineProofs` | the same of the reservation discipline (with `TypeOK` for its own variables too, and memory without a proviso), and the shape of its nested answers; its books: `NoWorkLost`, `ReservedNeverWaits`, `BooksAgree`, `LedgerBacked`, and the safety part of `ImplementsContract`; its promises: `NoEngineError`, `BudgetMetered`, `WorkConserving`, and `SettlementCredits` with STRICT pins |
| `MeteredProofs` | the collector of a measured run: `MetricsExact`, `LittlesLaw` |
| `LoopProofs` | the serve loop of a device: `ServiceExact`, `IntervalCurrent` |
| `FoldFacts` | a fold over a sequence is made step by step, so what each step of it preserves, the fold preserves |
| `BaselineProofs` | the baselines that evict nobody, or on a tick only: `BooksExact`, `NoWorkLost`, and `HbmWithinLimit` (`BaselineMemoryHolds`); the window of MARS, `WindowKept`, and of CONCUR in part; `StepsAsFcfs` |
| `GridProofs` | the grid runner: `NoHalfFile`, `ReturnedTrue`, `NeverOverwritten` |

So every invariant and action property of `tiered`, `strict`, `any_policy`, `metrics`,
`grid` and the safety of `loop` is a theorem, and of `baselines` what is said above. The
theorems hold for every workload, cluster, configuration, grid and
pool that satisfies the named assumptions `SizesAssumption`, `WorkAssumption`, `ModeAssumption`,
`BoundAssumption` (in `Engine`), `AnswersAssumption` (in `AnyPolicy`), `PolicyAssumption`
(in `ReservationPolicy`), `WindowAssumption` (in `Metrics`), `MonitoredAssumption` (in
`MeteredRun`), `LoopAssumption` (in `DeviceLoop`), `GridAssumption` (in `GridRunner`),
`ScanAssumption` (in `PolicyPass`) and `PolicyAssumption`, `PriorityAssumption`,
`WindowAssumption`, `LevelsAssumption` (in `Baselines`): sizes are natural
numbers, every flow has at least one invocation, percentages are in range,
answers are sequences of actions, the warm-up ends before the horizon, the collector is told of all devices
(`orchestration.py:116`), the cells of a grid are finitely many, deadlines are in the order
of arrival among equals, a quantum is positive. TLC
evaluates them in each run. Some theorems need more, and say so: `SettlementCredits` needs
`PinMode = "STRICT"` (section 4 has the counterexample without it), `GridProofs` is
about behaviours in which no launching process was killed alone, as the
properties themselves are, the window needs a cluster with a slot and MARS a ceiling of at
least its slots (`HasRoom`), and `StepsAsFcfs` a full batch (`BatchPct = 100`).

### The engine

Types alone are not inductive: a completion reads the invocation after the
current one, which exists only if the cursor is in range. `EngineInv` adds

* `CursorInRange` — needed to read the workload at the cursor;
* `CompleteIsOver` — a flow is COMPLETE exactly when its cursor is at the end,
  so that a pending action about it cannot be scheduled again;
* `ResidentIsPlaced` — an invocation has a device exactly while it is entering
  or decoding, which gives a preemption the device it settles;
* `StopsOpen` — the stops left in a device-loop turn are of distinct flows that
  are not over, which keeps the cursor in range when the turn completes them one
  after another with policy code in between.

Nothing else about the policy is used, so the same lemmas serve both
specifications. On top of it, `CommittedWithinHbm` is inductive by the test of
`Device.can_pin`. Slots need that nobody is placed except by `Schedule`, and
that a reservation does not turn a resident into a pinned one.

Memory takes two arguments. What a device *counts* stays within what it has
(`CounterWithinLimit`): restoring a spilled pin brings memory back on *its* device,
so pins must be where their flows are reserved (`PinsHome`), which in turn needs
that a flow is admitted once (`AdmitsOnce`, a property of the pending actions).
What it counts is what its residents *hold* (`AccountingExact`) as long as whoever has
stopped is still resident when its loop completes or abandons it (`StopsResident`): a
release then subtracts the term that leaves the sum, and the clamp at zero does nothing.
The first holds under any policy, the second is kept by every step but the one section 4
describes, and together they bound what is held (`HeldIsCounted`). So `MemoryHolds` is
conditional for `AnyPolicy`; for the discipline and for the baselines in `Faithful`, where
`StopsResident` is proved, the bound is unconditional.

The two action properties follow step by step: a guaranteed flow is moved only by
`Leave`, which advances the cursor, and a pin is dropped only with the flow's last
step. `NeverOverserved` needs `AccruedWithin` — what a device has served since its last
settlement is within what *each* of its decoders may still generate. It is kept because
the interval ends at the first decoder to stop, and because the counter is zero
whenever somebody joins. That the flow of a decoder is admitted (`KnownAdmitted`)
is needed, since an admission sets the budget that the counter is compared with.

`AnyPolicy` *assumes* of a policy that it admits a flow once and schedules what it
has admitted. For the discipline that is `ShapeInv`: a trigger's nested calls always look
alike — evictions before the one placement they make room for, offers and
placements of a flow at most once, arrivals and admissions alone.

### The discipline's books

`NoWorkLost` speaks of the moments between triggers and is far from inductive.
`BooksInv` follows a flow through the middle of one:

* `Located` — a flow that is admitted and not over is in *exactly one* of five
  places: the policy's queue, tool-time, a device, a pending call (offered or about to
  be placed), or the engine's `_reready`. Five sets that partition a sixth is what every
  step must keep, and where a lost or doubled invocation would show.
* `StackNow`, `RereadyNow` — pending calls and parked invocations are about the *current*
  step of their flow, while the completion that waits below a ready event is about an
  earlier one; nobody is evicted twice. Without them a stale call could move a flow that
  is elsewhere by now.
* `HomesInv`, `SpillInv`, `PinsLive` — reserved flows do not queue and run at home; a
  spilled pin is of a flow that is off its device; a pin lives from admission to the
  end; and while a device loop has stops left, what is spilled is in tool-time.
* `RunningTracks` — `_running` is between triggers the set of best-effort residents.
  In the middle of one it runs ahead of the engine (a placement is
  booked when it is answered) and behind it (a completion is removed when it is
  announced), so the invariant has one disjunct for each.

`NoWorkLost` also needs that whoever is entering has its timer (`Entering`);
`BooksAgree` needs that `reserve` and `release` book the same size although a cursor may
have moved in between (`Accounted`). `LedgerBacked` at any moment of a
trigger is `LedgerTracks`: a flow in the ledger has its pin, is about to get it, or is
about to be forgotten. `ContractSteps` takes each action to a step of
`ReservationContract` or a stutter, from these invariants.

### The discipline's promises

A policy books a whole answer against one snapshot; that the engine can carry it
out later, action by action, is `Promises`: a pending restore is alone on the stack
but for its evictions and fits once they are done (`RestoreAlone`, `RestoreFits`), all
placements of a drain fit *together* on each device beside what is there
(`BookedFits`), and a pending reservation can be pinned (`AdmitFits`). With it no
guard raises: `NoEngineError`.

`SettlementCredits` is an action property that only the eviction of an *entering*
invocation breaks; with STRICT pins nothing spills, so nothing is restored and
nobody is evicted (`NobodyEvicted`).

`BudgetMetered` says what is left of a budget between any two steps, and for that
it must be known why somebody stopped: `Metering` adds that an invocation in
`finished` has nothing left, and one in `exhausted` has something left and no budget.

`WorkConserving` is about the moments between triggers too. `WaitsFull` says the same of
every moment at which no drain is still to come (`Undisturbed`): what waits within
reach of the scan budget has no room beside what is on the device *or on its way
there*. What a drain declines has no room beside what it has placed so far, and
what it places later only takes more away; every other step either frees nothing
or leaves behind a completion, an eviction or a parked invocation, after which
another drain comes.

### The collector

A measured run is a run of the discipline (`RunsDiscipline`: the clock and the calls change
none of its variables), so everything above holds of it. `MeterInv` compares the collector
with engine and history at *every* step, not only between triggers, by taking each integral
as of now: what is stored, plus the current count times the measured time since it was
stored. Two things keep it. A handler may call the collector several times, and each call
leaves every integral as of now unchanged, because it integrates with the old count before it
changes it (`Called`, and `CallsCompose` for one call after the other); the counts it leaves
are those of the engine after the handler (`Counts`), for which busy time needs to know who is
resident, and the pins in use need `OccupiedExact`. And a tick of the clock raises each
integral by its count exactly if the unit of time is in the measured window (`MeasuredIs`), as
it does the sum over the history.

`LittlesLaw` is about the moment at which everyone is done. `Balance` says the same before: the
integral is what is recorded of the flows that completed, plus the ages of those still in the
system, measured from the warm-up on. A tick ages everyone in the system by one, an admission
adds a flow of age zero since it happens at the instant of the arrival (`BirthsKept`), and a
completion moves an age into the record, where it counts from the arrival; hence only `<=`
for flows that arrived before the warm-up. After an abandonment, whose time is integrated
but not recorded, nothing is claimed.

### The baselines

A baseline answers with a pass over its queue, a fold that places, declines and evicts
against mirrors. `FoldFacts` shows of any fold that it is made step by step (`AfterSteps`)
and keeps what each step keeps (`FoldKeeps`). That is an induction over data; it goes
through because the fold of the community modules recurses over sets of positions, whose
strict order by inclusion is well-founded, and a least counterexample needs no operator as
a parameter. The step and what is to be shown are constants of `FoldFacts`, so each
kind of pass is an instance of it. Of every pass in `BaselineProofs`, whatever the
queue and the scan budget: it examines each waiting flow at most once (`SortedExamined`),
its mirror agrees with its answer at every step (`PassOK`: what has been placed has left
the queue and entered the books, what has been evicted has left the books), evictions
precede placements, and nobody is evicted and placed in the same answer (`AnsweredBy`).

`BooksExact` and `NoWorkLost` speak of the moments between triggers. `BaselineInv` says
the same in the middle of one, in the terms of `DisciplineProofs`: each flow in exactly one
place (`Sound`), the books ahead of the engine by the placements it has yet to make and
behind it by the completion that is being announced (`Tracks`), everybody who is entering
has a timer. FastServe and MARS keep their books as a sequence, which lists each
invocation once (`Listed`); MARS also counts (`inFlight = Cardinality(Flight)`).

The theorems are about the policies in `Faithful`: first come first served, one class,
FastServe and MARS. vLLM with several classes, Niyama and CONCUR answer a ready event with
evictions that the engine may no longer be able to carry out as they were meant, which is
the subject of section 4, and `Tracks` is not an invariant of theirs: an eviction may be about
an invocation that has not been placed yet. That memory is never overcommitted
(`BaselineMemoryHolds`) follows for the policies in `Faithful` from the same invariant: nobody is
evicted while a device loop has stops left, so the engine's accounting argument applies.

The window of CONCUR and MARS needs no books. Every change of it is a clamp, whatever
it is clamped from (`ClampedWithin`), and a flow is let in only below the window
(`WindowHolds`), so there are never more in flight than the ceiling, rounded up to a whole flow. That
no more wait and run than are in flight (`WindowKept`) needs the books, so that part is for MARS.

`StepsAsFcfs` is a refinement. Two passes, over the same flows in the same order
(`SameOrder`) from mirrors that see the same slots (`SameStart`, where the full batch is
needed), are folded in lockstep: after each flow the mirrors are alike in all but
the books of what runs (`Twin`, `LikeSlots`), because nobody of lower priority is there to be
evicted (`EqualsAsSlot`). The engine's own steps are those of `Engine` under another name
(`FcfsEngine`).

### The serve loop

The serve loop keeps an interval open while other processes change the decode set it was
opened for, so neither property is inductive. `LoopInv` says what holds in between:

* `Attentive` — a loop that has not been told of anything it has not looked at yet
  (`Undisturbed`) waits idle exactly over an empty decode set, and otherwise with the rate of
  the set there is. An idle loop's rate is zero, so that settling it credits nothing.
* `StopsInTime` — nobody has been served past its end by as much as one unit of time brings at
  some rate of the table, and nobody will be when an undisturbed interval ends: it is sized by
  the *first* decoder to stop (`ToFirstStop`). A disturbed interval is settled before time passes,
  which is `AdvanceFacts`: the clock moves only over an undisturbed loop.
* `Accounts` — tokens generated against tokens credited, which differ only by what an evicted
  entering invocation lost.

Rates are integers here and divide nothing, so an interval is rounded *up* to whole units of time
and may serve its last decoder a little beyond its end. `_tokens_until_stop` clamps what is left
at zero (`max(..., 0.0)`), and without that clamp in the model a decoder past its end would
make the next interval negative: the proof asked for it, and `DeviceLoop` now has it. What
`ServiceExact` says of a completed invocation is therefore that it has its tokens and less
than one unit's service more, for every table of positive rates.

### The grid runner

`NoHalfFile` is not inductive, since a rename publishes whatever the temporary
file holds. `Clean` says why that is whole: every cell of a launch is on disk, in
its queue, or the job of exactly one worker (`Owned`); the temporary file of a job is as *its*
worker left it (`Handled`); and the counts of the running and of the last completed
launch are the numbers of manifests with their launch's number (`Books`, `Reported`). An
orphaned worker breaks `Owned`, which is section 4's third entry, so the invariant is
`~Orphaned => Clean`.

## 6. What is not modelled, and what is only model-checked

* **Only model-checked.** *Liveness* (`EveryFlowServed`, `AdmittedServed`, `EveryDecodeEnds`,
  `GridCompletes`, and the fairness of the contract inside `ImplementsContract`) is beyond the
  proof system, as is ENABLED. *The baselines whose evictions may be out of date* (vLLM with
  several classes, Niyama, CONCUR): their books and work, for the reason given under
  *The baselines*; and of all baselines `FaithfulNeverRaise`, `WaitsForCause` and
  `LevelsEarned`, which need of a pass not only what it answers but what its mirrors hold
  in between. *Folds and recursion*: the readouts, tuning, sweeps and workloads compute
  by folds and recursive operators; what those yield for input of any length needs
  induction over data, and modules with recursive operators cannot hold proofs. So the
  properties of `experiments` stay with TLC.
* **Reject.** The policies that gate admission answer an arrival they turn away
  with Reject, which the engine only counts. In the model the flow is not admitted
  and nothing else changes.
* **Preemption costs.** The entry latency after a preemption, and with it what
  MARS pays to offload, is a length of time; the models keep the order of events.
* **Ablation A2** (preemptible reservations) is a constant (`NonPreemptible`).
  The discipline never puts a reserved invocation into `_running`, so its
  evictions never choose one and the constant changes nothing in its runs.
* **Sampling, floating-point physics and drift.** What a distribution makes of a
  draw is the draw; `workload` lifetime drift scales draws and keeps no state.
* **Pure output**: figures, bootstrap intervals (no branch reads them), the
  latency distributions and ratios of `finalize`, tuning and pilot reports, paper
  sections. **YAML loading** (`orchestration.py`, the building of cells) computes
  constants of the models. `sensitivity.py` drives the grid runner's primitives
  with other axes and keeps no state of its own.
* **Sanity checks and workload validation** assert statistics of whole runs.

## 7. Plan

Done: the core, the baselines, the serve loop, metrics, the grid runner and the
experiment programs, with their runs; the proofs of section 5, which cover every safety
property of the reservation discipline, of its measurement, of the engine under any policy
and of the grid runner, and the books, the work, the memory and the window of the baselines. Left, in this order:

1. **Baselines** — `FaithfulNeverRaise` and `WaitsForCause`: what the mirrors of a pass hold
   after each flow, compared with what the engine will hold once the answer is executed.
2. **Refinement** — `DeviceLoop` implements the interval actions of `Engine`, from
   which service lost on eviction is excepted.
3. **Larger instances** — the fifth flow of `baselines` for vLLM, Niyama and CONCUR too, once
   they survive a step without tool-time; two preemptions in `loop`.
