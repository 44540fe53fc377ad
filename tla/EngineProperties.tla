-------------------------- MODULE EngineProperties --------------------------
(***************************************************************************)
(* Properties of the engine that can be stated without a policy: its       *)
(* accounting, its limits and its metering.                                *)
(***************************************************************************)
EXTENDS Engine

Phases == {"PENDING", "PREFILL", "DECODE", "PREEMPTED", "COMPLETE"}

\* Every variable of the engine holds a value of its type.
EngineTypeOK ==
    /\ arrivals \in 0..NumFlows
    /\ admitted \subseteq Flows /\ abandoned \subseteq Flows
    /\ degraded \subseteq Flows
    /\ cursor \in [Flows -> Nat]
    /\ phase \in [Flows -> Phases]
    /\ where \in [Flows -> 0..NumDevices]
    /\ left \in [Flows -> Int]
    /\ DOMAIN output = Flows
    /\ \A f \in Flows : output[f] \in [Steps(f) -> Nat]
    /\ preemptions \in [Flows -> Nat]
    /\ budget \in [Flows -> Int]
    /\ pinDev \in [Flows -> 0..NumDevices]
    /\ pins \in [Devices -> SUBSET Flows] /\ spilled \subseteq Flows
    /\ beHbm \in [Devices -> Nat]
    /\ accrued \in [Devices -> Nat]
    /\ occupied \subseteq Flows /\ gaps \subseteq Flows
    /\ timers \subseteq [flow : Flows, step : Nat, dev : Devices, attempt : Nat]
    /\ reready \in Seq([flow : Flows, step : Nat])
    /\ stack \in Seq(Task)
    /\ finished \subseteq [flow : Flows, dev : Devices]
    /\ exhausted \subseteq [flow : Flows, dev : Devices]
    /\ failed \in BOOLEAN

\* The memory owed to pins, spilled ones included, never exceeds the device.
CommittedWithinHbm == \A d \in Devices : HbmCommitted(d) <= HbmCap

\* A device never gives away more slots than it has; a pin keeps its slot
\* across tool-time and a spill.
SlotsWithinLimit == \A d \in Devices : SlotsUsed(d) <= MaxSlots

\* The KV of the best-effort residents of d, counted one by one; and with it all
\* the memory that is held there, by pins that are not spilled and by residents.
KvOfResidents(d) == Total(BestEffort(d), [f \in BestEffort(d) |-> NextKv(f)])
HbmHeld(d) == Total(pins[d] \ spilled, PinSize) + KvOfResidents(d)

\* A device never holds more KV than it has, whatever the interleaving of
\* pins, spills, restores and best-effort placements.
HbmWithinLimit == \A d \in Devices : HbmHeld(d) <= HbmCap

\* besteffort_hbm_gib is exactly the KV of the best-effort residents: every
\* placement, preemption and completion adds and takes back the same amount.
Accounted(d) == beHbm[d] = KvOfResidents(d)
AccountingExact == \A d \in Devices : Accounted(d)

\* Nobody has been evicted since it stopped: who is about to be completed or
\* abandoned by its device loop is still on that device.
StopsResident == \A s \in finished \cup exhausted : where[s.flow] = s.dev

\* No interleaving of pins, spills, restores and placements makes a device give
\* away more slots than it has, owe its pins more memory than it has, or, while
\* besteffort_hbm_gib is the sum over its residents, hold more memory than it
\* has.  And that it stays, but for one step: a device loop that completes or
\* abandons an invocation which was evicted after it had stopped takes its
\* memory back a second time (Device.release), and what others hold is then
\* counted as free.
CapacityRespected ==
    /\ [](/\ CommittedWithinHbm /\ SlotsWithinLimit
          /\ AccountingExact => HbmWithinLimit)
    /\ [][AccountingExact /\ StopsResident => AccountingExact']_engineVars

\* Decoding stops exactly where it must: no invocation generates more tokens
\* than it has to, and no flow more than its budget allows (a device sizes its
\* interval by the first decoder to stop, and settles whenever that changes).
NeverOverserved ==
    \A f \in Flows : left[f] >= 0 /\ (budget[f] >= 0 \/ budget[f] = Unmetered)

\* A pin counts as occupied exactly while its flow's invocation is resident;
\* the reserved-idle metric is charged from this set.
OccupiedExact == occupied = {f \in Flows : Reserved(f) /\ where[f] # NoDevice}

\* No guard of the engine ever raises: a reserved invocation always finds its
\* restored memory, every placement the policy books is there, no guaranteed
\* flow is ever chosen as a victim.
NoEngineError == ~failed

\* Between two triggers every admitted, unfinished flow waits in exactly one
\* place from which it will move on: the policy's queue, a tool-time gap, an
\* entry timer or the decode set of its device.
PlacesOf(f, waiting) ==
    {p \in {"queued", "in gap", "entering", "decoding"} :
        \/ p = "queued" /\ f \in waiting
        \/ p = "in gap" /\ f \in gaps
        \/ p = "entering" /\ \E t \in timers : t.flow = f /\ StillEntering(t)
        \/ p = "decoding" /\ phase[f] = "DECODE" /\ where[f] # NoDevice}
InOnePlace(waiting) ==
    Idle => \A f \in Flows :
                Cardinality(PlacesOf(f, waiting)) =
                    IF f \in admitted /\ ~IsComplete(f) THEN 1 ELSE 0

\* Between two triggers what a policy believes is running (its best-effort
\* placements) is what the engine has resident.
BooksMatch(placements) ==
    Idle => placements = {[flow |-> f, step |-> Step(f), dev |-> where[f]] :
                              f \in UNION {BestEffort(d) : d \in Devices}}

\* Every flow that arrives is served to its end, or to the end of its budget.
EveryFlowServed == <>(\A f \in Flows : IsComplete(f))

\* The cascade of deliveries, actions and re-offers a trigger starts comes to
\* an end, so that simulated time can move on.
CascadeEnds == []<>(Idle \/ failed)

\* The non-preemption guarantee, which the engine enforces on any policy: a
\* guaranteed flow leaves its device only by finishing the invocation or by
\* exhausting its budget.
GuaranteeEnforced ==
    [][\A f \in Flows :
           Reserved(f) /\ NonPreemptible /\ where'[f] # where[f] =>
               where[f] = NoDevice \/ cursor'[f] > cursor[f]]_engineVars

\* A pin lasts for the whole life of its flow, tool-time included.
PinLasts ==
    [][\A d \in Devices : \A f \in pins[d] \ pins'[d] :
           cursor'[f] = Len(Work[f])]_engineVars

\* Settling before every change of a decode set: whenever the service accrued
\* on a device is reset, it has been credited to all that were decoding.
SettlementCredits ==
    [][\A d \in Devices : accrued'[d] < accrued[d] =>
           \A f \in Decoding(d) : left'[f] = left[f] - accrued[d]]_engineVars

\* An invocation starts to decode only at the end of the entry latency of its
\* current placement, so that a resumed one pays the price of its preemption.
EntryPaid ==
    [][\A t \in timers \ timers' :
           phase[t.flow] = "PREFILL" /\ phase'[t.flow] = "DECODE" =>
               t.attempt = preemptions[t.flow]]_engineVars
=============================================================================
