-------------------------- MODULE ReservationPolicy --------------------------
(***************************************************************************)
(* The reservation discipline (sim/scheduler/policies/reservation.py, with *)
(* the shared queue of sim/scheduler/queueing.py) composed with the engine *)
(* it drives.                                                              *)
(*                                                                         *)
(* A bounded number of flows of the eligible classes hold a pin for their  *)
(* whole life and are scheduled the moment an invocation of theirs is      *)
(* ready; everything else waits in one FIFO queue that is drained first-   *)
(* fit into whatever capacity the pins leave over.                         *)
(***************************************************************************)
EXTENDS ClusterView

CONSTANTS
    Eligible,         \* flows of a class in eligible_classes
    ReservedPct,      \* reserved_subset_fraction, in percent
    MaxPinPct,        \* max_pin_hbm_fraction, in percent
    BudgetEnabled,    \* budget.enabled; FALSE is ablation A1
    ClassBudget,      \* ClassBudget[f]: tokens_by_class of the flow's class
    DegradationKey,   \* "headroom", or "queue_depth" in ablation A3
    HeadroomPct,      \* headroom at which the degradation curve reaches zero
    ScanBudget        \* DEFAULT_SCAN_BUDGET of the queue

ASSUME PolicyAssumption ==
    /\ Eligible \subseteq Flows
    /\ ReservedPct \in Nat /\ MaxPinPct \in Nat /\ HeadroomPct \in 0..100
    /\ BudgetEnabled \in BOOLEAN
    /\ ClassBudget \in [Flows -> Nat]
    /\ DegradationKey \in {"headroom", "queue_depth"}
    /\ ScanBudget \in Nat

VARIABLES
    ledger,    \* _ledger: flows with a reservation
    active,    \* _active: flows that may still be degraded
    running,   \* _running: best-effort invocations and where they were sent
    queue      \* _queue: flows whose next invocation waits, FIFO by flow id

policyVars == <<ledger, active, running, queue>>
vars == <<engineVars, policyVars>>

-----------------------------------------------------------------------------
(* Admission.                                                              *)

SubsetBound == (ReservedPct * TotalSlots) \div 100       \* K
BudgetFor(f) == IF BudgetEnabled THEN ClassBudget[f] ELSE Unmetered

Reservable(f) ==
    /\ f \in Eligible
    /\ PinSize[f] * 100 <= MaxPinPct * HbmCap
    /\ Cardinality(ledger) < SubsetBound

PinDevices(f) ==
    {d \in Devices : /\ FreeSlots(d) > 0
                     /\ FreeHbm(d) >= PinSize[f]
                     /\ Pinnable(d) >= PinSize[f]}

-----------------------------------------------------------------------------
(* Draining the best-effort queue: every invocation, in flow order, goes to *)
(* the first device that has room for it after those ahead of it.           *)

Ahead(q, f) == {g \in q : g < f}
SentTo(q, to, f, d) == {g \in Ahead(q, f) : to[g] = d}

Room(q, to, f) ==
    {d \in Devices :
        /\ FreeSlots(d) > Cardinality(SentTo(q, to, f, d))
        /\ FreeHbm(d) >= NextKv(f) + Total(SentTo(q, to, f, d),
                                           [g \in q |-> NextKv(g)])}

FirstFit(q) ==
    {to \in [q -> 0..NumDevices] :
        \A f \in q :
            to[f] = IF Cardinality(Ahead(q, f)) < ScanBudget
                          /\ Room(q, to, f) # {}
                    THEN Least(Room(q, to, f)) ELSE NoDevice}

\* A plausible bug: what was examined and declined is not put back.
DropExamined(q, placed) == {f \in q : Cardinality(Ahead(q, f)) >= ScanBudget}
\* What the queue could not place goes back to it.
SetAside(q, placed) == q \ placed

\* Answer with `first`, then drain the queue q; `kept` is left of _running.
Drain(first, q, kept) ==
    \E to \in FirstFit(q) :
        LET placed == {f \in q : to[f] # NoDevice} IN
        \E order \in Ascending(placed) :
            /\ queue' = SetAside(q, placed)
            /\ running' = kept \cup
                   {[flow |-> f, step |-> Step(f), dev |-> to[f]] : f \in placed}
            /\ Respond(first \o
                   [i \in 1..Cardinality(placed) |->
                       TaskOf("Schedule", order[i], Step(order[i]),
                              to[order[i]])])

-----------------------------------------------------------------------------
(* Room for a restore: best-effort residents of the pin's device are        *)
(* evicted, the biggest first, until the pin fits.                          *)

EvictedBefore(v, w) ==
    \/ Kv(v.flow, v.step) > Kv(w.flow, w.step)
    \/ /\ Kv(v.flow, v.step) = Kv(w.flow, w.step)
       /\ v.flow < w.flow \/ (v.flow = w.flow /\ v.step < w.step)

RunningOn(d) == {v \in running : v.dev = d}
KvOf(V) == Total(V, [v \in V |-> Kv(v.flow, v.step)])

\* The victims of f's restore: the shortest prefix that makes it fit, or all.
Victims(f, d) ==
    {V \in SUBSET RunningOn(d) :
        /\ \A v \in V, w \in RunningOn(d) : EvictedBefore(w, v) => w \in V
        /\ V # RunningOn(d) => FreeHbm(d) + KvOf(V) >= PinSize[f]
        /\ \A v \in V : FreeHbm(d) + KvOf({w \in V : EvictedBefore(w, v)})
                            < PinSize[f]}

\* A plausible bug: victims are still believed to be running.
KeepRunning(V) == running
\* _running once the victims have been taken out of it.
AfterEviction(V) == running \ V

EvictionOrders(V) ==
    {s \in [1..Cardinality(V) -> V] :
        \A i, j \in 1..Cardinality(V) : i < j => EvictedBefore(s[i], s[j])}

-----------------------------------------------------------------------------
(* Degradation.                                                            *)

\* What there is of the binding resource, and how much of it is free.
PressureFree ==
    IF DegradationKey = "queue_depth"
    THEN IF Cardinality(queue) >= TotalSlots THEN 0
         ELSE TotalSlots - Cardinality(queue)
    ELSE LET slots == [d \in Devices |-> FreeSlots(d)]
             gib == [d \in Devices |-> FreeHbm(d)]
             slotShare == Total(Devices, slots) * HbmCap
             hbmShare == Total(Devices, gib) * MaxSlots
         IN IF slotShare < hbmShare THEN slotShare ELSE hbmShare
PressureTotal ==
    IF DegradationKey = "queue_depth" THEN TotalSlots
    ELSE NumDevices * MaxSlots * HbmCap

\* Flows that may be degraded: admitted, unfinished, not degraded before.
Degradable == {f \in active : /\ ~IsComplete(f) /\ f \in admitted
                              /\ f \notin abandoned /\ f \notin degraded}

\* The curve is one at zero headroom, zero from HeadroomPct up, and in
\* between each flow is drawn independently.
DegradeDraws ==
    IF PressureFree * 100 >= HeadroomPct * PressureTotal THEN {{}}
    ELSE IF PressureFree = 0 THEN {Degradable}
    ELSE SUBSET Degradable

-----------------------------------------------------------------------------
(* on_event.                                                               *)

PolicyInit == ledger = {} /\ active = {} /\ running = {} /\ queue = {}

\* FlowArrival of a flow that gets a reservation on the first device it fits.
GrantReservation ==
    /\ Pending("FlowArrival")
    /\ LET f == Head(stack).flow IN
        /\ Reservable(f) /\ PinDevices(f) # {}
        /\ ledger' = ledger \cup {f}
        /\ active' = active \cup {f}
        /\ Respond(<<TaskOf("Admit", f, 0, Least(PinDevices(f)))>>)
    /\ UNCHANGED <<running, queue>>

\* FlowArrival of any other flow: it joins the aggregate class.
GrantAggregate ==
    /\ Pending("FlowArrival")
    /\ LET f == Head(stack).flow IN
        /\ ~(Reservable(f) /\ PinDevices(f) # {})
        /\ active' = active \cup {f}
        /\ Respond(<<TaskOf("Admit", f, 0, NoDevice)>>)
    /\ UNCHANGED <<ledger, running, queue>>

\* InvocationReady of a reserved flow: make room for its pin, and run it.
ReadyReserved ==
    /\ Pending("InvocationReady") /\ Reserved(Head(stack).flow)
    /\ LET f == Head(stack).flow
           d == pinDev[f]
           run == TaskOf("Schedule", f, Head(stack).step, d) IN
        \E V \in (IF f \in spilled THEN Victims(f, d) ELSE {{}}) :
            \E order \in EvictionOrders(V) :
                /\ running' = AfterEviction(V)
                /\ Respond([i \in 1..Cardinality(V) |->
                               TaskOf("Preempt", order[i].flow,
                                      order[i].step, NoDevice)]
                           \o <<run>>)
    /\ UNCHANGED <<ledger, active, queue>>

\* InvocationReady of a best-effort flow: queue it, then drain.
ReadyBestEffort ==
    /\ Pending("InvocationReady") /\ ~Reserved(Head(stack).flow)
    /\ Drain(<<>>, queue \cup {Head(stack).flow}, running)
    /\ UNCHANGED <<ledger, active>>

\* A plausible bug: the ledger entry of a finished flow is never taken out.
OverNever(f) == {}
\* The flow is forgotten with its last invocation, or once it is abandoned.
OverAt(f) == IF IsComplete(f) \/ f \in abandoned THEN {f} ELSE {}

\* InvocationComplete: forget the invocation, and the flow if it is over.
NoteComplete ==
    /\ Pending("InvocationComplete")
    /\ LET f == Head(stack).flow
           mine == {v \in running : v.flow = f /\ v.step = Head(stack).step} IN
        /\ ledger' = ledger \ OverAt(f)
        /\ active' = active \ OverAt(f)
        /\ Drain(<<>>, queue, running \ mine)

\* Tick: degrade whom the draw hits, then drain.
OnTick ==
    /\ Pending("Tick")
    /\ \E hit \in DegradeDraws : \E order \in Ascending(hit) :
        Drain([i \in 1..Cardinality(hit) |->
                  TaskOf("Degrade", order[i], 0, NoDevice)], queue, running)
    /\ active' = IF PressureFree * 100 >= HeadroomPct * PressureTotal
                 THEN active
                 ELSE {f \in active : ~IsComplete(f) /\ f \notin abandoned}
    /\ UNCHANGED ledger

PolicyAnswer == \/ GrantReservation \/ GrantAggregate \/ ReadyReserved
                \/ ReadyBestEffort \/ NoteComplete \/ OnTick

\* The Admit actions carry the budget of the flow's class.
AdmitStep ==
    \E f \in Flows : /\ stack # <<>> /\ Head(stack).flow = f
                     /\ AdmitAggregate(BudgetFor(f)) \/ AdmitReserved(BudgetFor(f))

Next == \/ PolicyAnswer
        \/ ((EngineStep \/ AdmitStep) /\ UNCHANGED policyVars)

Spec == Init /\ PolicyInit /\ [][Next]_vars

\* A trigger once taken is handled to its end.
FairSpec == /\ Spec /\ TriggerFairness
            /\ WF_vars(\/ PolicyAnswer
                       \/ (HandlingStep \/ AdmitStep) /\ UNCHANGED policyVars)
=============================================================================
