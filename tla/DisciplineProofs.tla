-------------------------- MODULE DisciplineProofs --------------------------
(***************************************************************************)
(* The reservation discipline, composed with the engine.  First: it        *)
(* answers every event with actions the engine understands, so what the    *)
(* engine enforces holds of the composition.  Second: discipline and       *)
(* engine keep the same books, every admitted flow is in exactly one       *)
(* place, and the contract is implemented.  Third: what the discipline     *)
(* asks for can be done when the engine does it, and what it promises      *)
(* comes true.                                                             *)
(***************************************************************************)
EXTENDS ReservationProperties, EngineProofs

\* The policy's own variables hold values of their types.
PolicyTypeOK ==
    /\ ledger \subseteq Flows /\ active \subseteq Flows /\ queue \subseteq Flows
    /\ running \subseteq [flow : Flows, step : Nat, dev : Devices]

\* The policy keeps track of finitely many invocations.
ReservationInv == EngineInv /\ PolicyTypeOK /\ IsFiniteSet(running)

\* A policy's budgets are budgets.
LEMMA BudgetForType ==
    ASSUME NEW f \in Flows PROVE BudgetFor(f) \in Int
BY PolicyAssumption DEF BudgetFor, Unmetered

\* The next invocation of a flow is numbered by a natural.
LEMMA StepType ==
    ASSUME EngineTypeOK, NEW f \in Flows PROVE Step(f) \in Nat
BY DEF EngineTypeOK, Step

\* What is pending at the head of the stack, for an event about a flow.
LEMMA EventType ==
    ASSUME EngineTypeOK, NEW op \in EventOps \ {"Tick"}, Pending(op)
    PROVE  /\ Head(stack).flow \in Flows /\ Head(stack).step \in Nat
           /\ stack # <<>>
<1>1. stack \in Seq(Task) /\ stack # <<>> /\ Head(stack).op # "Tick"
  BY DEF EngineTypeOK, Pending, EventOps
<1>2. Head(stack) \in FlowTask
  BY <1>1, HeadType
<1> QED
  BY <1>1, <1>2 DEF FlowTask

\* The first device that has room is one of the devices.
LEMMA DevicesLeast ==
    ASSUME NEW D \in SUBSET Devices, D # {} PROVE Least(D) \in Devices
<1>1. D \in SUBSET Nat
  BY SizesAssumption DEF Devices
<1> QED
  BY <1>1, LeastProperty

\* Draining the queue answers with tasks and keeps the policy's types.
LEMMA DrainType ==
    ASSUME EngineInv, stack # <<>>, NEW first \in Seq(Task),
           NEW q \in SUBSET Flows,
           NEW kept \in SUBSET [flow : Flows, step : Nat, dev : Devices],
           Drain(first, q, kept), IsFiniteSet(kept)
    PROVE  /\ IsFiniteSet(running')
           /\ EngineInv' /\ queue' \subseteq Flows
           /\ running' \subseteq [flow : Flows, step : Nat, dev : Devices]
<1>1. PICK to \in FirstFit(q) :
        LET placed == {f \in q : to[f] # NoDevice} IN
        \E order \in Ascending(placed) :
            /\ queue' = SetAside(q, placed)
            /\ running' = kept \cup
                   {[flow |-> f, step |-> Step(f), dev |-> to[f]] : f \in placed}
            /\ Respond(first \o
                   [i \in 1..Cardinality(placed) |->
                       TaskOf("Schedule", order[i], Step(order[i]),
                              to[order[i]])])
  BY DEF Drain
<1> DEFINE placed == {f \in q : to[f] # NoDevice}
<1>2. PICK order \in Ascending(placed) :
        /\ queue' = SetAside(q, placed)
        /\ running' = kept \cup
               {[flow |-> f, step |-> Step(f), dev |-> to[f]] : f \in placed}
        /\ Respond(first \o
               [i \in 1..Cardinality(placed) |->
                   TaskOf("Schedule", order[i], Step(order[i]), to[order[i]])])
  BY <1>1
<1>3. \A f \in placed : to[f] \in Devices /\ to[f] \in 0..NumDevices /\ f \in Flows
  BY SizesAssumption DEF FirstFit, Devices, NoDevice
<1>4. placed \in SUBSET Flows /\ Cardinality(placed) \in Nat
  BY FlowsCounted
<1>5. order \in [1..Cardinality(placed) -> placed]
  BY DEF Ascending
<1> DEFINE schedules == [i \in 1..Cardinality(placed) |->
              TaskOf("Schedule", order[i], Step(order[i]), to[order[i]])]
<1> HIDE DEF placed
<1>6. \A i \in 1..Cardinality(placed) :
        TaskOf("Schedule", order[i], Step(order[i]), to[order[i]]) \in Task
  BY <1>3, <1>5, StepType, TaskOfType DEF EngineInv, ActionOps
<1>7. schedules \in Seq(Task)
  BY <1>4, <1>6
<1>8. first \o schedules \in Seq(Task)
  <2> HIDE DEF schedules
  <2> QED
    BY <1>7
<1>9. EngineInv'
  BY <1>2, <1>8, RespondInv
<1>10. queue' \subseteq Flows
  BY <1>2 DEF SetAside
<1>11. running' \subseteq [flow : Flows, step : Nat, dev : Devices]
  <2>1. \A f \in placed : [flow |-> f, step |-> Step(f), dev |-> to[f]]
                              \in [flow : Flows, step : Nat, dev : Devices]
    BY <1>3, StepType DEF EngineInv
  <2> QED
    BY <1>2, <2>1
<1>12. IsFiniteSet(running')
  <2> DEFINE sent == [f \in placed |-> [flow |-> f, step |-> Step(f), dev |-> to[f]]]
  <2> DEFINE image == {[flow |-> f, step |-> Step(f), dev |-> to[f]] : f \in placed}
  <2>1. sent \in Surjection(placed, image)
    BY DEF Surjection
  <2>2. IsFiniteSet(placed)
    BY <1>4, FlowsCounted
  <2> HIDE DEF sent
  <2>3. IsFiniteSet(image)
    BY <2>1, <2>2, FS_Surjection
  <2>4. running' = kept \cup image
    BY <1>2
  <2> HIDE DEF image
  <2> QED
    BY <2>3, <2>4, FS_Union
<1> QED
  BY <1>9, <1>10, <1>11, <1>12

-----------------------------------------------------------------------------
(* Each answer of the policy preserves the invariant.                      *)

\* Answering an arrival with an admission.
LEMMA GrantInv ==
    ASSUME ReservationInv, GrantReservation \/ GrantAggregate
    PROVE  ReservationInv'
<1> DEFINE f == Head(stack).flow
<1>1. f \in Flows /\ stack # <<>>
  BY EventType DEF ReservationInv, EngineInv, GrantReservation, GrantAggregate,
     EventOps
<1>2. /\ ledger' \subseteq Flows /\ active' \subseteq Flows
      /\ queue' = queue /\ running' = running
  BY <1>1 DEF ReservationInv, PolicyTypeOK, GrantReservation, GrantAggregate
<1>3. \A d \in 0..NumDevices : <<TaskOf("Admit", f, 0, d)>> \in Seq(Task)
  <2> TAKE d \in 0..NumDevices
  <2>1. TaskOf("Admit", f, 0, d) \in Task
    BY <1>1, TaskOfType DEF ActionOps
  <2> QED
    BY <2>1
<1>4. PICK d \in 0..NumDevices : Respond(<<TaskOf("Admit", f, 0, d)>>)
  <2>1. CASE GrantReservation
    <3>1. PinDevices(f) # {} /\ PinDevices(f) \in SUBSET Devices
      BY <2>1 DEF GrantReservation, PinDevices
    <3>2. Least(PinDevices(f)) \in 0..NumDevices
      BY <3>1, DevicesLeast DEF Devices
    <3> QED
      BY <2>1, <3>2 DEF GrantReservation
  <2>2. CASE GrantAggregate
    BY <2>2, SizesAssumption DEF GrantAggregate, NoDevice
  <2> QED
    BY <2>1, <2>2
<1>5. EngineInv'
  BY <1>1, <1>3, <1>4, RespondInv DEF ReservationInv
<1> QED
  BY <1>2, <1>5 DEF ReservationInv, PolicyTypeOK

\* Answering a ready reserved invocation with evictions and its placement.
LEMMA ReadyReservedInv ==
    ASSUME ReservationInv, ReadyReserved PROVE ReservationInv'
<1> DEFINE f == Head(stack).flow
<1> DEFINE d == pinDev[f]
<1> DEFINE run == TaskOf("Schedule", f, Head(stack).step, d)
<1>1. f \in Flows /\ Head(stack).step \in Nat /\ stack # <<>>
  BY EventType DEF ReservationInv, EngineInv, ReadyReserved, EventOps
<1>2. run \in Task
  <2>1. d \in 0..NumDevices
    BY <1>1 DEF ReservationInv, EngineInv, EngineTypeOK
  <2> QED
    BY <1>1, <2>1, TaskOfType DEF ActionOps
<1>3. PICK V \in (IF f \in spilled THEN Victims(f, d) ELSE {{}}) :
        \E order \in EvictionOrders(V) :
            /\ running' = AfterEviction(V)
            /\ Respond([i \in 1..Cardinality(V) |->
                    TaskOf("Preempt", order[i].flow, order[i].step, NoDevice)]
                   \o <<run>>)
  BY DEF ReadyReserved
<1>4. PICK order \in EvictionOrders(V) :
        /\ running' = AfterEviction(V)
        /\ Respond([i \in 1..Cardinality(V) |->
                TaskOf("Preempt", order[i].flow, order[i].step, NoDevice)]
               \o <<run>>)
  BY <1>3
<1> HIDE DEF f, d, run
<1>5. V \subseteq running
  <2>1. V \in Victims(f, d) \/ V = {}
    BY <1>3
  <2> QED
    BY <2>1 DEF Victims, RunningOn
<1>6. IsFiniteSet(V) /\ Cardinality(V) \in Nat
  BY <1>5, FS_Subset, FS_CardinalityType DEF ReservationInv
<1>7. \A i \in 1..Cardinality(V) :
        TaskOf("Preempt", order[i].flow, order[i].step, NoDevice) \in Task
  <2> TAKE i \in 1..Cardinality(V)
  <2>1. order[i] \in V
    BY DEF EvictionOrders
  <2>2. order[i] \in [flow : Flows, step : Nat, dev : Devices]
    BY <1>5, <2>1 DEF ReservationInv, PolicyTypeOK
  <2>3. NoDevice \in 0..NumDevices
    BY SizesAssumption DEF NoDevice
  <2> QED
    BY <2>2, <2>3, TaskOfType DEF ActionOps
<1> DEFINE evictions == [i \in 1..Cardinality(V) |->
        TaskOf("Preempt", order[i].flow, order[i].step, NoDevice)]
<1>8. evictions \in Seq(Task)
  BY <1>6, <1>7
<1>9. evictions \o <<run>> \in Seq(Task)
  <2> HIDE DEF evictions
  <2> QED
    BY <1>2, <1>8
<1>10. EngineInv'
  BY <1>1, <1>4, <1>9, RespondInv DEF ReservationInv
<1>11. running' \subseteq running /\ IsFiniteSet(running')
  BY <1>4, FS_Subset DEF AfterEviction, ReservationInv
<1>12. ledger' = ledger /\ active' = active /\ queue' = queue
  BY DEF ReadyReserved
<1> QED
  BY <1>10, <1>11, <1>12 DEF ReservationInv, PolicyTypeOK

\* Answering a ready best-effort invocation.
LEMMA ReadyBestEffortInv ==
    ASSUME ReservationInv, ReadyBestEffort PROVE ReservationInv'
<1>1. Head(stack).flow \in Flows /\ stack # <<>>
  BY EventType DEF ReservationInv, EngineInv, ReadyBestEffort, EventOps
<1>2. /\ Drain(<<>>, queue \cup {Head(stack).flow}, running)
      /\ ledger' = ledger /\ active' = active
  BY DEF ReadyBestEffort
<1>3. /\ <<>> \in Seq(Task) /\ queue \cup {Head(stack).flow} \in SUBSET Flows
      /\ running \in SUBSET [flow : Flows, step : Nat, dev : Devices]
      /\ EngineInv /\ IsFiniteSet(running)
  BY <1>1 DEF ReservationInv, PolicyTypeOK
<1>4. /\ EngineInv' /\ queue' \subseteq Flows /\ IsFiniteSet(running')
      /\ running' \subseteq [flow : Flows, step : Nat, dev : Devices]
  BY <1>1, <1>2, <1>3, DrainType
<1> QED
  BY <1>2, <1>4 DEF ReservationInv, PolicyTypeOK

\* Answering a completion.
LEMMA NoteCompleteInv ==
    ASSUME ReservationInv, NoteComplete PROVE ReservationInv'
<1> DEFINE f == Head(stack).flow
<1> DEFINE mine == {v \in running : v.flow = f /\ v.step = Head(stack).step}
<1>1. stack # <<>>
  BY DEF NoteComplete, Pending
<1>2. /\ Drain(<<>>, queue, running \ mine)
      /\ ledger' \subseteq ledger /\ active' \subseteq active
  BY DEF NoteComplete
<1>3. /\ <<>> \in Seq(Task) /\ queue \in SUBSET Flows
      /\ running \ mine \in SUBSET [flow : Flows, step : Nat, dev : Devices]
      /\ EngineInv /\ IsFiniteSet(running \ mine)
  BY FS_Subset DEF ReservationInv, PolicyTypeOK
<1> HIDE DEF mine
<1>4. /\ EngineInv' /\ queue' \subseteq Flows /\ IsFiniteSet(running')
      /\ running' \subseteq [flow : Flows, step : Nat, dev : Devices]
  BY <1>1, <1>2, <1>3, DrainType
<1> QED
  BY <1>2, <1>4 DEF ReservationInv, PolicyTypeOK

\* Answering a tick.
LEMMA OnTickInv ==
    ASSUME ReservationInv, OnTick PROVE ReservationInv'
<1>1. PICK hit \in DegradeDraws : \E order \in Ascending(hit) :
        Drain([i \in 1..Cardinality(hit) |->
                  TaskOf("Degrade", order[i], 0, NoDevice)], queue, running)
  BY DEF OnTick
<1>2. PICK order \in Ascending(hit) :
        Drain([i \in 1..Cardinality(hit) |->
                  TaskOf("Degrade", order[i], 0, NoDevice)], queue, running)
  BY <1>1
<1>3. hit \in SUBSET Flows
  BY <1>1 DEF DegradeDraws, Degradable, ReservationInv, PolicyTypeOK
<1>4. Cardinality(hit) \in Nat /\ order \in [1..Cardinality(hit) -> hit]
  BY <1>3, FlowsCounted DEF Ascending
<1> DEFINE degradations == [i \in 1..Cardinality(hit) |->
                              TaskOf("Degrade", order[i], 0, NoDevice)]
<1>5. \A i \in 1..Cardinality(hit) :
        TaskOf("Degrade", order[i], 0, NoDevice) \in Task
  <2> TAKE i \in 1..Cardinality(hit)
  <2>1. order[i] \in Flows /\ 0 \in Nat /\ NoDevice \in 0..NumDevices
    BY <1>3, <1>4, SizesAssumption DEF NoDevice
  <2> QED
    BY <2>1, TaskOfType DEF ActionOps
<1>6. degradations \in Seq(Task)
  BY <1>4, <1>5
<1>7. stack # <<>> /\ ledger' = ledger /\ active' \subseteq active
  BY DEF OnTick, Pending
<1>8. /\ queue \in SUBSET Flows /\ EngineInv /\ IsFiniteSet(running)
      /\ running \in SUBSET [flow : Flows, step : Nat, dev : Devices]
  BY DEF ReservationInv, PolicyTypeOK
<1>9. Drain(degradations, queue, running)
  BY <1>2
<1> HIDE DEF degradations
<1>10. /\ EngineInv' /\ queue' \subseteq Flows /\ IsFiniteSet(running')
       /\ running' \subseteq [flow : Flows, step : Nat, dev : Devices]
  BY <1>6, <1>7, <1>8, <1>9, DrainType
<1> QED
  BY <1>7, <1>10 DEF ReservationInv, PolicyTypeOK

\* Executing an admission of the policy.
LEMMA AdmitStepInv ==
    ASSUME EngineInv, AdmitStep PROVE EngineInv'
BY BudgetForType, AdmitAggregateInv, AdmitReservedInv DEF AdmitStep

\* Every step of the composition preserves the invariant.
LEMMA NextInv ==
    ASSUME ReservationInv, [Next]_vars PROVE ReservationInv'
<1>1. CASE PolicyAnswer
  BY <1>1, GrantInv, ReadyReservedInv, ReadyBestEffortInv, NoteCompleteInv,
     OnTickInv DEF PolicyAnswer
<1>2. CASE (EngineStep \/ AdmitStep) /\ UNCHANGED policyVars
  <2>1. EngineInv'
    BY <1>2, EngineStepInv, AdmitStepInv DEF ReservationInv
  <2> QED
    BY <1>2, <2>1 DEF ReservationInv, PolicyTypeOK, policyVars
<1>3. CASE UNCHANGED vars
  <2>1. EngineInv'
    BY <1>3, StutterInv DEF ReservationInv, vars
  <2> QED
    BY <1>3, <2>1 DEF ReservationInv, PolicyTypeOK, vars, policyVars
<1> QED
  BY <1>1, <1>2, <1>3 DEF Next

-----------------------------------------------------------------------------
\* The composition of the discipline with the engine keeps its invariant.
THEOREM InvariantHolds == Spec => []ReservationInv
<1>1. Init /\ PolicyInit => ReservationInv
  <2> SUFFICES ASSUME Init, PolicyInit PROVE ReservationInv
    OBVIOUS
  <2>1. IsFiniteSet(running)
    BY FS_EmptySet DEF PolicyInit
  <2> QED
    BY <2>1, InitInv DEF PolicyInit, ReservationInv, PolicyTypeOK
<1>2. ReservationInv /\ [Next]_vars => ReservationInv'
  BY NextInv
<1> QED
  BY <1>1, <1>2, PTL DEF Spec

\* Every variable of the engine and of the policy keeps its type (TypeOK),
\* for every workload, cluster and configuration of the discipline.
THEOREM TypeHolds == Spec => []TypeOK
<1>1. ReservationInv => TypeOK
  BY DEF ReservationInv, EngineInv, PolicyTypeOK, TypeOK
<1> QED
  BY <1>1, InvariantHolds, PTL

\* The devices are never over-committed under the discipline.
THEOREM CommitmentHolds == Spec => []CommittedWithinHbm
<1>1. Init => CommittedWithinHbm
  <2> SUFFICES ASSUME Init, NEW d \in Devices PROVE HbmCommitted(d) <= HbmCap
    BY DEF CommittedWithinHbm
  <2>1. pins[d] = {}
    BY DEF Init
  <2> QED
    BY <2>1, TotalEmpty, SizesAssumption DEF HbmCommitted
<1>2. ASSUME EngineInv, EngineInv', CommittedWithinHbm, [Next]_vars
      PROVE  CommittedWithinHbm'
  <2>1. CASE EngineStep
    <3>1. \A d \in Devices : pins'[d] \subseteq pins[d]
      BY <1>2, <2>1, EngineStepKeepsPins DEF PinsKept
    <3> QED
      BY <1>2, <3>1, CommittedShrinks
  <2>2. CASE PolicyAnswer \/ (\E b : AdmitAggregate(b)) \/ UNCHANGED vars
    <3>1. pins' = pins
      BY <2>2 DEF PolicyAnswer, GrantReservation, GrantAggregate, ReadyReserved,
           ReadyBestEffort, NoteComplete, OnTick, Drain, Respond,
           AdmitAggregate, deviceVars, vars, engineVars
    <3> QED
      BY <1>2, <3>1 DEF CommittedWithinHbm, HbmCommitted
  <2>3. CASE \E b : AdmitReserved(b)
    BY <1>2, <2>3, CommittedAdmits
  <2> QED
    BY <1>2, <2>1, <2>2, <2>3 DEF Next, AdmitStep
<1>3. ReservationInv => EngineInv
  BY DEF ReservationInv
<1> QED
  BY <1>1, <1>2, <1>3, InvariantHolds, PTL DEF Spec

-----------------------------------------------------------------------------
(* What the policy answers with.                                           *)

\* Where a Schedule sends an invocation, as the policy books it.
Placement(t) == [flow |-> t.flow, step |-> t.step, dev |-> t.dev]
\* The flows that the calls in s send to device d.
SentOn(s, d) ==
    {f \in Flows : \E i \in 1..Len(s) :
                      s[i].op = "Schedule" /\ s[i].flow = f /\ s[i].dev = d}
\* The KV of the next invocation of each flow.
KvNow == [f \in Flows |-> NextKv(f)]

\* The bookings of a drain are Schedules of what leaves the queue q, each once
\* and at its step; they fit on each device together.
Bookings(q, kept, s) ==
    /\ queue' \subseteq q
    /\ \A i \in 1..Len(s) :
        /\ s[i].op = "Schedule" /\ s[i].flow \in q \ queue'
        /\ s[i].step = Step(s[i].flow) /\ s[i].dev \in Devices
    /\ \A i, j \in 1..Len(s) : s[i].flow = s[j].flow => i = j
    /\ \A f \in q \ queue' : \E i \in 1..Len(s) : s[i].flow = f
    /\ running' = kept \cup {Placement(s[i]) : i \in 1..Len(s)}
BookingsFit(s) ==
    \A d \in Devices : SentOn(s, d) # {} =>
        /\ Cardinality(SentOn(s, d)) <= FreeSlots(d)
        /\ Total(SentOn(s, d), KvNow) <= FreeHbm(d)
\* What the drain got to look at and left in the queue has no room beside the
\* bookings, on any device.
LeftWaits(s) ==
    \A f \in queue', d \in Devices :
        Cardinality(Ahead(queue', f)) + Len(s) < ScanBudget =>
            ~(/\ Cardinality(SentOn(s, d)) < FreeSlots(d)
              /\ NextKv(f) + Total(SentOn(s, d), KvNow) <= FreeHbm(d))

\* An increasing enumeration reaches every element.
LEMMA AscendingReaches ==
    ASSUME NEW S \in SUBSET Flows, NEW order \in Ascending(S)
    PROVE  /\ order \in [1..Cardinality(S) -> S] /\ Cardinality(S) \in Nat
           /\ \A i, j \in 1..Cardinality(S) : order[i] = order[j] => i = j
           /\ \A f \in S : \E i \in 1..Cardinality(S) : order[i] = f
<1>1. order \in [1..Cardinality(S) -> S]
  BY DEF Ascending
<1>2. Cardinality(S) \in Nat /\ IsFiniteSet(S)
  BY FlowsCounted
<1>3. \A i \in 1..Cardinality(S) : order[i] \in Int
  <2>1. Flows \subseteq Int
    BY SizesAssumption DEF Flows
  <2> QED
    BY <1>1, <2>1
<1>4. \A i, j \in 1..Cardinality(S) : order[i] = order[j] => i = j
  <2> SUFFICES ASSUME NEW i \in 1..Cardinality(S), NEW j \in 1..Cardinality(S),
                      order[i] = order[j], i # j
               PROVE  FALSE
    OBVIOUS
  <2>1. i < j \/ j < i
    BY <1>2
  <2> QED
    BY <1>3, <2>1 DEF Ascending
<1>5. order \in Injection(1..Cardinality(S), S)
  BY <1>1, <1>4 DEF Injection, IsInjective
<1>6. Cardinality(1..Cardinality(S)) = Cardinality(S)
  BY <1>2, FS_Interval
<1>7. order \in Surjection(1..Cardinality(S), S)
  BY <1>2, <1>5, <1>6, FS_Injection
<1> QED
  BY <1>1, <1>2, <1>4, <1>7 DEF Surjection

\* What a device has free is a number.
LEMMA FreeType ==
    ASSUME EngineTypeOK, NEW d \in Devices
    PROVE  FreeSlots(d) \in Int /\ FreeHbm(d) \in Int
<1>1. /\ IsFiniteSet(pins[d]) /\ IsFiniteSet(pins[d] \ spilled)
      /\ \A f \in pins[d] \ spilled : PinSize[f] \in Nat
  BY PinsFinite, FS_Subset
<1>2. /\ Cardinality(pins[d]) \in Nat /\ Cardinality(BestEffort(d)) \in Nat
      /\ Total(pins[d] \ spilled, PinSize) \in Nat /\ beHbm[d] \in Nat
  BY <1>1, ResidentsFinite, FS_CardinalityType, TotalType DEF EngineTypeOK
<1> QED
  BY <1>2, SizesAssumption DEF FreeSlots, FreeHbm, SlotsUsed, HbmUsed

\* What the queue sends to a device fits there: the last one sent had room
\* after all before it.
LEMMA FirstFitFits ==
    ASSUME EngineTypeOK, NEW q \in SUBSET Flows, NEW to \in FirstFit(q),
           NEW d \in Devices, \A f \in q : NextKv(f) \in Nat,
           {f \in q : to[f] = d} # {}
    PROVE  /\ Cardinality({f \in q : to[f] = d}) <= FreeSlots(d)
           /\ Total({f \in q : to[f] = d}, KvNow) <= FreeHbm(d)
<1> DEFINE D == {f \in q : to[f] = d}
<1> DEFINE m == Greatest(D)
<1>1. D \in SUBSET Nat /\ D # {} /\ \A f \in D : f <= NumFlows
  <2>1. \A f \in D : f \in Flows
    OBVIOUS
  <2>2. \A f \in Flows : f \in Nat /\ f <= NumFlows
    BY SizesAssumption DEF Flows
  <2> QED
    BY <2>1, <2>2
<1>2. m \in D /\ \A f \in D : f <= m
  <2> HIDE DEF D
  <2> QED
    BY <1>1, SizesAssumption, GreatestProperty
<1> HIDE DEF m
<1>3. m \in q /\ to[m] = d /\ m \in Nat /\ d # NoDevice
  BY <1>1, <1>2 DEF Devices, NoDevice
<1>4. Room(q, to, m) # {} /\ d = Least(Room(q, to, m))
  BY <1>3 DEF FirstFit
<1>5. d \in Room(q, to, m)
  <2>1. Room(q, to, m) \in SUBSET Nat
    BY SizesAssumption DEF Room, Devices
  <2> QED
    BY <1>4, <2>1, LeastProperty
<1> DEFINE E == D \ {m}
<1>6. SentTo(q, to, m, d) = E
  BY <1>1, <1>2, <1>3 DEF SentTo, Ahead
<1>7. /\ FreeSlots(d) > Cardinality(E)
      /\ FreeHbm(d) >= NextKv(m) + Total(E, [g \in q |-> NextKv(g)])
  BY <1>5, <1>6 DEF Room
<1>8. IsFiniteSet(D) /\ Cardinality(D) \in Nat /\ IsFiniteSet(E)
      /\ Cardinality(E) = Cardinality(D) - 1
  <2>1. IsFiniteSet(D) /\ Cardinality(D) \in Nat
    BY FlowsCounted
  <2> QED
    BY <1>2, <2>1, FS_RemoveElement
<1>9. E \cup {m} = D /\ m \notin E /\ D \subseteq q
  BY <1>2
<1>10. \A g \in q : KvNow[g] = NextKv(g) /\ KvNow[g] \in Nat
  BY DEF KvNow
<1>11. Total(E, [g \in q |-> NextKv(g)]) = Total(E, KvNow)
  BY <1>9, <1>10, TotalSame
<1>12. Total(D, KvNow) = Total(E, KvNow) + KvNow[m]
  <2>1. \A x \in E \cup {m} : KvNow[x] \in Nat
    BY <1>9, <1>10
  <2>2. IsFiniteSet(E) /\ m \notin E
    BY <1>8, <1>9
  <2>4. D = E \cup {m}
    BY <1>9
  <2> HIDE DEF E, D
  <2>3. Total(E \cup {m}, KvNow) = Total(E, KvNow) + KvNow[m]
    BY <2>1, <2>2, TotalAdd
  <2> QED
    BY <2>3, <2>4
<1>13. Total(E, KvNow) \in Nat
  BY <1>8, <1>9, <1>10, TotalType
<1>14. FreeSlots(d) \in Int /\ FreeHbm(d) \in Int
  BY FreeType
<1>15. Cardinality(D) <= FreeSlots(d)
  BY <1>7, <1>8, <1>14
<1>16. Total(D, KvNow) <= FreeHbm(d)
  BY <1>3, <1>7, <1>10, <1>11, <1>12, <1>13, <1>14
<1> QED
  BY <1>15, <1>16

\* What a drain left behind had at most what is still ahead of it, and what was
\* placed, to be looked at first.
LEMMA AheadOfLeft ==
    ASSUME NEW q \in SUBSET Flows, NEW rest \in SUBSET q, NEW f
    PROVE  Cardinality(Ahead(q, f)) <= Cardinality(Ahead(rest, f)) + Cardinality(q \ rest)
<1> DEFINE A == Ahead(rest, f)
<1> DEFINE B == q \ rest
<1>1. Ahead(q, f) \subseteq A \cup B /\ A \in SUBSET Flows /\ B \in SUBSET Flows
      /\ Ahead(q, f) \in SUBSET Flows
  BY DEF Ahead
<1> HIDE DEF A, B
<1>2. /\ IsFiniteSet(A) /\ IsFiniteSet(B) /\ IsFiniteSet(A \cap B)
      /\ Cardinality(A) \in Nat /\ Cardinality(B) \in Nat
  BY <1>1, FlowsCounted, FS_Subset
<1>3. /\ IsFiniteSet(A \cup B) /\ Cardinality(A \cap B) \in Nat
      /\ Cardinality(A \cup B) = Cardinality(A) + Cardinality(B) - Cardinality(A \cap B)
  BY <1>2, FS_Union, FS_CardinalityType
<1>4. Cardinality(Ahead(q, f)) <= Cardinality(A \cup B)
  BY <1>1, <1>3, FS_Subset
<1>5. Cardinality(Ahead(q, f)) \in Nat
  BY <1>1, FlowsCounted
<1>6. Cardinality(Ahead(q, f)) <= Cardinality(A) + Cardinality(B)
  BY <1>2, <1>3, <1>4, <1>5
<1> QED
  BY <1>6 DEF A, B

\* A drain answers with bookings.
LEMMA DrainBooks ==
    ASSUME EngineTypeOK, NEW first, NEW q \in SUBSET Flows, NEW kept,
           Drain(first, q, kept)
    PROVE  \E s \in Seq(Task) :
               /\ Bookings(q, kept, s) /\ Respond(first \o s)
               /\ (\A f \in q : NextKv(f) \in Nat) => BookingsFit(s) /\ LeftWaits(s)
<1>1. PICK to \in FirstFit(q) :
        LET placed == {f \in q : to[f] # NoDevice} IN
        \E order \in Ascending(placed) :
            /\ queue' = SetAside(q, placed)
            /\ running' = kept \cup
                   {[flow |-> f, step |-> Step(f), dev |-> to[f]] : f \in placed}
            /\ Respond(first \o
                   [i \in 1..Cardinality(placed) |->
                       TaskOf("Schedule", order[i], Step(order[i]),
                              to[order[i]])])
  BY DEF Drain
<1> DEFINE placed == {f \in q : to[f] # NoDevice}
<1> DEFINE n == Cardinality(placed)
<1>2. PICK order \in Ascending(placed) :
        /\ queue' = SetAside(q, placed)
        /\ running' = kept \cup
               {[flow |-> f, step |-> Step(f), dev |-> to[f]] : f \in placed}
        /\ Respond(first \o
               [i \in 1..n |->
                   TaskOf("Schedule", order[i], Step(order[i]), to[order[i]])])
  BY <1>1
<1>3. \A f \in placed : to[f] \in Devices /\ to[f] \in 0..NumDevices /\ f \in Flows
  BY SizesAssumption DEF FirstFit, Devices, NoDevice
<1>4. /\ order \in [1..n -> placed] /\ n \in Nat
      /\ \A i, j \in 1..n : order[i] = order[j] => i = j
      /\ \A f \in placed : \E i \in 1..n : order[i] = f
  <2>1. placed \in SUBSET Flows
    BY <1>3
  <2> HIDE DEF placed
  <2> QED
    BY <2>1, AscendingReaches
<1> DEFINE s == [i \in 1..n |->
              TaskOf("Schedule", order[i], Step(order[i]), to[order[i]])]
<1> HIDE DEF n
<1>5. \A i \in 1..n :
        /\ s[i].op = "Schedule" /\ s[i].flow = order[i]
        /\ s[i].step = Step(order[i]) /\ s[i].dev = to[order[i]]
        /\ order[i] \in placed /\ s[i] \in Task
  <2> TAKE i \in 1..n
  <2>1. order[i] \in placed /\ order[i] \in Flows
    BY <1>4
  <2>2. TaskOf("Schedule", order[i], Step(order[i]), to[order[i]]) \in Task
    BY <1>3, <2>1, StepType, TaskOfType DEF ActionOps
  <2> QED
    BY <2>1, <2>2 DEF TaskOf
<1>6. s \in Seq(Task) /\ Len(s) = n
  BY <1>4, <1>5
<1>7. Respond(first \o s)
  BY <1>2
<1> HIDE DEF s
<1>8. q \ queue' = placed /\ queue' \subseteq q
  BY <1>2 DEF SetAside
<1>9. running' = kept \cup {Placement(s[i]) : i \in 1..n}
  <2>1. \A i \in 1..n : Placement(s[i]) =
            [flow |-> order[i], step |-> Step(order[i]), dev |-> to[order[i]]]
    BY <1>5 DEF Placement
  <2>2. {Placement(s[i]) : i \in 1..n} =
            {[flow |-> f, step |-> Step(f), dev |-> to[f]] : f \in placed}
    <3> DEFINE of(f) == [flow |-> f, step |-> Step(f), dev |-> to[f]]
    <3>1. \A i \in 1..n : Placement(s[i]) = of(order[i])
      BY <2>1
    <3> HIDE DEF placed, of
    <3>2. {Placement(s[i]) : i \in 1..n} \subseteq {of(f) : f \in placed}
      BY <1>4, <3>1
    <3>3. {of(f) : f \in placed} \subseteq {Placement(s[i]) : i \in 1..n}
      BY <1>4, <3>1
    <3>4. {Placement(s[i]) : i \in 1..n} = {of(f) : f \in placed}
      BY <3>2, <3>3
    <3> QED
      BY <3>4 DEF of
  <2> QED
    BY <1>2, <2>2
<1>10. Bookings(q, kept, s)
  <2>1. \A i \in 1..n : s[i].dev \in Devices
    BY <1>3, <1>5
  <2> HIDE DEF placed
  <2>2. \A i \in 1..Len(s) :
            /\ s[i].op = "Schedule" /\ s[i].flow \in q \ queue'
            /\ s[i].step = Step(s[i].flow) /\ s[i].dev \in Devices
    BY <1>5, <1>6, <1>8, <2>1
  <2>3. \A i, j \in 1..Len(s) : s[i].flow = s[j].flow => i = j
    BY <1>4, <1>5, <1>6
  <2>4. \A f \in q \ queue' : \E i \in 1..Len(s) : s[i].flow = f
    BY <1>4, <1>5, <1>6, <1>8
  <2>5. running' = kept \cup {Placement(s[i]) : i \in 1..Len(s)}
    BY <1>6, <1>9
  <2> QED
    BY <1>8, <2>2, <2>3, <2>4, <2>5 DEF Bookings
<1>11. ASSUME \A f \in q : NextKv(f) \in Nat PROVE BookingsFit(s)
  <2> SUFFICES ASSUME NEW d \in Devices, SentOn(s, d) # {}
               PROVE  /\ Cardinality(SentOn(s, d)) <= FreeSlots(d)
                      /\ Total(SentOn(s, d), KvNow) <= FreeHbm(d)
    BY DEF BookingsFit
  <2>1. SentOn(s, d) = {f \in placed : to[f] = d}
    BY <1>3, <1>4, <1>5, <1>6 DEF SentOn
  <2>2. SentOn(s, d) = {f \in q : to[f] = d}
    BY <2>1 DEF Devices, NoDevice
  <2> QED
    BY <1>11, <2>2, FirstFitFits
<1>12. ASSUME \A f \in q : NextKv(f) \in Nat PROVE LeftWaits(s)
  <2> SUFFICES ASSUME NEW f \in queue', NEW d \in Devices,
                      Cardinality(Ahead(queue', f)) + Len(s) < ScanBudget,
                      Cardinality(SentOn(s, d)) < FreeSlots(d),
                      NextKv(f) + Total(SentOn(s, d), KvNow) <= FreeHbm(d)
               PROVE  FALSE
    BY DEF LeftWaits
  <2>1. f \in q /\ to[f] = NoDevice
    BY <1>2 DEF SetAside
  <2>2. Cardinality(Ahead(q, f)) < ScanBudget
    <3>1. Cardinality(q \ queue') = Len(s) /\ Len(s) \in Nat
      BY <1>4, <1>6, <1>8 DEF n
    <3>2. Cardinality(Ahead(q, f)) <= Cardinality(Ahead(queue', f)) + Len(s)
      BY <1>8, <3>1, AheadOfLeft
    <3>3. Ahead(q, f) \in SUBSET Flows /\ Ahead(queue', f) \in SUBSET Flows
      BY <1>8 DEF Ahead
    <3>4. Cardinality(Ahead(q, f)) \in Nat /\ Cardinality(Ahead(queue', f)) \in Nat
      BY <3>3, FlowsCounted
    <3> QED
      BY <3>1, <3>2, <3>4, PolicyAssumption
  <2>3. Room(q, to, f) = {}
    <3>1. Room(q, to, f) \in SUBSET Nat /\ Room(q, to, f) \subseteq Devices
      BY SizesAssumption DEF Room, Devices
    <3>2. Room(q, to, f) # {} => Least(Room(q, to, f)) \in Devices
      BY <3>1, LeastProperty
    <3>3. Room(q, to, f) # {} => to[f] = Least(Room(q, to, f))
      BY <2>1, <2>2 DEF FirstFit
    <3> QED
      BY <2>1, <3>2, <3>3 DEF Devices, NoDevice
  <2>4. SentTo(q, to, f, d) \subseteq SentOn(s, d) /\ SentOn(s, d) \subseteq q
    <3>1. d # NoDevice
      BY DEF Devices, NoDevice
    <3>2. ASSUME NEW g \in SentTo(q, to, f, d) PROVE g \in SentOn(s, d)
      <4>1. g \in placed /\ to[g] = d /\ g \in Flows
        BY <1>3, <3>1, <3>2 DEF SentTo, Ahead
      <4>2. PICK i \in 1..n : order[i] = g
        BY <1>4, <4>1
      <4>3. i \in 1..Len(s) /\ s[i].op = "Schedule" /\ s[i].flow = g /\ s[i].dev = d
        BY <1>5, <1>6, <4>1, <4>2
      <4> QED
        BY <4>1, <4>3 DEF SentOn
    <3>3. ASSUME NEW g \in SentOn(s, d) PROVE g \in q
      <4>1. PICK i \in 1..Len(s) : s[i].flow = g
        BY <3>3 DEF SentOn
      <4>2. g = order[i] /\ order[i] \in placed
        BY <1>5, <1>6, <4>1
      <4> QED
        BY <4>2
    <3> QED
      BY <3>2, <3>3
  <2> DEFINE A == SentTo(q, to, f, d)
  <2> DEFINE B == SentOn(s, d)
  <2> DEFINE own == [g \in q |-> NextKv(g)]
  <2>5. ~(FreeSlots(d) > Cardinality(A) /\ FreeHbm(d) >= NextKv(f) + Total(A, own))
    BY <2>3 DEF Room
  <2>6. \A g \in B : KvNow[g] \in Nat /\ KvNow[g] = own[g]
    BY <1>12, <2>4 DEF KvNow
  <2>7. A \subseteq B /\ B \in SUBSET Flows
    BY <2>4
  <2>8. Cardinality(B) < FreeSlots(d) /\ NextKv(f) + Total(B, KvNow) <= FreeHbm(d)
    OBVIOUS
  <2>9. FreeSlots(d) \in Int /\ FreeHbm(d) \in Int /\ NextKv(f) \in Nat
    BY <1>12, <2>1, FreeType
  <2> HIDE DEF A, B, own
  <2>10. IsFiniteSet(B) /\ Cardinality(B) \in Nat
    BY <2>7, FlowsCounted
  <2>11. Cardinality(A) <= Cardinality(B) /\ Cardinality(A) \in Nat
    BY <2>7, <2>10, FS_Subset, FS_CardinalityType
  <2>12. Total(A, KvNow) <= Total(B, KvNow) /\ Total(A, KvNow) = Total(A, own)
    BY <2>6, <2>7, <2>10, TotalMonotone, TotalSame
  <2>13. Total(B, KvNow) \in Nat /\ Total(A, KvNow) \in Nat
    <3>1. IsFiniteSet(A) /\ \A g \in A : KvNow[g] \in Nat
      BY <2>6, <2>7, <2>10, FS_Subset
    <3> QED
      BY <2>6, <2>10, <3>1, TotalType
  <2> QED
    BY <2>5, <2>8, <2>9, <2>10, <2>11, <2>12, <2>13
<1> QED
  BY <1>6, <1>7, <1>10, <1>11, <1>12

-----------------------------------------------------------------------------
(* The shape of the stack: what the discipline is asked and answers.       *)

EntryOps == {"FlowArrival", "Admit"}
\* Events wait for nothing but the completion they were raised by.
EventsLast(s) ==
    \A i \in 1..Len(s) :
        /\ s[i].op \in EntryOps \cup {"Tick"} => Len(s) = 1
        /\ s[i].op = "InvocationReady" =>
               /\ i = 1 /\ Len(s) <= 2
               /\ Len(s) = 2 => /\ s[2].op = "InvocationComplete"
                                /\ s[2].flow = s[1].flow
        /\ s[i].op = "InvocationComplete" => i = Len(s)
\* Evictions come before the placement they make room for.
PreemptsFirst(s) ==
    \A i, j \in 1..Len(s) :
        i < j /\ s[j].op = "Preempt" => s[i].op = "Preempt"
\* A flow is offered or placed once.
ReadyOnce(s) ==
    \A i, j \in 1..Len(s) :
        s[i].op \in ReadyOps /\ s[j].op \in ReadyOps /\ s[i].flow = s[j].flow
            => i = j
Shape(s) == EventsLast(s) /\ PreemptsFirst(s) /\ ReadyOnce(s)

\* Arrivals enter one by one, and only admitted flows are queued.
Entries ==
    /\ admitted \subseteq 1..arrivals
    /\ stack # <<>> /\ Head(stack).op \in EntryOps =>
           Head(stack).flow \notin admitted /\ Head(stack).flow <= arrivals
ShapeInv == Shape(stack) /\ Entries

\* An answer that admits nobody: placements, evictions before them, and
\* degradations.
PlainAnswer(a) ==
    /\ \A i \in 1..Len(a) : a[i].op \in {"Schedule", "Preempt", "Degrade"}
    /\ PreemptsFirst(a) /\ ReadyOnce(a)

\* The shape of a stack of one task or of one offer raised by a completion.
LEMMA ShapeNew ==
    /\ Shape(<<>>)
    /\ \A s \in Seq(Task) : Len(s) <= 1 => Shape(s)
    /\ \A r \in Task : Shape(<<r>>)
    /\ \A r, c \in Task : r.op = "InvocationReady" /\ r.flow = c.flow
                             /\ c.op = "InvocationComplete" => Shape(<<r, c>>)
<1>1. ASSUME NEW s \in Seq(Task), Len(s) <= 1 PROVE Shape(s)
  <2> DEFINE n == Len(s)
  <2>3. n \in Nat /\ n <= 1
    BY <1>1
  <2> HIDE DEF n
  <2>4. \A i, j \in 1..n : i = j /\ i = 1 /\ n = 1
    BY <2>3
  <2>1. \A i, j \in 1..Len(s) : i = j /\ i = 1 /\ Len(s) = 1
    BY <2>4 DEF n
  <2>2. EventsLast(s)
    BY <1>1, <2>1 DEF EventsLast
  <2> QED
    BY <2>1, <2>2 DEF Shape, PreemptsFirst, ReadyOnce
<1>2. ASSUME NEW r \in Task, NEW c \in Task, r.op = "InvocationReady",
             r.flow = c.flow, c.op = "InvocationComplete"
      PROVE  Shape(<<r, c>>)
  <2> DEFINE s == <<r, c>>
  <2>1. Len(s) = 2 /\ s[1] = r /\ s[2] = c
    OBVIOUS
  <2> HIDE DEF s
  <2>2. EventsLast(s)
    BY <1>2, <2>1 DEF EventsLast, EntryOps
  <2>3. PreemptsFirst(s) /\ ReadyOnce(s)
    BY <1>2, <2>1 DEF PreemptsFirst, ReadyOnce, ReadyOps
  <2> QED
    BY <2>2, <2>3 DEF Shape, s
<1>3. Shape(<<>>)
  <2> DEFINE s == <<>>
  <2>1. s \in Seq(Task) /\ Len(s) <= 1
    OBVIOUS
  <2> HIDE DEF s
  <2>2. Shape(s)
    BY <1>1, <2>1
  <2> QED
    BY <2>2 DEF s
<1>4. ASSUME NEW r \in Task PROVE Shape(<<r>>)
  <2> DEFINE s == <<r>>
  <2>1. s \in Seq(Task) /\ Len(s) <= 1
    OBVIOUS
  <2> HIDE DEF s
  <2>2. Shape(s)
    BY <1>1, <2>1
  <2> QED
    BY <2>2 DEF s
<1>5. \A r \in Task : Shape(<<r>>)
  BY <1>4
<1>6. \A r, c \in Task : r.op = "InvocationReady" /\ r.flow = c.flow
                             /\ c.op = "InvocationComplete" => Shape(<<r, c>>)
  BY <1>2
<1>7. \A s \in Seq(Task) : Len(s) <= 1 => Shape(s)
  BY <1>1
<1> QED
  BY <1>3, <1>5, <1>6, <1>7

\* Taking the first task away keeps the shape.
LEMMA ShapePop ==
    ASSUME NEW s \in Seq(Task), s # <<>>, Shape(s)
    PROVE  /\ Shape(Tail(s))
           /\ \A t \in Tasks(Tail(s)) :
                /\ t.op \notin EntryOps \cup {"Tick", "InvocationReady"}
                /\ t.op = "Preempt" => Head(s).op = "Preempt"
                /\ Head(s).op \in ReadyOps /\ t.op \in ReadyOps =>
                       t.flow # Head(s).flow
<1> DEFINE q == Tail(s)
<1>1. /\ Len(s) \in Nat /\ Len(s) > 0 /\ Len(q) = Len(s) - 1 /\ Head(s) = s[1]
      /\ \A i \in 1..Len(q) : q[i] = s[i + 1] /\ i + 1 \in 1..Len(s)
      /\ 1 \in 1..Len(s)
  OBVIOUS
<1> HIDE DEF q
<1>2. EventsLast(q)
  <2> SUFFICES ASSUME NEW i \in 1..Len(q)
               PROVE  /\ q[i].op \notin EntryOps \cup {"Tick", "InvocationReady"}
                      /\ q[i].op = "InvocationComplete" => i = Len(q)
    BY DEF EventsLast
  <2>1. q[i] = s[i + 1] /\ i + 1 \in 1..Len(s) /\ i + 1 # 1 /\ Len(s) # 1
    BY <1>1
  <2> QED
    BY <1>1, <2>1 DEF Shape, EventsLast
<1>3. PreemptsFirst(q) /\ ReadyOnce(q)
  <2>1. \A i \in 1..Len(q) : i + 1 \in 1..Len(s) /\ q[i] = s[i + 1] /\ i \in Int
    BY <1>1
  <2>2. \A i, j \in 1..Len(q) : i < j => i + 1 < j + 1
    BY <1>1
  <2>3. \A i, j \in 1..Len(q) : i + 1 = j + 1 => i = j
    BY <1>1
  <2>4. PreemptsFirst(q)
    BY <2>1, <2>2 DEF Shape, PreemptsFirst
  <2>5. ReadyOnce(q)
    BY <2>1, <2>3 DEF Shape, ReadyOnce
  <2> QED
    BY <2>4, <2>5
<1>4. ASSUME NEW i \in 1..Len(q)
      PROVE  /\ q[i].op \notin EntryOps \cup {"Tick", "InvocationReady"}
             /\ q[i].op = "Preempt" => Head(s).op = "Preempt"
             /\ Head(s).op \in ReadyOps /\ q[i].op \in ReadyOps =>
                    q[i].flow # Head(s).flow
  <2>1. q[i] = s[i + 1] /\ i + 1 \in 1..Len(s) /\ 1 < i + 1 /\ Len(s) # 1
    BY <1>1
  <2> QED
    BY <1>1, <2>1 DEF Shape, EventsLast, PreemptsFirst, ReadyOnce
<1> QED
  BY <1>2, <1>3, <1>4 DEF Tasks, Shape, q

\* What an event at the head of the stack leaves behind it.
LEMMA ShapeEvent ==
    ASSUME NEW s \in Seq(Task), s # <<>>, Shape(s),
           Head(s).op \in EventOps \cup {"Admit"}
    PROVE  /\ Tail(s) \in Seq(Task) /\ Len(Tail(s)) \in {0, 1}
           /\ \A i \in 1..Len(Tail(s)) : Tail(s)[i].op = "InvocationComplete"
           /\ \A t \in Tasks(Tail(s)) :
                  /\ t.op = "InvocationComplete" /\ t.flow = Head(s).flow
                  /\ Head(s).op = "InvocationReady"
<1> DEFINE q == Tail(s)
<1>1. /\ Len(s) \in Nat /\ Len(s) > 0 /\ Head(s) = s[1] /\ 1 \in 1..Len(s)
      /\ q \in Seq(Task) /\ Len(q) = Len(s) - 1
      /\ \A i \in 1..Len(q) : q[i] = s[i + 1]
  OBVIOUS
<1> HIDE DEF q
<1>2. CASE Len(s) = 1
  <2>1. Len(q) = 0 /\ 1..Len(q) = {}
    BY <1>1, <1>2
  <2>2. Tasks(q) = {}
    BY <2>1 DEF Tasks
  <2> QED
    BY <1>1, <2>1, <2>2 DEF q
<1>3. CASE Len(s) # 1
  <2>1. Head(s).op = "InvocationReady" /\ Len(s) = 2
    BY <1>1, <1>3 DEF Shape, EventsLast, EventOps, EntryOps
  <2>2. s[2].op = "InvocationComplete" /\ s[2].flow = Head(s).flow
    BY <1>1, <2>1 DEF Shape, EventsLast
  <2>3. Len(q) = 1 /\ \A i \in 1..Len(q) : q[i] = s[2]
    BY <1>1, <2>1
  <2> QED
    BY <1>1, <2>1, <2>2, <2>3 DEF Tasks, q
<1> QED
  BY <1>2, <1>3

\* A plain answer to an event keeps the shape.
LEMMA ShapeAnswer ==
    ASSUME NEW s \in Seq(Task), s # <<>>, Shape(s), Head(s).op \in EventOps,
           NEW a \in Seq(Task), PlainAnswer(a)
    PROVE  Shape(a \o Tail(s))
<1> DEFINE r == Tail(s)
<1> DEFINE q == a \o r
<1>1. /\ r \in Seq(Task) /\ Len(r) \in {0, 1}
      /\ \A i \in 1..Len(r) : r[i].op = "InvocationComplete"
  BY ShapeEvent
<1> HIDE DEF r
<1>2. /\ Len(a) \in Nat /\ Len(q) = Len(a) + Len(r)
      /\ \A i \in 1..Len(a) : q[i] = a[i]
      /\ \A i \in 1..Len(r) : q[Len(a) + i] = r[i]
  BY <1>1
<1> HIDE DEF q
<1>3. \A i \in 1..Len(q) :
        \/ /\ i \in 1..Len(a) /\ q[i] = a[i]
           /\ q[i].op \in {"Schedule", "Preempt", "Degrade"}
        \/ i = Len(q) /\ q[i].op = "InvocationComplete"
  <2> TAKE i \in 1..Len(q)
  <2>1. CASE i \in 1..Len(a)
    BY <1>2, <2>1 DEF PlainAnswer
  <2>2. CASE i \notin 1..Len(a)
    <3> DEFINE m == Len(r)
    <3> DEFINE n == Len(a)
    <3> DEFINE k == Len(q)
    <3>2. m \in {0, 1} /\ n \in Nat /\ k = n + m /\ i \in 1..k /\ i \notin 1..n
      BY <1>1, <1>2, <2>2
    <3> HIDE DEF m, n, k
    <3>3. m = 1 /\ i = n + 1 /\ 1 \in 1..m /\ i = k
      BY <3>2
    <3>1. i = Len(a) + 1 /\ 1 \in 1..Len(r) /\ i = Len(q)
      BY <3>3 DEF m, n, k
    <3> QED
      BY <1>1, <1>2, <3>1
  <2> QED
    BY <2>1, <2>2
<1>4. EventsLast(q)
  BY <1>3 DEF EventsLast, EntryOps
<1>5. PreemptsFirst(q)
  <2> SUFFICES ASSUME NEW i \in 1..Len(q), NEW j \in 1..Len(q), i < j,
                      q[j].op = "Preempt"
               PROVE  q[i].op = "Preempt"
    BY DEF PreemptsFirst
  <2>1. /\ j \in 1..Len(a) /\ i \in 1..Len(a)
        /\ q[i] = a[i] /\ q[j] = a[j]
    BY <1>2, <1>3
  <2> QED
    BY <2>1 DEF PlainAnswer, PreemptsFirst
<1>6. ReadyOnce(q)
  <2> SUFFICES ASSUME NEW i \in 1..Len(q), NEW j \in 1..Len(q),
                      q[i].op \in ReadyOps, q[j].op \in ReadyOps,
                      q[i].flow = q[j].flow
               PROVE  i = j
    BY DEF ReadyOnce
  <2>1. /\ j \in 1..Len(a) /\ i \in 1..Len(a)
        /\ q[i] = a[i] /\ q[j] = a[j]
    BY <1>3 DEF ReadyOps
  <2> QED
    BY <2>1 DEF PlainAnswer, ReadyOnce
<1> QED
  BY <1>4, <1>5, <1>6 DEF Shape, q, r

\* What an engine step of its own does to the stack.
LEMMA EngineStepStack ==
    ASSUME EngineInv, EngineStep
    PROVE  \/ stack' = stack
           \/ stack' = <<>>
           \/ /\ stack = <<>>
              /\ \E r \in Task : stack' = <<r>> /\ r.op \in EventOps
           \/ /\ stack = <<>>
              /\ \E r, c \in Task : /\ stack' = <<r, c>> /\ r.flow = c.flow
                                    /\ r.op = "InvocationReady"
                                    /\ c.op = "InvocationComplete"
           \/ /\ stack # <<>> /\ stack' = Tail(stack)
              /\ Head(stack).op \in {"Schedule", "Preempt", "Degrade"}
<1>0. /\ NoDevice \in 0..NumDevices /\ 0 \in Nat
      /\ \A f \in Flows : Step(f) \in Nat /\ Step(f) + 1 \in Nat
  <2>1. \A f \in Flows : Step(f) \in Nat
    BY StepType DEF EngineInv
  <2> QED
    BY <2>1, SizesAssumption DEF NoDevice
<1>1. CASE TriggerStep
  <2>1. CASE Arrival
    <3>1. arrivals + 1 \in Flows
      BY <2>1, SizesAssumption DEF Arrival, Flows, EngineInv, EngineTypeOK
    <3>2. TaskOf("FlowArrival", arrivals + 1, 0, NoDevice) \in Task
      BY <1>0, <3>1, TaskOfType DEF EventOps
    <3> QED
      BY <2>1, <3>2 DEF Arrival, Idle, TaskOf, EventOps
  <2>2. CASE TickTimer
    BY <2>2 DEF TickTimer, Idle, TaskOf, Task, TickTask, EventOps
  <2>3. ASSUME NEW f \in Flows, GapEnd(f)
        PROVE  \E r \in Task : stack' = <<r>> /\ r.op \in EventOps
    <3>1. TaskOf("InvocationReady", f, Step(f), NoDevice) \in Task
      BY <1>0, TaskOfType DEF EventOps
    <3> QED
      BY <2>3, <3>1 DEF GapEnd, TaskOf, EventOps
  <2>4. CASE \/ \E t \in timers : EnterDevice(t) \/ EntryVoid(t)
             \/ \E d \in Devices : DecodeToken(d) \/ IntervalEnd(d)
    BY <2>4 DEF EnterDevice, EntryVoid, DecodeToken, IntervalEnd
  <2>5. TriggerStep => stack = <<>>
    BY DEF TriggerStep, Arrival, TickTimer, GapEnd, EnterDevice, EntryVoid,
         DecodeToken, IntervalEnd, Idle
  <2> QED
    BY <1>1, <2>1, <2>2, <2>3, <2>4, <2>5 DEF TriggerStep
<1>2. CASE HandlingStep
  <2>1. ASSUME NEW f \in Flows, NEW d \in Devices,
               CompleteFlow(f, d) \/ CompleteIntoGap(f, d) \/ AbandonFlow(f, d)
        PROVE  stack = <<>> /\ \E r \in Task : stack' = <<r>> /\ r.op \in EventOps
    <3>1. TaskOf("InvocationComplete", f, Step(f), NoDevice) \in Task
      BY <1>0, TaskOfType DEF EventOps
    <3> QED
      BY <2>1, <3>1 DEF CompleteFlow, CompleteIntoGap, AbandonFlow, Advance,
         Completing, TaskOf, EventOps
  <2>2. ASSUME NEW f \in Flows, NEW d \in Devices, CompleteIntoNext(f, d)
        PROVE  /\ stack = <<>>
               /\ \E r, c \in Task : /\ stack' = <<r, c>> /\ r.flow = c.flow
                                     /\ r.op = "InvocationReady"
                                     /\ c.op = "InvocationComplete"
    <3>1. /\ TaskOf("InvocationReady", f, Step(f) + 1, NoDevice) \in Task
          /\ TaskOf("InvocationComplete", f, Step(f), NoDevice) \in Task
      BY <1>0, TaskOfType DEF EventOps
    <3> QED
      BY <2>2, <3>1 DEF CompleteIntoNext, Advance, Completing, TaskOf
  <2>3. CASE Reoffer
    <3> DEFINE v == Head(reready)
    <3>1. v \in [flow : Flows, step : Nat]
      BY <2>3, HeadTailType DEF Reoffer, EngineInv, EngineTypeOK
    <3>2. TaskOf("InvocationReady", v.flow, v.step, NoDevice) \in Task
      BY <1>0, <3>1, TaskOfType DEF EventOps
    <3> QED
      BY <2>3, <3>2 DEF Reoffer, TaskOf, EventOps
  <2>4. CASE AdmitRefused \/ ScheduleRefused \/ PreemptRefused
    BY <2>4 DEF AdmitRefused, ScheduleRefused, PreemptRefused, Raise
  <2>5. CASE Schedule \/ Preempt \/ Degrade
    BY <2>5 DEF Schedule, Preempt, Degrade, Pending
  <2> QED
    BY <1>2, <2>1, <2>2, <2>3, <2>4, <2>5 DEF HandlingStep
<1> QED
  BY <1>1, <1>2 DEF EngineStep

\* A step of the engine other than an arrival puts no entry on top of the stack.
LEMMA EngineHeads ==
    ASSUME EngineInv, ShapeInv, EngineStep, ~Arrival
    PROVE  /\ arrivals' = arrivals
           /\ \/ stack' = stack
              \/ stack' # <<>> => Head(stack').op \notin EntryOps
<1>0. stack \in Seq(Task)
  BY DEF EngineInv, EngineTypeOK
<1>1. arrivals' = arrivals
  BY DEF EngineStep, TriggerStep, HandlingStep, TickTimer, GapEnd,
     EnterDevice, EntryVoid, DecodeToken, IntervalEnd, CompleteFlow,
     CompleteIntoGap, CompleteIntoNext, AbandonFlow, Reoffer, AdmitRefused,
     Schedule, ScheduleRefused, Preempt, PreemptRefused, Degrade, Raise
<1>2. \/ stack' = stack
      \/ stack' # <<>> => Head(stack').op \notin EntryOps
  <2>1. CASE /\ stack # <<>> /\ stack' = Tail(stack)
             /\ Head(stack).op \in {"Schedule", "Preempt", "Degrade"}
    <3>1. Tail(stack) # <<>> => Head(Tail(stack)) \in Tasks(Tail(stack))
      <4>1. Tail(stack) \in Seq(Task)
        BY <1>0, <2>1
      <4> QED
        BY <4>1, TasksParts
    <3>2. \A t \in Tasks(Tail(stack)) : t.op \notin EntryOps
      BY <1>0, <2>1, ShapePop DEF ShapeInv
    <3> QED
      BY <2>1, <3>1, <3>2
  <2>2. CASE \/ TickTimer \/ Reoffer
             \/ \E f \in Flows : GapEnd(f)
             \/ \E f \in Flows, d \in Devices :
                  \/ CompleteFlow(f, d) \/ CompleteIntoGap(f, d)
                  \/ CompleteIntoNext(f, d) \/ AbandonFlow(f, d)
    BY <2>2 DEF TickTimer, Reoffer, GapEnd, CompleteFlow, CompleteIntoGap,
       CompleteIntoNext, AbandonFlow, TaskOf, EntryOps
  <2>3. CASE \/ AdmitRefused \/ ScheduleRefused \/ PreemptRefused
             \/ \E t \in timers : EnterDevice(t) \/ EntryVoid(t)
             \/ \E d \in Devices : DecodeToken(d) \/ IntervalEnd(d)
    BY <2>3 DEF AdmitRefused, ScheduleRefused, PreemptRefused, Raise,
       EnterDevice, EntryVoid, DecodeToken, IntervalEnd
  <2>4. Schedule \/ Preempt \/ Degrade =>
          /\ stack # <<>> /\ stack' = Tail(stack)
          /\ Head(stack).op \in {"Schedule", "Preempt", "Degrade"}
    BY DEF Schedule, Preempt, Degrade, Pending
  <2> QED
    BY <2>1, <2>2, <2>3, <2>4 DEF EngineStep, TriggerStep, HandlingStep
<1> QED
  BY <1>1, <1>2

\* The engine's own steps keep the shape of the stack.
LEMMA EngineStepShape ==
    ASSUME EngineInv, ShapeInv, EngineStep PROVE ShapeInv'
<1>1. /\ stack \in Seq(Task) /\ admitted' = admitted
      /\ arrivals \in Nat
  BY EngineStepSameReservations, SizesAssumption DEF EngineInv, EngineTypeOK
<1>2. CASE Arrival
  <2> DEFINE r == TaskOf("FlowArrival", arrivals + 1, 0, NoDevice)
  <2>1. stack' = <<r>> /\ r.flow = arrivals + 1 /\ arrivals' = arrivals + 1
    BY <1>2 DEF Arrival, TaskOf
  <2>2. r \in Task
    <3>1. arrivals + 1 \in Flows /\ NoDevice \in 0..NumDevices /\ 0 \in Nat
      BY <1>2, SizesAssumption
         DEF Arrival, Flows, NoDevice, EngineInv, EngineTypeOK
    <3> QED
      BY <3>1, TaskOfType DEF EventOps
  <2> HIDE DEF r
  <2>3. Shape(stack')
    BY <2>1, <2>2, ShapeNew
  <2>4. Entries'
    BY <1>1, <2>1 DEF ShapeInv, Entries
  <2> QED
    BY <2>3, <2>4 DEF ShapeInv
<1>3. CASE ~Arrival
  <2>1. /\ arrivals' = arrivals
        /\ \/ stack' = stack
           \/ stack' # <<>> => Head(stack').op \notin EntryOps
    BY <1>3, EngineHeads
  <2>3. Entries'
    BY <1>1, <2>1 DEF ShapeInv, Entries
  <2>4. Shape(stack')
    BY <1>1, EngineStepStack, ShapeNew, ShapePop DEF ShapeInv
  <2> QED
    BY <2>3, <2>4 DEF ShapeInv
<1> QED
  BY <1>2, <1>3

\* An answer of placements after degradations is a plain one.
LEMMA DrainAnswers ==
    ASSUME EngineTypeOK, NEW first \in Seq(Task),
           \A i \in 1..Len(first) : first[i].op = "Degrade",
           NEW q \in SUBSET Flows, NEW kept, Drain(first, q, kept)
    PROVE  \E s \in Seq(Task) :
               /\ Bookings(q, kept, s) /\ Respond(first \o s)
               /\ PlainAnswer(first \o s)
               /\ (\A f \in q : NextKv(f) \in Nat) => BookingsFit(s) /\ LeftWaits(s)
<1>1. PICK s \in Seq(Task) :
          /\ Bookings(q, kept, s) /\ Respond(first \o s)
          /\ (\A f \in q : NextKv(f) \in Nat) => BookingsFit(s) /\ LeftWaits(s)
  BY DrainBooks
<1> DEFINE a == first \o s
<1>2. /\ Len(first) \in Nat /\ Len(s) \in Nat /\ Len(a) = Len(first) + Len(s)
      /\ \A i \in 1..Len(first) : a[i] = first[i]
      /\ \A i \in 1..Len(s) : a[Len(first) + i] = s[i]
  OBVIOUS
<1> HIDE DEF a
<1>3. \A i \in 1..Len(a) :
        \/ a[i].op = "Degrade"
        \/ \E k \in 1..Len(s) : /\ a[i] = s[k] /\ i = Len(first) + k
                                /\ a[i].op = "Schedule"
  <2> TAKE i \in 1..Len(a)
  <2>1. CASE i \in 1..Len(first)
    BY <1>2, <2>1
  <2>2. CASE i \notin 1..Len(first)
    <3> DEFINE k == i - Len(first)
    <3>1. k \in 1..Len(s) /\ i = Len(first) + k
      BY <1>2, <2>2
    <3> HIDE DEF k
    <3>2. a[i] = s[k]
      BY <1>2, <3>1
    <3>3. s[k].op = "Schedule"
      BY <1>1, <3>1 DEF Bookings
    <3> QED
      BY <3>1, <3>2, <3>3
  <2> QED
    BY <2>1, <2>2
<1>4. PreemptsFirst(a)
  BY <1>3 DEF PreemptsFirst
<1>5. ReadyOnce(a)
  <2> SUFFICES ASSUME NEW i \in 1..Len(a), NEW j \in 1..Len(a),
                      a[i].op \in ReadyOps, a[j].op \in ReadyOps,
                      a[i].flow = a[j].flow
               PROVE  i = j
    BY DEF ReadyOnce
  <2>1. PICK k \in 1..Len(s) : a[i] = s[k] /\ i = Len(first) + k
    BY <1>3 DEF ReadyOps
  <2>2. PICK l \in 1..Len(s) : a[j] = s[l] /\ j = Len(first) + l
    BY <1>3 DEF ReadyOps
  <2>3. k = l
    BY <1>1, <2>1, <2>2 DEF Bookings
  <2> QED
    BY <2>1, <2>2, <2>3
<1>6. PlainAnswer(a)
  BY <1>3, <1>4, <1>5 DEF PlainAnswer
<1> QED
  BY <1>1, <1>6 DEF a


Eviction(v) == TaskOf("Preempt", v.flow, v.step, NoDevice)
\* A flow is evicted once.
PreemptOnce(s) ==
    \A i, j \in 1..Len(s) :
        s[i].op = "Preempt" /\ s[j].op = "Preempt" /\ s[i].flow = s[j].flow
            => i = j
\* The evictions of V and the placement `run` they make room for: all of V is
\* evicted, each flow once, if the KV of its members can be compared.
Restore(a, run, V) ==
    /\ run \in Tasks(a)
    /\ \A t \in Tasks(a) : t = run \/ \E v \in V : t = Eviction(v)
    /\ (\A v \in V : Kv(v.flow, v.step) \in Nat) =>
           /\ \A v \in V : Eviction(v) \in Tasks(a)
           /\ (\A v, w \in V : v.flow = w.flow => v = w) => PreemptOnce(a)

\* Every element of a finite set has its turn in an eviction order, once.
LEMMA OrdersReach ==
    ASSUME NEW V, IsFiniteSet(V), NEW order \in EvictionOrders(V),
           \A v \in V : Kv(v.flow, v.step) \in Nat /\ v.flow \in Nat /\ v.step \in Nat
    PROVE  /\ \A v \in V : \E i \in 1..Cardinality(V) : order[i] = v
           /\ \A i, j \in 1..Cardinality(V) : order[i] = order[j] => i = j
<1>1. order \in [1..Cardinality(V) -> V] /\ Cardinality(V) \in Nat
  BY FS_CardinalityType DEF EvictionOrders
<1>2. \A v \in V : ~EvictedBefore(v, v)
  BY DEF EvictedBefore
<1>3. \A i, j \in 1..Cardinality(V) : order[i] = order[j] => i = j
  <2> SUFFICES ASSUME NEW i \in 1..Cardinality(V), NEW j \in 1..Cardinality(V),
                      order[i] = order[j], i # j
               PROVE  FALSE
    OBVIOUS
  <2>1. i < j \/ j < i
    BY <1>1
  <2>2. EvictedBefore(order[i], order[j]) \/ EvictedBefore(order[j], order[i])
    BY <2>1 DEF EvictionOrders
  <2>3. order[i] \in V
    BY <1>1
  <2> QED
    BY <1>2, <2>2, <2>3
<1>4. order \in Injection(1..Cardinality(V), V)
  BY <1>1, <1>3 DEF Injection, IsInjective
<1>5. Cardinality(1..Cardinality(V)) = Cardinality(V)
  BY <1>1, FS_Interval
<1>6. order \in Surjection(1..Cardinality(V), V)
  BY <1>1, <1>4, <1>5, FS_Injection
<1> QED
  BY <1>3, <1>6 DEF Surjection

\* Making room for a pin is a plain answer.
LEMMA RestoreAnswers ==
    ASSUME ReservationInv, ReadyReserved,
           NEW f, f = Head(stack).flow, NEW d, d = pinDev[f]
    PROVE  \E a \in Seq(Task) :
           \E V \in (IF f \in spilled THEN Victims(f, d) ELSE {{}}) :
               /\ Respond(a) /\ PlainAnswer(a)
               /\ Restore(a, TaskOf("Schedule", f, Head(stack).step, d), V)
               /\ running' = AfterEviction(V)
<1> DEFINE run == TaskOf("Schedule", f, Head(stack).step, d)
<1>1. f \in Flows /\ Head(stack).step \in Nat /\ d \in 0..NumDevices
  <2>1. f \in Flows /\ Head(stack).step \in Nat
    BY EventType DEF ReservationInv, EngineInv, ReadyReserved, EventOps
  <2> QED
    BY <2>1 DEF ReservationInv, EngineInv, EngineTypeOK
<1>2. run \in Task /\ run.op = "Schedule"
  <2>1. run \in Task
    BY <1>1, TaskOfType DEF ActionOps
  <2> QED
    BY <2>1 DEF TaskOf
<1> HIDE DEF run
<1>3. PICK V \in (IF f \in spilled THEN Victims(f, d) ELSE {{}}) :
        \E order \in EvictionOrders(V) :
            /\ running' = AfterEviction(V)
            /\ Respond([i \in 1..Cardinality(V) |->
                    TaskOf("Preempt", order[i].flow, order[i].step, NoDevice)]
                   \o <<run>>)
  BY DEF ReadyReserved, run
<1>4. PICK order \in EvictionOrders(V) :
        /\ running' = AfterEviction(V)
        /\ Respond([i \in 1..Cardinality(V) |->
                TaskOf("Preempt", order[i].flow, order[i].step, NoDevice)]
               \o <<run>>)
  BY <1>3
<1> DEFINE n == Cardinality(V)
<1> DEFINE evictions == [i \in 1..n |->
        TaskOf("Preempt", order[i].flow, order[i].step, NoDevice)]
<1>5. V \subseteq running /\ IsFiniteSet(V) /\ n \in Nat
      /\ order \in [1..n -> V]
  <2>1. V \in Victims(f, d) \/ V = {}
    BY <1>3
  <2>2. V \subseteq running
    BY <2>1 DEF Victims, RunningOn
  <2> QED
    BY <2>2, FS_Subset, FS_CardinalityType DEF ReservationInv, EvictionOrders
<1>6. \A v \in V : v.flow \in Flows /\ v.step \in Nat /\ v.flow \in Nat
  <2>1. \A v \in V : v \in [flow : Flows, step : Nat, dev : Devices]
    BY <1>5 DEF ReservationInv, PolicyTypeOK
  <2>2. \A g \in Flows : g \in Nat
    BY SizesAssumption DEF Flows
  <2> QED
    BY <2>1, <2>2
<1>7. \A i \in 1..n : /\ evictions[i] = Eviction(order[i]) /\ order[i] \in V
                      /\ evictions[i] \in Task
                      /\ evictions[i].op = "Preempt"
                      /\ evictions[i].flow = order[i].flow
  <2> TAKE i \in 1..n
  <2>1. order[i] \in V
    BY <1>5
  <2>2. Eviction(order[i]) \in Task
    <3>1. NoDevice \in 0..NumDevices
      BY SizesAssumption DEF NoDevice
    <3> QED
      BY <1>6, <2>1, <3>1, TaskOfType DEF Eviction, ActionOps
  <2>3. evictions[i] = Eviction(order[i])
    BY DEF Eviction
  <2> HIDE DEF evictions
  <2> QED
    BY <2>1, <2>2, <2>3 DEF Eviction, TaskOf
<1>8. evictions \in Seq(Task) /\ Len(evictions) = n
  BY <1>5, <1>7
<1> HIDE DEF evictions, n
<1> DEFINE a == evictions \o <<run>>
<1>9. /\ a \in Seq(Task) /\ Len(a) = n + 1 /\ a[n + 1] = run
      /\ \A i \in 1..n : a[i] = evictions[i]
  BY <1>2, <1>8
<1>10. Respond(a)
  BY <1>4 DEF evictions, n
<1> HIDE DEF a
<1>11. \A i \in 1..Len(a) : (i \in 1..n /\ a[i] = evictions[i]) \/ (i = n + 1 /\ a[i] = run)
  BY <1>5, <1>9 DEF n
<1>12. \A i \in 1..n : i \in 1..Len(a)
  BY <1>5, <1>9 DEF n
<1>13. PlainAnswer(a)
  <2>1. PreemptsFirst(a)
    <3> SUFFICES ASSUME NEW i \in 1..Len(a), NEW j \in 1..Len(a), i < j,
                        a[j].op = "Preempt"
                 PROVE  a[i].op = "Preempt"
      BY DEF PreemptsFirst
    <3>1. j \in 1..n
      BY <1>2, <1>11
    <3>2. i # n + 1
      BY <1>5, <3>1
    <3> QED
      BY <1>7, <1>11, <3>2
  <2>2. ReadyOnce(a)
    <3>1. \A i \in 1..Len(a) : a[i].op \in ReadyOps => i = n + 1
      BY <1>7, <1>11 DEF ReadyOps
    <3> QED
      BY <3>1 DEF ReadyOnce
  <2> QED
    BY <1>2, <1>7, <1>11, <2>1, <2>2 DEF PlainAnswer
<1>14. Restore(a, run, V)
  <2>1. run \in Tasks(a)
    <3>1. n + 1 \in 1..Len(a)
      BY <1>5, <1>9 DEF n
    <3> QED
      BY <1>9, <3>1 DEF Tasks
  <2>2. \A t \in Tasks(a) : t = run \/ \E v \in V : t = Eviction(v)
    BY <1>7, <1>11 DEF Tasks
  <2>3. ASSUME \A v \in V : Kv(v.flow, v.step) \in Nat
        PROVE  /\ \A v \in V : Eviction(v) \in Tasks(a)
               /\ (\A v, w \in V : v.flow = w.flow => v = w) => PreemptOnce(a)
    <3>1. /\ \A v \in V : \E i \in 1..n : order[i] = v
          /\ \A i, j \in 1..n : order[i] = order[j] => i = j
      BY <1>5, <1>6, <2>3, OrdersReach DEF n
    <3>2. \A v \in V : Eviction(v) \in Tasks(a)
      <4> SUFFICES ASSUME NEW v \in V PROVE Eviction(v) \in Tasks(a)
        OBVIOUS
      <4>1. PICK i \in 1..n : order[i] = v
        BY <3>1
      <4>2. i \in 1..Len(a) /\ a[i] = Eviction(v)
        BY <1>7, <1>9, <1>12, <4>1
      <4> QED
        BY <4>2 DEF Tasks
    <3>3. ASSUME \A v, w \in V : v.flow = w.flow => v = w PROVE PreemptOnce(a)
      <4> SUFFICES ASSUME NEW i \in 1..Len(a), NEW j \in 1..Len(a),
                          a[i].op = "Preempt", a[j].op = "Preempt",
                          a[i].flow = a[j].flow
                   PROVE  i = j
        BY DEF PreemptOnce
      <4>1. i \in 1..n /\ j \in 1..n
        BY <1>2, <1>11
      <4>2. order[i].flow = order[j].flow /\ order[i] \in V /\ order[j] \in V
        BY <1>7, <1>9, <4>1
      <4> QED
        BY <3>1, <3>3, <4>1, <4>2
    <3> QED
      BY <3>2, <3>3
  <2> QED
    BY <2>1, <2>2, <2>3 DEF Restore
<1> QED
  BY <1>4, <1>9, <1>10, <1>13, <1>14 DEF run

\* What a drain looks at, and what is left of _running before it.
Asked == queue \cup (IF Head(stack).op = "InvocationReady"
                     THEN {Head(stack).flow} ELSE {})
Kept == {v \in running : ~ /\ Head(stack).op = "InvocationComplete"
                           /\ v.flow = Head(stack).flow
                           /\ v.step = Head(stack).step}

\* The three events that drain the queue are answered alike.
LEMMA Drains ==
    ASSUME ReservationInv, ReadyBestEffort \/ NoteComplete \/ OnTick
    PROVE  /\ stack # <<>> /\ ~failed /\ Asked \subseteq Flows
           /\ Head(stack).op \in {"InvocationReady", "InvocationComplete", "Tick"}
           /\ Head(stack).op = "InvocationReady" =>
                  Head(stack).flow \in Flows /\ ~Reserved(Head(stack).flow)
           /\ \E first \in Seq(Task), s \in Seq(Task) :
                /\ \A i \in 1..Len(first) : first[i].op = "Degrade"
                /\ Bookings(Asked, Kept, s)
                /\ Respond(first \o s) /\ PlainAnswer(first \o s)
                /\ (\A f \in Asked : NextKv(f) \in Nat) => BookingsFit(s) /\ LeftWaits(s)
<1>1. /\ EngineTypeOK /\ queue \subseteq Flows /\ <<>> \in Seq(Task)
      /\ \A i \in 1..Len(<<>>) : <<>>[i].op = "Degrade"
  BY DEF ReservationInv, EngineInv, PolicyTypeOK
<1>2. /\ stack # <<>> /\ ~failed
      /\ Head(stack).op \in {"InvocationReady", "InvocationComplete", "Tick"}
  BY DEF ReadyBestEffort, NoteComplete, OnTick, Pending
<1>3. Head(stack).op = "InvocationReady" =>
        Head(stack).flow \in Flows /\ ~Reserved(Head(stack).flow)
  <2>1. ReadyBestEffort => Head(stack).flow \in Flows
    BY <1>1, EventType DEF ReadyBestEffort, EventOps
  <2> QED
    BY <2>1 DEF ReadyBestEffort, NoteComplete, OnTick, Pending
<1>4. Asked \subseteq Flows
  BY <1>1, <1>3 DEF Asked
<1>5. \E first \in Seq(Task) :
        /\ \A i \in 1..Len(first) : first[i].op = "Degrade"
        /\ Drain(first, Asked, Kept)
  <2>1. CASE ReadyBestEffort
    <3>1. Asked = queue \cup {Head(stack).flow} /\ Kept = running
      BY <2>1 DEF ReadyBestEffort, Pending, Asked, Kept
    <3> QED
      BY <1>1, <2>1, <3>1 DEF ReadyBestEffort
  <2>2. CASE NoteComplete
    <3>1. Asked = queue
      BY <2>2 DEF NoteComplete, Pending, Asked
    <3>2. Kept = running \ {v \in running : v.flow = Head(stack).flow
                                               /\ v.step = Head(stack).step}
      BY <2>2 DEF NoteComplete, Pending, Kept
    <3> QED
      BY <1>1, <2>2, <3>1, <3>2 DEF NoteComplete
  <2>3. CASE OnTick
    <3>1. Asked = queue /\ Kept = running
      BY <2>3 DEF OnTick, Pending, Asked, Kept
    <3>2. PICK hit \in DegradeDraws : \E order \in Ascending(hit) :
            Drain([i \in 1..Cardinality(hit) |->
                      TaskOf("Degrade", order[i], 0, NoDevice)], queue, running)
      BY <2>3 DEF OnTick
    <3>3. PICK order \in Ascending(hit) :
            Drain([i \in 1..Cardinality(hit) |->
                      TaskOf("Degrade", order[i], 0, NoDevice)], queue, running)
      BY <3>2
    <3>4. hit \in SUBSET Flows
      BY <3>2 DEF DegradeDraws, Degradable, ReservationInv, PolicyTypeOK
    <3>5. Cardinality(hit) \in Nat /\ order \in [1..Cardinality(hit) -> hit]
      BY <3>4, FlowsCounted DEF Ascending
    <3> DEFINE first == [i \in 1..Cardinality(hit) |->
                           TaskOf("Degrade", order[i], 0, NoDevice)]
    <3>6. \A i \in 1..Cardinality(hit) :
            first[i] \in Task /\ first[i].op = "Degrade"
      <4> TAKE i \in 1..Cardinality(hit)
      <4>1. order[i] \in Flows /\ 0 \in Nat /\ NoDevice \in 0..NumDevices
        BY <3>4, <3>5, SizesAssumption DEF NoDevice
      <4>2. TaskOf("Degrade", order[i], 0, NoDevice) \in Task
        BY <4>1, TaskOfType DEF ActionOps
      <4> QED
        BY <4>2 DEF TaskOf
    <3>7. first \in Seq(Task) /\ Len(first) = Cardinality(hit)
      BY <3>5, <3>6
    <3>8. Drain(first, queue, running)
      BY <3>3
    <3> HIDE DEF first
    <3> QED
      BY <3>1, <3>6, <3>7, <3>8
  <2> QED
    BY <2>1, <2>2, <2>3
<1>6. PICK first \in Seq(Task) :
        /\ \A i \in 1..Len(first) : first[i].op = "Degrade"
        /\ Drain(first, Asked, Kept)
  BY <1>5
<1>7. \E s \in Seq(Task) :
        /\ Bookings(Asked, Kept, s) /\ Respond(first \o s)
        /\ PlainAnswer(first \o s)
        /\ (\A f \in Asked : NextKv(f) \in Nat) => BookingsFit(s) /\ LeftWaits(s)
  <2> HIDE DEF Asked, Kept
  <2> QED
    BY <1>1, <1>4, <1>6, DrainAnswers
<1> QED
  BY <1>2, <1>3, <1>4, <1>6, <1>7

\* Arrivals are answered with one admission, on a device that can take the pin
\* or into the aggregate class.
LEMMA Grants ==
    ASSUME ReservationInv, GrantReservation \/ GrantAggregate
    PROVE  /\ stack # <<>> /\ ~failed /\ Head(stack).op = "FlowArrival"
           /\ Head(stack).flow \in Flows
           /\ queue' = queue /\ running' = running
           /\ \E d \in 0..NumDevices :
                /\ TaskOf("Admit", Head(stack).flow, 0, d) \in Task
                /\ Respond(<<TaskOf("Admit", Head(stack).flow, 0, d)>>)
                /\ \/ d = NoDevice /\ ledger' = ledger
                   \/ /\ d \in PinDevices(Head(stack).flow)
                      /\ ledger' = ledger \cup {Head(stack).flow}
                      /\ Cardinality(ledger) < SubsetBound
<1> DEFINE f == Head(stack).flow
<1>1. f \in Flows /\ stack # <<>> /\ ~failed /\ Head(stack).op = "FlowArrival"
  BY EventType DEF ReservationInv, EngineInv, GrantReservation, GrantAggregate,
     EventOps, Pending
<1>2. \A d \in 0..NumDevices : TaskOf("Admit", f, 0, d) \in Task
  <2> TAKE d \in 0..NumDevices
  <2> QED
    BY <1>1, TaskOfType DEF ActionOps
<1>3. queue' = queue /\ running' = running
  BY DEF GrantReservation, GrantAggregate
<1>4. \E d \in 0..NumDevices :
        /\ Respond(<<TaskOf("Admit", f, 0, d)>>)
        /\ \/ d = NoDevice /\ ledger' = ledger
           \/ /\ d \in PinDevices(f) /\ ledger' = ledger \cup {f}
              /\ Cardinality(ledger) < SubsetBound
  <2>1. CASE GrantReservation
    <3>1. PinDevices(f) # {} /\ PinDevices(f) \in SUBSET Devices
          /\ PinDevices(f) \in SUBSET Nat
      BY <2>1, SizesAssumption DEF GrantReservation, PinDevices, Devices
    <3>2. Least(PinDevices(f)) \in PinDevices(f)
      BY <3>1, LeastProperty
    <3>3. Least(PinDevices(f)) \in 0..NumDevices
      BY <3>1, <3>2 DEF Devices
    <3> QED
      BY <2>1, <3>2, <3>3 DEF GrantReservation, Reservable
  <2>2. CASE GrantAggregate
    BY <2>2, SizesAssumption DEF GrantAggregate, NoDevice
  <2> QED
    BY <2>1, <2>2
<1> QED
  BY <1>1, <1>2, <1>3, <1>4

\* A plain answer puts no entry on the stack.
LEMMA PlainHeads ==
    ASSUME EngineInv, ShapeInv, stack # <<>>, NEW a \in Seq(Task), PlainAnswer(a),
           Respond(a)
    PROVE  stack' # <<>> => Head(stack').op \notin EntryOps
<1>1. /\ stack \in Seq(Task) /\ stack' = a \o Tail(stack)
      /\ Tail(stack) \in Seq(Task)
  BY DEF EngineInv, EngineTypeOK, Respond
<1>2. \A t \in Tasks(stack') : t.op \notin EntryOps
  <2>1. \A t \in Tasks(a) : t.op \notin EntryOps
    BY DEF PlainAnswer, Tasks, EntryOps
  <2>2. \A t \in Tasks(Tail(stack)) : t.op \notin EntryOps
    BY <1>1, ShapePop DEF ShapeInv
  <2>3. Tasks(a \o Tail(stack)) = Tasks(a) \cup Tasks(Tail(stack))
    BY <1>1, TasksParts
  <2> QED
    BY <1>1, <2>1, <2>2, <2>3
<1>3. stack' # <<>> => Head(stack') \in Tasks(stack')
  <2>1. stack' \in Seq(Task)
    BY <1>1
  <2> QED
    BY <2>1, TasksParts
<1> QED
  BY <1>2, <1>3

\* A plain answer keeps the shape of the stack.
LEMMA PlainShape ==
    ASSUME EngineInv, ShapeInv, stack # <<>>, Head(stack).op \in EventOps,
           NEW a \in Seq(Task), PlainAnswer(a), Respond(a)
    PROVE  ShapeInv'
<1>1. /\ stack \in Seq(Task) /\ stack' = a \o Tail(stack)
      /\ admitted' = admitted /\ arrivals' = arrivals
  BY DEF EngineInv, EngineTypeOK, Respond, flowVars
<1>2. Shape(stack')
  BY <1>1, ShapeAnswer DEF ShapeInv
<1> QED
  BY <1>1, <1>2, PlainHeads DEF ShapeInv, Entries

\* A task that takes the place of an entry is alone on the stack.
LEMMA EntryShape ==
    ASSUME EngineInv, ShapeInv, stack # <<>>, Head(stack).op \in EntryOps,
           NEW r \in Task, stack' = <<r>> \o Tail(stack)
    PROVE  /\ Shape(stack') /\ Head(stack') = r /\ Len(stack') = 1
           /\ Tasks(stack') = {r} /\ Tasks(stack) = {Head(stack)}
<1>1. stack \in Seq(Task)
  BY DEF EngineInv, EngineTypeOK
<1> DEFINE q == Tail(stack)
<1>2. /\ q \in Seq(Task) /\ Len(q) \in {0, 1}
      /\ \A t \in Tasks(q) : Head(stack).op = "InvocationReady"
  BY <1>1, ShapeEvent DEF ShapeInv, EntryOps, EventOps
<1>3. Tasks(q) = {} /\ Len(q) = 0
  BY <1>2 DEF Tasks, EntryOps
<1>4. Tasks(stack) = {Head(stack)}
  BY <1>1, <1>3, TasksParts
<1> HIDE DEF q
<1>5. stack' \in Seq(Task) /\ Len(stack') = 1 /\ stack'[1] = r
  BY <1>2, <1>3 DEF q
<1>6. Head(stack') = r /\ Tasks(stack') = {r}
  <2> DEFINE s == stack'
  <2>1. s \in Seq(Task) /\ Len(s) = 1 /\ s[1] = r /\ 1..1 = {1}
    BY <1>5
  <2> HIDE DEF s
  <2>2. Head(s) = r /\ Tasks(s) = {r}
    BY <2>1 DEF Tasks
  <2> QED
    BY <2>2 DEF s
<1>7. Shape(stack')
  <2>1. Len(stack') <= 1
    BY <1>5
  <2> QED
    BY <1>5, <2>1, ShapeNew
<1> QED
  BY <1>4, <1>5, <1>6, <1>7

\* Every step keeps the shape of the stack.
LEMMA NextShape ==
    ASSUME ReservationInv, ShapeInv, [Next]_vars PROVE ShapeInv'
<1>0. EngineInv /\ stack \in Seq(Task)
  BY DEF ReservationInv, EngineInv, EngineTypeOK
<1>1. CASE EngineStep
  BY <1>0, <1>1, EngineStepShape
<1>2. CASE GrantReservation \/ GrantAggregate
  <2>1. PICK d \in 0..NumDevices :
          /\ TaskOf("Admit", Head(stack).flow, 0, d) \in Task
          /\ Respond(<<TaskOf("Admit", Head(stack).flow, 0, d)>>)
    BY <1>2, Grants
  <2>2. /\ stack # <<>> /\ Head(stack).op \in EntryOps
        /\ admitted' = admitted /\ arrivals' = arrivals
    BY <1>2, <2>1, Grants DEF EntryOps, Respond, flowVars
  <2> DEFINE r == TaskOf("Admit", Head(stack).flow, 0, d)
  <2>3. r \in Task /\ stack' = <<r>> \o Tail(stack) /\ r.flow = Head(stack).flow
    BY <2>1 DEF Respond, TaskOf
  <2> HIDE DEF r
  <2>4. Shape(stack') /\ Head(stack') = r
    BY <1>0, <2>2, <2>3, EntryShape
  <2> QED
    BY <2>2, <2>3, <2>4 DEF ShapeInv, Entries
<1>3. CASE ReadyReserved
  <2>1. PICK a \in Seq(Task) : Respond(a) /\ PlainAnswer(a)
    BY <1>3, RestoreAnswers
  <2>2. stack # <<>> /\ Head(stack).op \in EventOps
    BY <1>3 DEF ReadyReserved, Pending, EventOps
  <2> QED
    BY <1>0, <2>1, <2>2, PlainShape
<1>4. CASE ReadyBestEffort \/ NoteComplete \/ OnTick
  <2>1. PICK first \in Seq(Task), s \in Seq(Task) :
          Respond(first \o s) /\ PlainAnswer(first \o s)
    BY <1>4, Drains
  <2>2. stack # <<>> /\ Head(stack).op \in EventOps
    BY <1>4, Drains DEF EventOps
  <2>3. first \o s \in Seq(Task)
    BY <2>1
  <2> QED
    BY <1>0, <2>1, <2>2, <2>3, PlainShape
<1>5. CASE AdmitStep
  <2>1. PICK b : AdmitAggregate(b) \/ AdmitReserved(b)
    BY <1>5 DEF AdmitStep
  <2> DEFINE f == Head(stack).flow
  <2> DEFINE r == TaskOf("InvocationReady", f, Step(f), NoDevice)
  <2>2. /\ f \in Flows /\ stack # <<>> /\ Head(stack).op \in EntryOps
        /\ stack' = <<r>> \o Tail(stack)
        /\ admitted' = admitted \cup {f} /\ arrivals' = arrivals
    BY <1>0, <2>1, ActionType
       DEF AdmitAggregate, AdmitReserved, Pending, EntryOps, OfferNext, ActionOps
  <2>3. r \in Task /\ r.op = "InvocationReady"
    <3>1. Step(f) \in Nat /\ NoDevice \in 0..NumDevices
      BY <1>0, <2>2, StepType, SizesAssumption DEF EngineInv, NoDevice
    <3> QED
      BY <2>2, <3>1, TaskOfType DEF EventOps, TaskOf
  <2> HIDE DEF r, f
  <2>4. Shape(stack') /\ Head(stack') = r
    BY <1>0, <2>2, <2>3, EntryShape
  <2>5. admitted' \subseteq 1..arrivals'
    <3>1. f <= arrivals /\ f \in 1..NumFlows
      BY <2>2 DEF ShapeInv, Entries, Flows, f
    <3>2. f \in 1..arrivals
      BY <1>0, <3>1, SizesAssumption DEF EngineInv, EngineTypeOK
    <3> QED
      BY <2>2, <3>2 DEF ShapeInv, Entries
  <2> QED
    BY <2>3, <2>4, <2>5 DEF ShapeInv, Entries, EntryOps
<1>6. CASE UNCHANGED vars
  BY <1>6 DEF vars, engineVars, flowVars, ShapeInv, Entries
<1> QED
  BY <1>1, <1>2, <1>3, <1>4, <1>5, <1>6 DEF Next, PolicyAnswer

\* An entry comes on top of the stack with an arrival, or in answer to one.
LEMMA EntryHeads ==
    ASSUME ReservationInv, ShapeInv, Next, ~Arrival,
           stack' # <<>>, Head(stack').op \in EntryOps
    PROVE  \/ stack' = stack
           \/ /\ GrantReservation \/ GrantAggregate
              /\ stack # <<>> /\ Head(stack).op \in EntryOps
              /\ Head(stack').flow = Head(stack).flow
<1>0. EngineInv /\ stack \in Seq(Task)
  BY DEF ReservationInv, EngineInv, EngineTypeOK
<1>1. CASE EngineStep
  BY <1>0, <1>1, EngineHeads
<1>2. CASE GrantReservation \/ GrantAggregate
  <2>1. PICK d \in 0..NumDevices :
          /\ TaskOf("Admit", Head(stack).flow, 0, d) \in Task
          /\ Respond(<<TaskOf("Admit", Head(stack).flow, 0, d)>>)
    BY <1>2, Grants
  <2>2. stack # <<>> /\ Head(stack).op \in EntryOps
    BY <1>2, <2>1, Grants DEF EntryOps
  <2> DEFINE r == TaskOf("Admit", Head(stack).flow, 0, d)
  <2>3. r \in Task /\ stack' = <<r>> \o Tail(stack) /\ r.flow = Head(stack).flow
    BY <2>1 DEF Respond, TaskOf
  <2> HIDE DEF r
  <2>4. Head(stack') = r
    BY <1>0, <2>2, <2>3, EntryShape DEF ShapeInv
  <2> QED
    BY <1>2, <2>2, <2>3, <2>4
<1>3. CASE ReadyReserved
  <2>1. PICK a \in Seq(Task) : Respond(a) /\ PlainAnswer(a)
    BY <1>3, RestoreAnswers
  <2>2. stack # <<>>
    BY <1>3 DEF ReadyReserved, Pending
  <2> QED
    BY <1>0, <2>1, <2>2, PlainHeads
<1>4. CASE ReadyBestEffort \/ NoteComplete \/ OnTick
  <2>1. PICK first \in Seq(Task), s \in Seq(Task) :
          Respond(first \o s) /\ PlainAnswer(first \o s)
    BY <1>4, Drains
  <2>2. stack # <<>> /\ first \o s \in Seq(Task)
    BY <1>4, <2>1, Drains
  <2> QED
    BY <1>0, <2>1, <2>2, PlainHeads
<1>5. CASE AdmitStep
  <2>1. PICK b : AdmitAggregate(b) \/ AdmitReserved(b)
    BY <1>5 DEF AdmitStep
  <2> DEFINE f == Head(stack).flow
  <2> DEFINE r == TaskOf("InvocationReady", f, Step(f), NoDevice)
  <2>2. stack' = <<r>> \o Tail(stack) /\ Tail(stack) \in Seq(Task)
    BY <1>0, <2>1 DEF AdmitAggregate, AdmitReserved, Pending, OfferNext
  <2>3. r.op = "InvocationReady"
    BY DEF TaskOf
  <2> HIDE DEF r, f
  <2>4. Head(stack') = r
    BY <2>2
  <2> QED
    BY <2>3, <2>4 DEF EntryOps
<1> QED
  BY <1>1, <1>2, <1>3, <1>4, <1>5 DEF Next, PolicyAnswer

\* Under the discipline an event waits at most for the completion it came with,
\* evictions precede placements, each flow is offered once, and it enters once.
THEOREM ShapeHolds == Spec => []ShapeInv
<1>1. Init => ShapeInv
  BY ShapeNew DEF Init, ShapeInv, Entries
<1>2. ReservationInv /\ ShapeInv /\ [Next]_vars => ShapeInv'
  BY NextShape
<1> QED
  BY <1>1, <1>2, InvariantHolds, PTL DEF Spec

-----------------------------------------------------------------------------
(* What the engine enforces on every policy, for the discipline.           *)

\* An answer changes nothing of the engine but the stack.
LEMMA AnswerFrame ==
    ASSUME PolicyAnswer
    PROVE  UNCHANGED <<arrivals, flowVars, stepVars, deviceVars, timerVars,
                       reready, loopVars, failed>>
BY DEF PolicyAnswer, GrantReservation, GrantAggregate, ReadyReserved,
       ReadyBestEffort, NoteComplete, OnTick, Drain, Respond

\* An admission opens the budget of the flow's class, or none.
LEMMA AdmitBudget ==
    ASSUME AdmitStep
    PROVE  \E b \in Nat \cup {Unmetered} : AdmitAggregate(b) \/ AdmitReserved(b)
BY PolicyAssumption DEF AdmitStep, BudgetFor

\* An admission on the stack is of a flow that is not admitted.
LEMMA ShapeAdmitsOnce ==
    ASSUME NEW s \in Seq(Task), Shape(s), NEW A,
           s # <<>> /\ Head(s).op \in EntryOps => Head(s).flow \notin A
    PROVE  AdmitsOnce(s, A)
<1> SUFFICES ASSUME NEW i \in 1..Len(s), s[i].op = "Admit"
             PROVE  /\ s[i].flow \notin A
                    /\ \A j \in 1..Len(s) : j = i
  BY DEF AdmitsOnce
<1>1. Len(s) = 1
  BY DEF Shape, EventsLast, EntryOps
<1>2. i = 1 /\ \A j \in 1..Len(s) : j = i
  BY <1>1
<1>3. s # <<>> /\ Head(s) = s[1]
  <2>1. \A k \in 1..Len(<<>>) : FALSE
    OBVIOUS
  <2>2. s # <<>>
    BY <1>1, <2>1
  <2> QED
    BY <2>2
<1> QED
  BY <1>2, <1>3 DEF EntryOps

\* Under the discipline pins are where their flows are reserved.
THEOREM PinsInvHolds == Spec => []PinsInv
<1>1. Init => PinsInv
  BY DEF Init, PinsInv, PinsHome, ReservedAdmitted, Reserved, AdmitsOnce
<1>2. ASSUME ReservationInv, ReservationInv', ShapeInv', PinsInv, [Next]_vars
      PROVE  PinsInv'
  <2>0. EngineInv /\ EngineTypeOK'
    BY <1>2 DEF ReservationInv, EngineInv
  <2>1. CASE EngineStep
    BY <1>2, <2>0, <2>1, EngineStepPinsInv
  <2>2. CASE PolicyAnswer \/ UNCHANGED vars
    <3>1. pins' = pins /\ pinDev' = pinDev /\ admitted' = admitted
      BY <2>2, AnswerFrame DEF deviceVars, flowVars, vars, engineVars
    <3>2. AdmitsOnce(stack', admitted')
      BY <1>2, <2>0, ShapeAdmitsOnce DEF ShapeInv, Entries, EngineTypeOK
    <3> QED
      BY <1>2, <3>1, <3>2 DEF PinsInv, PinsHome, ReservedAdmitted, Reserved
  <2>3. CASE AdmitStep
    BY <1>2, <2>0, <2>3, AdmitBudget, AdmitPinsInv
  <2> QED
    BY <1>2, <2>1, <2>2, <2>3 DEF Next
<1> QED
  BY <1>1, <1>2, InvariantHolds, ShapeHolds, PTL DEF Spec

\* Under the discipline no device gives away more slots than it has.
THEOREM SlotsHold == Spec => []SlotsWithinLimit
<1>1. Init => SlotsWithinLimit
  <2> SUFFICES ASSUME Init, NEW d \in Devices PROVE SlotsUsed(d) <= MaxSlots
    BY DEF SlotsWithinLimit
  <2>1. pins[d] = {} /\ BestEffort(d) = {}
    BY DEF Init, BestEffort, Resident, NoDevice, Devices
  <2> QED
    BY <2>1, FS_EmptySet, SizesAssumption DEF SlotsUsed
<1>2. ASSUME ReservationInv, ReservationInv', SlotsWithinLimit, [Next]_vars
      PROVE  SlotsWithinLimit'
  <2>0. EngineInv /\ EngineInv'
    BY <1>2 DEF ReservationInv
  <2>1. CASE EngineStep /\ ~Schedule
    BY <1>2, <2>0, <2>1, EngineStepKeepsPins, EngineStepPlacesNobody, SlotsKept
  <2>2. CASE Schedule
    BY <1>2, <2>0, <2>2, SlotsSchedule
  <2>3. CASE PolicyAnswer \/ (\E b : AdmitAggregate(b)) \/ UNCHANGED vars
    <3>1. pins' = pins /\ where' = where /\ pinDev' = pinDev
      BY <2>3, AnswerFrame DEF AdmitAggregate, deviceVars, stepVars, flowVars,
         engineVars, vars
    <3> QED
      BY <1>2, <2>0, <3>1, SlotsKept DEF PinsKept, NobodyPlaced, Reserved
  <2>4. CASE \E b : AdmitReserved(b)
    BY <1>2, <2>0, <2>4, SlotsAdmit
  <2> QED
    BY <1>2, <2>1, <2>2, <2>3, <2>4, AdmitBudget DEF Next
<1> QED
  BY <1>1, <1>2, InvariantHolds, PTL DEF Spec

\* Under the discipline what a device counts as held is within what it has.
LEMMA CounterHolds == Spec => []CounterWithinLimit
<1>1. Init => CounterWithinLimit
  <2> SUFFICES ASSUME Init, NEW d \in Devices PROVE HbmUsed(d) <= HbmCap
    BY DEF CounterWithinLimit
  <2>1. pins[d] \ spilled = {} /\ beHbm[d] = 0
    BY DEF Init
  <2> QED
    BY <2>1, TotalEmpty, SizesAssumption DEF HbmUsed
<1>2. ASSUME ReservationInv, ReservationInv', PinsInv, CounterWithinLimit, [Next]_vars
      PROVE  CounterWithinLimit'
  <2>0. EngineInv /\ EngineInv'
    BY <1>2 DEF ReservationInv
  <2>1. CASE EngineStep /\ ~Schedule
    BY <1>2, <2>0, <2>1, EngineStepBringsNothing, HbmKept DEF PinsInv
  <2>2. CASE Schedule
    BY <1>2, <2>0, <2>2, HbmSchedule DEF PinsInv
  <2>3. CASE PolicyAnswer \/ (\E b : AdmitAggregate(b)) \/ UNCHANGED vars
    <3>1. pins' = pins /\ spilled' = spilled /\ beHbm' = beHbm
      BY <2>3, AnswerFrame DEF AdmitAggregate, deviceVars, engineVars, vars
    <3> QED
      BY <1>2, <3>1 DEF CounterWithinLimit, HbmUsed
  <2>4. CASE \E b : AdmitReserved(b)
    BY <1>2, <2>0, <2>4, HbmAdmit
  <2> QED
    BY <1>2, <2>1, <2>2, <2>3, <2>4, AdmitBudget DEF Next
<1> QED
  BY <1>1, <1>2, InvariantHolds, PinsInvHolds, PTL DEF Spec

\* Under the discipline a guaranteed flow leaves its device only by finishing
\* its invocation or at the end of its budget (GuaranteeEnforced).
THEOREM GuaranteeHolds == Spec => GuaranteeEnforced
<1>1. ASSUME EngineInv, Next PROVE LeavesByRight
  <2>1. CASE EngineStep
    BY <1>1, <2>1, EngineStepByRight
  <2>2. CASE PolicyAnswer \/ (\E b : AdmitAggregate(b) \/ AdmitReserved(b))
    <3>1. where' = where
      BY <2>2, AnswerFrame DEF AdmitAggregate, AdmitReserved, stepVars
    <3> QED
      BY <3>1 DEF LeavesByRight
  <2> QED
    BY <1>1, <2>1, <2>2, AdmitBudget DEF Next
<1>2. ReservationInv /\ [Next]_vars =>
        [\A f \in Flows :
           Reserved(f) /\ NonPreemptible /\ where'[f] # where[f] =>
               where[f] = NoDevice \/ cursor'[f] > cursor[f]]_engineVars
  BY <1>1 DEF LeavesByRight, ReservationInv, vars
<1> QED
  BY <1>2, InvariantHolds, PTL DEF Spec, GuaranteeEnforced

\* Under the discipline a pin lasts until its flow is over (PinLasts).
THEOREM PinsHold == Spec => PinLasts
<1>1. ASSUME EngineInv, Next PROVE PinsKept \/ \E b : AdmitReserved(b)
  <2>1. CASE EngineStep
    BY <1>1, <2>1, EngineStepKeepsPins
  <2>2. CASE PolicyAnswer \/ (\E b : AdmitAggregate(b))
    <3>1. pins' = pins
      BY <2>2, AnswerFrame DEF AdmitAggregate, deviceVars
    <3> QED
      BY <3>1 DEF PinsKept
  <2> QED
    BY <1>1, <2>1, <2>2, AdmitBudget DEF Next
<1>2. ASSUME EngineInv, NEW b, AdmitReserved(b)
      PROVE  \A d \in Devices : pins[d] \subseteq pins'[d]
  BY <1>2 DEF AdmitReserved, EngineInv, EngineTypeOK
<1>3. ReservationInv /\ [Next]_vars =>
        [\A d \in Devices : \A f \in pins[d] \ pins'[d] :
           cursor'[f] = Len(Work[f])]_engineVars
  BY <1>1, <1>2 DEF PinsKept, ReservationInv, vars
<1> QED
  BY <1>3, InvariantHolds, PTL DEF Spec, PinLasts

\* Nothing of a flow is queued, offered, resident or in tool-time before it is
\* admitted.
KnownInv == KnownAdmitted /\ queue \subseteq admitted

\* The discipline knows only admitted flows.
THEOREM KnownHolds == Spec => []KnownInv
<1>1. Init /\ PolicyInit => KnownInv
  BY DEF Init, PolicyInit, KnownInv, KnownAdmitted, OfferedIn
<1>2. ASSUME ReservationInv, KnownInv, [Next]_vars PROVE KnownInv'
  <2>0. EngineInv /\ stack \in Seq(Task)
    BY <1>2 DEF ReservationInv, EngineInv, EngineTypeOK
  <2>1. CASE EngineStep /\ UNCHANGED policyVars
    <3>1. KnownAdmitted'
      BY <1>2, <2>0, <2>1, TriggerKnown, HandlingKnown DEF EngineStep, KnownInv
    <3> QED
      BY <1>2, <2>1, <3>1, EngineStepSameReservations DEF KnownInv, policyVars
  <2>2. CASE GrantReservation \/ GrantAggregate
    <3>1. PICK d \in 0..NumDevices :
            /\ TaskOf("Admit", Head(stack).flow, 0, d) \in Task
            /\ Respond(<<TaskOf("Admit", Head(stack).flow, 0, d)>>)
      BY <1>2, <2>2, Grants
    <3> DEFINE a == <<TaskOf("Admit", Head(stack).flow, 0, d)>>
    <3>2. a \in Seq(Task) /\ OfferedIn(a, admitted)
      BY <3>1 DEF OfferedIn, TaskOf, ReadyOps
    <3>3. stack # <<>> /\ queue' = queue
      BY <1>2, <2>2, Grants
    <3> HIDE DEF a
    <3>4. KnownAdmitted'
      BY <1>2, <2>0, <3>1, <3>2, <3>3, RespondKnown DEF KnownInv, a
    <3> QED
      BY <1>2, <3>1, <3>3, <3>4 DEF KnownInv, Respond, flowVars
  <2>3. CASE ReadyReserved
    <3> DEFINE f == Head(stack).flow
    <3> DEFINE run == TaskOf("Schedule", f, Head(stack).step, pinDev[f])
    <3>1. PICK a \in Seq(Task) : Respond(a) /\ \E V : Restore(a, run, V)
      <4> DEFINE d == pinDev[f]
      <4>1. \E a \in Seq(Task) :
            \E V \in (IF f \in spilled THEN Victims(f, d) ELSE {{}}) :
               Respond(a) /\ Restore(a, TaskOf("Schedule", f, Head(stack).step, d), V)
        <5> HIDE DEF f, d
        <5> QED
          BY <1>2, <2>3, RestoreAnswers DEF f, d
      <4> QED
        BY <4>1
    <3>2. /\ stack # <<>> /\ queue' = queue /\ Head(stack).op = "InvocationReady"
      BY <2>3 DEF ReadyReserved, Pending
    <3>3. f \in admitted
      <4>1. 1 \in 1..Len(stack) /\ stack[1] = Head(stack)
        BY <2>0, <3>2
      <4> QED
        BY <1>2, <3>2, <4>1 DEF KnownInv, KnownAdmitted, OfferedIn, ReadyOps
    <3>4. OfferedIn(a, admitted)
      <4> SUFFICES ASSUME NEW i \in 1..Len(a), a[i].op \in ReadyOps
                   PROVE  a[i].flow \in admitted
        BY DEF OfferedIn
      <4>1. a[i] \in Tasks(a)
        BY DEF Tasks
      <4>2. a[i] = run
        BY <3>1, <4>1 DEF Restore, Eviction, TaskOf, ReadyOps
      <4> QED
        BY <3>3, <4>2 DEF TaskOf
    <3>5. KnownAdmitted'
      BY <1>2, <2>0, <3>1, <3>2, <3>4, RespondKnown DEF KnownInv
    <3> QED
      BY <1>2, <3>1, <3>2, <3>5 DEF KnownInv, Respond, flowVars
  <2>4. CASE ReadyBestEffort \/ NoteComplete \/ OnTick
    <3>1. PICK first \in Seq(Task), s \in Seq(Task) :
            /\ \A i \in 1..Len(first) : first[i].op = "Degrade"
            /\ Bookings(Asked, Kept, s) /\ Respond(first \o s)
      BY <1>2, <2>4, Drains
    <3>2. stack # <<>>
      BY <1>2, <2>4, Drains
    <3>3. Asked \subseteq admitted
      <4>1. 1 \in 1..Len(stack) /\ stack[1] = Head(stack)
        BY <2>0, <3>2
      <4> QED
        BY <1>2, <4>1 DEF Asked, KnownInv, KnownAdmitted, OfferedIn, ReadyOps
    <3> DEFINE a == first \o s
    <3>4. a \in Seq(Task) /\ OfferedIn(a, admitted)
      <4>1. a \in Seq(Task) /\ Tasks(a) = Tasks(first) \cup Tasks(s)
        BY TasksParts
      <4>2. \A t \in Tasks(first) : t.op \notin ReadyOps
        BY <3>1 DEF Tasks, ReadyOps
      <4>3. \A t \in Tasks(s) : t.flow \in admitted
        BY <3>1, <3>3 DEF Tasks, Bookings
      <4> HIDE DEF a
      <4>4. \A i \in 1..Len(a) : a[i] \in Tasks(a)
        BY DEF Tasks
      <4> QED
        BY <4>1, <4>2, <4>3, <4>4 DEF OfferedIn
    <3> HIDE DEF a
    <3>5. KnownAdmitted'
      BY <1>2, <2>0, <3>1, <3>2, <3>4, RespondKnown DEF KnownInv, a
    <3>6. queue' \subseteq admitted
      BY <3>1, <3>3 DEF Bookings
    <3> QED
      BY <3>1, <3>5, <3>6 DEF KnownInv, Respond, flowVars
  <2>5. CASE AdmitStep /\ UNCHANGED policyVars
    <3>1. PICK b : AdmitAggregate(b) \/ AdmitReserved(b)
      BY <2>5, AdmitBudget
    <3>2. KnownAdmitted'
      BY <1>2, <2>0, <3>1, AdmitKnown DEF KnownInv
    <3>3. queue' = queue /\ admitted \subseteq admitted'
      BY <2>5, <3>1 DEF AdmitAggregate, AdmitReserved, policyVars
    <3> QED
      BY <1>2, <3>2, <3>3 DEF KnownInv
  <2>6. CASE UNCHANGED vars
    BY <1>2, <2>6 DEF KnownInv, KnownAdmitted, vars, engineVars, flowVars,
       stepVars, timerVars, loopVars, policyVars
  <2> QED
    BY <1>2, <2>1, <2>2, <2>3, <2>4, <2>5, <2>6 DEF Next, PolicyAnswer
<1> QED
  BY <1>1, <1>2, InvariantHolds, PTL DEF Spec

\* What a device has served stays within what its decoders may generate.
THEOREM ServiceInvHolds == Spec => []ServiceInv
<1>1. Init => ServiceInv
  <2> SUFFICES ASSUME Init PROVE ServiceInv
    OBVIOUS
  <2>1. \A f \in Flows : left[f] \in Nat /\ budget[f] = Unmetered
    <3>1. \A f \in Flows : Len(Work[f]) \in Nat /\ Len(Work[f]) > 0
      BY WorkType
    <3>2. \A f \in Flows : Work[f][1].output \in Nat
      BY <3>1, WorkType DEF Steps
    <3> QED
      BY <3>2 DEF Init
  <2>2. \A d \in Devices : Decoding(d) = {}
    BY DEF Init, Decoding, Resident
  <2> QED
    BY <2>1, <2>2 DEF ServiceInv, NeverOverserved, AccruedWithin
<1>2. ASSUME ReservationInv, ReservationInv', PinsInv, KnownInv, ServiceInv,
             [Next]_vars
      PROVE  ServiceInv'
  <2>0. EngineInv /\ EngineInv'
    BY <1>2 DEF ReservationInv
  <2>1. CASE EngineStep
    BY <1>2, <2>0, <2>1, TriggerServes, HandlingServes DEF EngineStep
  <2>2. CASE PolicyAnswer \/ UNCHANGED vars
    <3>1. /\ left' = left /\ budget' = budget /\ accrued' = accrued
          /\ where' = where /\ phase' = phase
      BY <2>2, AnswerFrame DEF engineVars, stepVars, deviceVars, vars
    <3> QED
      BY <1>2, <3>1 DEF ServiceInv, NeverOverserved, AccruedWithin, Decoding,
           Resident, TokensUntilStop
  <2>3. CASE AdmitStep
    BY <1>2, <2>0, <2>3, AdmitBudget, AdmitServes DEF PinsInv, KnownInv, KnownAdmitted
  <2> QED
    BY <1>2, <2>1, <2>2, <2>3 DEF Next
<1> QED
  BY <1>1, <1>2, InvariantHolds, PinsInvHolds, KnownHolds, PTL DEF Spec

\* Under the discipline no invocation generates more tokens than it has to, and
\* no flow more than its budget (NeverOverserved).
THEOREM ServiceHolds == Spec => []NeverOverserved
<1>1. ServiceInv => NeverOverserved
  BY DEF ServiceInv
<1> QED
  BY <1>1, ServiceInvHolds, PTL

-----------------------------------------------------------------------------
(* The same books: what the policy believes is running is on its device,   *)
(* its ledger is the engine's pins, and every flow is in one place.        *)

\* The calls on a stack that are about an invocation.
CallOps == ReadyOps \cup {"Preempt", "InvocationComplete"}
Calls(s) == {t \in Tasks(s) : t.op \in CallOps}

\* Flows whose next invocation is offered or being placed, or being evicted.
Offered == {f \in Flows : \E t \in Calls(stack) : t.op \in ReadyOps /\ t.flow = f}
Evicted == {f \in Flows : \E t \in Calls(stack) : t.op = "Preempt" /\ t.flow = f}

\* Calls are about the current invocation of their flow, completions about an
\* earlier one; who is being evicted is a best-effort resident.
StackNow ==
    /\ \A t \in Calls(stack) : IF t.op = "InvocationComplete"
                               THEN t.step < Step(t.flow)
                               ELSE t.step = Step(t.flow)
    /\ \A f \in Evicted : where[f] # NoDevice /\ ~Reserved(f)
    /\ PreemptOnce(stack)

\* What waits to be re-offered was preempted, is best effort and still waits.
RereadyNow ==
    /\ FlowsOnce(reready)
    /\ \A v \in Tasks(reready) : /\ v.step = Step(v.flow) /\ ~Reserved(v.flow)
                                 /\ phase[v.flow] = "PREEMPTED"

\* Every admitted flow that is not over is in exactly one place.
Located == Partition(queue, gaps, OnDevices, Offered, Requeued, Open)

\* Nothing of a flow is over before its admission.
Untouched == \A f \in Flows \ admitted : cursor[f] = 0

\* Reserved flows do not queue and run at home; a stop is where its flow is.
HomesInv ==
    /\ \A f \in queue : ~Reserved(f)
    /\ \A f \in Flows : Reserved(f) => where[f] \in {NoDevice, pinDev[f]}
    /\ \A r \in finished \cup exhausted : where[r.flow] = r.dev

\* A spilled pin is a reserved flow's that is off its device; while a device
\* loop has stops left, it is in tool-time and nobody is being evicted.
SpillInv ==
    /\ \A f \in spilled : /\ Reserved(f) /\ where[f] = NoDevice
                          /\ PinMode = "TIERED" /\ cursor[f] < Len(Work[f])
    /\ finished \cup exhausted # {} => spilled \subseteq gaps /\ Evicted = {}

\* A pin is held from the admission of its flow to its end.
PinsLive ==
    /\ \A f \in Flows : Reserved(f) /\ cursor[f] < Len(Work[f]) =>
                            f \in pins[pinDev[f]]
    /\ \A d \in Devices : \A f \in pins[d] : cursor[f] < Len(Work[f])
    /\ \A f \in abandoned : cursor[f] = Len(Work[f])

\* What the policy believes is running is resident and not being evicted, or
\* about to be placed, or its completion is about to be delivered; residents
\* that are not being evicted and placements to come are believed to run.
OnItsDevice(v) ==
    where[v.flow] = v.dev /\ v.step = Step(v.flow) /\ v.flow \notin Evicted
Placed(v) ==
    \E t \in Calls(stack) : t.op = "Schedule" /\ Placement(t) = v
Completed(v) ==
    \E t \in Calls(stack) :
        t.op = "InvocationComplete" /\ t.flow = v.flow /\ t.step = v.step
RunningTracks ==
    /\ \A v \in running : /\ ~Reserved(v.flow)
                          /\ OnItsDevice(v) \/ Placed(v) \/ Completed(v)
    /\ \A f \in OnDevices \ Evicted : ~Reserved(f) =>
           [flow |-> f, step |-> Step(f), dev |-> where[f]] \in running
    /\ \A t \in Calls(stack) : t.op = "Schedule" /\ ~Reserved(t.flow) =>
           Placement(t) \in running

BooksInv == /\ StackNow /\ RereadyNow /\ Located /\ Untouched
            /\ HomesInv /\ SpillInv /\ PinsLive /\ RunningTracks

\* What the steps below may assume, from the theorems above.
Known == /\ ReservationInv /\ ShapeInv /\ PinsInv /\ KnownInv

-----------------------------------------------------------------------------
(* Helpers.                                                                *)

\* The calls of a sequence are those of its parts.
LEMMA CallsParts ==
    /\ Calls(<<>>) = {}
    /\ \A r : Calls(<<r>>) = {t \in {r} : t.op \in CallOps}
    /\ \A s \in Seq(Task) : s # <<>> =>
           Calls(s) = {t \in {Head(s)} : t.op \in CallOps} \cup Calls(Tail(s))
    /\ \A a, b \in Seq(Task) : Calls(a \o b) = Calls(a) \cup Calls(b)
<1>1. Calls(<<>>) = {}
  BY TasksParts DEF Calls
<1>2. \A r : Calls(<<r>>) = {t \in {r} : t.op \in CallOps}
  BY TasksParts DEF Calls
<1>3. ASSUME NEW s \in Seq(Task), s # <<>>
      PROVE  Calls(s) = {t \in {Head(s)} : t.op \in CallOps} \cup Calls(Tail(s))
  <2>1. Tasks(s) = {Head(s)} \cup Tasks(Tail(s))
    BY <1>3, TasksParts
  <2> QED
    BY <2>1 DEF Calls
<1>4. ASSUME NEW a \in Seq(Task), NEW b \in Seq(Task)
      PROVE  Calls(a \o b) = Calls(a) \cup Calls(b)
  <2>1. Tasks(a \o b) = Tasks(a) \cup Tasks(b)
    BY TasksParts
  <2> QED
    BY <2>1 DEF Calls
<1> QED
  BY <1>1, <1>2, <1>3, <1>4

\* A call on the stack is about a flow of the workload.
LEMMA CallType ==
    ASSUME NEW s \in Seq(Task), NEW t \in Calls(s)
    PROVE  /\ t \in Task /\ t.flow \in Flows /\ t.step \in Nat
           /\ t.dev \in 0..NumDevices /\ t.op \in CallOps
<1>1. PICK i \in 1..Len(s) : t = s[i]
  BY DEF Calls, Tasks
<1>2. t \in Task /\ t.op \in CallOps
  BY <1>1, ElementType DEF Calls
<1> QED
  BY <1>2 DEF Task, FlowTask, TickTask, CallOps, ReadyOps

\* An eviction executed leaves the others pending.
LEMMA PreemptOncePop ==
    ASSUME NEW s \in Seq(Task), s # <<>>, PreemptOnce(s)
    PROVE  /\ PreemptOnce(Tail(s))
           /\ Head(s).op = "Preempt" =>
                \A t \in Tasks(Tail(s)) : t.op = "Preempt" => t.flow # Head(s).flow
<1> DEFINE p == Tail(s)
<1>1. /\ Len(s) \in Nat /\ Head(s) = s[1] /\ 1 \in 1..Len(s)
      /\ \A i \in 1..Len(p) : p[i] = s[i + 1] /\ i + 1 \in 1..Len(s) /\ i + 1 # 1
      /\ \A i, j \in 1..Len(p) : i + 1 = j + 1 => i = j
  OBVIOUS
<1> HIDE DEF p
<1>2. PreemptOnce(p)
  BY <1>1 DEF PreemptOnce
<1>3. ASSUME s[1].op = "Preempt", NEW t \in Tasks(p), t.op = "Preempt"
      PROVE  t.flow # s[1].flow
  <2>1. PICK i \in 1..Len(p) : t = p[i]
    BY <1>3 DEF Tasks
  <2>2. PICK k \in 1..Len(s) : t = s[k] /\ k # 1
    BY <1>1, <2>1
  <2> QED
    BY <1>1, <1>3, <2>2 DEF PreemptOnce
<1> QED
  BY <1>1, <1>2, <1>3 DEF p

\* Nobody is evicted twice if nobody is evicted.
LEMMA PreemptOnceNone ==
    ASSUME NEW s, \A t \in Calls(s) : t.op # "Preempt" PROVE PreemptOnce(s)
BY DEF PreemptOnce, Calls, Tasks, CallOps

-----------------------------------------------------------------------------
(* Steps that leave the books alone.                                       *)

\* The calls that are pending, and all the books are about, stay as they are.
Quiet ==
    /\ UNCHANGED <<cursor, where, pinDev, pins, spilled, gaps, reready,
                   admitted, abandoned, queue, running>>
    /\ \A f \in Flows : phase[f] = "PREEMPTED" => phase'[f] = "PREEMPTED"
    /\ finished' \cup exhausted' = finished \cup exhausted
    /\ Calls(stack') = Calls(stack) /\ PreemptOnce(stack')

\* Such a step keeps the invariant.
LEMMA QuietBooks ==
    ASSUME EngineTypeOK, BooksInv, Quiet PROVE BooksInv'
<1>1. /\ Offered' = Offered /\ Evicted' = Evicted /\ Requeued' = Requeued
      /\ OnDevices' = OnDevices /\ Open' = Open
      /\ \A f \in Flows : Step(f)' = Step(f) /\ Reserved(f)' = Reserved(f)
  BY DEF Quiet, Offered, Evicted, Requeued, OnDevices, Open, Step, Reserved
<1>2. \A v \in Tasks(reready) : v.flow \in Flows
  BY RereadyType
<1>3. \A t \in Calls(stack) : t.flow \in Flows
  BY CallType DEF EngineTypeOK
<1>4. StackNow'
  BY <1>1, <1>3 DEF BooksInv, StackNow, Quiet, Step, Reserved
<1>5. RereadyNow'
  BY <1>1, <1>2 DEF BooksInv, RereadyNow, Quiet, Step, Reserved
<1>6. Located'
  BY <1>1 DEF BooksInv, Located, Quiet
<1>7. HomesInv'
  BY DEF BooksInv, HomesInv, Quiet, Reserved
<1>8. SpillInv'
  BY <1>1 DEF BooksInv, SpillInv, Quiet, Reserved
<1>9. PinsLive'
  BY DEF BooksInv, PinsLive, Quiet, Reserved
<1>10. RunningTracks'
  BY <1>1 DEF BooksInv, RunningTracks, Quiet, OnItsDevice, Placed, Completed, Step, Reserved
<1>11. Untouched'
  BY DEF BooksInv, Untouched, Quiet
<1> QED
  BY <1>4, <1>5, <1>6, <1>7, <1>8, <1>9, <1>10, <1>11 DEF BooksInv

\* Pending calls are none between two triggers; arrivals, their answers and
\* degradations are none of them.
LEMMA QuietSteps ==
    ASSUME Known, BooksInv,
           \/ /\ UNCHANGED policyVars
              /\ \/ Arrival \/ TickTimer \/ Degrade
                 \/ \E t \in timers : EnterDevice(t) \/ EntryVoid(t)
                 \/ \E d \in Devices : DecodeToken(d)
                 \/ AdmitRefused \/ ScheduleRefused \/ PreemptRefused
           \/ GrantReservation \/ GrantAggregate
           \/ UNCHANGED vars
    PROVE  BooksInv'
<1>0. /\ ReservationInv /\ EngineInv /\ EngineTypeOK /\ stack \in Seq(Task)
      /\ PreemptOnce(stack)
      /\ Calls(<<>>) = {} /\ PreemptOnce(<<>>)
  <2>1. Calls(<<>>) = {}
    BY CallsParts
  <2>2. PreemptOnce(<<>>)
    BY <2>1, PreemptOnceNone
  <2> QED
    BY <2>1, <2>2 DEF Known, ReservationInv, EngineInv, EngineTypeOK, BooksInv, StackNow
<1>1. CASE (Arrival \/ TickTimer) /\ UNCHANGED policyVars
  <2>1. PICK r : stack' = <<r>> /\ r.op \notin CallOps
    BY <1>1 DEF Arrival, TickTimer, TaskOf, CallOps, ReadyOps
  <2>2. Calls(<<r>>) = {}
    BY <2>1, CallsParts
  <2>3. PreemptOnce(<<r>>)
    BY <2>2, PreemptOnceNone
  <2>4. stack = <<>>
    BY <1>1 DEF Arrival, TickTimer, Idle
  <2>5. Quiet
    BY <1>0, <1>1, <2>1, <2>2, <2>3, <2>4 DEF Quiet, Arrival, TickTimer, flowVars,
       stepVars, deviceVars, timerVars, loopVars, policyVars
  <2> QED
    BY <1>0, <2>5, QuietBooks
<1>2. CASE Degrade /\ UNCHANGED policyVars
  <2>1. stack # <<>> /\ stack' = Tail(stack) /\ Head(stack).op = "Degrade"
    BY <1>2 DEF Degrade, Pending
  <2>2. Calls(Tail(stack)) = Calls(stack)
    <3>1. Calls(stack) = {t \in {Head(stack)} : t.op \in CallOps} \cup Calls(Tail(stack))
      BY <1>0, <2>1, CallsParts
    <3> QED
      BY <2>1, <3>1 DEF CallOps, ReadyOps
  <2>3. PreemptOnce(Tail(stack))
    BY <1>0, <2>1, PreemptOncePop
  <2>4. Quiet
    BY <1>2, <2>1, <2>2, <2>3 DEF Quiet, Degrade, deviceVars, timerVars, loopVars,
       policyVars
  <2> QED
    BY <1>0, <2>4, QuietBooks
<1>3. CASE /\ UNCHANGED policyVars
           /\ \/ \E t \in timers : EnterDevice(t) \/ EntryVoid(t)
              \/ \E d \in Devices : DecodeToken(d)
              \/ AdmitRefused \/ ScheduleRefused \/ PreemptRefused
  <2>1. stack' = stack
    BY <1>3 DEF EnterDevice, EntryVoid, DecodeToken, AdmitRefused, ScheduleRefused,
       PreemptRefused, Raise, stepVars
  <2>2. \A f \in Flows : phase[f] = "PREEMPTED" => phase'[f] = "PREEMPTED"
    <3>1. ASSUME NEW t \in timers, EnterDevice(t), NEW f \in Flows,
                 phase[f] = "PREEMPTED"
          PROVE  phase'[f] = "PREEMPTED"
      BY <1>0, <3>1 DEF EnterDevice, StillEntering, EngineTypeOK
    <3>2. \/ phase' = phase \/ \E t \in timers : EnterDevice(t)
      BY <1>3 DEF EntryVoid, DecodeToken, AdmitRefused, ScheduleRefused,
         PreemptRefused, Raise, stepVars
    <3> QED
      BY <3>1, <3>2
  <2>3. /\ UNCHANGED <<cursor, where, pinDev, pins, spilled, gaps, reready,
                       admitted, abandoned, finished, exhausted>>
    BY <1>3 DEF EnterDevice, EntryVoid, DecodeToken, AdmitRefused, ScheduleRefused,
       PreemptRefused, Raise, flowVars, stepVars, deviceVars, timerVars, loopVars
  <2>4. Quiet
    BY <1>0, <1>3, <2>1, <2>2, <2>3 DEF Quiet, policyVars
  <2> QED
    BY <1>0, <2>4, QuietBooks
<1>4. CASE GrantReservation \/ GrantAggregate
  <2>1. PICK d \in 0..NumDevices :
          /\ TaskOf("Admit", Head(stack).flow, 0, d) \in Task
          /\ Respond(<<TaskOf("Admit", Head(stack).flow, 0, d)>>)
    BY <1>0, <1>4, Grants
  <2> DEFINE r == TaskOf("Admit", Head(stack).flow, 0, d)
  <2>2. /\ stack # <<>> /\ Head(stack).op \in EntryOps
        /\ Head(stack).op \notin CallOps
        /\ queue' = queue /\ running' = running
    BY <1>0, <1>4, Grants DEF EntryOps, CallOps, ReadyOps
  <2>3. r \in Task /\ stack' = <<r>> \o Tail(stack) /\ r.op \notin CallOps
    BY <2>1 DEF Respond, TaskOf, CallOps, ReadyOps
  <2> HIDE DEF r
  <2>4. Tasks(stack') = {r} /\ Tasks(stack) = {Head(stack)}
    BY <1>0, <2>2, <2>3, EntryShape DEF Known
  <2>5. Calls(stack') = {} /\ Calls(stack) = {}
    BY <2>2, <2>3, <2>4 DEF Calls
  <2>6. PreemptOnce(stack')
    BY <2>5, PreemptOnceNone
  <2>7. Quiet
    BY <2>1, <2>2, <2>5, <2>6 DEF Quiet, Respond, flowVars, stepVars, deviceVars,
       timerVars, loopVars
  <2> QED
    BY <1>0, <2>7, QuietBooks
<1>5. CASE UNCHANGED vars
  <2>1. Quiet
    BY <1>0, <1>5 DEF Quiet, vars, engineVars, flowVars, stepVars, deviceVars,
       timerVars, loopVars, policyVars
  <2> QED
    BY <1>0, <2>1, QuietBooks
<1> QED
  BY <1>1, <1>2, <1>3, <1>4, <1>5

-----------------------------------------------------------------------------
(* Triggers and completions.                                               *)

\* With nothing on the stack, nobody is being offered or evicted.
LEMMA NothingPending ==
    /\ stack = <<>> => Calls(stack) = {} /\ Offered = {} /\ Evicted = {}
    /\ reready = <<>> => Requeued = {}
<1>1. stack = <<>> => Calls(stack) = {}
  BY CallsParts
<1>2. reready = <<>> => Tasks(reready) = {}
  BY TasksParts
<1> QED
  BY <1>1, <1>2 DEF Offered, Evicted, Requeued

\* At the end of the tool-time the next invocation is offered.
LEMMA GapEndBooks ==
    ASSUME Known, BooksInv, NEW f \in Flows, GapEnd(f), UNCHANGED policyVars
    PROVE  BooksInv'
<1> DEFINE r == TaskOf("InvocationReady", f, Step(f), NoDevice)
<1>1. /\ EngineTypeOK
      /\ stack = <<>> /\ reready = <<>> /\ finished = {} /\ exhausted = {}
      /\ f \in gaps /\ gaps' = gaps \ {f}
      /\ UNCHANGED <<cursor, where, phase, pinDev, pins, spilled, reready,
                     admitted, abandoned, finished, exhausted, queue, running>>
  BY DEF Known, ReservationInv, EngineInv, GapEnd, Idle, flowVars, stepVars, deviceVars,
         loopVars, policyVars
<1>2. /\ Calls(stack') = {r} /\ r.op = "InvocationReady" /\ r.flow = f
      /\ r.step = Step(f)
  <2>1. r.op \in CallOps /\ r.op = "InvocationReady" /\ r.flow = f /\ r.step = Step(f)
    BY DEF TaskOf, CallOps, ReadyOps
  <2>2. stack' = <<r>>
    BY DEF GapEnd
  <2> HIDE DEF r
  <2> QED
    BY <2>1, <2>2, CallsParts
<1> HIDE DEF r
<1>3. /\ Offered = {} /\ Evicted = {} /\ Requeued = {} /\ Calls(stack) = {}
      /\ Offered' = {f} /\ Evicted' = {} /\ Requeued' = {}
      /\ OnDevices' = OnDevices /\ Open' = Open
      /\ \A g \in Flows : Step(g)' = Step(g) /\ Reserved(g)' = Reserved(g)
  BY <1>1, <1>2, NothingPending
     DEF Offered, Evicted, Requeued, OnDevices, Open, Step, Reserved, ReadyOps
<1>4. StackNow'
  <2>1. PreemptOnce(stack')
    BY <1>2, PreemptOnceNone
  <2> QED
    BY <1>2, <1>3, <2>1 DEF StackNow
<1>5. RereadyNow'
  BY <1>1, <1>3 DEF BooksInv, RereadyNow, Step, Reserved, Requeued
<1>6. Located'
  BY <1>1, <1>3 DEF BooksInv, Located, Partition
<1>7. HomesInv'
  BY <1>1 DEF BooksInv, HomesInv, Reserved
<1>8. SpillInv'
  BY <1>1 DEF BooksInv, SpillInv, Reserved
<1>9. PinsLive'
  BY <1>1 DEF BooksInv, PinsLive, Reserved
<1>10. RunningTracks'
  BY <1>1, <1>2, <1>3
     DEF BooksInv, RunningTracks, OnItsDevice, Placed, Completed, Step, Reserved
<1>11. Untouched'
  BY <1>1 DEF BooksInv, Untouched
<1> QED
  BY <1>4, <1>5, <1>6, <1>7, <1>8, <1>9, <1>10, <1>11 DEF BooksInv

\* Who stops is on the device; between two triggers only tool-time spills.
LEMMA IntervalEndBooks ==
    ASSUME Known, BooksInv, NEW d \in Devices, IntervalEnd(d), UNCHANGED policyVars
    PROVE  BooksInv'
<1>1. /\ EngineTypeOK
      /\ stack = <<>> /\ reready = <<>>
      /\ UNCHANGED <<cursor, where, phase, pinDev, pins, spilled, reready, stack,
                     gaps, admitted, abandoned, queue, running>>
  BY DEF Known, ReservationInv, EngineInv, IntervalEnd, Idle, flowVars, timerVars,
         policyVars
<1>2. \A r \in finished' \cup exhausted' : where[r.flow] = r.dev
  BY DEF IntervalEnd, Decoding, Resident, Stop
<1>3. /\ Offered = {} /\ Evicted = {} /\ Requeued = {} /\ Calls(stack) = {}
      /\ Offered' = {} /\ Evicted' = {} /\ Requeued' = {} /\ Calls(stack') = {}
      /\ OnDevices' = OnDevices /\ Open' = Open
  BY <1>1, NothingPending DEF Offered, Evicted, Requeued, OnDevices, Open
<1>4. spilled \subseteq gaps
  <2> SUFFICES ASSUME NEW f \in spilled PROVE f \in gaps
    OBVIOUS
  <2>1. f \in Flows /\ Reserved(f) /\ f \notin OnDevices /\ cursor[f] < Len(Work[f])
    BY <1>1 DEF BooksInv, SpillInv, OnDevices, EngineTypeOK
  <2>2. f \in Open /\ f \notin queue
    BY <2>1 DEF Known, PinsInv, ReservedAdmitted, Open, BooksInv, HomesInv
  <2> QED
    BY <1>3, <2>1, <2>2 DEF BooksInv, Located, Partition
<1>5. StackNow' /\ RereadyNow' /\ Located' /\ Untouched' /\ PinsLive'
  BY <1>1, <1>3 DEF BooksInv, StackNow, RereadyNow, Located, Untouched, PinsLive, Reserved, Step
<1>6. HomesInv'
  BY <1>1, <1>2 DEF BooksInv, HomesInv, Reserved
<1>7. SpillInv'
  BY <1>1, <1>3, <1>4 DEF BooksInv, SpillInv, Reserved
<1>8. RunningTracks'
  BY <1>1, <1>3
     DEF BooksInv, RunningTracks, OnItsDevice, Placed, Completed, Step, Reserved
<1> QED
  BY <1>5, <1>6, <1>7, <1>8 DEF BooksInv

\* The invocation of f ends on device d, with nothing on the stack; the flow is
\* over, goes into tool-time, or is offered its next invocation at once.
Done(f) == TaskOf("InvocationComplete", f, Step(f), NoDevice)
Next1(f) == TaskOf("InvocationReady", f, Step(f) + 1, NoDevice)
Completion(f, d) ==
    /\ stack = <<>> /\ Stop(f, d) \in finished \cup exhausted
    /\ UNCHANGED <<pinDev, reready, admitted, queue, running>>
    /\ where' = [where EXCEPT ![f] = NoDevice]
    /\ \A g \in Flows \ {f} : cursor'[g] = cursor[g] /\ phase'[g] = phase[g]
    /\ finished' \cup exhausted' = (finished \cup exhausted) \ {Stop(f, d)}
    /\ \/ /\ cursor'[f] = Len(Work[f])
          /\ \A e \in Devices : pins'[e] = IF e = pinDev[f] THEN pins[e] \ {f}
                                                            ELSE pins[e]
          /\ spilled' = spilled \ {f} /\ gaps' = gaps
          /\ abandoned' \subseteq abandoned \cup {f}
          /\ Calls(stack') = {Done(f)}
       \/ /\ cursor'[f] = cursor[f] + 1 /\ cursor'[f] < Len(Work[f])
          /\ UNCHANGED <<pins, abandoned>>
          /\ \/ /\ spilled' = IF Reserved(f) /\ PinMode = "TIERED"
                              THEN spilled \cup {f} ELSE spilled
                /\ gaps' = gaps \cup {f}
                /\ Calls(stack') = {Done(f)}
             \/ /\ UNCHANGED <<spilled, gaps>>
                /\ Calls(stack') = {Done(f), Next1(f)}

\* Each of the four ways an invocation ends is one.
LEMMA Completions ==
    ASSUME Known, BooksInv, NEW f \in Flows, NEW d \in Devices,
           \/ CompleteFlow(f, d) \/ CompleteIntoGap(f, d)
           \/ CompleteIntoNext(f, d) \/ AbandonFlow(f, d),
           UNCHANGED policyVars
    PROVE  Completion(f, d)
<1>1. /\ EngineTypeOK /\ StopsOpen /\ cursor \in [Flows -> Nat]
      /\ phase \in [Flows -> Phases] /\ Len(Work[f]) \in Nat
      /\ cursor[f] \in Nat /\ cursor[f] <= Len(Work[f]) /\ Step(f) \in Nat
  BY WorkType, StepType
     DEF Known, ReservationInv, EngineInv, EngineTypeOK, CursorInRange
<1>2. /\ stack = <<>> /\ Stop(f, d) \in finished \cup exhausted
      /\ UNCHANGED <<pinDev, reready, admitted, queue, running>>
      /\ where' = [where EXCEPT ![f] = NoDevice]
  BY DEF CompleteFlow, CompleteIntoGap, CompleteIntoNext, AbandonFlow, Advance,
     Completing, Leave, flowVars, policyVars
<1>3. \A g \in Flows \ {f} : cursor'[g] = cursor[g] /\ phase'[g] = phase[g]
  BY <1>1 DEF CompleteFlow, CompleteIntoGap, CompleteIntoNext, AbandonFlow, Advance,
     Leave
<1>4. finished' \cup exhausted' = (finished \cup exhausted) \ {Stop(f, d)}
  <2>1. \/ Stop(f, d) \in finished /\ finished' = finished \ {Stop(f, d)}
           /\ exhausted' = exhausted
        \/ Stop(f, d) \in exhausted /\ exhausted' = exhausted \ {Stop(f, d)}
           /\ finished' = finished
    BY DEF CompleteFlow, CompleteIntoGap, CompleteIntoNext, AbandonFlow, Advance,
       Completing
  <2>2. finished \cap exhausted = {}
    BY <1>1 DEF StopsOpen
  <2> QED
    BY <2>1, <2>2
<1>5. Calls(<<Done(f)>>) = {Done(f)} /\ Calls(<<Next1(f), Done(f)>>) = {Done(f), Next1(f)}
  <2>1. Done(f).op \in CallOps /\ Next1(f).op \in CallOps
    BY DEF Done, Next1, TaskOf, CallOps, ReadyOps
  <2>2. Tasks(<<Done(f)>>) = {Done(f)} /\ Tasks(<<Next1(f), Done(f)>>) = {Done(f), Next1(f)}
    <3>1. \A a, b : Tasks(<<a>>) = {a} /\ Tasks(<<a, b>>) = {a, b}
      BY DEF Tasks
    <3> QED
      BY <3>1
  <2> QED
    BY <2>1, <2>2 DEF Calls
<1>6. CASE CompleteFlow(f, d) \/ AbandonFlow(f, d)
  <2>1. cursor'[f] = Len(Work[f])
    BY <1>1, <1>6 DEF CompleteFlow, AbandonFlow, Leave, IsLastStep, Step
  <2>2. \A e \in Devices : pins'[e] = IF e = pinDev[f] THEN pins[e] \ {f}
                                                       ELSE pins[e]
    BY <1>6 DEF CompleteFlow, AbandonFlow, ReleasePin
  <2>3. /\ spilled' = spilled \ {f} /\ gaps' = gaps
        /\ abandoned' \subseteq abandoned \cup {f}
        /\ stack' = <<Done(f)>>
    BY <1>6 DEF CompleteFlow, AbandonFlow, ReleasePin, Done, flowVars
  <2>4. Calls(stack') = {Done(f)}
    BY <1>5, <2>3
  <2> QED
    BY <1>2, <1>3, <1>4, <2>1, <2>2, <2>3, <2>4 DEF Completion
<1>7. CASE CompleteIntoGap(f, d) \/ CompleteIntoNext(f, d)
  <2>1. cursor'[f] = cursor[f] + 1 /\ cursor'[f] < Len(Work[f])
    <3>1. cursor'[f] = cursor[f] + 1 /\ cursor[f] + 1 # Len(Work[f])
          /\ cursor[f] < Len(Work[f])
      BY <1>1, <1>2, <1>7 DEF CompleteIntoGap, CompleteIntoNext, Advance, Leave,
         IsLastStep, Step, StopsOpen, Stop
    <3> QED
      BY <1>1, <3>1
  <2>2. UNCHANGED <<pins, abandoned>>
    BY <1>7 DEF CompleteIntoGap, CompleteIntoNext, HoldAcrossGap, flowVars
  <2>3. CASE CompleteIntoGap(f, d)
    <3>1. /\ spilled' = IF Reserved(f) /\ PinMode = "TIERED"
                        THEN spilled \cup {f} ELSE spilled
          /\ gaps' = gaps \cup {f} /\ stack' = <<Done(f)>>
      BY <2>3 DEF CompleteIntoGap, HoldAcrossGap, Done
    <3>2. Calls(stack') = {Done(f)}
      BY <1>5, <3>1
    <3> QED
      BY <1>2, <1>3, <1>4, <2>1, <2>2, <3>1, <3>2 DEF Completion
  <2>4. CASE CompleteIntoNext(f, d)
    <3>1. UNCHANGED <<spilled, gaps>> /\ stack' = <<Next1(f), Done(f)>>
      BY <2>4 DEF CompleteIntoNext, Done, Next1
    <3>2. Calls(stack') = {Done(f), Next1(f)}
      BY <1>5, <3>1
    <3> QED
      BY <1>2, <1>3, <1>4, <2>1, <2>2, <3>1, <3>2 DEF Completion
  <2> QED
    BY <1>7, <2>3, <2>4
<1> QED
  BY <1>6, <1>7

\* When an invocation ends, its flow leaves its device, and with its last one
\* the open flows.
LEMMA CompletionBooks ==
    ASSUME Known, BooksInv, NEW f \in Flows, NEW d \in Devices, Completion(f, d)
    PROVE  BooksInv'
<1>1. /\ EngineTypeOK /\ StopsOpen /\ cursor \in [Flows -> Nat]
      /\ where \in [Flows -> 0..NumDevices]
      /\ Len(Work[f]) \in Nat /\ cursor[f] \in Nat /\ cursor[f] < Len(Work[f])
      /\ cursor'[f] \in Nat /\ cursor'[f] > cursor[f]
      /\ d # NoDevice
  <2>1. EngineTypeOK /\ StopsOpen /\ Len(Work[f]) \in Nat
    BY WorkType DEF Known, ReservationInv, EngineInv
  <2>2. cursor[f] < Len(Work[f]) /\ cursor[f] \in Nat
    BY <2>1 DEF Completion, StopsOpen, Stop, EngineTypeOK
  <2>3. cursor'[f] \in Nat /\ cursor'[f] > cursor[f]
    BY <2>1, <2>2 DEF Completion
  <2>4. d # NoDevice
    BY DEF Devices, NoDevice
  <2> QED
    BY <2>1, <2>2, <2>3, <2>4 DEF EngineTypeOK
<1>2. /\ where[f] = d /\ f \in OnDevices /\ f \in Open
      /\ f \notin gaps /\ f \notin queue /\ f \notin Requeued /\ f \notin Offered
      /\ f \notin spilled
  <2>1. where[f] = d
    BY DEF Completion, Stop, BooksInv, HomesInv
  <2>2. f \in OnDevices /\ f \notin spilled
    BY <1>1, <2>1 DEF OnDevices, BooksInv, SpillInv
  <2> QED
    BY <2>1, <2>2 DEF BooksInv, Located, Partition
<1>3. /\ Offered = {} /\ Evicted = {} /\ Calls(stack) = {}
      /\ Evicted' = {} /\ Requeued' = Requeued
      /\ \A g \in Flows \ {f} : /\ cursor'[g] = cursor[g] /\ Step(g)' = Step(g)
                                /\ where'[g] = where[g]
      /\ \A g \in Flows : Reserved(g)' = Reserved(g)
      /\ where'[f] = NoDevice /\ reready' = reready
      /\ OnDevices' = OnDevices \ {f}
      /\ UNCHANGED <<admitted, queue, running, pinDev>>
  <2>1. stack = <<>>
    BY DEF Completion
  <2>2. \A t \in Calls(stack') : t.op # "Preempt"
    BY DEF Completion, Done, Next1, TaskOf
  <2>3. /\ \A g \in Flows \ {f} : cursor'[g] = cursor[g] /\ where'[g] = where[g]
        /\ where'[f] = NoDevice
    BY <1>1 DEF Completion
  <2>4. OnDevices' = OnDevices \ {f}
    BY <2>3 DEF OnDevices
  <2> QED
    BY <2>1, <2>2, <2>3, <2>4, NothingPending
       DEF Completion, Evicted, Requeued, Step, Reserved
<1>4. StackNow'
  <2>1. \A t \in Calls(stack') : IF t.op = "InvocationComplete"
                                 THEN t.step < Step(t.flow)'
                                 ELSE t.step = Step(t.flow)'
    BY <1>1 DEF Completion, Done, Next1, TaskOf, Step
  <2>2. PreemptOnce(stack')
    <3>1. \A t \in Calls(stack') : t.op # "Preempt"
      BY DEF Completion, Done, Next1, TaskOf
    <3> QED
      BY <3>1, PreemptOnceNone
  <2> QED
    BY <1>3, <2>1, <2>2 DEF StackNow
<1>5. RereadyNow'
  <2>1. \A v \in Tasks(reready) : v.flow \in Flows \ {f}
    BY <1>1, <1>2, RereadyType DEF Requeued
  <2>2. \A g \in Flows \ {f} : phase'[g] = phase[g]
    BY DEF Completion
  <2> QED
    BY <1>3, <2>1, <2>2 DEF BooksInv, RereadyNow
<1>6. Located'
  <2>1. CASE cursor'[f] = Len(Work[f])
    <3>1. Open' = Open \ {f}
      <4>1. admitted \subseteq Flows /\ ~(cursor'[f] < Len(Work[f]))
        BY <1>1, <2>1 DEF EngineTypeOK
      <4> QED
        BY <1>3, <4>1 DEF Open
    <3>2. gaps' = gaps /\ Offered' = {}
      <4>1. gaps' = gaps /\ Calls(stack') = {Done(f)}
        BY <1>1, <2>1 DEF Completion
      <4> QED
        BY <4>1 DEF Offered, Done, TaskOf, ReadyOps
    <3> QED
      BY <1>2, <1>3, <3>1, <3>2 DEF BooksInv, Located, Partition
  <2>2. CASE cursor'[f] # Len(Work[f])
    <3>1. cursor'[f] < Len(Work[f])
      BY <2>2 DEF Completion
    <3>2. Open' = Open
      <4>1. \A g \in Flows : cursor'[g] < Len(Work[g]) <=> cursor[g] < Len(Work[g])
        BY <1>1, <1>3, <3>1
      <4> QED
        BY <1>1, <1>3, <4>1 DEF Open, EngineTypeOK
    <3>3. \/ gaps' = gaps \cup {f} /\ Offered' = {}
          \/ gaps' = gaps /\ Offered' = {f}
      <4>1. \/ gaps' = gaps \cup {f} /\ Calls(stack') = {Done(f)}
            \/ gaps' = gaps /\ Calls(stack') = {Done(f), Next1(f)}
        BY <2>2 DEF Completion
      <4>2. /\ Done(f).op \notin ReadyOps
            /\ Next1(f).op \in ReadyOps /\ Next1(f).flow = f
        BY DEF Done, Next1, TaskOf, ReadyOps
      <4> QED
        BY <4>1, <4>2 DEF Offered
    <3> QED
      BY <1>2, <1>3, <3>2, <3>3 DEF BooksInv, Located, Partition
  <2> QED
    BY <2>1, <2>2
<1>7. HomesInv'
  <2>1. \A r \in finished' \cup exhausted' : r.flow \in Flows \ {f} /\ where[r.flow] = r.dev
    <3> SUFFICES ASSUME NEW r \in finished' \cup exhausted'
                 PROVE  r.flow \in Flows \ {f} /\ where[r.flow] = r.dev
      OBVIOUS
    <3>1. r \in finished \cup exhausted /\ r # Stop(f, d)
      BY DEF Completion
    <3>2. r.flow # Stop(f, d).flow
      BY <1>1, <3>1 DEF StopsOpen, Completion
    <3> QED
      BY <1>1, <3>1, <3>2 DEF BooksInv, HomesInv, Stop, EngineTypeOK
  <2>2. \A g \in Flows : Reserved(g) => where'[g] \in {NoDevice, pinDev[g]}
    BY <1>3 DEF BooksInv, HomesInv
  <2>3. \A r \in finished' \cup exhausted' : where'[r.flow] = r.dev
    BY <1>3, <2>1
  <2>4. \A g \in queue : ~Reserved(g)
    BY DEF BooksInv, HomesInv
  <2> QED
    BY <1>3, <2>2, <2>3, <2>4 DEF HomesInv, Reserved
<1>8. SpillInv'
  <2>1. \A g \in spilled' : /\ Reserved(g) /\ where'[g] = NoDevice
                            /\ PinMode = "TIERED" /\ cursor'[g] < Len(Work[g])
    <3> SUFFICES ASSUME NEW g \in spilled'
                 PROVE  /\ Reserved(g) /\ where'[g] = NoDevice
                        /\ PinMode = "TIERED" /\ cursor'[g] < Len(Work[g])
      OBVIOUS
    <3>1. CASE g # f
      <4>1. g \in spilled /\ g \in Flows
        BY <1>1, <3>1 DEF Completion, EngineTypeOK
      <4> QED
        BY <1>3, <3>1, <4>1 DEF BooksInv, SpillInv
    <3>2. CASE g = f
      BY <1>1, <1>2, <1>3, <3>2 DEF Completion
    <3> QED
      BY <3>1, <3>2
  <2>2. spilled' \subseteq gaps'
    <3>1. spilled \subseteq gaps
      BY DEF Completion, BooksInv, SpillInv
    <3> QED
      BY <3>1 DEF Completion
  <2> QED
    BY <1>3, <2>1, <2>2 DEF SpillInv, Reserved
<1>9. PinsLive'
  <2>1. \A g \in Flows : Reserved(g) /\ cursor'[g] < Len(Work[g]) => g \in pins'[pinDev[g]]
    <3> SUFFICES ASSUME NEW g \in Flows, Reserved(g), cursor'[g] < Len(Work[g])
                 PROVE  g \in pins'[pinDev[g]]
      OBVIOUS
    <3>1. g \in pins[pinDev[g]] /\ pinDev[g] \in Devices
      <4>1. pinDev[g] \in 0..NumDevices /\ pinDev[g] # NoDevice
        BY <1>1 DEF Reserved, EngineTypeOK
      <4>2. pinDev[g] \in Devices
        BY <4>1, SizesAssumption DEF Devices, NoDevice
      <4> QED
        BY <1>1, <1>3, <4>2 DEF BooksInv, PinsLive
    <3>2. g = f => cursor'[f] # Len(Work[f])
      BY <1>1
    <3> QED
      BY <3>1, <3>2 DEF Completion
  <2>2. \A e \in Devices : \A g \in pins'[e] : cursor'[g] < Len(Work[g])
    <3> SUFFICES ASSUME NEW e \in Devices, NEW g \in pins'[e]
                 PROVE  cursor'[g] < Len(Work[g])
      OBVIOUS
    <3>1. g \in pins[e] /\ g \in Flows /\ pinDev[g] = e
      BY <1>1 DEF Completion, Known, PinsInv, PinsHome, EngineTypeOK
    <3>2. g = f => cursor'[f] # Len(Work[f])
      <4>1. CASE \A c \in Devices : pins'[c] = IF c = pinDev[f] THEN pins[c] \ {f}
                                                               ELSE pins[c]
        BY <3>1, <4>1
      <4>2. CASE cursor'[f] < Len(Work[f])
        BY <1>1, <4>2
      <4> QED
        BY <4>1, <4>2 DEF Completion
    <3> QED
      BY <1>3, <3>1, <3>2 DEF BooksInv, PinsLive, Completion
  <2>3. \A g \in abandoned' : cursor'[g] = Len(Work[g])
    <3>1. \A g \in abandoned : g \in Flows \ {f} /\ cursor[g] = Len(Work[g])
      BY <1>1 DEF BooksInv, PinsLive, EngineTypeOK
    <3> QED
      BY <1>3, <3>1 DEF Completion
  <2> QED
    BY <1>3, <2>1, <2>2, <2>3 DEF PinsLive
<1>10. RunningTracks'
  <2>1. \A v \in running : v.flow \in Flows
    BY DEF Known, ReservationInv, PolicyTypeOK
  <2>2. ASSUME NEW v \in running
        PROVE  ~Reserved(v.flow) /\ (OnItsDevice(v)' \/ Completed(v)')
    <3>1. ~Reserved(v.flow) /\ OnItsDevice(v)
      BY <1>3 DEF BooksInv, RunningTracks, Placed, Completed
    <3>2. CASE v.flow # f
      BY <1>3, <2>1, <3>1, <3>2 DEF OnItsDevice
    <3>3. CASE v.flow = f
      <4>1. Done(f) \in Calls(stack')
        BY DEF Completion
      <4>2. /\ Done(f).op = "InvocationComplete" /\ Done(f).flow = v.flow
            /\ Done(f).step = v.step
        BY <3>1, <3>3 DEF Done, TaskOf, OnItsDevice
      <4> QED
        BY <3>1, <4>1, <4>2 DEF Completed
    <3> QED
      BY <3>2, <3>3
  <2>3. \A g \in OnDevices' \ Evicted' : ~Reserved(g) =>
           [flow |-> g, step |-> Step(g)', dev |-> where'[g]] \in running
    <3> SUFFICES ASSUME NEW g \in OnDevices \ {f}, ~Reserved(g)
                 PROVE  [flow |-> g, step |-> Step(g)', dev |-> where'[g]] \in running
      BY <1>3
    <3>1. Step(g)' = Step(g) /\ where'[g] = where[g]
      BY <1>3 DEF OnDevices
    <3>2. [flow |-> g, step |-> Step(g), dev |-> where[g]] \in running
      BY <1>3 DEF BooksInv, RunningTracks
    <3> QED
      BY <3>1, <3>2
  <2>4. \A t \in Calls(stack') : t.op # "Schedule"
    BY DEF Completion, Done, Next1, TaskOf
  <2>5. \A g \in OnDevices' : g \in Flows
    BY DEF OnDevices
  <2> QED
    BY <1>3, <2>1, <2>2, <2>3, <2>4, <2>5 DEF RunningTracks
<1>11. Untouched'
  BY <1>2, <1>3 DEF BooksInv, Untouched, Open
<1> QED
  BY <1>4, <1>5, <1>6, <1>7, <1>8, <1>9, <1>10, <1>11 DEF BooksInv

\* A preempted invocation is offered again: it always still waits.
LEMMA ReofferBooks ==
    ASSUME Known, BooksInv, Reoffer, UNCHANGED policyVars
    PROVE  /\ BooksInv'
           /\ Head(reready).flow \in Flows /\ StillPreempted(Head(reready))
<1> DEFINE v == Head(reready)
<1> DEFINE r == TaskOf("InvocationReady", v.flow, v.step, NoDevice)
<1> DEFINE rest == Tail(reready)
<1>1. /\ EngineTypeOK
      /\ stack = <<>> /\ reready # <<>> /\ finished = {} /\ exhausted = {}
      /\ UNCHANGED <<cursor, where, phase, pinDev, pins, spilled, gaps,
                     admitted, abandoned, finished, exhausted, queue, running>>
      /\ reready' = rest
  BY DEF Known, ReservationInv, EngineInv, Reoffer, flowVars, stepVars, deviceVars,
         timerVars, loopVars, policyVars
<1>2. /\ Tasks(reready) = {v} \cup Tasks(rest) /\ FlowsOnce(rest)
      /\ \A w \in Tasks(rest) : w.flow # v.flow
  <2> DEFINE S == [flow : Flows, step : Nat]
  <2>1. reready \in Seq(S)
    BY <1>1 DEF EngineTypeOK
  <2> HIDE DEF S
  <2> QED
    BY <1>1, <2>1, RereadyParts DEF BooksInv, RereadyNow
<1>3. v.flow \in Flows /\ v.step = Step(v.flow) /\ phase[v.flow] = "PREEMPTED"
  BY <1>1, <1>2, RereadyType DEF BooksInv, RereadyNow
<1>4. StillPreempted(v)
  BY <1>3 DEF StillPreempted
<1>5. /\ Calls(stack') = {r} /\ r.op = "InvocationReady" /\ r.flow = v.flow
      /\ r.step = Step(v.flow)
  <2>1. r.op \in CallOps /\ r.op = "InvocationReady" /\ r.flow = v.flow
        /\ r.step = Step(v.flow)
    BY <1>3 DEF TaskOf, CallOps, ReadyOps
  <2>2. stack' = <<r>>
    BY <1>4 DEF Reoffer
  <2> HIDE DEF r
  <2> QED
    BY <2>1, <2>2, CallsParts
<1> HIDE DEF r
<1>6. /\ Offered = {} /\ Evicted = {} /\ Calls(stack) = {}
      /\ Offered' = {v.flow} /\ Evicted' = {}
      /\ v.flow \in Requeued /\ Requeued' = Requeued \ {v.flow}
      /\ OnDevices' = OnDevices /\ Open' = Open
      /\ \A g \in Flows : Step(g)' = Step(g) /\ Reserved(g)' = Reserved(g)
  <2>1. /\ Offered = {} /\ Evicted = {} /\ Calls(stack) = {}
    BY <1>1, NothingPending
  <2>2. Offered' = {v.flow} /\ Evicted' = {}
    BY <1>3, <1>5 DEF Offered, Evicted, ReadyOps
  <2>3. v.flow \in Requeued /\ Requeued' = Requeued \ {v.flow}
    <3> HIDE DEF v, rest
    <3> QED
      BY <1>1, <1>2, <1>3 DEF Requeued
  <2> QED
    BY <1>1, <2>1, <2>2, <2>3 DEF OnDevices, Open, Step, Reserved
<1> HIDE DEF v, rest
<1>7. StackNow'
  <2>1. PreemptOnce(stack')
    BY <1>5, PreemptOnceNone
  <2> QED
    BY <1>3, <1>5, <1>6, <2>1 DEF StackNow
<1>8. RereadyNow'
  <2>1. \A w \in Tasks(rest) : w \in Tasks(reready) /\ w.flow \in Flows
    BY <1>1, <1>2, RereadyType
  <2> QED
    BY <1>1, <1>2, <1>6, <2>1 DEF BooksInv, RereadyNow
<1>9. Located'
  BY <1>1, <1>6 DEF BooksInv, Located, Partition
<1>10. HomesInv' /\ Untouched'
  BY <1>1 DEF BooksInv, HomesInv, Untouched, Reserved
<1>11. SpillInv'
  BY <1>1 DEF BooksInv, SpillInv, Reserved
<1>12. PinsLive'
  BY <1>1 DEF BooksInv, PinsLive, Reserved
<1>13. RunningTracks'
  BY <1>1, <1>5, <1>6
     DEF BooksInv, RunningTracks, OnItsDevice, Placed, Completed, Step, Reserved
<1>14. BooksInv'
  BY <1>7, <1>8, <1>9, <1>10, <1>11, <1>12, <1>13 DEF BooksInv
<1> QED
  BY <1>3, <1>4, <1>14 DEF v

-----------------------------------------------------------------------------
(* The actions of the policy.                                              *)

\* An admitted flow is open, and its first invocation is offered.
LEMMA AdmitBooks ==
    ASSUME Known, BooksInv, NEW b, AdmitAggregate(b) \/ AdmitReserved(b),
           UNCHANGED policyVars
    PROVE  BooksInv'
<1> DEFINE f == Head(stack).flow
<1> DEFINE r == TaskOf("InvocationReady", f, Step(f), NoDevice)
<1>1. /\ EngineInv /\ EngineTypeOK /\ f \in Flows
      /\ stack # <<>> /\ Head(stack).op = "Admit"
      /\ stack' = <<r>> \o Tail(stack)
      /\ UNCHANGED <<cursor, where, phase, spilled, gaps, reready,
                     abandoned, finished, exhausted, queue, running>>
      /\ admitted' = admitted \cup {f}
  BY ActionType DEF Known, ReservationInv, EngineInv, AdmitAggregate, AdmitReserved,
     Pending, OfferNext, deviceVars, timerVars, loopVars, policyVars, ActionOps
<1>2. f \notin admitted
  BY <1>1 DEF Known, ShapeInv, Entries, EntryOps
<1>3. /\ Calls(stack) = {} /\ Calls(stack') = {r} /\ r.op = "InvocationReady"
      /\ r.flow = f /\ r.step = Step(f)
  <2>1. Step(f) \in Nat /\ NoDevice \in 0..NumDevices
    BY <1>1, StepType, SizesAssumption DEF NoDevice
  <2>2. r \in Task
    BY <1>1, <2>1, TaskOfType DEF EventOps
  <2>3. r.op = "InvocationReady" /\ r.flow = f /\ r.step = Step(f)
    BY DEF TaskOf
  <2> HIDE DEF r
  <2>4. Tasks(stack') = {r} /\ Tasks(stack) = {Head(stack)}
    BY <1>1, <2>2, EntryShape DEF EntryOps, Known
  <2> QED
    BY <1>1, <2>3, <2>4 DEF Calls, CallOps, ReadyOps
<1> HIDE DEF r
<1>4. /\ f \notin queue /\ f \notin gaps /\ f \notin OnDevices
      /\ f \notin Offered /\ f \notin Requeued /\ f \notin Open
      /\ ~Reserved(f) /\ where[f] = NoDevice /\ f \notin spilled
      /\ cursor[f] < Len(Work[f])
  <2>1. f \notin Open
    BY <1>2 DEF Open
  <2>2. f \notin queue /\ f \notin gaps /\ f \notin OnDevices
        /\ f \notin Offered /\ f \notin Requeued
    BY <2>1 DEF BooksInv, Located, Partition
  <2>3. cursor[f] < Len(Work[f])
    BY <1>1, <1>2, WorkType DEF BooksInv, Untouched
  <2>4. ~Reserved(f)
    BY <1>1, <1>2 DEF Known, PinsInv, ReservedAdmitted
  <2> QED
    BY <1>1, <2>1, <2>2, <2>3, <2>4 DEF OnDevices, BooksInv, SpillInv
<1>5. /\ Offered = {} /\ Evicted = {} /\ Offered' = {f} /\ Evicted' = {}
      /\ Requeued' = Requeued /\ OnDevices' = OnDevices
      /\ Open' = Open \cup {f}
      /\ \A g \in Flows : Step(g)' = Step(g)
  <2>1. Offered = {} /\ Evicted = {} /\ Offered' = {f} /\ Evicted' = {}
    BY <1>1, <1>3 DEF Offered, Evicted, ReadyOps
  <2>2. Open' = Open \cup {f}
    BY <1>1, <1>4 DEF Open
  <2> QED
    BY <1>1, <2>1, <2>2 DEF Requeued, OnDevices, Step
<1>6. \A g \in Flows \ {f} : pinDev'[g] = pinDev[g] /\ Reserved(g)' = Reserved(g)
  <2>1. \A g \in Flows \ {f} : pinDev'[g] = pinDev[g]
    BY <1>1 DEF AdmitAggregate, AdmitReserved, EngineTypeOK
  <2> QED
    BY <2>1 DEF Reserved
<1> HIDE DEF f
<1>7. StackNow'
  <2>1. PreemptOnce(stack')
    BY <1>3, PreemptOnceNone
  <2> QED
    BY <1>1, <1>3, <1>5, <2>1 DEF StackNow
<1>8. RereadyNow'
  <2>1. \A w \in Tasks(reready) : w.flow \in Flows \ {f}
    BY <1>1, <1>4, RereadyType DEF Requeued
  <2> QED
    BY <1>1, <1>5, <1>6, <2>1 DEF BooksInv, RereadyNow
<1>9. Located'
  BY <1>1, <1>4, <1>5 DEF BooksInv, Located, Partition
<1>10. HomesInv' /\ Untouched'
  <2>1. \A g \in queue : g \in Flows \ {f}
    BY <1>4 DEF Known, ReservationInv, PolicyTypeOK
  <2>2. \A g \in queue : ~Reserved(g)'
    BY <1>6, <2>1 DEF BooksInv, HomesInv
  <2>3. \A g \in Flows : Reserved(g)' => where[g] \in {NoDevice, pinDev'[g]}
    BY <1>4, <1>6 DEF BooksInv, HomesInv
  <2>4. \A s \in finished \cup exhausted : where[s.flow] = s.dev
    BY DEF BooksInv, HomesInv
  <2> QED
    BY <1>1, <2>2, <2>3, <2>4 DEF HomesInv, BooksInv, Untouched
<1>11. SpillInv'
  <2>1. \A g \in spilled : g \in Flows \ {f}
    BY <1>1, <1>4 DEF EngineTypeOK
  <2> QED
    BY <1>1, <1>5, <1>6, <2>1 DEF BooksInv, SpillInv
<1>12. PinsLive'
  <2>1. CASE AdmitAggregate(b)
    BY <1>1, <2>1 DEF BooksInv, PinsLive, AdmitAggregate, deviceVars, Reserved
  <2>2. CASE AdmitReserved(b)
    <3> DEFINE d == Head(stack).dev
    <3>1. /\ pins' = [pins EXCEPT ![d] = @ \cup {f}]
          /\ pinDev' = [pinDev EXCEPT ![f] = d]
      BY <2>2 DEF AdmitReserved, f
    <3>2. d \in Devices
      <4>1. d \in 0..NumDevices /\ d # NoDevice
        BY <1>1, <2>2, ActionType DEF AdmitReserved, ActionOps
      <4> QED
        BY <4>1, SizesAssumption DEF Devices, NoDevice
    <3> HIDE DEF d
    <3>3. \A e \in Devices : pins[e] \subseteq pins'[e] /\ pins'[e] \subseteq pins[e] \cup {f}
      BY <1>1, <3>1 DEF EngineTypeOK
    <3>4. pinDev'[f] = d /\ f \in pins'[d]
      BY <1>1, <3>1, <3>2 DEF EngineTypeOK
    <3>5. \A g \in Flows : Reserved(g)' /\ cursor[g] < Len(Work[g]) => g \in pins'[pinDev'[g]]
      <4> SUFFICES ASSUME NEW g \in Flows \ {f}, Reserved(g)', cursor[g] < Len(Work[g])
                   PROVE  g \in pins'[pinDev'[g]]
        BY <3>4
      <4>1. Reserved(g) /\ g \in pins[pinDev[g]] /\ pinDev'[g] = pinDev[g]
        BY <1>6 DEF BooksInv, PinsLive
      <4>2. pinDev[g] \in Devices
        <5>1. pinDev[g] \in 0..NumDevices /\ pinDev[g] # NoDevice
          BY <1>1, <4>1 DEF Reserved, EngineTypeOK
        <5> QED
          BY <5>1, SizesAssumption DEF Devices, NoDevice
      <4> QED
        BY <3>3, <4>1, <4>2
    <3>6. \A e \in Devices : \A g \in pins'[e] : cursor[g] < Len(Work[g])
      BY <1>4, <3>3 DEF BooksInv, PinsLive
    <3> QED
      BY <1>1, <3>5, <3>6 DEF BooksInv, PinsLive
  <2> QED
    BY <2>1, <2>2
<1>13. RunningTracks'
  <2>1. \A v \in running : v.flow \in Flows \ {f} /\ ~Reserved(v.flow) /\ OnItsDevice(v)
    <3> SUFFICES ASSUME NEW v \in running
                 PROVE  v.flow \in Flows \ {f} /\ ~Reserved(v.flow) /\ OnItsDevice(v)
      OBVIOUS
    <3>1. ~Reserved(v.flow) /\ OnItsDevice(v)
      BY <1>3 DEF BooksInv, RunningTracks, Placed, Completed
    <3>2. v.flow \in Flows /\ v.dev \in Devices
      BY DEF Known, ReservationInv, PolicyTypeOK
    <3>3. v.dev # NoDevice
      BY <3>2 DEF Devices, NoDevice
    <3> QED
      BY <1>4, <3>1, <3>2, <3>3 DEF OnItsDevice
  <2>2. \A v \in running : ~Reserved(v.flow)' /\ OnItsDevice(v)'
    BY <1>1, <1>5, <1>6, <2>1 DEF OnItsDevice
  <2>3. \A g \in OnDevices' \ Evicted' : ~Reserved(g)' =>
          [flow |-> g, step |-> Step(g)', dev |-> where'[g]] \in running
    <3> SUFFICES ASSUME NEW g \in OnDevices, ~Reserved(g)'
                 PROVE  [flow |-> g, step |-> Step(g)', dev |-> where'[g]] \in running
      BY <1>5
    <3>1. g \in Flows \ {f} /\ Step(g)' = Step(g) /\ ~Reserved(g)
      BY <1>4, <1>5, <1>6 DEF OnDevices
    <3> QED
      BY <1>1, <1>5, <3>1 DEF BooksInv, RunningTracks
  <2>4. \A t \in Calls(stack') : t.op # "Schedule"
    BY <1>3
  <2> QED
    BY <1>1, <2>2, <2>3, <2>4 DEF RunningTracks
<1> QED
  BY <1>7, <1>8, <1>9, <1>10, <1>11, <1>12, <1>13 DEF BooksInv

\* A placed invocation is on its device, with its pin restored.
LEMMA ScheduleBooks ==
    ASSUME Known, BooksInv, Schedule, UNCHANGED policyVars
    PROVE  BooksInv'
<1> DEFINE t0 == Head(stack)
<1> DEFINE f == t0.flow
<1> DEFINE d == t0.dev
<1>1. /\ EngineInv /\ EngineTypeOK /\ f \in Flows /\ stack \in Seq(Task)
      /\ stack # <<>> /\ t0.op = "Schedule"
      /\ stack' = Tail(stack) /\ Schedulable(f, d)
      /\ where' = [where EXCEPT ![f] = d]
      /\ phase' = [phase EXCEPT ![f] = "PREFILL"]
      /\ spilled' = AfterRestore(f)
      /\ UNCHANGED <<admitted, cursor, pinDev, pins, gaps, reready,
                     abandoned, finished, exhausted, queue, running>>
  BY ActionType DEF Known, ReservationInv, EngineInv, EngineTypeOK, Schedule, Pending,
     flowVars, loopVars, policyVars, ActionOps
<1>2. /\ Calls(stack) = {t0} \cup Calls(stack')
      /\ \A t \in Calls(stack') : /\ t.op # "Preempt"
                                  /\ t.op \in ReadyOps => t.flow # f
      /\ PreemptOnce(stack') /\ t0.op \in CallOps
  <2>1. t0.op \in CallOps /\ t0.op \in ReadyOps
    BY <1>1 DEF CallOps, ReadyOps
  <2>2. Calls(stack) = {t \in {t0} : t.op \in CallOps} \cup Calls(Tail(stack))
    BY <1>1, CallsParts
  <2>3. \A t \in Tasks(Tail(stack)) : /\ t.op = "Preempt" => t0.op = "Preempt"
                                      /\ t.op \in ReadyOps => t.flow # f
    BY <1>1, <2>1, ShapePop DEF Known, ShapeInv
  <2>4. PreemptOnce(Tail(stack))
    BY <1>1, PreemptOncePop DEF BooksInv, StackNow
  <2> HIDE DEF t0
  <2> QED
    BY <1>1, <2>1, <2>2, <2>3, <2>4 DEF Calls
<1>3. /\ t0.step = Step(f) /\ d \in Devices /\ d # NoDevice
      /\ Reserved(f) => d = pinDev[f]
  <2>1. t0.step = Step(f)
    BY <1>1, <1>2 DEF BooksInv, StackNow
  <2>2. d \in Devices /\ (Reserved(f) => d = pinDev[f])
    BY <1>1 DEF Schedulable, PinUsable
  <2>3. d # NoDevice
    BY <2>2 DEF Devices, NoDevice
  <2> QED
    BY <2>1, <2>2, <2>3
<1>4. /\ f \in Offered /\ Offered' = Offered \ {f}
      /\ Evicted = {} /\ Evicted' = {}
  <2>1. f \in Offered /\ Offered' = Offered \ {f}
    BY <1>1, <1>2 DEF Offered, ReadyOps
  <2>2. Evicted = {} /\ Evicted' = {}
    BY <1>1, <1>2 DEF Evicted
  <2> QED
    BY <2>1, <2>2
<1> HIDE DEF f, d, t0
<1>5. /\ where[f] = NoDevice /\ f \notin OnDevices /\ f \notin Requeued
      /\ f \notin queue /\ f \notin gaps /\ f \in Open
      /\ where'[f] = d /\ \A g \in Flows \ {f} : where'[g] = where[g]
      /\ OnDevices' = OnDevices \cup {f}
  <2>1. /\ f \notin OnDevices /\ f \notin Requeued /\ f \notin queue /\ f \notin gaps
        /\ f \in Open
    BY <1>4 DEF BooksInv, Located, Partition
  <2>2. where'[f] = d /\ \A g \in Flows \ {f} : where'[g] = where[g]
    BY <1>1 DEF EngineTypeOK
  <2>3. OnDevices' = OnDevices \cup {f}
    BY <1>1, <1>3, <2>2 DEF OnDevices
  <2> QED
    BY <1>1, <2>1, <2>2, <2>3 DEF OnDevices
<1>6. /\ Requeued' = Requeued /\ Open' = Open
      /\ \A g \in Flows : Step(g)' = Step(g) /\ Reserved(g)' = Reserved(g)
  BY <1>1 DEF Requeued, Open, Step, Reserved
<1>7. StackNow'
  <2>1. \A t \in Calls(stack') : IF t.op = "InvocationComplete"
                                 THEN t.step < Step(t.flow)
                                 ELSE t.step = Step(t.flow)
    BY <1>2 DEF BooksInv, StackNow
  <2>2. \A t \in Calls(stack') : t.flow \in Flows
    BY <1>1, <1>2, CallType
  <2> QED
    BY <1>2, <1>4, <1>6, <2>1, <2>2 DEF StackNow
<1>8. RereadyNow'
  <2>1. \A w \in Tasks(reready) : w.flow \in Flows \ {f}
    BY <1>1, <1>5, RereadyType DEF Requeued
  <2>2. \A g \in Flows \ {f} : phase'[g] = phase[g]
    BY <1>1 DEF EngineTypeOK
  <2> QED
    BY <1>1, <1>6, <2>1, <2>2 DEF BooksInv, RereadyNow
<1>9. Located' /\ Untouched'
  BY <1>1, <1>4, <1>5, <1>6 DEF BooksInv, Located, Partition, Untouched
<1>10. HomesInv'
  <2>1. \A s \in finished \cup exhausted : s.flow \in Flows \ {f} /\ where[s.flow] = s.dev
    <3> SUFFICES ASSUME NEW s \in finished \cup exhausted
                 PROVE  s.flow \in Flows \ {f} /\ where[s.flow] = s.dev
      OBVIOUS
    <3>1. s.flow \in Flows /\ s.dev \in Devices
      BY <1>1 DEF EngineTypeOK
    <3>2. s.dev # NoDevice /\ where[s.flow] = s.dev
      BY <3>1 DEF Devices, NoDevice, BooksInv, HomesInv
    <3> QED
      BY <1>5, <3>1, <3>2
  <2>2. \A g \in Flows : Reserved(g) => where'[g] \in {NoDevice, pinDev[g]}
    BY <1>3, <1>5 DEF BooksInv, HomesInv
  <2>3. \A s \in finished \cup exhausted : where'[s.flow] = s.dev
    BY <1>5, <2>1
  <2>4. \A g \in queue : ~Reserved(g)
    BY DEF BooksInv, HomesInv
  <2> QED
    BY <1>1, <2>2, <2>3, <2>4 DEF HomesInv, Reserved
<1>11. SpillInv'
  <2>1. spilled' \subseteq spilled \ {f}
    BY <1>1 DEF AfterRestore, BooksInv, SpillInv
  <2>2. \A g \in spilled' : /\ Reserved(g) /\ where'[g] = NoDevice
                            /\ PinMode = "TIERED" /\ cursor[g] < Len(Work[g])
    BY <1>1, <1>5, <2>1 DEF BooksInv, SpillInv, EngineTypeOK
  <2> QED
    BY <1>1, <1>4, <2>1, <2>2 DEF BooksInv, SpillInv, Reserved
<1>12. PinsLive'
  BY <1>1 DEF BooksInv, PinsLive, Reserved
<1>13. RunningTracks'
  <2>1. ASSUME NEW v \in running
        PROVE  ~Reserved(v.flow) /\ (OnItsDevice(v)' \/ Placed(v)' \/ Completed(v)')
    <3>1. v.flow \in Flows /\ v.dev \in Devices /\ v.dev # NoDevice
      <4>1. v.flow \in Flows /\ v.dev \in Devices
        BY DEF Known, ReservationInv, PolicyTypeOK
      <4> QED
        BY <4>1 DEF Devices, NoDevice
    <3>6. ~Reserved(v.flow)
      BY DEF BooksInv, RunningTracks
    <3>2. CASE OnItsDevice(v)
      BY <1>4, <1>5, <1>6, <3>1, <3>2, <3>6 DEF OnItsDevice
    <3>3. CASE Placed(v)
      <4>1. PICK t \in Calls(stack) : t.op = "Schedule" /\ Placement(t) = v
        BY <3>3 DEF Placed
      <4>2. CASE t = t0
        <5>1. v.flow = f /\ v.dev = d /\ v.step = Step(f)
          BY <1>3, <4>1, <4>2 DEF Placement, f, d
        <5> QED
          BY <1>4, <1>5, <1>6, <3>1, <3>6, <5>1 DEF OnItsDevice
      <4>3. CASE t \in Calls(stack')
        BY <3>6, <4>1, <4>3 DEF Placed
      <4> QED
        BY <1>2, <4>2, <4>3
    <3>4. CASE Completed(v)
      BY <1>1, <1>2, <3>4, <3>6 DEF Completed
    <3>5. OnItsDevice(v) \/ Placed(v) \/ Completed(v)
      BY DEF BooksInv, RunningTracks
    <3> QED
      BY <3>2, <3>3, <3>4, <3>5
  <2>2. \A g \in OnDevices' : ~Reserved(g) =>
          [flow |-> g, step |-> Step(g), dev |-> where'[g]] \in running
    <3> SUFFICES ASSUME NEW g \in OnDevices', ~Reserved(g)
                 PROVE  [flow |-> g, step |-> Step(g), dev |-> where'[g]] \in running
      OBVIOUS
    <3>1. CASE g = f
      <4>1. Placement(t0) \in running
        BY <1>1, <1>2, <3>1 DEF BooksInv, RunningTracks, f
      <4> QED
        BY <1>3, <1>5, <3>1, <4>1 DEF Placement, f, d
    <3>2. CASE g # f
      <4>1. g \in OnDevices /\ where'[g] = where[g]
        BY <1>5, <3>2 DEF OnDevices
      <4> QED
        BY <1>4, <4>1 DEF BooksInv, RunningTracks
    <3> QED
      BY <3>1, <3>2
  <2>3. \A t \in Calls(stack') : t.op = "Schedule" /\ ~Reserved(t.flow) =>
          Placement(t) \in running
    BY <1>2 DEF BooksInv, RunningTracks
  <2>4. /\ \A g \in OnDevices' : g \in Flows
        /\ \A t \in Calls(stack') : t.flow \in Flows
        /\ \A v \in running : v.flow \in Flows
    BY <1>1, <1>2, CallType DEF OnDevices, Known, ReservationInv, PolicyTypeOK
  <2> QED
    BY <1>1, <1>4, <1>6, <2>1, <2>2, <2>3, <2>4 DEF RunningTracks
<1> QED
  BY <1>7, <1>8, <1>9, <1>10, <1>11, <1>12, <1>13 DEF BooksInv

\* An evicted invocation waits to be offered again.
LEMMA PreemptBooks ==
    ASSUME Known, BooksInv, Preempt, UNCHANGED policyVars
    PROVE  BooksInv'
<1> DEFINE t0 == Head(stack)
<1> DEFINE f == t0.flow
<1> DEFINE w0 == [flow |-> f, step |-> Step(f)]
<1>1. /\ EngineInv /\ EngineTypeOK /\ f \in Flows /\ stack \in Seq(Task)
      /\ stack # <<>> /\ t0.op = "Preempt"
      /\ stack' = Tail(stack)
      /\ where' = [where EXCEPT ![f] = NoDevice]
      /\ phase' = [phase EXCEPT ![f] = "PREEMPTED"]
      /\ reready' = Append(reready, w0)
      /\ UNCHANGED <<admitted, cursor, pinDev, pins, spilled, gaps,
                     abandoned, finished, exhausted, queue, running>>
  BY ActionType DEF Known, ReservationInv, EngineInv, EngineTypeOK, Preempt, Pending,
     flowVars, loopVars, policyVars, ActionOps
<1>2. /\ Calls(stack) = {t0} \cup Calls(stack')
      /\ \A t \in Calls(stack') : t.op = "Preempt" => t.flow # f
      /\ PreemptOnce(stack') /\ t0.op \in CallOps
  <2>1. t0.op \in CallOps
    BY <1>1 DEF CallOps, ReadyOps
  <2>2. Calls(stack) = {t \in {t0} : t.op \in CallOps} \cup Calls(Tail(stack))
    BY <1>1, CallsParts
  <2>3. PreemptOnce(Tail(stack)) /\
        \A t \in Tasks(Tail(stack)) : t.op = "Preempt" => t.flow # f
    BY <1>1, PreemptOncePop DEF BooksInv, StackNow
  <2> HIDE DEF t0
  <2> QED
    BY <1>1, <2>1, <2>2, <2>3 DEF Calls
<1>3. f \in Evicted /\ Evicted' = Evicted \ {f} /\ Offered' = Offered
  <2>1. f \in Evicted /\ Evicted' = Evicted \ {f}
    BY <1>1, <1>2 DEF Evicted
  <2>2. Offered' = Offered
    BY <1>1, <1>2 DEF Offered, ReadyOps
  <2> QED
    BY <2>1, <2>2
<1>4. /\ where[f] # NoDevice /\ ~Reserved(f) /\ f \in OnDevices
      /\ f \notin Requeued /\ f \notin spilled
      /\ finished \cup exhausted = {}
  <2>1. where[f] # NoDevice /\ ~Reserved(f)
    BY <1>3 DEF BooksInv, StackNow
  <2>2. f \in OnDevices /\ f \notin spilled
    BY <1>1, <2>1 DEF OnDevices, BooksInv, SpillInv
  <2>3. f \notin Requeued
    BY <2>2 DEF BooksInv, Located, Partition
  <2>4. finished \cup exhausted = {}
    BY <1>3 DEF BooksInv, SpillInv
  <2> QED
    BY <2>1, <2>2, <2>3, <2>4
<1>5. /\ Tasks(reready') = Tasks(reready) \cup {w0} /\ FlowsOnce(reready')
  <2> DEFINE S == [flow : Flows, step : Nat]
  <2>1. reready \in Seq(S) /\ w0 \in S
    <3>1. Step(f) \in Nat
      BY <1>1, StepType
    <3> QED
      BY <1>1, <3>1 DEF EngineTypeOK
  <2>2. \A v \in Tasks(reready) : v.flow # f
    BY <1>1, <1>4 DEF Requeued
  <2>3. w0.flow = f /\ FlowsOnce(reready)
    BY DEF BooksInv, RereadyNow
  <2> HIDE DEF S, w0
  <2> QED
    BY <1>1, <2>1, <2>2, <2>3, RereadyParts
<1> HIDE DEF f, t0
<1>6. /\ where'[f] = NoDevice /\ \A g \in Flows \ {f} : where'[g] = where[g]
      /\ OnDevices' = OnDevices \ {f} /\ Requeued' = Requeued \cup {f}
      /\ Open' = Open
      /\ \A g \in Flows : Step(g)' = Step(g) /\ Reserved(g)' = Reserved(g)
  <2>1. where'[f] = NoDevice /\ \A g \in Flows \ {f} : where'[g] = where[g]
    BY <1>1 DEF EngineTypeOK
  <2>2. OnDevices' = OnDevices \ {f}
    BY <2>1 DEF OnDevices
  <2>3. Requeued' = Requeued \cup {f}
    BY <1>1, <1>5 DEF Requeued
  <2> QED
    BY <1>1, <2>1, <2>2, <2>3 DEF Open, Step, Reserved
<1>7. StackNow'
  <2>1. \A t \in Calls(stack') : /\ t.flow \in Flows
                                 /\ IF t.op = "InvocationComplete"
                                    THEN t.step < Step(t.flow)
                                    ELSE t.step = Step(t.flow)
    BY <1>1, <1>2, CallType DEF BooksInv, StackNow
  <2>2. \A g \in Evicted \ {f} : where'[g] # NoDevice /\ ~Reserved(g)
    BY <1>6 DEF BooksInv, StackNow, Evicted
  <2>3. \A g \in Evicted' : g \in Flows
    BY DEF Evicted
  <2> QED
    BY <1>2, <1>3, <1>6, <2>1, <2>2, <2>3 DEF StackNow
<1>8. RereadyNow'
  <2>1. \A w \in Tasks(reready) : w.flow \in Flows \ {f}
    BY <1>1, <1>4, RereadyType DEF Requeued
  <2>2. phase'[f] = "PREEMPTED" /\ \A g \in Flows \ {f} : phase'[g] = phase[g]
    BY <1>1 DEF EngineTypeOK
  <2>3. \A w \in Tasks(reready) : /\ w.step = Step(w.flow)' /\ ~Reserved(w.flow)'
                                  /\ phase'[w.flow] = "PREEMPTED"
    BY <1>6, <2>1, <2>2 DEF BooksInv, RereadyNow
  <2> QED
    BY <1>1, <1>4, <1>5, <1>6, <2>2, <2>3 DEF RereadyNow
<1>9. Located' /\ Untouched'
  BY <1>1, <1>3, <1>4, <1>6 DEF BooksInv, Located, Partition, Untouched
<1>10. HomesInv'
  <2>1. \A g \in Flows : Reserved(g) => where'[g] \in {NoDevice, pinDev[g]}
    BY <1>6 DEF BooksInv, HomesInv
  <2>2. \A g \in queue : ~Reserved(g)
    BY DEF BooksInv, HomesInv
  <2> QED
    BY <1>1, <1>4, <2>1, <2>2 DEF HomesInv, Reserved
<1>11. SpillInv'
  <2>1. \A g \in spilled : /\ Reserved(g) /\ where'[g] = NoDevice
                           /\ PinMode = "TIERED" /\ cursor[g] < Len(Work[g])
    BY <1>1, <1>4, <1>6 DEF BooksInv, SpillInv, EngineTypeOK
  <2> QED
    BY <1>1, <1>4, <2>1 DEF SpillInv, Reserved
<1>12. PinsLive'
  BY <1>1 DEF BooksInv, PinsLive, Reserved
<1>13. RunningTracks'
  <2>1. ASSUME NEW v \in running
        PROVE  ~Reserved(v.flow) /\ (OnItsDevice(v)' \/ Placed(v)' \/ Completed(v)')
    <3>1. v.flow \in Flows
      BY DEF Known, ReservationInv, PolicyTypeOK
    <3>6. ~Reserved(v.flow)
      BY DEF BooksInv, RunningTracks
    <3>2. CASE OnItsDevice(v)
      BY <1>3, <1>6, <3>1, <3>2, <3>6 DEF OnItsDevice
    <3>3. CASE Placed(v)
      BY <1>1, <1>2, <3>3, <3>6 DEF Placed
    <3>4. CASE Completed(v)
      BY <1>1, <1>2, <3>4, <3>6 DEF Completed
    <3>5. OnItsDevice(v) \/ Placed(v) \/ Completed(v)
      BY DEF BooksInv, RunningTracks
    <3> QED
      BY <3>2, <3>3, <3>4, <3>5
  <2>2. \A g \in OnDevices' \ Evicted' : ~Reserved(g) =>
          [flow |-> g, step |-> Step(g), dev |-> where'[g]] \in running
    <3> SUFFICES ASSUME NEW g \in OnDevices' \ Evicted', ~Reserved(g)
                 PROVE  [flow |-> g, step |-> Step(g), dev |-> where'[g]] \in running
      OBVIOUS
    <3>1. g \in OnDevices \ Evicted /\ where'[g] = where[g]
      BY <1>3, <1>6 DEF OnDevices
    <3> QED
      BY <3>1 DEF BooksInv, RunningTracks
  <2>3. \A t \in Calls(stack') : t.op = "Schedule" /\ ~Reserved(t.flow) =>
          Placement(t) \in running
    BY <1>2 DEF BooksInv, RunningTracks
  <2>4. /\ \A g \in OnDevices' : g \in Flows
        /\ \A t \in Calls(stack') : t.flow \in Flows
        /\ \A v \in running : v.flow \in Flows
    BY <1>1, <1>2, CallType DEF OnDevices, Known, ReservationInv, PolicyTypeOK
  <2> QED
    BY <1>1, <1>6, <2>1, <2>2, <2>3, <2>4 DEF RunningTracks
<1> QED
  BY <1>7, <1>8, <1>9, <1>10, <1>11, <1>12, <1>13 DEF BooksInv

-----------------------------------------------------------------------------
(* The policy's answers.                                                   *)

\* What follows the evictions does not evict.
LEMMA PreemptOnceConcat ==
    ASSUME NEW a \in Seq(Task), NEW b \in Seq(Task), PreemptOnce(a),
           \A t \in Tasks(b) : t.op # "Preempt"
    PROVE  PreemptOnce(a \o b)
<1> DEFINE q == a \o b
<1>1. /\ Len(a) \in Nat /\ Len(b) \in Nat /\ Len(q) = Len(a) + Len(b)
      /\ \A i \in 1..Len(a) : q[i] = a[i]
      /\ \A i \in 1..Len(b) : q[Len(a) + i] = b[i]
  OBVIOUS
<1> HIDE DEF q
<1>2. \A i \in 1..Len(q) : q[i].op = "Preempt" => i \in 1..Len(a) /\ q[i] = a[i]
  <2> SUFFICES ASSUME NEW i \in 1..Len(q), i \notin 1..Len(a)
               PROVE  q[i].op # "Preempt"
    BY <1>1
  <2> DEFINE j == i - Len(a)
  <2>1. j \in 1..Len(b) /\ q[i] = b[j]
    BY <1>1
  <2> QED
    BY <2>1 DEF Tasks
<1>3. PreemptOnce(q)
  BY <1>2 DEF PreemptOnce
<1> QED
  BY <1>3 DEF q

\* While an event is at the head of the stack, nobody is placed or evicted, and
\* what is to be completed besides it is of the flow it offers.
LEMMA EventCalls ==
    ASSUME Known, BooksInv, stack # <<>>, Head(stack).op \in EventOps
    PROVE  /\ Tail(stack) \in Seq(Task)
           /\ Calls(stack) = {t \in {Head(stack)} : t.op \in CallOps}
                                \cup Calls(Tail(stack))
           /\ \A t \in Tasks(Tail(stack)) :
                  /\ t.op = "InvocationComplete" /\ t.flow = Head(stack).flow
                  /\ Head(stack).op = "InvocationReady"
           /\ Evicted = {} /\ \A v : ~Placed(v)
           /\ \A v : Completed(v) => v.flow = Head(stack).flow
           /\ Offered = {f \in {Head(stack).flow} : Head(stack).op = "InvocationReady"}
<1>1. EngineTypeOK /\ stack \in Seq(Task)
  BY DEF Known, ReservationInv, EngineInv, EngineTypeOK
<1>2. Calls(stack) = {t \in {Head(stack)} : t.op \in CallOps} \cup Calls(Tail(stack))
  BY <1>1, CallsParts
<1>3. /\ Tail(stack) \in Seq(Task)
      /\ \A t \in Tasks(Tail(stack)) :
             /\ t.op = "InvocationComplete" /\ t.flow = Head(stack).flow
             /\ Head(stack).op = "InvocationReady"
  BY <1>1, ShapeEvent DEF Known, ShapeInv
<1>4. \A t \in Calls(stack) :
        /\ t.op \in {"InvocationReady", "InvocationComplete"}
        /\ t.flow = Head(stack).flow
        /\ t.op = "InvocationReady" => t = Head(stack)
  BY <1>2, <1>3 DEF Calls, EventOps, CallOps, ReadyOps
<1>5. Evicted = {} /\ \A v : ~Placed(v)
  BY <1>4 DEF Evicted, Placed
<1>6. \A v : Completed(v) => v.flow = Head(stack).flow
  BY <1>4 DEF Completed
<1>7. Offered = {f \in {Head(stack).flow} : Head(stack).op = "InvocationReady"}
  <2>1. Offered \subseteq {f \in {Head(stack).flow} : Head(stack).op = "InvocationReady"}
    BY <1>4 DEF Offered, ReadyOps
  <2>2. Head(stack).op = "InvocationReady" => Head(stack) \in Calls(stack)
    BY <1>2 DEF CallOps, ReadyOps
  <2>3. Head(stack).op = "InvocationReady" => Head(stack).flow \in Offered
    BY <1>1, <2>2, CallType DEF Offered, ReadyOps
  <2> QED
    BY <2>1, <2>3
<1> QED
  BY <1>2, <1>3, <1>5, <1>6, <1>7

\* What can be evicted for a restore is on the device, at its current step, and
\* is one invocation of each flow.
LEMMA VictimsOnDevice ==
    ASSUME Known, BooksInv, ReadyReserved, NEW v \in running
    PROVE  /\ ~Reserved(v.flow) /\ OnItsDevice(v) /\ v.flow \in Open
           /\ v.flow \in OnDevices /\ Kv(v.flow, v.step) \in Nat
           /\ \A w \in running : v.flow = w.flow => v = w
<1>1. /\ stack # <<>> /\ Head(stack).op = "InvocationReady"
      /\ Reserved(Head(stack).flow)
  BY DEF ReadyReserved, Pending
<1>2. \A w \in running : ~Reserved(w.flow) /\ OnItsDevice(w)
  <2>1. \A w : ~Placed(w) /\ (Completed(w) => w.flow = Head(stack).flow)
    BY <1>1, EventCalls DEF EventOps
  <2> QED
    BY <1>1, <2>1 DEF BooksInv, RunningTracks
<1>3. running \subseteq [flow : Flows, step : Nat, dev : Devices]
  BY DEF Known, ReservationInv, PolicyTypeOK
<1>4. v.flow \in OnDevices /\ v.flow \in Open
  <2>1. v.flow \in Flows /\ v.dev \in Devices
    BY <1>3
  <2>2. v.dev # NoDevice
    BY <2>1 DEF Devices, NoDevice
  <2>3. v.flow \in OnDevices
    BY <1>2, <2>1, <2>2 DEF OnItsDevice, OnDevices
  <2> QED
    BY <2>3 DEF BooksInv, Located, Partition
<1>5. Kv(v.flow, v.step) \in Nat
  <2>1. v.flow \in Flows /\ cursor[v.flow] \in Nat /\ Len(Work[v.flow]) \in Nat
        /\ cursor[v.flow] < Len(Work[v.flow]) /\ v.step = Step(v.flow)
    BY <1>2, <1>3, <1>4, WorkType
       DEF Open, Known, ReservationInv, EngineInv, EngineTypeOK, OnItsDevice
  <2>2. v.step \in Steps(v.flow)
    BY <2>1 DEF Steps, Step
  <2> QED
    BY <2>1, <2>2, WorkType
<1>6. \A w \in running : v.flow = w.flow => v = w
  <2> TAKE w \in running
  <2>1. v.flow = w.flow => v.step = w.step /\ v.dev = w.dev
    BY <1>2 DEF OnItsDevice
  <2> QED
    BY <1>3, <2>1
<1> QED
  BY <1>2, <1>4, <1>5, <1>6

\* Making room evicts residents only, and the pin's flow is placed.
LEMMA RestoreBooks ==
    ASSUME Known, BooksInv, ReadyReserved PROVE BooksInv'
<1> DEFINE h == Head(stack)
<1> DEFINE f == h.flow
<1> DEFINE d == pinDev[f]
<1> DEFINE run == TaskOf("Schedule", f, h.step, d)
<1> DEFINE rest == Tail(stack)
<1>1. /\ EngineInv /\ EngineTypeOK /\ ReservationInv /\ stack \in Seq(Task)
      /\ stack # <<>> /\ h.op = "InvocationReady" /\ Reserved(f)
      /\ queue' = queue /\ f \in Flows
  BY EventType DEF Known, ReservationInv, EngineInv, EngineTypeOK, ReadyReserved,
     Pending, EventOps
<1>2. PICK a \in Seq(Task) : \E V \in (IF f \in spilled THEN Victims(f, d) ELSE {{}}) :
        Respond(a) /\ Restore(a, run, V) /\ running' = AfterEviction(V)
  <2>1. \E a \in Seq(Task) :
        \E V \in (IF f \in spilled THEN Victims(f, d) ELSE {{}}) :
           /\ Respond(a) /\ PlainAnswer(a)
           /\ Restore(a, TaskOf("Schedule", f, Head(stack).step, d), V)
           /\ running' = AfterEviction(V)
    <3> HIDE DEF f, d
    <3> QED
      BY <1>1, RestoreAnswers DEF f, d
  <2> QED
    BY <2>1
<1>3. PICK V \in (IF f \in spilled THEN Victims(f, d) ELSE {{}}) :
        Respond(a) /\ Restore(a, run, V) /\ running' = AfterEviction(V)
  BY <1>2
<1>4. /\ UNCHANGED <<admitted, cursor, where, phase, pinDev, pins, spilled, gaps,
                     reready, abandoned, finished, exhausted>>
      /\ stack' = a \o rest /\ running' = running \ V
  BY <1>3 DEF Respond, flowVars, stepVars, deviceVars, timerVars, loopVars,
     AfterEviction
<1>5. V \subseteq running /\ (f \notin spilled => V = {})
  BY <1>3 DEF Victims, RunningOn
<1>6. /\ rest \in Seq(Task) /\ Evicted = {}
      /\ Calls(stack) = {h} \cup Calls(rest)
      /\ \A t \in Tasks(rest) : t.op = "InvocationComplete"
      /\ Offered = {f}
  BY <1>1, EventCalls DEF EventOps, CallOps, ReadyOps
<1>7. \A v \in V : /\ ~Reserved(v.flow) /\ OnItsDevice(v)
                   /\ v.flow \in OnDevices /\ Kv(v.flow, v.step) \in Nat
                   /\ \A w \in running : v.flow = w.flow => v = w
  BY <1>5, VictimsOnDevice
<1>8. /\ run \in Tasks(a) /\ \A t \in Tasks(a) : t = run \/ \E v \in V : t = Eviction(v)
      /\ \A v \in V : Eviction(v) \in Tasks(a)
      /\ PreemptOnce(a)
  <2>1. \A v, w \in V : v.flow = w.flow => v = w
    BY <1>5, <1>7
  <2> QED
    BY <1>3, <1>7, <2>1 DEF Restore
<1>9. run.op = "Schedule" /\ run.flow = f /\ run.step = Step(f)
  <2>1. h \in Calls(stack)
    BY <1>6
  <2> QED
    BY <1>1, <2>1 DEF TaskOf, BooksInv, StackNow
<1>10. \A v : /\ Eviction(v).op = "Preempt" /\ Eviction(v).flow = v.flow
              /\ Eviction(v).step = v.step
  BY DEF Eviction, TaskOf
<1> HIDE DEF run, rest
<1>11. /\ Calls(stack') = Calls(a) \cup Calls(rest)
       /\ run \in Calls(stack')
       /\ \A v \in V : Eviction(v) \in Calls(stack')
       /\ \A t \in Calls(stack') : \/ t = run \/ \E v \in V : t = Eviction(v)
                                   \/ t \in Calls(rest)
  <2>1. Calls(stack') = Calls(a) \cup Calls(rest)
    BY <1>4, <1>6, CallsParts
  <2> QED
    BY <1>8, <1>9, <1>10, <2>1 DEF Calls, CallOps, ReadyOps
<1>12. Calls(rest) \subseteq Calls(stack) /\ \A t \in Calls(rest) : t.op = "InvocationComplete"
  BY <1>6 DEF Calls
<1>13. /\ Offered' = {f} /\ Evicted' = {v.flow : v \in V}
       /\ Requeued' = Requeued /\ OnDevices' = OnDevices /\ Open' = Open
       /\ \A g \in Flows : Step(g)' = Step(g) /\ Reserved(g)' = Reserved(g)
  <2>1. Offered' = {f}
    <3>1. \A t \in Calls(stack') : t.op \in ReadyOps => t.flow = f
      BY <1>9, <1>10, <1>11, <1>12 DEF ReadyOps
    <3> QED
      BY <1>1, <1>9, <1>11, <3>1 DEF Offered, ReadyOps
  <2>2. Evicted' = {v.flow : v \in V}
    <3>1. \A t \in Calls(stack') : t.op = "Preempt" => \E v \in V : t = Eviction(v)
      BY <1>9, <1>11, <1>12
    <3>2. Evicted' \subseteq {v.flow : v \in V}
      BY <1>10, <3>1 DEF Evicted
    <3>3. {v.flow : v \in V} \subseteq Evicted'
      <4> SUFFICES ASSUME NEW v \in V PROVE v.flow \in Evicted'
        OBVIOUS
      <4>1. v.flow \in Flows
        BY <1>7 DEF OnDevices
      <4> QED
        BY <1>10, <1>11, <4>1 DEF Evicted
    <3> QED
      BY <3>2, <3>3
  <2> QED
    BY <1>4, <2>1, <2>2 DEF Requeued, OnDevices, Open, Step, Reserved
<1>14. StackNow'
  <2>1. \A t \in Calls(stack') : IF t.op = "InvocationComplete"
                                 THEN t.step < Step(t.flow) ELSE t.step = Step(t.flow)
    <3> SUFFICES ASSUME NEW t \in Calls(stack')
                 PROVE  IF t.op = "InvocationComplete"
                        THEN t.step < Step(t.flow) ELSE t.step = Step(t.flow)
      OBVIOUS
    <3>1. CASE t = run
      BY <1>9, <3>1
    <3>2. CASE \E v \in V : t = Eviction(v)
      BY <1>7, <1>10, <3>2 DEF OnItsDevice
    <3>3. CASE t \in Calls(rest)
      BY <1>12, <3>3 DEF BooksInv, StackNow
    <3> QED
      BY <1>11, <3>1, <3>2, <3>3
  <2>2. \A t \in Calls(stack') : t.flow \in Flows
    <3>1. stack' \in Seq(Task)
      BY <1>4, <1>6
    <3> QED
      BY <3>1, CallType
  <2>3. \A g \in Evicted' : g \in Flows /\ where[g] # NoDevice /\ ~Reserved(g)
    BY <1>7, <1>13 DEF OnDevices
  <2>4. PreemptOnce(stack')
    BY <1>4, <1>6, <1>8, PreemptOnceConcat
  <2> QED
    BY <1>4, <1>13, <2>1, <2>2, <2>3, <2>4 DEF StackNow
<1>15. RereadyNow' /\ Untouched' /\ HomesInv' /\ PinsLive'
  <2>1. \A w \in Tasks(reready) : w.flow \in Flows
    BY <1>1, RereadyType
  <2> QED
    BY <1>1, <1>4, <1>13, <2>1
       DEF BooksInv, RereadyNow, Untouched, HomesInv, PinsLive, Reserved
<1>16. Located'
  BY <1>1, <1>4, <1>6, <1>13 DEF BooksInv, Located
<1>17. SpillInv'
  <2>1. finished \cup exhausted # {} => V = {}
    <3>1. f \notin gaps
      BY <1>6 DEF BooksInv, Located, Partition
    <3> QED
      BY <1>5, <3>1 DEF BooksInv, SpillInv
  <2> QED
    BY <1>4, <1>13, <2>1 DEF BooksInv, SpillInv, Reserved
<1>18. RunningTracks'
  <2>1. \A v \in running' : ~Reserved(v.flow) /\ OnItsDevice(v)'
    <3> SUFFICES ASSUME NEW v \in running \ V
                 PROVE  ~Reserved(v.flow) /\ OnItsDevice(v)'
      BY <1>4
    <3>1. ~Reserved(v.flow) /\ OnItsDevice(v) /\ v.flow \in Flows
      BY VictimsOnDevice DEF OnDevices
    <3>2. v.flow \notin Evicted'
      BY <1>7, <1>13
    <3> QED
      BY <1>4, <1>13, <3>1, <3>2 DEF OnItsDevice
  <2>2. \A g \in OnDevices \ Evicted' : ~Reserved(g) =>
          [flow |-> g, step |-> Step(g), dev |-> where[g]] \in running'
    <3> SUFFICES ASSUME NEW g \in OnDevices \ Evicted', ~Reserved(g)
                 PROVE  [flow |-> g, step |-> Step(g), dev |-> where[g]] \in running \ V
      BY <1>4
    <3> DEFINE v == [flow |-> g, step |-> Step(g), dev |-> where[g]]
    <3>1. v \in running /\ v.flow = g
      BY <1>6 DEF BooksInv, RunningTracks
    <3> HIDE DEF v
    <3>2. v \notin V
      BY <1>13, <3>1
    <3> QED
      BY <3>1, <3>2 DEF v
  <2>3. \A t \in Calls(stack') : t.op = "Schedule" => Reserved(t.flow)
    BY <1>1, <1>9, <1>10, <1>11, <1>12
  <2>4. /\ \A g \in OnDevices' : g \in Flows
        /\ \A t \in Calls(stack') : t.flow \in Flows
        /\ \A v \in running' : v.flow \in Flows
    <3>1. stack' \in Seq(Task)
      BY <1>4, <1>6
    <3> QED
      BY <1>4, <3>1, CallType DEF OnDevices, Known, ReservationInv, PolicyTypeOK
  <2> QED
    BY <1>4, <1>13, <2>1, <2>2, <2>3, <2>4 DEF RunningTracks
<1> QED
  BY <1>14, <1>15, <1>16, <1>17, <1>18 DEF BooksInv

\* A drain moves flows from the queue, or from being offered, to the calls that
\* place them; a completion it answers is over.
LEMMA DrainBooksKept ==
    ASSUME Known, BooksInv, ReadyBestEffort \/ NoteComplete \/ OnTick
    PROVE  BooksInv'
<1> DEFINE h == Head(stack)
<1> DEFINE rest == Tail(stack)
<1>1. /\ EngineInv /\ EngineTypeOK /\ ReservationInv /\ stack \in Seq(Task)
      /\ stack # <<>> /\ Asked \subseteq Flows
      /\ h.op \in {"InvocationReady", "InvocationComplete", "Tick"}
      /\ h.op = "InvocationReady" => h.flow \in Flows /\ ~Reserved(h.flow)
  <2>1. ReservationInv /\ EngineInv /\ EngineTypeOK /\ stack \in Seq(Task)
    BY DEF Known, ReservationInv, EngineInv, EngineTypeOK
  <2> QED
    BY <2>1, Drains
<1>2. PICK first \in Seq(Task), s \in Seq(Task) :
        /\ \A i \in 1..Len(first) : first[i].op = "Degrade"
        /\ Bookings(Asked, Kept, s) /\ Respond(first \o s)
  BY <1>1, Drains
<1>3. /\ UNCHANGED <<admitted, cursor, where, phase, pinDev, pins, spilled, gaps,
                     reready, abandoned, finished, exhausted>>
      /\ stack' = (first \o s) \o rest
  BY <1>2 DEF Respond, flowVars, stepVars, deviceVars, timerVars, loopVars
<1>4. /\ rest \in Seq(Task) /\ Evicted = {} /\ \A v : ~Placed(v)
      /\ Calls(stack) = {t \in {h} : t.op \in CallOps} \cup Calls(rest)
      /\ \A t \in Tasks(rest) : t.op = "InvocationComplete"
      /\ Asked = queue \cup Offered
  BY <1>1, EventCalls DEF EventOps, Asked
<1>5. /\ queue' \subseteq Asked
      /\ \A t \in Tasks(s) : /\ t.op = "Schedule" /\ t.flow \in Asked \ queue'
                             /\ t.step = Step(t.flow)
                             /\ Placement(t) \in running'
      /\ \A g \in Asked \ queue' : \E t \in Tasks(s) : t.flow = g
      /\ \A v \in running' : v \in Kept \/ \E t \in Tasks(s) : v = Placement(t)
      /\ Kept \subseteq running'
  BY <1>2 DEF Bookings, Tasks
<1> HIDE DEF rest
<1>6. /\ Calls(stack') = Tasks(s) \cup Calls(rest)
      /\ Calls(rest) \subseteq Calls(stack)
      /\ \A t \in Calls(rest) : t.op = "InvocationComplete"
  <2>1. first \o s \in Seq(Task)
    BY <1>2
  <2>2. Calls(stack') = Calls(first \o s) \cup Calls(rest)
    BY <1>3, <1>4, <2>1, CallsParts
  <2>3. Calls(first \o s) = Calls(first) \cup Calls(s)
    BY <1>2, CallsParts
  <2>4. Calls(first) = {}
    BY <1>2 DEF Calls, Tasks, CallOps, ReadyOps
  <2>5. Calls(s) = Tasks(s)
    BY <1>5 DEF Calls, CallOps, ReadyOps
  <2> QED
    BY <1>4, <2>2, <2>3, <2>4, <2>5 DEF Calls
<1>7. /\ Offered' = Asked \ queue' /\ Evicted' = {}
      /\ Requeued' = Requeued /\ OnDevices' = OnDevices /\ Open' = Open
      /\ \A g \in Flows : Step(g)' = Step(g) /\ Reserved(g)' = Reserved(g)
  <2>1. Offered' = Asked \ queue'
    <3>1. Offered' \subseteq Asked \ queue'
      BY <1>5, <1>6 DEF Offered, ReadyOps
    <3>2. Asked \ queue' \subseteq Offered'
      <4> SUFFICES ASSUME NEW g \in Asked \ queue' PROVE g \in Offered'
        OBVIOUS
      <4>1. PICK t \in Tasks(s) : t.flow = g
        BY <1>5
      <4>2. t \in Calls(stack') /\ t.op \in ReadyOps
        BY <1>5, <1>6 DEF ReadyOps
      <4> QED
        BY <1>1, <4>1, <4>2 DEF Offered
    <3> QED
      BY <3>1, <3>2
  <2>2. Evicted' = {}
    BY <1>5, <1>6 DEF Evicted
  <2> QED
    BY <1>3, <2>1, <2>2 DEF Requeued, OnDevices, Open, Step, Reserved
<1>8. \A g \in Asked : g \in Flows /\ ~Reserved(g)
  BY <1>1 DEF Asked, BooksInv, HomesInv
<1>9. \A t \in Calls(stack') : t.flow \in Flows
  <2>1. \A t \in Calls(rest) : t.flow \in Flows
    BY <1>1, <1>6, CallType
  <2> QED
    BY <1>1, <1>5, <1>6, <2>1
<1>10. StackNow'
  <2>1. \A t \in Calls(stack') : IF t.op = "InvocationComplete"
                                 THEN t.step < Step(t.flow) ELSE t.step = Step(t.flow)
    <3>1. \A t \in Calls(rest) : IF t.op = "InvocationComplete"
                                 THEN t.step < Step(t.flow) ELSE t.step = Step(t.flow)
      BY <1>6 DEF BooksInv, StackNow
    <3> QED
      BY <1>5, <1>6, <3>1
  <2>2. PreemptOnce(stack')
    <3>1. \A t \in Calls(stack') : t.op # "Preempt"
      BY <1>5, <1>6
    <3> QED
      BY <3>1, PreemptOnceNone
  <2> QED
    BY <1>7, <1>9, <2>1, <2>2 DEF StackNow
<1>11. RereadyNow' /\ Untouched' /\ PinsLive'
  <2>1. \A w \in Tasks(reready) : w.flow \in Flows
    BY <1>1, RereadyType
  <2> QED
    BY <1>3, <1>7, <2>1 DEF BooksInv, RereadyNow, Untouched, PinsLive, Reserved
<1>12. HomesInv'
  BY <1>3, <1>5, <1>8 DEF BooksInv, HomesInv, Reserved
<1>13. Located'
  <2>1. /\ queue' \cup Offered' = queue \cup Offered /\ queue' \cap Offered' = {}
    BY <1>4, <1>5, <1>7
  <2> QED
    BY <1>3, <1>7, <2>1 DEF BooksInv, Located, Partition
<1>14. SpillInv'
  BY <1>3, <1>7 DEF BooksInv, SpillInv, Reserved
<1>15. RunningTracks'
  <2>1. ASSUME NEW v \in running'
        PROVE  ~Reserved(v.flow) /\ (OnItsDevice(v)' \/ Placed(v)' \/ Completed(v)')
    <3>1. CASE \E t \in Tasks(s) : v = Placement(t)
      <4>1. PICK t \in Tasks(s) : v = Placement(t)
        BY <3>1
      <4>2. Placed(v)'
        BY <1>5, <1>6, <4>1 DEF Placed
      <4>3. ~Reserved(v.flow)
        BY <1>5, <1>8, <4>1 DEF Placement
      <4> QED
        BY <4>2, <4>3
    <3>2. CASE v \in Kept
      <4>1. /\ v \in running /\ v.flow \in Flows /\ ~Reserved(v.flow)
            /\ OnItsDevice(v) \/ Completed(v)
        BY <1>4, <3>2 DEF Kept, BooksInv, RunningTracks, Known, ReservationInv,
           PolicyTypeOK
      <4>2. OnItsDevice(v) => OnItsDevice(v)'
        BY <1>3, <1>7, <4>1 DEF OnItsDevice
      <4>3. Completed(v) => Completed(v)'
        <5> SUFFICES ASSUME Completed(v) PROVE Completed(v)'
          OBVIOUS
        <5>1. PICK t \in Calls(stack) : /\ t.op = "InvocationComplete"
                                        /\ t.flow = v.flow /\ t.step = v.step
          BY DEF Completed
        <5>2. t # h
          BY <3>2, <5>1 DEF Kept
        <5>3. t \in Calls(stack')
          BY <1>4, <1>6, <5>2
        <5> QED
          BY <5>1, <5>3 DEF Completed
      <4> QED
        BY <4>1, <4>2, <4>3
    <3> QED
      BY <1>5, <3>1, <3>2
  <2>2. \A g \in OnDevices : ~Reserved(g) =>
          [flow |-> g, step |-> Step(g), dev |-> where[g]] \in running'
    <3> SUFFICES ASSUME NEW g \in OnDevices, ~Reserved(g)
                 PROVE  [flow |-> g, step |-> Step(g), dev |-> where[g]] \in running'
      OBVIOUS
    <3> DEFINE v == [flow |-> g, step |-> Step(g), dev |-> where[g]]
    <3>1. v \in running /\ v.flow = g /\ v.step = Step(g)
      BY <1>4 DEF BooksInv, RunningTracks
    <3> HIDE DEF v
    <3>2. v \in Kept
      <4> SUFFICES ASSUME h.op = "InvocationComplete", h.flow = g, h.step = Step(g)
                   PROVE  FALSE
        BY <3>1 DEF Kept
      <4>1. h \in Calls(stack)
        BY <1>4 DEF CallOps
      <4>2. h.step < Step(g)
        BY <4>1 DEF BooksInv, StackNow
      <4>3. Step(g) \in Nat
        BY <1>1, StepType DEF OnDevices
      <4> QED
        BY <4>2, <4>3
    <3> QED
      BY <1>5, <3>2 DEF v
  <2>3. \A t \in Calls(stack') : t.op = "Schedule" => Placement(t) \in running'
    BY <1>5, <1>6
  <2>4. \A v \in running' : v.flow \in Flows
    <3>1. \A v \in Kept : v.flow \in Flows
      BY DEF Kept, Known, ReservationInv, PolicyTypeOK
    <3>2. \A t \in Tasks(s) : Placement(t).flow \in Flows
      BY <1>1, <1>5 DEF Placement
    <3> QED
      BY <1>5, <3>1, <3>2
  <2>5. \A g \in OnDevices' : g \in Flows
    BY DEF OnDevices
  <2> QED
    BY <1>3, <1>7, <1>9, <2>1, <2>2, <2>3, <2>4, <2>5 DEF RunningTracks
<1> QED
  BY <1>10, <1>11, <1>12, <1>13, <1>14, <1>15 DEF BooksInv

-----------------------------------------------------------------------------
\* The theorems above, together.
THEOREM KnownAll == Spec => []Known
BY InvariantHolds, ShapeHolds, PinsInvHolds, KnownHolds, PTL DEF Known

\* The books agree when nothing has arrived.
LEMMA InitBooks ==
    ASSUME Init, PolicyInit PROVE BooksInv
<1>1. /\ Calls(stack) = {} /\ Offered = {} /\ Evicted = {} /\ Requeued = {}
  BY NothingPending DEF Init
<1>2. Tasks(reready) = {} /\ FlowsOnce(reready) /\ PreemptOnce(stack)
  BY <1>1, TasksParts, PreemptOnceNone DEF Init, FlowsOnce
<1>3. OnDevices = {} /\ Open = {}
  BY DEF Init, OnDevices, Open
<1>4. StackNow /\ RereadyNow
  BY <1>1, <1>2 DEF StackNow, RereadyNow
<1>5. Located /\ Untouched
  BY <1>1, <1>3 DEF Init, PolicyInit, Located, Partition, Untouched
<1>6. HomesInv /\ SpillInv /\ PinsLive
  BY DEF Init, PolicyInit, HomesInv, SpillInv, PinsLive, Reserved
<1>7. RunningTracks
  BY <1>1, <1>3 DEF PolicyInit, RunningTracks
<1> QED
  BY <1>4, <1>5, <1>6, <1>7 DEF BooksInv

\* Every step keeps the books.
LEMMA NextBooks ==
    ASSUME Known, BooksInv, [Next]_vars PROVE BooksInv'
<1>1. CASE TriggerStep /\ UNCHANGED policyVars
  BY <1>1, QuietSteps, GapEndBooks, IntervalEndBooks DEF TriggerStep
<1>2. CASE HandlingStep /\ UNCHANGED policyVars
  BY <1>2, QuietSteps, Completions, CompletionBooks, ReofferBooks, ScheduleBooks,
     PreemptBooks DEF HandlingStep
<1>3. CASE AdmitStep /\ UNCHANGED policyVars
  BY <1>3, AdmitBudget, AdmitBooks
<1>4. CASE PolicyAnswer
  BY <1>4, QuietSteps, RestoreBooks, DrainBooksKept DEF PolicyAnswer
<1>5. CASE UNCHANGED vars
  BY <1>5, QuietSteps
<1> QED
  BY <1>1, <1>2, <1>3, <1>4, <1>5 DEF Next, EngineStep

\* Under the discipline every admitted flow is in exactly one place at any time,
\* a pin lives as long as its flow, and the policy tracks what is running.
THEOREM BooksInvHolds == Spec => []BooksInv
BY InitBooks, NextBooks, KnownAll, PTL DEF Spec

-----------------------------------------------------------------------------
(* Nothing is lost, and nothing reserved waits.                            *)

\* Whatever is entering has its timer, always.
THEOREM EnteringHolds == Spec => []Entering
<1>1. Init => Entering
  BY DEF Init, Entering
<1>2. ASSUME ReservationInv, Entering, [Next]_vars PROVE Entering'
  <2>1. EngineInv
    BY <1>2 DEF ReservationInv
  <2>2. CASE EngineStep
    BY <1>2, <2>1, <2>2, EnteringKept
  <2>3. CASE PolicyAnswer \/ UNCHANGED vars
    <3>1. UNCHANGED <<phase, cursor, where, timers>>
      BY <2>3, AnswerFrame DEF vars, engineVars, stepVars, timerVars
    <3> QED
      BY <1>2, <2>1, <3>1, EnteringKept
  <2>4. CASE AdmitStep
    <3>1. PICK b : AdmitAggregate(b) \/ AdmitReserved(b)
      BY <2>4, AdmitBudget
    <3> QED
      BY <1>2, <2>1, <3>1, EnteringKept
  <2> QED
    BY <1>2, <2>2, <2>3, <2>4 DEF Next
<1> QED
  BY <1>1, <1>2, InvariantHolds, PTL DEF Spec

\* Between two triggers nobody is offered, evicted or waiting to be re-offered.
LEMMA IdleBooks ==
    ASSUME Known, BooksInv, Idle
    PROVE  /\ Calls(stack) = {} /\ Evicted = {}
           /\ queue \cup gaps \cup OnDevices = Open
           /\ queue \cap gaps = {} /\ queue \cap OnDevices = {}
           /\ gaps \cap OnDevices = {}
<1>1. Calls(stack) = {} /\ Offered = {} /\ Evicted = {} /\ Requeued = {}
  BY NothingPending DEF Idle
<1> QED
  BY <1>1 DEF BooksInv, Located, Partition

\* Under the discipline, between two triggers, every admitted flow that is not
\* over waits in exactly one place from which it moves on (NoWorkLost).
THEOREM WorkHolds == Spec => []NoWorkLost
<1>1. ASSUME Known, BooksInv, Entering PROVE NoWorkLost
  <2>1. EngineInv
    BY <1>1 DEF Known, ReservationInv
  <2>2. CASE Idle
    <3>1. /\ queue \cup gaps \cup OnDevices = Open
          /\ queue \cap gaps = {} /\ queue \cap OnDevices = {}
          /\ gaps \cap OnDevices = {}
      BY <1>1, <2>2, IdleBooks
    <3> QED
      BY <1>1, <2>1, <3>1, OnePlaceEach DEF NoWorkLost
  <2> QED
    BY <2>2 DEF NoWorkLost, InOnePlace
<1> QED
  BY <1>1, KnownAll, BooksInvHolds, EnteringHolds, PTL

\* Under the discipline, between two triggers, a reserved flow is on its device
\* with its pin restored, or in tool-time (ReservedNeverWaits).
THEOREM ReservedHolds == Spec => []ReservedNeverWaits
<1>1. ASSUME Known, BooksInv PROVE ReservedNeverWaits
  <2> SUFFICES ASSUME Idle, NEW f \in Flows, Reserved(f), ~IsComplete(f), f \notin gaps
               PROVE  where[f] = pinDev[f] /\ f \notin spilled
    BY DEF ReservedNeverWaits
  <2>1. cursor[f] \in Nat /\ Len(Work[f]) \in Nat
    BY <1>1, WorkType DEF Known, ReservationInv, EngineInv, EngineTypeOK
  <2>2. f \in Open
    BY <1>1, <2>1 DEF Open, IsComplete, Known, PinsInv, ReservedAdmitted
  <2>3. f \notin queue
    BY <1>1 DEF BooksInv, HomesInv
  <2>4. f \in OnDevices
    BY <1>1, <2>2, <2>3, IdleBooks
  <2> QED
    BY <1>1, <2>4 DEF OnDevices, BooksInv, HomesInv, SpillInv
<1> QED
  BY <1>1, KnownAll, BooksInvHolds, PTL

-----------------------------------------------------------------------------
(* The accounting of the devices is exact.                                 *)

\* Every step keeps the accounting of the devices exact.
LEMMA AccountingKept ==
    ASSUME Known, BooksInv, AccountingExact, [Next]_vars PROVE AccountingExact'
<1>0. /\ EngineInv /\ EngineTypeOK
      /\ \A f \in Flows : where[f] # NoDevice => f \in admitted
  BY DEF Known, ReservationInv, EngineInv, KnownInv, KnownAdmitted
<1>1. CASE EngineStep
  <2>1. StopsResident
    BY DEF StopsResident, BooksInv, HomesInv
  <2> QED
    BY <1>0, <1>1, <2>1, EngineStepAccounts
<1>2. CASE AdmitStep
  <2>1. Head(stack).flow \notin admitted
    BY <1>2 DEF AdmitStep, AdmitAggregate, AdmitReserved, Pending, Known, ShapeInv,
       Entries, EntryOps
  <2> QED
    BY <1>0, <1>2, <2>1, AdmitAccounts DEF AdmitStep
<1>3. CASE PolicyAnswer \/ UNCHANGED vars
  BY <1>0, <1>3, AccountingUntouched, AnswerFrame DEF vars, engineVars, flowVars,
     stepVars, deviceVars
<1> QED
  BY <1>1, <1>2, <1>3 DEF Next

\* The memory a device has booked for best effort is that of its residents.
THEOREM AccountingHolds == Spec => []AccountingExact
BY InitAccounts, AccountingKept, KnownAll, BooksInvHolds, PTL DEF Spec

\* Under the discipline no device ever holds more KV than it has, its residents
\* and its pins counted one by one (HbmWithinLimit): the guards of a placement
\* and of a pin read a counter, and the counter is exact.
THEOREM MemoryHolds == Spec => []HbmWithinLimit
<1>1. AccountingExact /\ CounterWithinLimit => HbmWithinLimit
  BY HeldIsCounted
<1> QED
  BY <1>1, AccountingHolds, CounterHolds, PTL

\* Under the discipline, on every cluster and workload, no device gives away
\* more slots than it has, owes its pins more memory than it has, or holds more.
THEOREM CapacityHolds ==
    Spec => [](CommittedWithinHbm /\ SlotsWithinLimit /\ HbmWithinLimit)
BY CommitmentHolds, MemoryHolds, SlotsHold, PTL

\* Every step keeps the set of occupied pins exact.
LEMMA OccupiedKept ==
    ASSUME Known, OccupiedExact, [Next]_vars PROVE OccupiedExact'
<1>0. /\ EngineInv /\ EngineTypeOK /\ where \in [Flows -> 0..NumDevices]
      /\ \A f \in Flows : where[f] # NoDevice => f \in admitted
  BY DEF Known, ReservationInv, EngineInv, EngineTypeOK, KnownInv, KnownAdmitted
<1>1. CASE UNCHANGED <<occupied, where, pinDev>>
  BY <1>1 DEF OccupiedExact, Reserved
<1>2. ASSUME NEW f \in Flows, where' = [where EXCEPT ![f] = NoDevice],
             occupied' = Vacated(f), pinDev' = pinDev
      PROVE  OccupiedExact'
  BY <1>0, <1>2 DEF OccupiedExact, Reserved, Vacated
<1>3. ASSUME NEW f \in Flows, NEW d \in Devices,
             \/ CompleteFlow(f, d) \/ CompleteIntoGap(f, d)
             \/ CompleteIntoNext(f, d) \/ AbandonFlow(f, d)
      PROVE  OccupiedExact'
  BY <1>2, <1>3 DEF CompleteFlow, CompleteIntoGap, CompleteIntoNext, AbandonFlow,
     Advance, Leave, flowVars
<1>4. CASE Schedule
  <2> DEFINE f == Head(stack).flow
  <2> DEFINE d == Head(stack).dev
  <2>1. f \in Flows
    BY <1>0, <1>4, ActionType DEF Schedule, ActionOps
  <2>2. /\ where' = [where EXCEPT ![f] = d] /\ pinDev' = pinDev
        /\ occupied' = IF Reserved(f) THEN occupied \cup {f} ELSE occupied
        /\ Schedulable(f, d)
    BY <1>4 DEF Schedule, flowVars
  <2>3. d # NoDevice /\ phase[f] \in {"PENDING", "PREEMPTED"}
    BY <2>2 DEF Schedulable, Devices, NoDevice
  <2>4. where[f] = NoDevice
    BY <1>0, <2>1, <2>3 DEF EngineInv, ResidentIsPlaced
  <2> HIDE DEF f, d
  <2> QED
    BY <1>0, <2>1, <2>2, <2>3, <2>4 DEF OccupiedExact, Reserved
<1>5. CASE Preempt
  <2> DEFINE f == Head(stack).flow
  <2>1. f \in Flows
    BY <1>0, <1>5, ActionType DEF Preempt, ActionOps
  <2>2. /\ where' = [where EXCEPT ![f] = NoDevice]
        /\ occupied' = Vacated(f) /\ pinDev' = pinDev
    BY <1>5 DEF Preempt, flowVars
  <2> HIDE DEF f
  <2> QED
    BY <1>2, <2>1, <2>2
<1>6. CASE AdmitStep
  <2>1. /\ UNCHANGED <<where, occupied>>
        /\ \A g \in Flows \ {Head(stack).flow} : pinDev'[g] = pinDev[g]
    BY <1>0, <1>6 DEF AdmitStep, AdmitAggregate, AdmitReserved, timerVars, EngineTypeOK
  <2>2. Head(stack).flow \notin admitted
    BY <1>6 DEF AdmitStep, AdmitAggregate, AdmitReserved, Pending, Known, ShapeInv,
       Entries, EntryOps
  <2> QED
    BY <1>0, <2>1, <2>2 DEF OccupiedExact, Reserved
<1>7. CASE PolicyAnswer \/ UNCHANGED vars
  BY <1>1, <1>7, AnswerFrame DEF vars, engineVars, flowVars, stepVars, timerVars
<1>8. CASE TriggerStep
  BY <1>1, <1>8 DEF TriggerStep, Arrival, TickTimer, GapEnd, EnterDevice, EntryVoid,
     DecodeToken, IntervalEnd, flowVars, stepVars, timerVars
<1>9. CASE Reoffer \/ AdmitRefused \/ ScheduleRefused \/ PreemptRefused \/ Degrade
  BY <1>1, <1>9 DEF Reoffer, AdmitRefused, ScheduleRefused, PreemptRefused, Raise,
     Degrade, flowVars, stepVars, timerVars
<1> QED
  BY <1>3, <1>4, <1>5, <1>6, <1>7, <1>8, <1>9 DEF Next, EngineStep, HandlingStep

\* The idle metric is charged from the pins whose flows are not resident.
THEOREM OccupiedHolds == Spec => []OccupiedExact
<1>1. Init => OccupiedExact
  BY DEF Init, OccupiedExact
<1> QED
  BY <1>1, OccupiedKept, KnownAll, PTL DEF Spec

\* Under the discipline four books agree: what the policy believes is running,
\* what the engine has resident, the memory the devices have booked, and the
\* occupied pins (BooksAgree).
THEOREM BooksHold == Spec => []BooksAgree
<1>1. ASSUME Known, BooksInv PROVE RunningExact
  <2> DEFINE R == UNION {BestEffort(d) : d \in Devices}
  <2> DEFINE Entry(f) == [flow |-> f, step |-> Step(f), dev |-> where[f]]
  <2> SUFFICES ASSUME Idle PROVE running = {Entry(f) : f \in R}
    BY DEF RunningExact, BooksMatch
  <2>1. Calls(stack) = {} /\ Evicted = {}
    BY <1>1, IdleBooks
  <2>2. /\ running \subseteq [flow : Flows, step : Nat, dev : Devices]
        /\ where \in [Flows -> 0..NumDevices]
    BY <1>1 DEF Known, ReservationInv, PolicyTypeOK, EngineInv, EngineTypeOK
  <2>3. \A f : f \in R <=> f \in Flows /\ where[f] # NoDevice /\ ~Reserved(f)
    BY <2>2 DEF BestEffort, Resident, Devices, NoDevice
  <2>4. ASSUME NEW v \in running PROVE v \in {Entry(f) : f \in R}
    <3>1. v \in [flow : Flows, step : Nat, dev : Devices]
      BY <2>2
    <3>2. where[v.flow] = v.dev /\ v.step = Step(v.flow) /\ ~Reserved(v.flow)
      BY <1>1, <2>1 DEF BooksInv, RunningTracks, OnItsDevice, Placed, Completed
    <3>3. v.flow \in R
      BY <2>3, <3>1, <3>2 DEF Devices, NoDevice
    <3>4. v = Entry(v.flow)
      BY <3>1, <3>2
    <3> QED
      BY <3>3, <3>4
  <2>5. ASSUME NEW f \in R PROVE Entry(f) \in running
    BY <1>1, <2>1, <2>3 DEF BooksInv, RunningTracks, OnDevices
  <2> HIDE DEF R, Entry
  <2> QED
    BY <2>4, <2>5
<1> QED
  BY <1>1, KnownAll, BooksInvHolds, AccountingHolds, OccupiedHolds, PTL DEF BooksAgree

-----------------------------------------------------------------------------
(* The ledger of the policy is the pins of the engine.                     *)

\* The calls that enter a flow into the ledger, or take it out.
Notices(s) == {t \in Tasks(s) : t.op \in {"Admit", "InvocationComplete"}}
Admitting(s, f) ==
    \E t \in Notices(s) : t.op = "Admit" /\ t.flow = f /\ t.dev # NoDevice
Ending(s, f) == \E t \in Notices(s) : t.op = "InvocationComplete" /\ t.flow = f

\* The ledger holds the reserved flows that are not over, those whose admission
\* is pending, and those whose last completion is about to be delivered.
LedgerTracks ==
    /\ \A f \in Flows : Reserved(f) /\ cursor[f] < Len(Work[f]) => f \in ledger
    /\ \A f \in ledger : \/ Reserved(f) /\ cursor[f] < Len(Work[f])
                         \/ Admitting(stack, f)
                         \/ IsComplete(f) /\ Ending(stack, f)
    /\ \A f \in Flows : Admitting(stack, f) => f \in ledger
    /\ Cardinality(ledger) <= SubsetBound

\* A step that neither raises nor takes a notice leaves the ledger tracking.
LEMMA LedgerSame ==
    ASSUME ledger \subseteq Flows, LedgerTracks,
           UNCHANGED <<ledger, pinDev, cursor>>,
           Notices(stack') = Notices(stack)
    PROVE  LedgerTracks'
<1>1. \A f \in Flows : /\ Reserved(f)' = Reserved(f)
                       /\ IsComplete(f)' = IsComplete(f)
                       /\ Admitting(stack', f) = Admitting(stack, f)
                       /\ Ending(stack', f) = Ending(stack, f)
  BY DEF Reserved, IsComplete, Admitting, Ending
<1> QED
  BY <1>1 DEF LedgerTracks

\* The notices of a stack: of its head and of the rest; an answer raises none.
LEMMA NoticesParts ==
    /\ Notices(<<>>) = {}
    /\ \A r : Notices(<<r>>) = {t \in {r} : t.op \in {"Admit", "InvocationComplete"}}
    /\ \A s \in Seq(Task) : s # <<>> =>
           Notices(s) = {t \in {Head(s)} : t.op \in {"Admit", "InvocationComplete"}}
                            \cup Notices(Tail(s))
    /\ \A a, b \in Seq(Task) : PlainAnswer(a) => Notices(a \o b) = Notices(b)
<1>1. Notices(<<>>) = {}
  BY TasksParts DEF Notices
<1>2. \A r : Notices(<<r>>) = {t \in {r} : t.op \in {"Admit", "InvocationComplete"}}
  BY TasksParts DEF Notices
<1>3. ASSUME NEW s \in Seq(Task), s # <<>>
      PROVE  Notices(s) = {t \in {Head(s)} : t.op \in {"Admit", "InvocationComplete"}}
                              \cup Notices(Tail(s))
  <2>1. Tasks(s) = {Head(s)} \cup Tasks(Tail(s))
    BY <1>3, TasksParts
  <2> QED
    BY <2>1 DEF Notices
<1>4. ASSUME NEW a \in Seq(Task), NEW b \in Seq(Task), PlainAnswer(a)
      PROVE  Notices(a \o b) = Notices(b)
  <2>1. Tasks(a \o b) = Tasks(a) \cup Tasks(b)
    BY TasksParts
  <2>2. \A t \in Tasks(a) : t.op \in {"Schedule", "Preempt", "Degrade"}
    BY <1>4 DEF PlainAnswer, Tasks
  <2> QED
    BY <2>1, <2>2 DEF Notices
<1> QED
  BY <1>1, <1>2, <1>3, <1>4

\* A grant enters the flow into the ledger and has its admission pending.
LEMMA LedgerGrants ==
    ASSUME Known, BooksInv, LedgerTracks, GrantReservation \/ GrantAggregate
    PROVE  LedgerTracks'
<1> DEFINE f == Head(stack).flow
<1>1. /\ ReservationInv /\ EngineInv /\ ledger \in SUBSET Flows /\ stack \in Seq(Task)
  BY DEF Known, ReservationInv, PolicyTypeOK, EngineInv, EngineTypeOK
<1>2. /\ stack # <<>> /\ Head(stack).op = "FlowArrival" /\ f \in Flows
  BY <1>1, Grants
<1>3. PICK d \in 0..NumDevices :
        /\ TaskOf("Admit", f, 0, d) \in Task
        /\ Respond(<<TaskOf("Admit", f, 0, d)>>)
        /\ \/ d = NoDevice /\ ledger' = ledger
           \/ /\ d \in PinDevices(f) /\ ledger' = ledger \cup {f}
              /\ Cardinality(ledger) < SubsetBound
  BY <1>1, Grants
<1> DEFINE r == TaskOf("Admit", f, 0, d)
<1>4. /\ r.op = "Admit" /\ r.flow = f /\ r.dev = d
      /\ UNCHANGED <<cursor, pinDev>> /\ stack' = <<r>> \o Tail(stack)
  BY <1>3 DEF Respond, TaskOf, stepVars, flowVars
<1> HIDE DEF f, r
<1>5. Tasks(stack') = {r} /\ Tasks(stack) = {Head(stack)}
  <2>1. r \in Task
    BY <1>3 DEF r
  <2> QED
    BY <1>1, <1>2, <1>4, <2>1, EntryShape DEF Known, EntryOps
<1>6. Notices(stack) = {} /\ Notices(stack') = {r}
  BY <1>2, <1>4, <1>5 DEF Notices
<1>7. /\ \A g : ~Admitting(stack, g) /\ ~Ending(stack, g)
      /\ \A g : Admitting(stack', g) <=> g = f /\ d # NoDevice
  BY <1>4, <1>6 DEF Admitting, Ending
<1>8. \A g \in Flows : Reserved(g)' = Reserved(g)
  BY <1>4 DEF Reserved
<1>9. ledger \subseteq ledger' /\ ledger' \subseteq ledger \cup {f}
      /\ (d # NoDevice <=> f \in ledger' /\ ledger' = ledger \cup {f})
  <2>1. f \notin ledger
    <3>1. f \notin admitted
      BY <1>2 DEF Known, ShapeInv, Entries, EntryOps, f
    <3> QED
      BY <1>2, <1>7, <3>1 DEF LedgerTracks, Known, PinsInv, ReservedAdmitted
  <2>2. \A e \in PinDevices(f) : e # NoDevice
    BY DEF PinDevices, Devices, NoDevice
  <2> QED
    BY <1>3, <2>1, <2>2
<1>10. Cardinality(ledger') <= SubsetBound
  <2>1. CASE ledger' = ledger
    BY <2>1 DEF LedgerTracks
  <2>2. CASE /\ ledger' = ledger \cup {f} /\ Cardinality(ledger) < SubsetBound
    <3>1. IsFiniteSet(ledger) /\ Cardinality(ledger) \in Nat
      BY <1>1, FlowsCounted
    <3>2. Cardinality(ledger') <= Cardinality(ledger) + 1
      BY <2>2, <3>1, FS_AddElement
    <3>3. IsFiniteSet(ledger') /\ Cardinality(ledger') \in Nat
      BY <1>1, <1>2, <2>2, FlowsCounted
    <3>4. SubsetBound \in Int
      BY PolicyAssumption, SizesAssumption DEF SubsetBound, TotalSlots
    <3> QED
      BY <2>2, <3>1, <3>2, <3>3, <3>4
  <2> QED
    BY <1>3, <2>1, <2>2
<1>11. SubsetBound' = SubsetBound
  BY DEF SubsetBound, TotalSlots
<1> QED
  BY <1>1, <1>2, <1>4, <1>7, <1>8, <1>9, <1>10, <1>11 DEF LedgerTracks

\* An admission executed turns the pending entry into a reserved flow.
LEMMA LedgerAdmits ==
    ASSUME Known, BooksInv, LedgerTracks, AdmitStep, UNCHANGED policyVars
    PROVE  LedgerTracks'
<1>1. /\ ReservationInv /\ EngineInv /\ EngineTypeOK /\ ledger \subseteq Flows
      /\ stack \in Seq(Task) /\ stack # <<>> /\ Head(stack).op = "Admit"
      /\ Head(stack).flow \in Flows /\ Head(stack).dev \in 0..NumDevices
  <2>1. EngineInv /\ ReservationInv /\ ledger \subseteq Flows
    BY DEF Known, ReservationInv, PolicyTypeOK
  <2>2. Pending("Admit")
    BY DEF AdmitStep, AdmitAggregate, AdmitReserved
  <2>3. Head(stack).flow \in Flows /\ Head(stack).dev \in 0..NumDevices
    BY <2>1, <2>2, ActionType DEF ActionOps
  <2> QED
    BY <2>1, <2>2, <2>3 DEF Pending, EngineInv, EngineTypeOK
<1>2. PICK f \in Flows, d \in 0..NumDevices : f = Head(stack).flow /\ d = Head(stack).dev
  BY <1>1
<1>3. /\ f \notin admitted /\ cursor[f] = 0 /\ Len(Work[f]) \in Nat /\ Len(Work[f]) > 0
      /\ ~Reserved(f)
  <2>1. f \notin admitted
    BY <1>1, <1>2 DEF Known, ShapeInv, Entries, EntryOps
  <2> QED
    BY <1>1, <2>1, WorkType DEF BooksInv, Untouched, Known, PinsInv, ReservedAdmitted
<1>4. PICK r \in Task : r.op = "InvocationReady" /\ stack' = <<r>> \o Tail(stack)
  <2> DEFINE r == TaskOf("InvocationReady", f, Step(f), NoDevice)
  <2>1. Step(f) \in Nat /\ NoDevice \in 0..NumDevices
    BY <1>1, StepType, SizesAssumption DEF NoDevice
  <2>2. r \in Task
    BY <2>1, TaskOfType DEF EventOps
  <2>3. r.op = "InvocationReady"
    BY DEF TaskOf
  <2>4. stack' = <<r>> \o Tail(stack)
    BY <1>2 DEF AdmitStep, AdmitAggregate, AdmitReserved, OfferNext
  <2> HIDE DEF r
  <2> QED
    BY <2>2, <2>3, <2>4
<1>5. /\ cursor' = cursor /\ ledger' = ledger
      /\ \A g \in Flows \ {f} : pinDev'[g] = pinDev[g]
      /\ pinDev'[f] = IF d = NoDevice THEN pinDev[f] ELSE d
  BY <1>1, <1>2 DEF AdmitStep, AdmitAggregate, AdmitReserved, policyVars, EngineTypeOK
<1>6. Notices(stack) = {Head(stack)} /\ Notices(stack') = {}
  <2>1. Tasks(stack') = {r} /\ Tasks(stack) = {Head(stack)}
    BY <1>1, <1>4, EntryShape DEF Known, EntryOps
  <2> QED
    BY <1>1, <1>4, <2>1 DEF Notices
<1>7. /\ \A g : ~Admitting(stack', g) /\ ~Ending(stack', g) /\ ~Ending(stack, g)
      /\ \A g : Admitting(stack, g) <=> g = f /\ d # NoDevice
  BY <1>1, <1>2, <1>6 DEF Admitting, Ending
<1>8. /\ \A g \in Flows \ {f} : Reserved(g)' = Reserved(g)
      /\ Reserved(f)' <=> d # NoDevice
  BY <1>3, <1>5 DEF Reserved
<1>9. SubsetBound' = SubsetBound
  BY DEF SubsetBound, TotalSlots
<1> QED
  BY <1>1, <1>3, <1>5, <1>7, <1>8, <1>9 DEF LedgerTracks

\* A completion is noticed after the flow has moved on.
LEMMA LedgerCompletes ==
    ASSUME Known, BooksInv, LedgerTracks, NEW f \in Flows, NEW d \in Devices,
           \/ CompleteFlow(f, d) \/ CompleteIntoGap(f, d)
           \/ CompleteIntoNext(f, d) \/ AbandonFlow(f, d),
           UNCHANGED policyVars
    PROVE  LedgerTracks'
<1>1. Completion(f, d)
  BY Completions
<1>2. /\ ledger \subseteq Flows /\ ledger' = ledger /\ stack = <<>>
      /\ cursor[f] \in Nat /\ Len(Work[f]) \in Nat /\ cursor[f] < Len(Work[f])
      /\ \A g \in Flows : Reserved(g)' = Reserved(g)
      /\ \A g \in Flows \ {f} : cursor'[g] = cursor[g]
  <2>1. ledger \subseteq Flows /\ EngineTypeOK /\ StopsOpen
    BY DEF Known, ReservationInv, PolicyTypeOK, EngineInv
  <2>2. cursor[f] < Len(Work[f])
    BY <1>1, <2>1 DEF Completion, StopsOpen, Stop
  <2> QED
    BY <1>1, <2>1, <2>2, WorkType DEF Completion, EngineTypeOK, Reserved, policyVars
<1>3. \/ cursor'[f] = Len(Work[f]) \/ cursor'[f] < Len(Work[f])
  BY <1>1 DEF Completion
<1>4. \/ stack' = <<Done(f)>> \/ stack' = <<Next1(f), Done(f)>>
  BY DEF CompleteFlow, CompleteIntoGap, CompleteIntoNext, AbandonFlow, Done, Next1
<1>5. Notices(stack) = {} /\ Notices(stack') = {Done(f)}
  <2>1. /\ Done(f).op = "InvocationComplete" /\ Next1(f).op = "InvocationReady"
    BY DEF Done, Next1, TaskOf
  <2>2. \A a, b : Tasks(<<a>>) = {a} /\ Tasks(<<a, b>>) = {a, b}
    BY DEF Tasks
  <2>3. Tasks(stack') \subseteq {Next1(f), Done(f)} /\ Done(f) \in Tasks(stack')
    BY <1>4, <2>2
  <2> QED
    BY <1>2, <2>1, <2>3, NoticesParts DEF Notices
<1>6. Done(f).op = "InvocationComplete" /\ Done(f).flow = f
  BY DEF Done, TaskOf
<1>7. /\ \A g : ~Admitting(stack, g) /\ ~Ending(stack, g) /\ ~Admitting(stack', g)
      /\ Ending(stack', f)
  BY <1>5, <1>6 DEF Admitting, Ending
<1>8. SubsetBound' = SubsetBound
  BY DEF SubsetBound, TotalSlots
<1>9. cursor'[f] = Len(Work[f]) => IsComplete(f)'
  BY <1>2 DEF IsComplete
<1> QED
  BY <1>2, <1>3, <1>7, <1>8, <1>9 DEF LedgerTracks

\* A delivered completion takes the flow out of the ledger if it is over.
LEMMA LedgerForgets ==
    ASSUME Known, BooksInv, LedgerTracks, NoteComplete PROVE LedgerTracks'
<1> DEFINE h == Head(stack)
<1> DEFINE f == h.flow
<1>1. /\ ReservationInv /\ EngineTypeOK /\ ledger \in SUBSET Flows
      /\ stack \in Seq(Task) /\ stack # <<>> /\ h.op = "InvocationComplete"
      /\ f \in Flows /\ ledger' = ledger \ OverAt(f)
  <2>1. Pending("InvocationComplete") /\ ledger' = ledger \ OverAt(f)
    BY DEF NoteComplete
  <2>2. EngineTypeOK /\ ReservationInv /\ ledger \in SUBSET Flows
    BY DEF Known, ReservationInv, PolicyTypeOK, EngineInv
  <2>3. f \in Flows
    BY <2>1, <2>2, EventType DEF EventOps
  <2> QED
    BY <2>1, <2>2, <2>3 DEF Pending, EngineTypeOK
<1>2. PICK first \in Seq(Task), s \in Seq(Task) :
        Respond(first \o s) /\ PlainAnswer(first \o s)
  BY <1>1, Drains
<1>3. /\ UNCHANGED <<cursor, pinDev, abandoned>>
      /\ stack' = (first \o s) \o Tail(stack)
  BY <1>2 DEF Respond, stepVars, flowVars
<1>4. /\ Notices(stack) = {h} \cup Notices(Tail(stack))
      /\ Notices(stack') = Notices(Tail(stack))
  <2>1. Tail(stack) \in Seq(Task) /\ first \o s \in Seq(Task)
    BY <1>1, <1>2
  <2> QED
    BY <1>1, <1>2, <1>3, <2>1, NoticesParts
<1> HIDE DEF f, h
<1>5. \A g : /\ Admitting(stack', g) <=> Admitting(stack, g)
             /\ Ending(stack, g) => Ending(stack', g) \/ g = f
  BY <1>1, <1>4 DEF Admitting, Ending, f
<1>6. \A g \in Flows : /\ Reserved(g)' = Reserved(g)
                       /\ IsComplete(g)' = IsComplete(g)
  BY <1>3 DEF Reserved, IsComplete
<1>7. /\ OverAt(f) \subseteq {f} /\ (IsComplete(f) => f \in OverAt(f))
      /\ f \in OverAt(f) => ~(cursor[f] < Len(Work[f]))
  BY <1>1, WorkType DEF OverAt, IsComplete, BooksInv, PinsLive, EngineTypeOK
<1>8. \A g \in Flows : ~Admitting(stack, g)
  <2>1. \A t \in Tasks(Tail(stack)) : t.op = "InvocationComplete"
    BY <1>1, EventCalls DEF EventOps, h
  <2> QED
    BY <1>1, <1>4, <2>1 DEF Admitting, Notices, h
<1>9. Cardinality(ledger') <= SubsetBound
  <2>1. IsFiniteSet(ledger) /\ Cardinality(ledger) \in Nat
    BY <1>1, FlowsCounted
  <2>2. ledger' \subseteq ledger
    BY <1>1
  <2>3. Cardinality(ledger') <= Cardinality(ledger) /\ Cardinality(ledger') \in Nat
    BY <1>1, <2>1, <2>2, FS_Subset, FlowsCounted
  <2>4. SubsetBound \in Int
    BY PolicyAssumption, SizesAssumption DEF SubsetBound, TotalSlots
  <2> QED
    BY <2>1, <2>3, <2>4 DEF LedgerTracks
<1>10. SubsetBound' = SubsetBound
  BY DEF SubsetBound, TotalSlots
<1> QED
  BY <1>1, <1>3, <1>5, <1>6, <1>7, <1>8, <1>9, <1>10 DEF LedgerTracks

\* Every step keeps the ledger tracking the pins.
LEMMA LedgerKept ==
    ASSUME Known, BooksInv, LedgerTracks, [Next]_vars PROVE LedgerTracks'
<1>0. /\ ReservationInv /\ EngineInv /\ ledger \subseteq Flows /\ stack \in Seq(Task)
      /\ Notices(<<>>) = {}
  <2>1. Notices(<<>>) = {}
    BY NoticesParts
  <2> QED
    BY <2>1 DEF Known, ReservationInv, PolicyTypeOK, EngineInv, EngineTypeOK
<1>1. CASE UNCHANGED <<ledger, pinDev, cursor, stack>>
  BY <1>0, <1>1, LedgerSame
<1>2. CASE /\ UNCHANGED <<ledger, pinDev, cursor>> /\ stack = <<>>
           /\ (stack' = <<>> \/ \E r : stack' = <<r>> /\
                   r.op \notin {"Admit", "InvocationComplete"})
  <2>1. Notices(stack') = {}
    BY <1>0, <1>2, NoticesParts
  <2> QED
    BY <1>0, <1>2, <2>1, LedgerSame
<1>3. CASE /\ UNCHANGED <<ledger, pinDev, cursor>> /\ stack # <<>>
           /\ Head(stack).op \notin {"Admit", "InvocationComplete"}
           /\ \/ stack' = Tail(stack)
              \/ \E a \in Seq(Task) : PlainAnswer(a) /\ stack' = a \o Tail(stack)
  <2>1. Tail(stack) \in Seq(Task)
    BY <1>0, <1>3
  <2>2. Notices(stack) = Notices(Tail(stack))
    BY <1>0, <1>3, NoticesParts
  <2>3. Notices(stack') = Notices(Tail(stack))
    <3>1. ASSUME NEW a \in Seq(Task), PlainAnswer(a), stack' = a \o Tail(stack)
          PROVE  Notices(stack') = Notices(Tail(stack))
      <4>1. Notices(a \o Tail(stack)) = Notices(Tail(stack))
        BY <2>1, <3>1, NoticesParts
      <4> QED
        BY <3>1, <4>1
    <3> QED
      BY <1>3, <3>1
  <2> QED
    BY <1>0, <1>3, <2>2, <2>3, LedgerSame
<1>4. CASE TriggerStep /\ UNCHANGED policyVars
  <2>1. CASE Arrival \/ TickTimer \/ \E f \in Flows : GapEnd(f)
    BY <1>2, <1>4, <2>1 DEF Arrival, TickTimer, GapEnd, Idle, TaskOf, flowVars,
       stepVars, policyVars
  <2>2. CASE \/ \E t \in timers : EnterDevice(t) \/ EntryVoid(t)
             \/ \E d \in Devices : DecodeToken(d) \/ IntervalEnd(d)
    BY <1>1, <1>4, <2>2 DEF EnterDevice, EntryVoid, DecodeToken, IntervalEnd, flowVars,
       stepVars, policyVars
  <2> QED
    BY <1>4, <2>1, <2>2 DEF TriggerStep
<1>5. CASE HandlingStep /\ UNCHANGED policyVars
  <2>1. CASE Reoffer
    BY <1>2, <1>5, <2>1 DEF Reoffer, TaskOf, flowVars, stepVars, policyVars
  <2>2. CASE AdmitRefused \/ ScheduleRefused \/ PreemptRefused
    BY <1>1, <1>5, <2>2 DEF AdmitRefused, ScheduleRefused, PreemptRefused, Raise,
       flowVars, stepVars, policyVars
  <2>3. CASE Schedule \/ Preempt \/ Degrade
    BY <1>3, <1>5, <2>3 DEF Schedule, Preempt, Degrade, Pending, flowVars, stepVars,
       policyVars
  <2> QED
    BY <1>5, <2>1, <2>2, <2>3, LedgerCompletes DEF HandlingStep
<1>6. CASE ReadyReserved
  <2>1. /\ UNCHANGED <<ledger, pinDev, cursor>> /\ stack # <<>>
        /\ Head(stack).op = "InvocationReady"
    BY <1>6, AnswerFrame DEF ReadyReserved, Pending, flowVars, stepVars, PolicyAnswer
  <2>2. \E a \in Seq(Task) : PlainAnswer(a) /\ stack' = a \o Tail(stack)
    <3> DEFINE f == Head(stack).flow
    <3> DEFINE d == pinDev[f]
    <3> HIDE DEF f, d
    <3>1. \E a \in Seq(Task) : Respond(a) /\ PlainAnswer(a)
      BY <1>0, <1>6, RestoreAnswers DEF f, d
    <3> QED
      BY <3>1 DEF Respond
  <2> QED
    BY <1>3, <2>1, <2>2
<1>7. CASE ReadyBestEffort \/ OnTick
  <2>1. /\ UNCHANGED <<ledger, pinDev, cursor>> /\ stack # <<>>
        /\ Head(stack).op \in {"InvocationReady", "Tick"}
    BY <1>7, AnswerFrame DEF ReadyBestEffort, OnTick, Pending, flowVars, stepVars,
       PolicyAnswer
  <2>2. \E a \in Seq(Task) : PlainAnswer(a) /\ stack' = a \o Tail(stack)
    <3>1. PICK first \in Seq(Task), s \in Seq(Task) :
            Respond(first \o s) /\ PlainAnswer(first \o s)
      BY <1>0, <1>7, Drains
    <3>2. first \o s \in Seq(Task)
      OBVIOUS
    <3> QED
      BY <3>1, <3>2 DEF Respond
  <2> QED
    BY <1>3, <2>1, <2>2
<1>8. CASE UNCHANGED vars
  BY <1>1, <1>8 DEF vars, engineVars, flowVars, stepVars, policyVars
<1> QED
  BY <1>4, <1>5, <1>6, <1>7, <1>8, LedgerGrants, LedgerAdmits, LedgerForgets
     DEF Next, EngineStep, PolicyAnswer

\* The ledger tracks the pins at any time.
THEOREM LedgerTracksHolds == Spec => []LedgerTracks
<1>1. Init /\ PolicyInit => LedgerTracks
  <2> SUFFICES ASSUME Init, PolicyInit PROVE LedgerTracks
    OBVIOUS
  <2>1. Notices(stack) = {}
    BY NoticesParts DEF Init
  <2>2. ledger = {} /\ \A f \in Flows : ~Reserved(f)
    BY DEF Init, PolicyInit, Reserved
  <2>3. Cardinality(ledger) <= SubsetBound
    <3>1. Cardinality(ledger) = 0
      BY <2>2, FS_EmptySet
    <3>2. SubsetBound \in Nat
      BY PolicyAssumption, SizesAssumption DEF SubsetBound, TotalSlots
    <3> QED
      BY <3>1, <3>2
  <2> QED
    BY <2>1, <2>2, <2>3 DEF LedgerTracks, Admitting
<1> QED
  BY <1>1, LedgerKept, KnownAll, BooksInvHolds, PTL DEF Spec

\* Under the discipline the ledger never exceeds K, and between two triggers it
\* is exactly the pins of the engine (LedgerBacked).
THEOREM LedgerHolds == Spec => []LedgerBacked
<1>1. ASSUME Known, BooksInv, LedgerTracks PROVE LedgerBacked
  <2>1. Cardinality(ledger) <= SubsetBound
    BY <1>1 DEF LedgerTracks
  <2> SUFFICES ASSUME Idle
               PROVE  /\ ledger = UNION {pins[d] : d \in Devices}
                      /\ ledger = {f \in Flows : Reserved(f) /\ ~IsComplete(f)}
                      /\ \A f \in ledger : f \in pins[pinDev[f]]
    BY <2>1 DEF LedgerBacked
  <2>2. /\ EngineTypeOK /\ ledger \subseteq Flows
    BY <1>1 DEF Known, ReservationInv, PolicyTypeOK, EngineInv
  <2>3. Notices(stack) = {}
    BY NoticesParts DEF Idle
  <2>4. \A f \in Flows : f \in ledger <=> Reserved(f) /\ cursor[f] < Len(Work[f])
    BY <1>1, <2>3 DEF LedgerTracks, Admitting, Ending
  <2>5. \A f \in Flows : cursor[f] < Len(Work[f]) <=> ~IsComplete(f)
    BY <2>2, WorkType DEF IsComplete, EngineTypeOK
  <2>6. \A f \in ledger : pinDev[f] \in Devices /\ f \in pins[pinDev[f]]
    BY <1>1, <2>2, <2>4 DEF BooksInv, PinsLive, Reserved, EngineTypeOK, Devices, NoDevice
  <2>7. ASSUME NEW d \in Devices, NEW f \in pins[d] PROVE f \in ledger
    <3>1. f \in Flows /\ pinDev[f] = d /\ cursor[f] < Len(Work[f])
      BY <1>1, <2>2 DEF BooksInv, PinsLive, Known, PinsInv, PinsHome, EngineTypeOK
    <3>2. Reserved(f)
      BY <3>1 DEF Reserved, Devices, NoDevice
    <3> QED
      BY <2>4, <3>1, <3>2
  <2>8. ledger = UNION {pins[d] : d \in Devices}
    BY <2>6, <2>7
  <2>9. ledger = {f \in Flows : Reserved(f) /\ ~IsComplete(f)}
    BY <2>2, <2>4, <2>5
  <2> QED
    BY <2>6, <2>8, <2>9
<1> QED
  BY <1>1, KnownAll, BooksInvHolds, LedgerTracksHolds, PTL

-----------------------------------------------------------------------------
(* The discipline implements its contract, step by step.                   *)

\* The host a flow is entitled to: that of its live pin.
EntitledAt(f) == IF pinDev[f] # NoDevice /\ f \in pins[pinDev[f]]
                 THEN pinDev[f] ELSE NoDevice

\* A placement begins the work of a client on its host.
LEMMA ScheduleBegins ==
    ASSUME Known, BooksInv, Schedule
    PROVE  Contract!Next
<1>0. /\ EngineInv /\ EngineTypeOK /\ where \in [Flows -> 0..NumDevices]
  BY DEF Known, ReservationInv, EngineInv, EngineTypeOK
<1>1. PICK f \in Flows, d \in Devices :
        /\ f = Head(stack).flow /\ d = Head(stack).dev /\ Schedulable(f, d)
  <2>1. Head(stack).flow \in Flows
    BY <1>0, ActionType DEF Schedule, ActionOps
  <2>2. Schedulable(Head(stack).flow, Head(stack).dev)
    BY DEF Schedule
  <2> QED
    BY <2>1, <2>2 DEF Schedulable
<1>2. /\ where' = [where EXCEPT ![f] = d]
      /\ UNCHANGED <<admitted, pinDev, pins, cursor>>
  BY <1>1 DEF Schedule, flowVars
<1>3. f \in admitted
  BY <1>0, <1>1 DEF Schedule, Pending, Known, KnownInv, KnownAdmitted, OfferedIn, ReadyOps,
     EngineTypeOK
<1>4. where[f] = NoDevice /\ ~(cursor[f] >= Len(Work[f]))
  <2>1. phase[f] # "COMPLETE" /\ where[f] = NoDevice
    BY <1>0, <1>1 DEF Schedulable, EngineInv, ResidentIsPlaced
  <2>2. cursor[f] < Len(Work[f])
    BY <1>0, <2>1, OpenType
  <2> QED
    BY <1>0, <2>1, <2>2, WorkType DEF EngineTypeOK
<1>5. EntitledAt(f) \in {NoDevice, d}
  BY <1>1 DEF EntitledAt, Schedulable, PinUsable, Reserved
<1>6. Contract!Begin(f, d)
  BY <1>2, <1>3, <1>4, <1>5 DEF Contract!Begin, Contract!Over, EntitledAt
<1> QED
  BY <1>6 DEF Contract!Next

\* An eviction interrupts a client that is entitled to nothing.
LEMMA PreemptInterrupts ==
    ASSUME Known, BooksInv, Preempt
    PROVE  Contract!Next
<1>0. /\ EngineInv /\ EngineTypeOK /\ stack \in Seq(Task)
  BY DEF Known, ReservationInv, EngineInv, EngineTypeOK
<1>1. PICK f \in Flows : f = Head(stack).flow
  BY <1>0, ActionType DEF Preempt, ActionOps
<1>2. /\ where' = [where EXCEPT ![f] = NoDevice]
      /\ UNCHANGED <<admitted, pinDev, pins, cursor>>
  BY <1>1 DEF Preempt, flowVars
<1>3. where[f] # NoDevice /\ ~Reserved(f)
  <2>1. stack # <<>> /\ Head(stack).op = "Preempt"
    BY DEF Preempt, Pending
  <2>2. Head(stack) \in Calls(stack)
    BY <1>0, <2>1, CallsParts DEF CallOps
  <2>3. f \in Evicted
    BY <1>1, <2>1, <2>2 DEF Evicted
  <2> QED
    BY <2>3 DEF BooksInv, StackNow
<1>4. Contract!Interrupt(f)
  BY <1>2, <1>3 DEF Contract!Interrupt, Reserved
<1> QED
  BY <1>4 DEF Contract!Next

\* A completed invocation is a job finished, an abandoned flow is given up; the
\* entitlement ends with the last job and not before.
LEMMA CompletionEnds ==
    ASSUME Known, BooksInv, NEW f \in Flows, NEW d \in Devices,
           \/ CompleteFlow(f, d) \/ CompleteIntoGap(f, d)
           \/ CompleteIntoNext(f, d) \/ AbandonFlow(f, d),
           UNCHANGED policyVars
    PROVE  Contract!Next
<1>1. Completion(f, d)
  BY Completions
<1>2. /\ EngineTypeOK /\ cursor \in [Flows -> Nat] /\ where[f] # NoDevice
      /\ cursor[f] \in Nat /\ Len(Work[f]) \in Nat /\ cursor[f] < Len(Work[f])
  <2>1. EngineTypeOK /\ StopsOpen
    BY DEF Known, ReservationInv, EngineInv
  <2>2. cursor[f] < Len(Work[f]) /\ where[f] = d
    BY <1>1, <2>1 DEF Completion, StopsOpen, Stop, BooksInv, HomesInv
  <2>3. d # NoDevice
    BY DEF Devices, NoDevice
  <2> QED
    BY <2>1, <2>2, <2>3, WorkType DEF EngineTypeOK
<1>3. /\ where' = [where EXCEPT ![f] = NoDevice] /\ UNCHANGED <<admitted, pinDev>>
      /\ \/ cursor' = [cursor EXCEPT ![f] = @ + 1]
         \/ cursor' = [cursor EXCEPT ![f] = @ + (Len(Work[f]) - cursor[f])]
  BY DEF CompleteFlow, CompleteIntoGap, CompleteIntoNext, AbandonFlow, Advance, Leave,
     flowVars
<1>4. [g \in Flows |-> EntitledAt(g)'] =
          IF cursor'[f] >= Len(Work[f])
          THEN [[g \in Flows |-> EntitledAt(g)] EXCEPT ![f] = NoDevice]
          ELSE [g \in Flows |-> EntitledAt(g)]
  <2>1. CASE cursor'[f] = Len(Work[f])
    <3>1. \A e \in Devices : pins'[e] = IF e = pinDev[f] THEN pins[e] \ {f} ELSE pins[e]
      <4>1. ~(cursor'[f] < Len(Work[f]))
        BY <1>2, <2>1
      <4> QED
        BY <1>1, <4>1 DEF Completion
    <3>2. \A g \in Flows : pinDev[g] # NoDevice => pinDev[g] \in Devices
      BY <1>2 DEF EngineTypeOK, Devices, NoDevice
    <3>3. EntitledAt(f)' = NoDevice
      BY <1>3, <3>1, <3>2 DEF EntitledAt
    <3>4. \A g \in Flows \ {f} : EntitledAt(g)' = EntitledAt(g)
      BY <1>3, <3>1, <3>2 DEF EntitledAt
    <3>5. cursor'[f] >= Len(Work[f])
      BY <1>2, <2>1
    <3> QED
      BY <3>3, <3>4, <3>5
  <2>2. CASE cursor'[f] < Len(Work[f])
    <3>1. pins' = pins
      BY <1>1, <1>2, <2>2 DEF Completion
    <3>2. ~(cursor'[f] >= Len(Work[f]))
      <4>1. cursor'[f] \in Nat
        BY <1>2, <1>3
      <4> QED
        BY <1>2, <2>2, <4>1
    <3>3. \A g \in Flows : EntitledAt(g)' = EntitledAt(g)
      BY <1>3, <3>1 DEF EntitledAt
    <3> QED
      BY <3>2, <3>3
  <2> QED
    BY <1>1, <2>1, <2>2 DEF Completion
<1>5. Contract!Finish(f) \/ Contract!GiveUp(f)
  BY <1>2, <1>3, <1>4 DEF Contract!Finish, Contract!GiveUp, Contract!End, EntitledAt
<1> QED
  BY <1>5 DEF Contract!Next

\* The contract counts and adds up as the discipline does.
LEMMA SameTotals ==
    /\ \A S : Contract!Cardinality(S) = Cardinality(S)
    /\ \A S, size : Contract!Total(S, size) = Total(S, size)
<1>1. ASSUME NEW S PROVE Contract!Cardinality(S) = Cardinality(S)
  BY DEF Contract!Cardinality, Cardinality
<1>2. ASSUME NEW S, NEW size PROVE Contract!Total(S, size) = Total(S, size)
  BY <1>1 DEF Contract!Total, Contract!Units, Contract!UnitsOf, Total, Units, UnitsOf
<1> QED
  BY <1>1, <1>2

\* An admission lets a client in; a reserved one is covered, and one of at most K.
LEMMA AdmissionJoins ==
    ASSUME Known, BooksInv, LedgerTracks, AdmitStep
    PROVE  Contract!Next
<1>1. /\ EngineInv /\ EngineTypeOK /\ stack \in Seq(Task) /\ ledger \in SUBSET Flows
      /\ stack # <<>> /\ Head(stack).op = "Admit"
      /\ Head(stack).flow \in Flows /\ Head(stack).dev \in 0..NumDevices
  <2>1. EngineInv /\ ledger \in SUBSET Flows
    BY DEF Known, ReservationInv, PolicyTypeOK
  <2>2. Pending("Admit")
    BY DEF AdmitStep, AdmitAggregate, AdmitReserved
  <2>3. Head(stack).flow \in Flows /\ Head(stack).dev \in 0..NumDevices
    BY <2>1, <2>2, ActionType DEF ActionOps
  <2> QED
    BY <2>1, <2>2, <2>3 DEF Pending, EngineInv, EngineTypeOK
<1>2. PICK f \in Flows, d \in 0..NumDevices : f = Head(stack).flow /\ d = Head(stack).dev
  BY <1>1
<1>3. /\ f \notin admitted /\ ~Reserved(f)
      /\ \A e \in Devices : f \notin pins[e]
  <2>1. f \notin admitted
    BY <1>1, <1>2 DEF Known, ShapeInv, Entries, EntryOps
  <2>2. ~Reserved(f)
    BY <2>1 DEF Known, PinsInv, ReservedAdmitted
  <2>3. \A e \in Devices : e # NoDevice
    BY DEF Devices, NoDevice
  <2> QED
    BY <2>1, <2>2, <2>3 DEF Known, PinsInv, PinsHome, Reserved
<1>4. admitted' = admitted \cup {f} /\ UNCHANGED <<where, cursor>>
  BY <1>2 DEF AdmitStep, AdmitAggregate, AdmitReserved
<1>5. CASE d = NoDevice
  <2>1. UNCHANGED <<pinDev, pins>>
    BY <1>2, <1>5 DEF AdmitStep, AdmitAggregate, AdmitReserved, deviceVars
  <2>2. Contract!JoinPlain(f)
    BY <1>3, <1>4, <2>1 DEF Contract!JoinPlain
  <2> QED
    BY <2>2 DEF Contract!Next
<1>6. CASE d # NoDevice
  <2>1. d \in Devices
    BY <1>6 DEF Devices, NoDevice
  <2>2. /\ pins' = [pins EXCEPT ![d] = @ \cup {f}] /\ pinDev' = [pinDev EXCEPT ![f] = d]
        /\ CanPin(f, d)
    BY <1>2, <1>6 DEF AdmitStep, AdmitAggregate, AdmitReserved
  <2>3. [g \in Flows |-> EntitledAt(g)'] = [[g \in Flows |-> EntitledAt(g)] EXCEPT ![f] = d]
    <3>1. EntitledAt(f)' = d
      BY <1>1, <1>6, <2>1, <2>2 DEF EntitledAt, EngineTypeOK
    <3>2. \A g \in Flows \ {f} : EntitledAt(g)' = EntitledAt(g)
      <4>1. \A g \in Flows : pinDev[g] # NoDevice => pinDev[g] \in Devices
        BY <1>1 DEF EngineTypeOK, Devices, NoDevice
      <4>2. pins \in [Devices -> SUBSET Flows] /\ pinDev \in [Flows -> 0..NumDevices]
        BY <1>1 DEF EngineTypeOK
      <4> QED
        BY <2>1, <2>2, <4>1, <4>2 DEF EntitledAt
    <3> QED
      BY <3>1, <3>2
  <2>4. {g \in Flows : EntitledAt(g) = d} = pins[d]
    <3>1. pins[d] \subseteq Flows /\ \A g \in pins[d] : pinDev[g] = d
      BY <1>1, <2>1 DEF Known, PinsInv, PinsHome, EngineTypeOK
    <3> QED
      BY <1>6, <3>1 DEF EntitledAt
  <2>5. Total(pins[d], PinSize) + PinSize[f] <= HbmCap
    BY <2>2 DEF CanPin, HbmCommitted
  <2> DEFINE G == {g \in Flows : EntitledAt(g) # NoDevice}
  <2>6. Cardinality(G) < SubsetBound
    <3>1. Admitting(stack, f)
      <4>1. Notices(stack) = {t \in {Head(stack)} : t.op \in {"Admit", "InvocationComplete"}}
                                 \cup Notices(Tail(stack))
        BY <1>1, NoticesParts
      <4>2. Head(stack) \in Notices(stack)
        BY <1>1, <4>1
      <4> QED
        BY <1>1, <1>2, <1>6, <4>2 DEF Admitting
    <3>2. f \in ledger /\ Cardinality(ledger) <= SubsetBound
      BY <3>1 DEF LedgerTracks
    <3>3. G \subseteq ledger \ {f}
      <4> SUFFICES ASSUME NEW g \in G PROVE g \in ledger \ {f}
        OBVIOUS
      <4>1. g \in Flows /\ Reserved(g) /\ pinDev[g] \in Devices /\ g \in pins[pinDev[g]]
        BY <1>1 DEF EntitledAt, Reserved, EngineTypeOK, Devices, NoDevice
      <4>2. cursor[g] < Len(Work[g])
        BY <4>1 DEF BooksInv, PinsLive
      <4> QED
        BY <1>3, <4>1, <4>2 DEF LedgerTracks
    <3>4. IsFiniteSet(ledger) /\ Cardinality(ledger) \in Nat
      BY <1>1, FlowsCounted
    <3>5. IsFiniteSet(ledger \ {f}) /\ Cardinality(ledger \ {f}) = Cardinality(ledger) - 1
      BY <3>2, <3>4, FS_RemoveElement
    <3>6. Cardinality(G) <= Cardinality(ledger \ {f}) /\ Cardinality(G) \in Nat
      BY <3>3, <3>5, FS_Subset, FlowsCounted
    <3>7. SubsetBound \in Int
      BY PolicyAssumption, SizesAssumption DEF SubsetBound, TotalSlots
    <3> QED
      BY <3>2, <3>4, <3>5, <3>6, <3>7
  <2>7. [e \in Devices |-> HbmCap][d] = HbmCap
    BY <2>1
  <2>8. Contract!JoinEntitled(f, d)
    <3>1. Contract!Grants = G
      BY DEF Contract!Grants, EntitledAt
    <3>2. Contract!EntitledTo(d) = pins[d]
      BY <2>4 DEF Contract!EntitledTo, EntitledAt
    <3>3. Contract!Total(pins[d], PinSize) = Total(pins[d], PinSize)
      BY SameTotals
    <3>4. [g \in Flows |-> IF pinDev[g] # NoDevice /\ g \in pins[pinDev[g]]
                           THEN pinDev[g] ELSE NoDevice]'
              = [[g \in Flows |-> IF pinDev[g] # NoDevice /\ g \in pins[pinDev[g]]
                                  THEN pinDev[g] ELSE NoDevice] EXCEPT ![f] = d]
      BY <2>3 DEF EntitledAt
    <3>5. Contract!Cardinality(Contract!Grants) < SubsetBound
      BY <2>6, <3>1, SameTotals
    <3> HIDE DEF G
    <3> QED
      BY <1>3, <1>4, <2>5, <2>7, <3>2, <3>3, <3>4, <3>5 DEF Contract!JoinEntitled
  <2> QED
    BY <2>1, <2>8 DEF Contract!Next
<1> QED
  BY <1>5, <1>6

\* Every step of the discipline is a step of its contract, or none.
LEMMA StepImplements ==
    ASSUME Known, BooksInv, LedgerTracks, [Next]_vars
    PROVE  [Contract!Next]_Contract!vars
<1>1. CASE UNCHANGED <<admitted, pinDev, pins, where, cursor>>
  BY <1>1 DEF Contract!vars
<1>2. CASE TriggerStep
  BY <1>1, <1>2 DEF TriggerStep, Arrival, TickTimer, GapEnd, EnterDevice, EntryVoid,
     DecodeToken, IntervalEnd, flowVars, stepVars, deviceVars
<1>3. CASE Reoffer \/ AdmitRefused \/ ScheduleRefused \/ PreemptRefused \/ Degrade
  BY <1>1, <1>3 DEF Reoffer, AdmitRefused, ScheduleRefused, PreemptRefused, Raise,
     Degrade, flowVars, stepVars, deviceVars
<1>4. CASE HandlingStep /\ UNCHANGED policyVars
  BY <1>3, <1>4, CompletionEnds, ScheduleBegins, PreemptInterrupts DEF HandlingStep
<1>5. CASE AdmitStep
  BY <1>5, AdmissionJoins
<1>6. CASE PolicyAnswer \/ UNCHANGED vars
  BY <1>1, <1>6, AnswerFrame DEF vars, engineVars, flowVars, stepVars, deviceVars
<1> QED
  BY <1>2, <1>4, <1>5, <1>6 DEF Next, EngineStep

\* The discipline implements the safety part of its contract: its states start as
\* those of the contract, and every step of it is one of the contract or none.
\* That what a client is entitled to is also begun is checked on the runs.
THEOREM ContractSteps == Spec => Contract!Init /\ [][Contract!Next]_Contract!vars
<1>1. Init => Contract!Init
  BY DEF Init, Contract!Init
<1> QED
  BY <1>1, StepImplements, KnownAll, BooksInvHolds, LedgerTracksHolds, PTL DEF Spec

-----------------------------------------------------------------------------
(* What is asked for can be done: nothing raises, what is generated is     *)
(* what budgets are charged for, and whoever waits, waits for room.        *)

\* The placements that are pending, and the best-effort ones of a device.
Placing == {t \in Calls(stack) : t.op = "Schedule"}
BookedOn(d) ==
    {f \in Flows : ~Reserved(f) /\ \E t \in Placing : t.flow = f /\ t.dev = d}
\* What is used of a device, and what will be once they are done.
SlotsAsked(d) == SlotsUsed(d) + Cardinality(BookedOn(d))
HbmAsked(d) == HbmUsed(d) + Total(BookedOn(d), KvNow)

\* A restore is pending alone, but for its evictions, and goes home.
RestoreAlone ==
    /\ \A t \in Placing : Reserved(t.flow) => Placing = {t} /\ t.dev = pinDev[t.flow]
    /\ Evicted # {} => \A t \in Placing : Reserved(t.flow)
    /\ \A t \in Placing : t.dev \in Devices

\* Once its evictions are done, the pin to be restored fits.
RestoreFits ==
    \A t \in Placing : t.flow \in spilled =>
        Total(pins[t.dev] \ spilled, PinSize) + PinSize[t.flow]
            + Total(BestEffort(t.dev) \ Evicted, KvNow) <= HbmCap

\* The best-effort placements pending on a device fit on it together.
BookedFits ==
    \A d \in Devices : BookedOn(d) # {} =>
        SlotsAsked(d) <= MaxSlots /\ HbmAsked(d) <= HbmCap

\* The device of a pending reservation can take the pin.
AdmitFits ==
    \A t \in Tasks(stack) :
        t.op = "Admit" /\ t.dev # NoDevice => CanPin(t.flow, t.dev)

Promises == ~failed /\ RestoreAlone /\ RestoreFits /\ BookedFits /\ AdmitFits

\* The slots and the memory of a device are naturals.
LEMMA UsedType ==
    ASSUME EngineInv, NEW d \in Devices
    PROVE  /\ SlotsUsed(d) \in Nat /\ HbmUsed(d) \in Nat
           /\ MaxSlots \in Nat /\ HbmCap \in Nat
<1>1. IsFiniteSet(pins[d]) /\ IsFiniteSet(BestEffort(d))
  BY PinsFinite, ResidentsFinite DEF EngineInv
<1>2. Cardinality(pins[d]) \in Nat /\ Cardinality(BestEffort(d)) \in Nat
  BY <1>1, FS_CardinalityType
<1>3. beHbm[d] \in Nat /\ Total(pins[d] \ spilled, PinSize) \in Nat
  BY HbmType
<1> QED
  BY <1>2, <1>3, SizesAssumption DEF SlotsUsed, HbmUsed

\* Without a pending placement or admission nothing is promised.
LEMMA NothingPromised ==
    ASSUME ~failed', \A t \in Tasks(stack') : t.op \notin {"Schedule", "Admit"}
    PROVE  Promises'
<1>1. Placing' = {} /\ Evicted' \subseteq Flows
  BY DEF Placing, Calls, Evicted
<1>2. \A d \in Devices : BookedOn(d)' = {}
  BY <1>1 DEF BookedOn
<1>3. RestoreAlone' /\ RestoreFits'
  BY <1>1 DEF RestoreAlone, RestoreFits
<1>4. BookedFits'
  BY <1>2 DEF BookedFits
<1>5. AdmitFits'
  BY DEF AdmitFits
<1> QED
  BY <1>3, <1>4, <1>5 DEF Promises

\* What a grant asks of a device is what the device has.
LEMMA GrantsPromise ==
    ASSUME Known, Promises, GrantReservation \/ GrantAggregate
    PROVE  Promises'
<1>1. /\ stack # <<>> /\ ~failed /\ Head(stack).op = "FlowArrival"
      /\ Head(stack).flow \in Flows
      /\ EngineInv /\ ShapeInv /\ ReservationInv
  BY Grants DEF Known, ReservationInv
<1>0. PICK f \in Flows : f = Head(stack).flow
  BY <1>1
<1>2. PICK d \in 0..NumDevices :
        /\ TaskOf("Admit", f, 0, d) \in Task
        /\ Respond(<<TaskOf("Admit", f, 0, d)>>)
        /\ d = NoDevice \/ d \in PinDevices(f)
  BY <1>0, <1>1, Grants
<1> DEFINE r == TaskOf("Admit", f, 0, d)
<1>3. Tasks(stack') = {r}
  <2>1. stack' = <<r>> \o Tail(stack) /\ Head(stack).op \in EntryOps
    BY <1>1, <1>2 DEF Respond, EntryOps
  <2> HIDE DEF r
  <2> QED
    BY <1>1, <1>2, <2>1, EntryShape DEF r
<1>4. r.op = "Admit" /\ r.flow = f /\ r.dev = d
  BY DEF TaskOf
<1>5. UNCHANGED <<failed, pins, where, pinDev, spilled, beHbm, cursor>>
  BY AnswerFrame DEF PolicyAnswer, flowVars, stepVars, deviceVars
<1> HIDE DEF r
<1>6. d # NoDevice => CanPin(f, d)
  <2> SUFFICES ASSUME d # NoDevice PROVE CanPin(f, d)
    OBVIOUS
  <2>1. /\ d \in Devices /\ FreeSlots(d) > 0
        /\ FreeHbm(d) >= PinSize[f] /\ Pinnable(d) >= PinSize[f]
    BY <1>2 DEF PinDevices
  <2>2. IsFiniteSet(pins[d]) /\ \A g \in pins[d] : PinSize[g] \in Nat
    BY <1>1, <2>1, PinsFinite DEF EngineInv
  <2>3. HbmCommitted(d) \in Nat /\ PinSize[f] \in Nat
    BY <1>1, <2>2, TotalType, PinSizeType DEF HbmCommitted
  <2>4. SlotsUsed(d) \in Nat /\ HbmUsed(d) \in Nat /\ MaxSlots \in Nat /\ HbmCap \in Nat
    BY <1>1, <2>1, UsedType
  <2>5. SlotsUsed(d) < MaxSlots
    BY <2>1, <2>4 DEF FreeSlots
  <2>6. HbmUsed(d) + PinSize[f] <= HbmCap /\ HbmCommitted(d) + PinSize[f] <= HbmCap
    BY <2>1, <2>3, <2>4 DEF FreeHbm, Pinnable
  <2> QED
    BY <2>5, <2>6 DEF CanPin, HasFreeSlot, HbmFits
<1>7. AdmitFits'
  <2>1. CanPin(f, d)' = CanPin(f, d)
    BY <1>5 DEF CanPin, HasFreeSlot, HbmFits, SlotsUsed, HbmUsed, HbmCommitted,
       BestEffort, Resident, Reserved
  <2>2. r.dev # NoDevice => CanPin(r.flow, r.dev)'
    BY <1>4, <1>6, <2>1
  <2> QED
    BY <1>3, <2>2 DEF AdmitFits
<1>8. Placing' = {} /\ Evicted' = {}
  BY <1>3, <1>4 DEF Placing, Calls, CallOps, ReadyOps, Evicted
<1>9. RestoreAlone' /\ RestoreFits' /\ BookedFits'
  <2>1. \A e \in Devices : BookedOn(e)' = {}
    BY <1>8 DEF BookedOn
  <2> QED
    BY <1>8, <2>1 DEF RestoreAlone, RestoreFits, BookedFits
<1> QED
  BY <1>1, <1>5, <1>7, <1>9 DEF Promises

\* While a call is executed no admission is pending, and the ones behind it are
\* pending already.
LEMMA PopCalls ==
    ASSUME EngineInv, ShapeInv, Promises, stack # <<>>,
           Head(stack).op \in {"Schedule", "Preempt", "Degrade"}
    PROVE  /\ Head(stack) \in Task /\ Tail(stack) \in Seq(Task)
           /\ \A t \in Tasks(Tail(stack)) : t.op # "Admit"
           /\ Calls(Tail(stack)) \subseteq Calls(stack)
           /\ Head(stack).op \in CallOps =>
                  Calls(stack) = {Head(stack)} \cup Calls(Tail(stack))
           /\ Head(stack).op = "Degrade" => Calls(stack) = Calls(Tail(stack))
           /\ Head(stack).op # "Preempt" => Evicted = {}
           /\ Head(stack).op = "Schedule" =>
                \A t \in Calls(Tail(stack)) :
                    t.op = "Schedule" => t.flow # Head(stack).flow
<1>1. stack \in Seq(Task) /\ Shape(stack)
  BY DEF EngineInv, EngineTypeOK, ShapeInv
<1>2. Head(stack) \in Task /\ Tail(stack) \in Seq(Task)
  BY <1>1, HeadType
<1>3. /\ \A t \in Tasks(Tail(stack)) :
            /\ t.op \notin EntryOps \cup {"Tick", "InvocationReady"}
            /\ t.op = "Preempt" => Head(stack).op = "Preempt"
            /\ Head(stack).op \in ReadyOps /\ t.op \in ReadyOps =>
                   t.flow # Head(stack).flow
  BY <1>1, ShapePop
<1>4. /\ Calls(stack) = {t \in {Head(stack)} : t.op \in CallOps}
                            \cup Calls(Tail(stack))
      /\ Calls(Tail(stack)) \subseteq Tasks(Tail(stack))
  BY <1>1, CallsParts DEF Calls
<1>5. \A t \in Tasks(Tail(stack)) : t.op # "Admit"
  BY <1>3 DEF EntryOps
<1>6. /\ Calls(Tail(stack)) \subseteq Calls(stack)
      /\ Head(stack).op \in CallOps =>
                  Calls(stack) = {Head(stack)} \cup Calls(Tail(stack))
      /\ Head(stack).op = "Degrade" => Calls(stack) = Calls(Tail(stack))
  BY <1>4 DEF CallOps, ReadyOps
<1>7. Head(stack).op # "Preempt" => Evicted = {}
  BY <1>3, <1>4 DEF Evicted
<1>8. Head(stack).op = "Schedule" =>
                \A t \in Calls(Tail(stack)) :
                    t.op = "Schedule" => t.flow # Head(stack).flow
  BY <1>3, <1>4 DEF ReadyOps
<1> QED
  BY <1>2, <1>5, <1>6, <1>7, <1>8

\* The best-effort memory of a device is the KV of its best-effort residents.
LEMMA MemoryOfResidents ==
    ASSUME EngineInv, AccountingExact, NEW d \in Devices
    PROVE  /\ beHbm[d] = Total(BestEffort(d), KvNow)
           /\ IsFiniteSet(BestEffort(d)) /\ BestEffort(d) \subseteq Flows
           /\ \A f \in BestEffort(d) : KvNow[f] \in Nat /\ KvNow[f] = NextKv(f)
<1>1. /\ IsFiniteSet(BestEffort(d)) /\ BestEffort(d) \subseteq Flows
      /\ \A f \in BestEffort(d) : NextKv(f) \in Nat
  BY ResidentKv
<1>2. \A f \in BestEffort(d) : KvNow[f] = NextKv(f)
  BY <1>1 DEF KvNow
<1>3. beHbm[d] = Total(BestEffort(d), [f \in BestEffort(d) |-> NextKv(f)])
  BY DEF AccountingExact, Accounted, KvOfResidents
<1>4. Total(BestEffort(d), [f \in BestEffort(d) |-> NextKv(f)]) = Total(BestEffort(d), KvNow)
  <2> DEFINE own == [f \in BestEffort(d) |-> NextKv(f)]
  <2>1. \A f \in BestEffort(d) : own[f] = KvNow[f]
    BY <1>2
  <2> HIDE DEF own
  <2>2. Total(BestEffort(d), own) = Total(BestEffort(d), KvNow)
    BY <2>1, TotalSame
  <2> QED
    BY <2>2 DEF own
<1> QED
  BY <1>1, <1>2, <1>3, <1>4

\* An invocation still to be finished has a context to place.
LEMMA OpenKv ==
    ASSUME EngineInv, NEW f \in Open, f \in Flows PROVE NextKv(f) \in Nat
<1>1. cursor[f] < Len(Work[f]) /\ cursor[f] \in Nat /\ Len(Work[f]) \in Nat
  BY WorkType DEF Open, EngineInv, EngineTypeOK
<1>2. phase[f] # "COMPLETE"
  BY <1>1 DEF EngineInv, CompleteIsOver
<1> QED
  BY <1>2, OpenType

\* A placement the policy asked for finds its invocation waiting and its room
\* free: _schedule does not raise.
LEMMA ScheduleAllowed ==
    ASSUME Known, BooksInv, AccountingExact, Promises, Pending("Schedule")
    PROVE  Schedulable(Head(stack).flow, Head(stack).dev)
<1>1. /\ EngineInv /\ ShapeInv /\ EngineTypeOK /\ stack # <<>>
      /\ Head(stack).op = "Schedule" /\ stack \in Seq(Task)
  BY DEF Known, ReservationInv, EngineInv, EngineTypeOK, Pending
<1>2. PICK h \in Task : h = Head(stack)
  BY <1>1, HeadType
<1>3. /\ Calls(stack) = {h} \cup Calls(Tail(stack)) /\ Evicted = {}
  BY <1>1, <1>2, PopCalls DEF CallOps, ReadyOps
<1>4. h \in Calls(stack) /\ h \in Placing /\ h.flow \in Flows
  BY <1>1, <1>2, <1>3, CallType DEF Placing
<1>5. PICK f \in Flows : f = h.flow
  BY <1>4
<1>6. f \in Offered
  BY <1>1, <1>2, <1>4, <1>5 DEF Offered, ReadyOps
<1>7. where[f] = NoDevice /\ f \in Open
  BY <1>6 DEF BooksInv, Located, Partition, OnDevices
<1>8. phase[f] \in {"PENDING", "PREEMPTED"}
  <2>1. cursor[f] < Len(Work[f]) /\ cursor[f] \in Nat /\ Len(Work[f]) \in Nat
    BY <1>1, <1>7, WorkType DEF Open, EngineTypeOK
  <2>2. phase[f] \in Phases /\ phase[f] \notin {"PREFILL", "DECODE"}
    BY <1>1, <1>7 DEF EngineInv, EngineTypeOK, ResidentIsPlaced
  <2>3. phase[f] # "COMPLETE"
    BY <1>1, <2>1 DEF EngineInv, CompleteIsOver
  <2> QED
    BY <2>2, <2>3 DEF Phases
<1>9. PICK d \in Devices : d = h.dev
  BY <1>4 DEF Promises, RestoreAlone
<1>10. SlotsUsed(d) \in Nat /\ HbmUsed(d) \in Nat /\ MaxSlots \in Nat /\ HbmCap \in Nat
  BY <1>1, UsedType
<1>11. CASE Reserved(f)
  <2>1. d = pinDev[f]
    BY <1>4, <1>5, <1>9, <1>11 DEF Promises, RestoreAlone
  <2>2. f \in pins[d]
    BY <1>7, <1>11, <2>1 DEF BooksInv, PinsLive, Open
  <2>3. ASSUME f \in spilled PROVE HbmFits(d, PinSize[f])
    <3>1. Total(pins[d] \ spilled, PinSize) + PinSize[f]
              + Total(BestEffort(d) \ Evicted, KvNow) <= HbmCap
      BY <1>4, <1>5, <1>9, <2>3 DEF Promises, RestoreFits
    <3>2. BestEffort(d) \ Evicted = BestEffort(d)
      BY <1>3
    <3>3. beHbm[d] = Total(BestEffort(d), KvNow)
      BY <1>1, MemoryOfResidents
    <3>4. Total(pins[d] \ spilled, PinSize) \in Nat /\ beHbm[d] \in Nat /\ PinSize[f] \in Nat
      BY <1>1, HbmType, PinSizeType
    <3>5. Total(pins[d] \ spilled, PinSize) + PinSize[f] + beHbm[d] <= HbmCap
      BY <3>1, <3>2, <3>3
    <3> QED
      BY <1>10, <3>4, <3>5 DEF HbmFits, HbmUsed
  <2>4. PinUsable(f, d)
    BY <2>1, <2>2, <2>3 DEF PinUsable
  <2> QED
    BY <1>2, <1>5, <1>8, <1>9, <1>11, <2>4 DEF Schedulable
<1>12. CASE ~Reserved(f)
  <2>1. f \in BookedOn(d)
    BY <1>4, <1>5, <1>9, <1>12 DEF BookedOn
  <2>2. /\ SlotsUsed(d) + Cardinality(BookedOn(d)) <= MaxSlots
        /\ HbmUsed(d) + Total(BookedOn(d), KvNow) <= HbmCap
    BY <2>1 DEF Promises, BookedFits, SlotsAsked, HbmAsked
  <2>3. BookedOn(d) \subseteq Flows /\ BookedOn(d) \subseteq Open
    <3>1. \A g \in BookedOn(d) : g \in Offered
      BY DEF BookedOn, Placing, Offered, ReadyOps
    <3> QED
      BY <3>1 DEF BooksInv, Located, Partition, BookedOn
  <2>4. IsFiniteSet(BookedOn(d)) /\ Cardinality(BookedOn(d)) \in Nat
    BY <2>3, FlowsCounted
  <2>5. Cardinality(BookedOn(d)) >= 1
    <3>1. Cardinality(BookedOn(d)) # 0
      BY <2>1, <2>4, FS_EmptySet
    <3> QED
      BY <2>4, <3>1
  <2>6. \A g \in BookedOn(d) : KvNow[g] \in Nat /\ KvNow[g] = NextKv(g)
    <3>1. ASSUME NEW g \in BookedOn(d) PROVE NextKv(g) \in Nat /\ g \in Flows
      BY <1>1, <2>3, OpenKv
    <3> QED
      BY <3>1 DEF KvNow
  <2>7. KvNow[f] <= Total(BookedOn(d), KvNow) /\ Total(BookedOn(d), KvNow) \in Nat
    BY <2>1, <2>4, <2>6, TotalBounds, TotalType
  <2>8. HasFreeSlot(d)
    BY <1>10, <2>2, <2>4, <2>5 DEF HasFreeSlot
  <2>9. HbmFits(d, NextKv(f))
    <3>1. KvNow[f] \in Nat /\ KvNow[f] = NextKv(f)
      BY <2>1, <2>6
    <3>2. HbmUsed(d) + KvNow[f] <= HbmCap
      BY <1>10, <2>2, <2>7, <3>1
    <3> QED
      BY <3>1, <3>2 DEF HbmFits
  <2>10. CanPlace(f, d)
    BY <2>8, <2>9 DEF CanPlace
  <2> QED
    BY <1>2, <1>5, <1>8, <1>9, <1>12, <2>10 DEF Schedulable
<1> QED
  BY <1>11, <1>12

\* A victim the policy names is resident and carries no guarantee: _preempt does
\* not raise.
LEMMA PreemptAllowed ==
    ASSUME Known, BooksInv, Promises, Pending("Preempt")
    PROVE  /\ Preemptible(Head(stack).flow, Head(stack).step)
           /\ Head(stack).flow \in Evicted /\ ~Reserved(Head(stack).flow)
           /\ where[Head(stack).flow] \in Devices
<1>1. /\ EngineInv /\ ShapeInv /\ EngineTypeOK /\ stack # <<>>
      /\ Head(stack).op = "Preempt" /\ stack \in Seq(Task)
  BY DEF Known, ReservationInv, EngineInv, EngineTypeOK, Pending
<1>2. PICK h \in Task : h = Head(stack)
  BY <1>1, HeadType
<1>3. h \in Calls(stack) /\ h.op = "Preempt"
  <2>1. Calls(stack) = {h} \cup Calls(Tail(stack))
    BY <1>1, <1>2, PopCalls DEF CallOps
  <2> QED
    BY <1>1, <1>2, <2>1
<1>4. PICK f \in Flows : f = h.flow
  BY <1>1, <1>3, CallType
<1>5. f \in Evicted
  BY <1>3, <1>4 DEF Evicted
<1>6. h.step = Step(f) /\ where[f] # NoDevice /\ ~Reserved(f)
  BY <1>3, <1>4, <1>5 DEF BooksInv, StackNow
<1>7. phase[f] \in {"PREFILL", "DECODE"}
  BY <1>1, <1>6 DEF EngineInv, ResidentIsPlaced
<1>8. where[f] \in Devices
  <2>1. where[f] \in 0..NumDevices /\ NumDevices \in Nat
    BY <1>1, SizesAssumption DEF EngineTypeOK
  <2> QED
    BY <1>6, <2>1 DEF NoDevice, Devices
<1> QED
  BY <1>2, <1>4, <1>5, <1>6, <1>7, <1>8 DEF Preemptible

\* A reservation the policy grants is new, and its device can take the pin:
\* Device.pin_flow does not raise.
LEMMA AdmitAllowed ==
    ASSUME Known, Promises, Pending("Admit")
    PROVE  ~AdmitRefused
<1> SUFFICES ASSUME AdmitRefused PROVE FALSE
  OBVIOUS
<1>1. /\ EngineInv /\ EngineTypeOK /\ PinsInv /\ stack # <<>>
      /\ Head(stack).op = "Admit" /\ stack \in Seq(Task)
  BY DEF Known, ReservationInv, EngineInv, EngineTypeOK, Pending
<1>2. PICK h \in Task : h = Head(stack)
  BY <1>1, HeadType
<1>3. h \in Tasks(stack) /\ h.dev # NoDevice /\ (h.flow \in pins[h.dev] \/ ~CanPin(h.flow, h.dev))
  <2>1. h \in Tasks(stack)
    BY <1>1, <1>2, TasksParts
  <2> QED
    BY <1>2, <2>1 DEF AdmitRefused
<1>4. CanPin(h.flow, h.dev)
  BY <1>1, <1>2, <1>3 DEF Promises, AdmitFits
<1>5. h.flow \in pins[h.dev]
  BY <1>3, <1>4
<1>6. h.flow \in Flows /\ h.dev \in Devices
  <2>1. h.flow \in Flows /\ h.dev \in 0..NumDevices /\ NumDevices \in Nat
    BY <1>1, <1>2, ActionType, SizesAssumption DEF ActionOps
  <2> QED
    BY <1>3, <2>1 DEF NoDevice, Devices
<1>7. h.flow \in admitted
  BY <1>3, <1>5, <1>6, <1>1 DEF PinsInv, PinsHome, ReservedAdmitted, Reserved
<1>8. h.flow \notin admitted
  <2>1. PICK i \in 1..Len(stack) : stack[i] = h
    BY <1>3 DEF Tasks
  <2> QED
    BY <1>1, <1>2, <2>1 DEF PinsInv, AdmitsOnce
<1> QED
  BY <1>7, <1>8

\* Behind a call nothing else has been promised: a degradation changes nothing.
LEMMA DegradePromises ==
    ASSUME Known, Promises, Degrade PROVE Promises'
<1>1. /\ EngineInv /\ ShapeInv /\ stack # <<>> /\ ~failed
      /\ Head(stack).op = "Degrade" /\ stack' = Tail(stack)
      /\ UNCHANGED <<failed, pins, where, pinDev, spilled, beHbm, cursor>>
  BY DEF Known, ReservationInv, Degrade, Pending, deviceVars
<1>2. Calls(stack') = Calls(stack) /\ \A t \in Tasks(stack') : t.op # "Admit"
  BY <1>1, PopCalls
<1>3. Placing' = Placing /\ Evicted' = Evicted
  BY <1>2 DEF Placing, Evicted
<1>4. \A d : /\ BestEffort(d)' = BestEffort(d) /\ SlotsUsed(d)' = SlotsUsed(d)
             /\ HbmUsed(d)' = HbmUsed(d) /\ BookedOn(d)' = BookedOn(d)
  BY <1>1, <1>3 DEF BestEffort, Resident, Reserved, SlotsUsed, HbmUsed, BookedOn
<1>5. KvNow' = KvNow
  BY <1>1 DEF KvNow, NextKv, Step
<1>6. RestoreAlone'
  BY <1>1, <1>3 DEF Promises, RestoreAlone, Reserved
<1>7. RestoreFits'
  BY <1>1, <1>3, <1>4, <1>5 DEF Promises, RestoreFits
<1>8. BookedFits'
  BY <1>4, <1>5 DEF Promises, BookedFits, SlotsAsked, HbmAsked
<1>9. AdmitFits'
  BY <1>2 DEF AdmitFits
<1> QED
  BY <1>1, <1>6, <1>7, <1>8, <1>9 DEF Promises

\* A victim's place is freed and no longer counted on: what it leaves behind is
\* what was promised without it.
LEMMA PreemptPromises ==
    ASSUME Known, BooksInv, Promises, Preempt PROVE Promises'
<1>1. /\ EngineInv /\ ShapeInv /\ EngineTypeOK /\ stack # <<>> /\ ~failed
      /\ Head(stack).op = "Preempt" /\ Pending("Preempt") /\ stack' = Tail(stack)
      /\ UNCHANGED <<failed, pins, pinDev, spilled, cursor>>
  BY DEF Known, ReservationInv, EngineInv, Preempt, Pending, flowVars
<1>2. PICK h \in Task : h = Head(stack)
  BY <1>1, PopCalls
<1>3. /\ h.flow \in Evicted /\ ~Reserved(h.flow)
      /\ Calls(stack) = {h} \cup Calls(stack')
      /\ \A t \in Tasks(stack') : t.op # "Admit"
  BY <1>1, <1>2, PreemptAllowed, PopCalls DEF CallOps
<1>4. PICK f \in Flows : f = h.flow
  BY <1>3 DEF Evicted
<1>5. where' = [where EXCEPT ![f] = NoDevice]
  BY <1>2, <1>4 DEF Preempt
<1>6. Placing' = Placing
  BY <1>1, <1>2, <1>3 DEF Placing
<1>7. Evicted' = Evicted \ {f}
  <2>1. \A t \in Calls(stack') : t.op = "Preempt" => t.flow # f
    BY <1>1, <1>2, <1>4, PreemptOncePop DEF EngineTypeOK, BooksInv, StackNow, Calls
  <2> QED
    BY <1>1, <1>2, <1>3, <1>4, <2>1 DEF Evicted
<1>8. \A t \in Placing : Reserved(t.flow)
  BY <1>3 DEF Promises, RestoreAlone
<1>9. RestoreAlone'
  BY <1>1, <1>6, <1>7, <1>8 DEF Promises, RestoreAlone, Reserved
<1>10. KvNow' = KvNow
  BY <1>1 DEF KvNow, NextKv, Step
<1>11. \A d \in Devices : BestEffort(d)' \ Evicted' = BestEffort(d) \ Evicted
  <2> TAKE d \in Devices
  <2>1. f \notin BestEffort(d)' /\ \A g \in Flows \ {f} : where'[g] = where[g]
    BY <1>1, <1>5 DEF EngineTypeOK, BestEffort, Resident, NoDevice, Devices
  <2>2. BestEffort(d)' \subseteq Flows /\ BestEffort(d) \subseteq Flows
    BY DEF BestEffort, Resident
  <2>3. \A g \in Flows \ {f} : g \in BestEffort(d)' <=> g \in BestEffort(d)
    BY <1>1, <2>1 DEF BestEffort, Resident, Reserved
  <2>4. f \in Evicted
    BY <1>3, <1>4
  <2> QED
    BY <1>7, <2>1, <2>2, <2>3, <2>4
<1>12. RestoreFits'
  <2> SUFFICES ASSUME NEW t \in Placing, t.flow \in spilled
               PROVE  Total(pins[t.dev] \ spilled, PinSize) + PinSize[t.flow]
                          + Total(BestEffort(t.dev)' \ Evicted', KvNow) <= HbmCap
    BY <1>1, <1>6, <1>10 DEF RestoreFits
  <2>1. t.dev \in Devices
    BY DEF Promises, RestoreAlone
  <2>2. BestEffort(t.dev)' \ Evicted' = BestEffort(t.dev) \ Evicted
    BY <1>11, <2>1
  <2> QED
    BY <2>2 DEF Promises, RestoreFits
<1>13. BookedFits'
  <2>1. \A d : BookedOn(d)' = {}
    BY <1>1, <1>6, <1>8 DEF BookedOn, Reserved
  <2> QED
    BY <2>1 DEF BookedFits
<1>14. AdmitFits'
  BY <1>3 DEF AdmitFits
<1> QED
  BY <1>1, <1>9, <1>12, <1>13, <1>14 DEF Promises

\* What is booked on a device, and what is asked of it, can be counted.
LEMMA BookedType ==
    ASSUME Known, BooksInv, NEW d \in Devices
    PROVE  /\ IsFiniteSet(BookedOn(d)) /\ Cardinality(BookedOn(d)) \in Nat
           /\ \A g \in BookedOn(d) : KvNow[g] \in Nat
           /\ SlotsAsked(d) \in Nat /\ HbmAsked(d) \in Nat
<1>1. EngineInv
  BY DEF Known, ReservationInv
<1>2. \A g \in BookedOn(d) : KvNow[g] \in Nat
  <2> TAKE g \in BookedOn(d)
  <2>1. g \in Offered /\ g \in Flows
    BY DEF BookedOn, Placing, Offered, ReadyOps
  <2>2. g \in Open
    BY <2>1 DEF BooksInv, Located, Partition
  <2> QED
    BY <1>1, <2>1, <2>2, OpenKv DEF KvNow
<1>3. IsFiniteSet(BookedOn(d)) /\ Cardinality(BookedOn(d)) \in Nat
  <2>1. BookedOn(d) \in SUBSET Flows
    BY DEF BookedOn
  <2> QED
    BY <2>1, FlowsCounted
<1>4. Total(BookedOn(d), KvNow) \in Nat
  BY <1>2, <1>3, TotalType
<1>5. SlotsUsed(d) \in Nat /\ HbmUsed(d) \in Nat
  BY <1>1, UsedType
<1> QED
  BY <1>2, <1>3, <1>4, <1>5 DEF SlotsAsked, HbmAsked

\* A best-effort placement that is done takes what was counted on for it.
LEMMA ScheduleMoves ==
    ASSUME Known, BooksInv, Promises, Schedule, ~Reserved(Head(stack).flow)
    PROVE  /\ KvNow' = KvNow
           /\ \A e \in Devices : /\ SlotsAsked(e)' = SlotsAsked(e)
                                 /\ HbmAsked(e)' = HbmAsked(e)
                                 /\ BookedOn(e)' \subseteq BookedOn(e)
<1>1. /\ EngineInv /\ ShapeInv /\ EngineTypeOK /\ stack # <<>> /\ ~failed
      /\ Head(stack).op = "Schedule" /\ stack' = Tail(stack)
      /\ UNCHANGED <<failed, pins, pinDev, cursor>>
  BY DEF Known, ReservationInv, EngineInv, Schedule, Pending, flowVars
<1>2. PICK h \in Task : h = Head(stack)
  BY <1>1, PopCalls
<1>3. /\ Evicted = {} /\ Calls(stack) = {h} \cup Calls(stack')
      /\ \A t \in Calls(stack') : t.op = "Schedule" => t.flow # h.flow
      /\ \A t \in Tasks(stack') : t.op # "Admit"
  BY <1>1, <1>2, PopCalls DEF CallOps, ReadyOps
<1>4. h \in Calls(stack) /\ h.op = "Schedule" /\ h \in Placing /\ h.flow \in Flows
  BY <1>1, <1>2, <1>3, CallType DEF Placing, EngineTypeOK
<1>5. PICK f \in Flows : f = h.flow
  BY <1>4
<1>6. PICK d \in Devices : d = h.dev
  BY <1>4 DEF Promises, RestoreAlone
<1>7. Placing = {h} \cup Placing' /\ h \notin Placing' /\ Evicted' = {}
      /\ \A t \in Placing' : t.flow # f
  BY <1>3, <1>4, <1>5 DEF Placing, Evicted
<1>8. ~Reserved(f)
  BY <1>2, <1>5
<1>9. /\ spilled' = spilled /\ where' = [where EXCEPT ![f] = d]
      /\ beHbm' = [beHbm EXCEPT ![d] = @ + NextKv(f)]
  BY <1>2, <1>5, <1>6, <1>8 DEF Schedule, AfterRestore
<1>10. KvNow' = KvNow /\ KvNow[f] = NextKv(f)
  BY <1>1 DEF KvNow, NextKv, Step
<1>11. \A e \in Devices \ {d} : /\ SlotsUsed(e)' = SlotsUsed(e)
                               /\ HbmUsed(e)' = HbmUsed(e)
                               /\ BookedOn(e)' = BookedOn(e)
  <2> TAKE e \in Devices \ {d}
  <2>1. BestEffort(e)' = BestEffort(e)
    <3>1. \A g \in Flows : where'[g] = e <=> where[g] = e
      <4>1. f \in Offered
        BY <1>4, <1>5 DEF Offered, ReadyOps
      <4>2. where[f] = NoDevice
        BY <4>1 DEF BooksInv, Located, Partition, OnDevices
      <4>3. where \in [Flows -> 0..NumDevices] /\ e # d /\ e # NoDevice
        BY <1>1, SizesAssumption DEF EngineTypeOK, NoDevice, Devices
      <4> QED
        BY <1>9, <4>2, <4>3
    <3> QED
      BY <1>1, <3>1 DEF BestEffort, Resident, Reserved
  <2>2. beHbm'[e] = beHbm[e]
    BY <1>1, <1>9 DEF EngineTypeOK
  <2>3. \A g \in Flows : (\E t \in Placing' : t.flow = g /\ t.dev = e)
                            <=> (\E t \in Placing : t.flow = g /\ t.dev = e)
    BY <1>6, <1>7
  <2>4. BookedOn(e)' = BookedOn(e)
    BY <1>1, <2>3 DEF BookedOn, Reserved
  <2> QED
    BY <1>1, <1>9, <2>1, <2>2, <2>4 DEF SlotsUsed, HbmUsed
<1>12. BookedOn(d)' = BookedOn(d) \ {f} /\ f \in BookedOn(d)
  <2>1. \A g \in Flows \ {f} : (\E t \in Placing' : t.flow = g /\ t.dev = d)
                            <=> (\E t \in Placing : t.flow = g /\ t.dev = d)
    BY <1>5, <1>7
  <2>2. f \notin BookedOn(d)' /\ f \in BookedOn(d)
    BY <1>4, <1>5, <1>6, <1>7, <1>8 DEF BookedOn
  <2>3. \A g \in Flows \ {f} : g \in BookedOn(d)' <=> g \in BookedOn(d)
    BY <1>1, <2>1 DEF BookedOn, Reserved
  <2>4. BookedOn(d)' \subseteq Flows /\ BookedOn(d) \subseteq Flows
    BY DEF BookedOn
  <2> QED
    BY <2>2, <2>3, <2>4
<1>13. /\ IsFiniteSet(BookedOn(d)) /\ Cardinality(BookedOn(d)) \in Nat
       /\ \A g \in BookedOn(d) : KvNow[g] \in Nat
  BY BookedType
<1>14. /\ Cardinality(BookedOn(d)') = Cardinality(BookedOn(d)) - 1
       /\ Total(BookedOn(d), KvNow) = Total(BookedOn(d)', KvNow) + KvNow[f]
       /\ Total(BookedOn(d)', KvNow) \in Nat /\ KvNow[f] \in Nat
  <2> DEFINE B == BookedOn(d)
  <2>1. IsFiniteSet(B) /\ f \in B /\ \A g \in B : KvNow[g] \in Nat
    BY <1>12, <1>13
  <2>0. BookedOn(d)' = B \ {f}
    BY <1>12
  <2> HIDE DEF B
  <2>2. Cardinality(B \ {f}) = Cardinality(B) - 1
    BY <2>1, FS_RemoveElement
  <2>3. /\ Total(B, KvNow) = Total(B \ {f}, KvNow) + KvNow[f]
        /\ Total(B \ {f}, KvNow) \in Nat /\ KvNow[f] \in Nat
    BY <2>1, TotalRemove
  <2>4. /\ Cardinality(BookedOn(d)') = Cardinality(B) - 1
        /\ Total(B, KvNow) = Total(BookedOn(d)', KvNow) + KvNow[f]
        /\ Total(BookedOn(d)', KvNow) \in Nat /\ KvNow[f] \in Nat
    BY <2>0, <2>2, <2>3
  <2> QED
    BY <2>4 DEF B
<1>15. SlotsUsed(d)' = SlotsUsed(d) + 1
  <2>1. f \notin BestEffort(d) /\ BestEffort(d)' = BestEffort(d) \cup {f}
    <3>1. f \in Offered
      BY <1>4, <1>5 DEF Offered, ReadyOps
    <3>2. where[f] = NoDevice
      BY <3>1 DEF BooksInv, Located, Partition, OnDevices
    <3>3. where'[f] = d /\ d # NoDevice /\ \A g \in Flows \ {f} : where'[g] = where[g]
      BY <1>1, <1>9 DEF EngineTypeOK, NoDevice, Devices
    <3>4. f \notin BestEffort(d) /\ f \in BestEffort(d)'
      BY <1>1, <1>8, <3>2, <3>3 DEF BestEffort, Resident, Reserved
    <3>5. \A g \in Flows \ {f} : g \in BestEffort(d)' <=> g \in BestEffort(d)
      BY <1>1, <3>3 DEF BestEffort, Resident, Reserved
    <3>6. BestEffort(d)' \subseteq Flows /\ BestEffort(d) \subseteq Flows
      BY DEF BestEffort, Resident
    <3> QED
      BY <3>4, <3>5, <3>6
  <2> DEFINE R == BestEffort(d)
  <2>2. IsFiniteSet(R) /\ Cardinality(R) \in Nat
    BY ResidentsFinite, FS_CardinalityType
  <2>3. Cardinality(pins[d]) \in Nat
    BY <1>1, PinsFinite, FS_CardinalityType
  <2>4. f \notin R /\ BestEffort(d)' = R \cup {f}
    BY <2>1
  <2> HIDE DEF R
  <2>5. Cardinality(R \cup {f}) = Cardinality(R) + 1
    BY <2>2, <2>4, FS_AddElement
  <2>6. SlotsUsed(d)' = Cardinality(pins[d]) + (Cardinality(R) + 1)
    BY <1>1, <2>4, <2>5 DEF SlotsUsed
  <2>7. SlotsUsed(d) = Cardinality(pins[d]) + Cardinality(R)
    BY DEF SlotsUsed, R
  <2> QED
    BY <2>2, <2>3, <2>6, <2>7
<1>16. HbmUsed(d)' = HbmUsed(d) + KvNow[f]
  <2>1. beHbm'[d] = beHbm[d] + KvNow[f] /\ beHbm[d] \in Nat
    BY <1>1, <1>9, <1>10 DEF EngineTypeOK
  <2>2. Total(pins[d] \ spilled, PinSize) \in Nat
    BY <1>1, HbmType
  <2>3. HbmUsed(d)' = Total(pins[d] \ spilled, PinSize) + (beHbm[d] + KvNow[f])
    BY <1>1, <1>9, <2>1 DEF HbmUsed
  <2> QED
    BY <1>14, <2>1, <2>2, <2>3 DEF HbmUsed
<1>17. SlotsAsked(d)' = SlotsAsked(d) /\ HbmAsked(d)' = HbmAsked(d)
  <2>1. /\ SlotsUsed(d) \in Nat /\ HbmUsed(d) \in Nat
        /\ Total(BookedOn(d), KvNow) = Total(BookedOn(d)', KvNow) + KvNow[f]
    BY <1>1, <1>14, UsedType
  <2>2. /\ SlotsAsked(d)' = (SlotsUsed(d) + 1) + (Cardinality(BookedOn(d)) - 1)
        /\ HbmAsked(d)' = (HbmUsed(d) + KvNow[f]) + Total(BookedOn(d)', KvNow)
    BY <1>10, <1>14, <1>15, <1>16 DEF SlotsAsked, HbmAsked
  <2> QED
    BY <1>13, <1>14, <2>1, <2>2 DEF SlotsAsked, HbmAsked
<1>18. \A e \in Devices \ {d} : SlotsAsked(e)' = SlotsAsked(e) /\ HbmAsked(e)' = HbmAsked(e)
  BY <1>10, <1>11 DEF SlotsAsked, HbmAsked
<1> QED
  BY <1>10, <1>11, <1>12, <1>17, <1>18

\* A placement takes what was booked for it: the rest still fits.
LEMMA SchedulePromises ==
    ASSUME Known, BooksInv, Promises, Schedule PROVE Promises'
<1>1. /\ EngineInv /\ ShapeInv /\ EngineTypeOK /\ stack # <<>> /\ ~failed
      /\ Head(stack).op = "Schedule" /\ stack' = Tail(stack)
      /\ UNCHANGED <<failed, pins, pinDev, cursor>>
  BY DEF Known, ReservationInv, EngineInv, Schedule, Pending, flowVars
<1>2. PICK h \in Task : h = Head(stack)
  BY <1>1, PopCalls
<1>3. /\ Evicted = {} /\ Calls(stack) = {h} \cup Calls(stack')
      /\ \A t \in Calls(stack') : t.op = "Schedule" => t.flow # h.flow
      /\ \A t \in Tasks(stack') : t.op # "Admit"
  BY <1>1, <1>2, PopCalls DEF CallOps, ReadyOps
<1>4. h \in Calls(stack) /\ h.op = "Schedule" /\ h \in Placing /\ h.flow \in Flows
  BY <1>1, <1>2, <1>3, CallType DEF Placing, EngineTypeOK
<1>5. PICK f \in Flows : f = h.flow
  BY <1>4
<1>6. PICK d \in Devices : d = h.dev
  BY <1>4 DEF Promises, RestoreAlone
<1>7. Placing = {h} \cup Placing' /\ h \notin Placing' /\ Evicted' = {}
      /\ \A t \in Placing' : t.flow # f
  BY <1>3, <1>4, <1>5 DEF Placing, Evicted
<1>8. CASE Reserved(f)
  <2>1. Placing' = {}
    BY <1>4, <1>5, <1>7, <1>8 DEF Promises, RestoreAlone
  <2>2. \A t \in Tasks(stack') : t.op \notin {"Schedule", "Admit"}
    BY <1>3, <2>1 DEF Placing, Calls, CallOps, ReadyOps
  <2> QED
    BY <1>1, <2>2, NothingPromised
<1>9. CASE ~Reserved(f)
  <2>1. \A t \in Placing' : ~Reserved(t.flow) /\ t.dev \in Devices
    BY <1>4, <1>7 DEF Promises, RestoreAlone
  <2>2. RestoreAlone'
    BY <1>1, <1>7, <2>1 DEF RestoreAlone, Reserved
  <2>3. spilled' = spilled /\ where' = [where EXCEPT ![f] = d]
    BY <1>2, <1>5, <1>6, <1>9 DEF Schedule, AfterRestore
  <2>4. RestoreFits'
    BY <2>1, <2>3 DEF RestoreFits, BooksInv, SpillInv
  <2>5. BookedFits'
    <3>1. \A e \in Devices : /\ SlotsAsked(e)' = SlotsAsked(e)
                             /\ HbmAsked(e)' = HbmAsked(e)
                             /\ BookedOn(e)' \subseteq BookedOn(e)
      BY <1>2, <1>5, <1>9, ScheduleMoves
    <3> QED
      BY <3>1 DEF Promises, BookedFits
  <2>6. AdmitFits'
    BY <1>3 DEF AdmitFits
  <2> QED
    BY <1>1, <2>2, <2>4, <2>5, <2>6 DEF Promises
<1> QED
  BY <1>8, <1>9

\* What a drain leaves pending is what it books, and nothing else is in the way.
LEMMA DrainSends ==
    ASSUME Known, BooksInv, ReadyBestEffort \/ NoteComplete \/ OnTick
    PROVE  /\ ~failed /\ Asked \subseteq Open /\ \A g \in Asked : NextKv(g) \in Nat
           /\ UNCHANGED <<failed, pins, where, pinDev, spilled, beHbm, cursor, reready>>
           /\ \A t \in Tasks(stack') : t.op \in {"Schedule", "Degrade", "InvocationComplete"}
           /\ \A t \in Placing' : ~Reserved(t.flow) /\ t.dev \in Devices
           /\ \E s \in Seq(Task) :
                /\ Bookings(Asked, Kept, s) /\ BookingsFit(s) /\ LeftWaits(s)
                /\ \A e \in Devices : BookedOn(e)' = SentOn(s, e)
                /\ \A e \in Devices : /\ Cardinality(SentOn(s, e)) \in Nat
                                      /\ Total(SentOn(s, e), KvNow) \in Nat
<1> DEFINE rest == Tail(stack)
<1>1. /\ EngineInv /\ EngineTypeOK /\ ReservationInv /\ stack \in Seq(Task)
      /\ stack # <<>> /\ ~failed /\ Asked \subseteq Flows
      /\ Head(stack).op \in {"InvocationReady", "InvocationComplete", "Tick"}
      /\ Head(stack).op = "InvocationReady" =>
             Head(stack).flow \in Flows /\ ~Reserved(Head(stack).flow)
  <2>1. ReservationInv /\ EngineInv /\ EngineTypeOK /\ stack \in Seq(Task)
    BY DEF Known, ReservationInv, EngineInv, EngineTypeOK
  <2> QED
    BY <2>1, Drains
<1>2. /\ rest \in Seq(Task) /\ Asked = queue \cup Offered
      /\ \A t \in Tasks(rest) : t.op = "InvocationComplete"
  BY <1>1, EventCalls DEF EventOps, Asked
<1>3. Asked \subseteq Open /\ \A g \in Asked : ~Reserved(g)
  <2>1. Asked \subseteq Open
    BY <1>2 DEF BooksInv, Located, Partition
  <2>2. \A g \in queue : ~Reserved(g)
    BY DEF BooksInv, HomesInv
  <2> QED
    BY <1>1, <2>1, <2>2 DEF Asked
<1>4. \A g \in Asked : NextKv(g) \in Nat
  BY <1>1, <1>3, OpenKv
<1>5. PICK first \in Seq(Task), s \in Seq(Task) :
        /\ \A i \in 1..Len(first) : first[i].op = "Degrade"
        /\ Bookings(Asked, Kept, s) /\ Respond(first \o s)
        /\ BookingsFit(s) /\ LeftWaits(s)
  BY <1>1, <1>4, Drains
<1>6. /\ UNCHANGED <<failed, pins, where, pinDev, spilled, beHbm, cursor,
                     reready>>
      /\ stack' = (first \o s) \o rest
  BY <1>5 DEF Respond, flowVars, stepVars, deviceVars
<1>7. \A i \in 1..Len(s) : /\ s[i].op = "Schedule" /\ s[i].flow \in Asked
                           /\ s[i].dev \in Devices
  BY <1>5 DEF Bookings
<1> HIDE DEF rest
<1>8. Tasks(stack') = Tasks(first) \cup Tasks(s) \cup Tasks(rest)
  <2>1. first \o s \in Seq(Task)
    BY <1>5
  <2>2. Tasks(stack') = Tasks(first \o s) \cup Tasks(rest)
    BY <1>2, <1>6, <2>1, TasksParts
  <2>3. Tasks(first \o s) = Tasks(first) \cup Tasks(s)
    BY <1>5, TasksParts
  <2> QED
    BY <2>2, <2>3
<1>9. \A t \in Tasks(first) : t.op = "Degrade"
  BY <1>5 DEF Tasks
<1>10. Placing' = Tasks(s)
  <2>1. \A t \in Tasks(s) : t.op = "Schedule"
    BY <1>7 DEF Tasks
  <2>2. Placing' = {t \in Tasks(stack') : t.op = "Schedule"}
    BY DEF Placing, Calls, CallOps, ReadyOps
  <2> QED
    BY <1>2, <1>8, <1>9, <2>1, <2>2
<1>11. \A t \in Placing' : /\ ~Reserved(t.flow) /\ t.flow \in Asked /\ t.dev \in Devices
  BY <1>3, <1>7, <1>10 DEF Tasks
<1>12. \A e \in Devices : /\ BookedOn(e)' = SentOn(s, e)
                          /\ Cardinality(SentOn(s, e)) \in Nat
                          /\ Total(SentOn(s, e), KvNow) \in Nat
  <2> TAKE e \in Devices
  <2>1. BookedOn(e)' = SentOn(s, e)
    <3>1. \A g \in Flows : (\E t \in Tasks(s) : t.flow = g /\ t.dev = e)
              <=> (\E i \in 1..Len(s) : s[i].op = "Schedule" /\ s[i].flow = g /\ s[i].dev = e)
      BY <1>7 DEF Tasks
    <3>2. \A g \in Flows : (\E t \in Tasks(s) : t.flow = g /\ t.dev = e) => ~Reserved(g)
      BY <1>10, <1>11
    <3> QED
      BY <1>6, <1>10, <3>1, <3>2 DEF BookedOn, SentOn, Reserved
  <2>2. Cardinality(SentOn(s, e)) \in Nat /\ Total(SentOn(s, e), KvNow) \in Nat
    <3>1. SentOn(s, e) \subseteq Asked
      BY <1>7 DEF SentOn
    <3>2. IsFiniteSet(SentOn(s, e)) /\ Cardinality(SentOn(s, e)) \in Nat
      BY <1>1, <3>1, FlowsCounted
    <3>3. \A g \in SentOn(s, e) : KvNow[g] \in Nat
      BY <1>1, <1>4, <3>1 DEF KvNow
    <3> QED
      BY <3>2, <3>3, TotalType
  <2> QED
    BY <2>1, <2>2
<1>13. \A t \in Tasks(stack') : t.op \in {"Schedule", "Degrade", "InvocationComplete"}
  BY <1>2, <1>7, <1>8, <1>9 DEF Tasks
<1> QED
  BY <1>1, <1>3, <1>4, <1>5, <1>6, <1>11, <1>12, <1>13

\* What a drain sends to a device fits on it together.
LEMMA DrainPromises ==
    ASSUME Known, BooksInv, Promises, ReadyBestEffort \/ NoteComplete \/ OnTick
    PROVE  Promises'
<1>1. /\ ~failed /\ UNCHANGED <<failed, pins, where, pinDev, spilled, beHbm, cursor>>
      /\ \A t \in Tasks(stack') : t.op \in {"Schedule", "Degrade", "InvocationComplete"}
      /\ \A t \in Placing' : ~Reserved(t.flow) /\ t.dev \in Devices
  BY DrainSends
<1>2. PICK s \in Seq(Task) :
        /\ BookingsFit(s)
        /\ \A e \in Devices : /\ BookedOn(e)' = SentOn(s, e)
                              /\ Cardinality(SentOn(s, e)) \in Nat
                              /\ Total(SentOn(s, e), KvNow) \in Nat
  BY DrainSends
<1>3. Evicted' = {} /\ AdmitFits'
  BY <1>1 DEF Evicted, Calls, AdmitFits
<1>4. RestoreAlone' /\ RestoreFits'
  BY <1>1, <1>3 DEF RestoreAlone, RestoreFits, Reserved, BooksInv, SpillInv
<1>5. BookedFits'
  <2>1. \A e : SlotsUsed(e)' = SlotsUsed(e) /\ HbmUsed(e)' = HbmUsed(e)
    BY <1>1 DEF SlotsUsed, HbmUsed, BestEffort, Resident, Reserved
  <2>2. KvNow' = KvNow
    BY <1>1 DEF KvNow, NextKv, Step
  <2> SUFFICES ASSUME NEW e \in Devices, SentOn(s, e) # {}
               PROVE  /\ SlotsUsed(e) + Cardinality(SentOn(s, e)) <= MaxSlots
                      /\ HbmUsed(e) + Total(SentOn(s, e), KvNow) <= HbmCap
    BY <1>2, <2>1, <2>2 DEF BookedFits, SlotsAsked, HbmAsked
  <2>3. /\ Cardinality(SentOn(s, e)) <= FreeSlots(e)
        /\ Total(SentOn(s, e), KvNow) <= FreeHbm(e)
    BY <1>2 DEF BookingsFit
  <2>4. SlotsUsed(e) \in Nat /\ HbmUsed(e) \in Nat /\ MaxSlots \in Nat /\ HbmCap \in Nat
    BY UsedType DEF Known, ReservationInv
  <2> QED
    BY <1>2, <2>3, <2>4 DEF FreeSlots, FreeHbm
<1> QED
  BY <1>1, <1>3, <1>4, <1>5 DEF Promises

\* The evictions a restore asks for make the room it needs: either its victims
\* free enough, or nobody but pins is left and those always fit.
LEMMA VictimsMakeRoom ==
    ASSUME Known, BooksInv, AccountingExact, CommittedWithinHbm, ReadyReserved,
           NEW f \in Flows, f = Head(stack).flow, f \in spilled,
           NEW d \in Devices, d = pinDev[f], NEW V \in Victims(f, d)
    PROVE  Total(pins[d] \ spilled, PinSize) + PinSize[f]
               + Total(BestEffort(d) \ {v.flow : v \in V}, KvNow) <= HbmCap
<1> DEFINE P == Total(pins[d] \ spilled, PinSize)
           B == BestEffort(d)
           E == {v.flow : v \in V}
<1>1. /\ EngineInv /\ EngineTypeOK /\ IsFiniteSet(running) /\ stack # <<>>
      /\ Head(stack).op = "InvocationReady"
  BY DEF Known, ReservationInv, EngineInv, ReadyReserved, Pending
<1>2. /\ beHbm[d] = Total(B, KvNow) /\ IsFiniteSet(B) /\ B \subseteq Flows
      /\ \A g \in B : KvNow[g] \in Nat
  BY <1>1, MemoryOfResidents
<1>3. P \in Nat /\ PinSize[f] \in Nat /\ HbmCap \in Nat
  BY <1>1, HbmType, PinSizeType, SizesAssumption
<1>4. V \subseteq RunningOn(d) /\ RunningOn(d) \subseteq running
  BY DEF Victims, RunningOn
<1>5. \A v \in V : /\ v.dev = d /\ ~Reserved(v.flow) /\ OnItsDevice(v)
                   /\ v.flow \in Flows /\ Kv(v.flow, v.step) \in Nat
                   /\ \A w \in V : v.flow = w.flow => v = w
  BY <1>4, VictimsOnDevice DEF RunningOn, OnDevices
<1>6. E \subseteq B
  BY <1>5 DEF OnItsDevice, BestEffort, Resident
<1>7. CASE V # RunningOn(d)
  <2>1. FreeHbm(d) + KvOf(V) >= PinSize[f]
    BY <1>7 DEF Victims
  <2>2. KvOf(V) = Total(E, KvNow)
    <3> DEFINE name == [v \in V |-> v.flow]
               size == [v \in V |-> Kv(v.flow, v.step)]
    <3>1. name \in [V -> E] /\ \A w \in E : \E v \in V : name[v] = w
      OBVIOUS
    <3>2. \A v, w \in V : name[v] = name[w] => v = w
      BY <1>5
    <3>3. \A v \in V : size[v] = KvNow[name[v]] /\ size[v] \in Nat
      BY <1>5 DEF KvNow, NextKv, OnItsDevice
    <3>4. IsFiniteSet(V)
      BY <1>1, <1>4, FS_Subset
    <3> HIDE DEF name, size, E
    <3>5. Total(V, size) = Total(E, KvNow)
      BY <3>1, <3>2, <3>3, <3>4, TotalRenamed
    <3> QED
      BY <3>5 DEF KvOf, size
  <2>3. /\ Total(B, KvNow) = Total(E, KvNow) + Total(B \ E, KvNow)
        /\ Total(E, KvNow) \in Nat /\ Total(B \ E, KvNow) \in Nat
    <3> HIDE DEF B, E
    <3> QED
      BY <1>2, <1>6, TotalSplit
  <2>4. FreeHbm(d) = HbmCap - (P + (Total(E, KvNow) + Total(B \ E, KvNow)))
    BY <1>2, <2>3 DEF FreeHbm, HbmUsed
  <2> HIDE DEF P, B, E
  <2>5. P + PinSize[f] + Total(B \ E, KvNow) <= HbmCap
    BY <1>3, <2>1, <2>2, <2>3, <2>4
  <2> QED
    BY <2>5 DEF P, B, E
<1>8. CASE V = RunningOn(d)
  <2>1. B \subseteq E
    <3> SUFFICES ASSUME NEW g \in B PROVE g \in E
      OBVIOUS
    <3>1. g \in Flows /\ where[g] = d /\ d # NoDevice /\ ~Reserved(g)
      BY DEF BestEffort, Resident, Devices, NoDevice
    <3>2. Evicted = {}
      BY <1>1, EventCalls DEF EventOps
    <3>3. [flow |-> g, step |-> Step(g), dev |-> where[g]] \in running
      BY <3>1, <3>2 DEF BooksInv, RunningTracks, OnDevices
    <3>4. [flow |-> g, step |-> Step(g), dev |-> where[g]] \in V
      BY <1>8, <3>1, <3>3 DEF RunningOn
    <3> QED
      BY <3>4
  <2>2. B \ E = {} /\ Total(B \ E, KvNow) = 0
    <3>1. B \ E = {}
      BY <2>1
    <3> QED
      BY <3>1, TotalEmpty
  <2>3. f \in pins[d]
    <3>1. f \in Offered
      BY <1>1, EventCalls DEF EventOps
    <3>2. cursor[f] < Len(Work[f]) /\ Reserved(f)
      BY <3>1 DEF BooksInv, Located, Partition, Open, ReadyReserved
    <3> QED
      BY <3>2 DEF BooksInv, PinsLive
  <2>4. IsFiniteSet(pins[d]) /\ \A g \in pins[d] : PinSize[g] \in Nat
    BY <1>1, PinsFinite
  <2>5. Total((pins[d] \ spilled) \cup {f}, PinSize) = P + PinSize[f]
    <3>1. IsFiniteSet(pins[d] \ spilled) /\ f \notin pins[d] \ spilled
      BY <1>1, HbmType
    <3>2. \A x \in (pins[d] \ spilled) \cup {f} : PinSize[x] \in Nat
      BY <1>3, <2>4
    <3> QED
      BY <3>1, <3>2, TotalAdd
  <2>6. Total((pins[d] \ spilled) \cup {f}, PinSize) <= Total(pins[d], PinSize)
    <3>1. (pins[d] \ spilled) \cup {f} \subseteq pins[d]
      BY <2>3
    <3> QED
      BY <2>4, <3>1, TotalMonotone
  <2>7. Total(pins[d], PinSize) <= HbmCap /\ Total(pins[d], PinSize) \in Nat
    BY <2>4, TotalType DEF CommittedWithinHbm, HbmCommitted
  <2> HIDE DEF P, B, E
  <2>8. P + PinSize[f] + Total(B \ E, KvNow) <= HbmCap
    BY <1>3, <2>2, <2>5, <2>6, <2>7
  <2> QED
    BY <2>8 DEF P, B, E
<1> QED
  BY <1>7, <1>8

\* A restore is promised exactly the room its evictions leave.
LEMMA RestorePromises ==
    ASSUME Known, BooksInv, AccountingExact, CommittedWithinHbm, Promises, ReadyReserved
    PROVE  Promises'
<1>1. /\ EngineInv /\ EngineTypeOK /\ ReservationInv /\ stack \in Seq(Task)
      /\ stack # <<>> /\ ~failed /\ Head(stack).op = "InvocationReady"
      /\ Reserved(Head(stack).flow) /\ Head(stack).flow \in Flows
  BY EventType DEF Known, ReservationInv, EngineInv, EngineTypeOK, ReadyReserved,
     Pending, EventOps
<1>2. PICK f \in Flows : f = Head(stack).flow
  BY <1>1
<1>3. PICK d \in Devices : d = pinDev[f]
  <2>1. pinDev[f] \in 0..NumDevices /\ pinDev[f] # NoDevice /\ NumDevices \in Nat
    BY <1>1, <1>2, SizesAssumption DEF EngineTypeOK, Reserved
  <2> QED
    BY <2>1 DEF NoDevice, Devices
<1>4. PICK h \in Task : h = Head(stack)
  BY <1>1, HeadType
<1> DEFINE run == TaskOf("Schedule", f, h.step, d)
<1>5. PICK a \in Seq(Task) : \E V \in (IF f \in spilled THEN Victims(f, d) ELSE {{}}) :
        Respond(a) /\ Restore(a, run, V)
  <2>1. \E a \in Seq(Task) :
        \E V \in (IF f \in spilled THEN Victims(f, d) ELSE {{}}) :
           /\ Respond(a) /\ PlainAnswer(a)
           /\ Restore(a, TaskOf("Schedule", f, Head(stack).step, d), V)
           /\ running' = AfterEviction(V)
    BY <1>1, <1>2, <1>3, RestoreAnswers
  <2> QED
    BY <1>4, <2>1
<1>6. PICK V \in (IF f \in spilled THEN Victims(f, d) ELSE {{}}) :
        Respond(a) /\ Restore(a, run, V)
  BY <1>5
<1>7. /\ UNCHANGED <<failed, pins, where, pinDev, spilled, beHbm, cursor>>
      /\ stack' = a \o Tail(stack)
  BY <1>6 DEF Respond, flowVars, stepVars, deviceVars
<1>8. /\ Tail(stack) \in Seq(Task) /\ Evicted = {}
      /\ \A t \in Tasks(Tail(stack)) : t.op = "InvocationComplete"
  BY <1>1, EventCalls DEF EventOps
<1>9. run.op = "Schedule" /\ run.flow = f /\ run.dev = d
  BY DEF TaskOf
<1>10. \A v : Eviction(v).op = "Preempt" /\ Eviction(v).flow = v.flow
  BY DEF Eviction, TaskOf
<1>11. run \in Tasks(a) /\ \A t \in Tasks(a) : t = run \/ \E v \in V : t = Eviction(v)
  BY <1>6 DEF Restore
<1> HIDE DEF run
<1>12. Tasks(stack') = Tasks(a) \cup Tasks(Tail(stack))
  BY <1>5, <1>7, <1>8, TasksParts
<1>13. Placing' = {run}
  <2>1. \A t \in Tasks(stack') : t.op = "Schedule" => t = run
    BY <1>8, <1>10, <1>11, <1>12
  <2>2. run \in Tasks(stack')
    BY <1>11, <1>12
  <2> QED
    BY <1>9, <2>1, <2>2 DEF Placing, Calls, CallOps, ReadyOps
<1>14. Reserved(f)' /\ RestoreAlone'
  BY <1>1, <1>2, <1>3, <1>7, <1>9, <1>13 DEF RestoreAlone, Reserved
<1>15. BookedFits'
  <2>1. \A e : BookedOn(e)' = {}
    BY <1>9, <1>13, <1>14 DEF BookedOn
  <2> QED
    BY <2>1 DEF BookedFits
<1>16. AdmitFits'
  BY <1>8, <1>9, <1>10, <1>11, <1>12 DEF AdmitFits
<1>17. RestoreFits'
  <2>1. KvNow' = KvNow /\ BestEffort(d)' = BestEffort(d)
    BY <1>7 DEF KvNow, NextKv, Step, BestEffort, Resident, Reserved
  <2>2. f \in spilled => {v.flow : v \in V} \subseteq Evicted'
    <3> SUFFICES ASSUME f \in spilled, NEW v \in V PROVE v.flow \in Evicted'
      OBVIOUS
    <3>1. V \subseteq running
      BY <1>6 DEF Victims, RunningOn
    <3>2. \A w \in V : /\ w.flow \in Flows /\ Kv(w.flow, w.step) \in Nat
      BY <3>1, VictimsOnDevice DEF OnDevices
    <3>3. Eviction(v) \in Tasks(stack')
      BY <1>6, <1>12, <3>2 DEF Restore
    <3> QED
      BY <1>10, <3>2, <3>3 DEF Evicted, Calls, CallOps
  <2>3. f \in spilled =>
          Total(pins[d] \ spilled, PinSize) + PinSize[f]
              + Total(BestEffort(d) \ Evicted', KvNow) <= HbmCap
    <3> SUFFICES ASSUME f \in spilled
                 PROVE  Total(pins[d] \ spilled, PinSize) + PinSize[f]
                            + Total(BestEffort(d) \ Evicted', KvNow) <= HbmCap
      OBVIOUS
    <3> DEFINE P == Total(pins[d] \ spilled, PinSize)
               R == BestEffort(d) \ {v.flow : v \in V}
               S == BestEffort(d) \ Evicted'
    <3>1. V \in Victims(f, d)
      BY <1>6
    <3>2. P + PinSize[f] + Total(R, KvNow) <= HbmCap
      BY <1>1, <1>2, <1>3, <3>1, VictimsMakeRoom
    <3>3. S \subseteq R
      BY <2>2
    <3>4. IsFiniteSet(R) /\ \A g \in R : KvNow[g] \in Nat
      <4>1. IsFiniteSet(BestEffort(d)) /\ \A g \in BestEffort(d) : KvNow[g] \in Nat
        BY <1>1, MemoryOfResidents
      <4> QED
        BY <4>1, FS_Subset
    <3>5. P \in Nat /\ PinSize[f] \in Nat /\ HbmCap \in Nat
      BY <1>1, HbmType, PinSizeType, SizesAssumption
    <3>6. Total(R, KvNow) \in Nat /\ Total(S, KvNow) \in Nat
          /\ Total(S, KvNow) <= Total(R, KvNow)
      <4> HIDE DEF R, S
      <4>1. IsFiniteSet(S) /\ \A g \in S : KvNow[g] \in Nat
        BY <3>3, <3>4, FS_Subset
      <4> QED
        BY <3>3, <3>4, <4>1, TotalMonotone, TotalType
    <3>7. P + PinSize[f] + Total(S, KvNow) <= HbmCap
      <4> HIDE DEF P, R, S
      <4> QED
        BY <3>2, <3>5, <3>6
    <3> QED
      BY <3>7
  <2> QED
    BY <1>7, <1>9, <1>13, <2>1, <2>3 DEF RestoreFits
<1> QED
  BY <1>1, <1>7, <1>14, <1>15, <1>16, <1>17 DEF Promises

\* Nothing is promised before the policy is asked.
LEMMA TriggerPromises ==
    ASSUME Known, BooksInv, Promises,
           \/ TriggerStep
           \/ Reoffer
           \/ \E f \in Flows, d \in Devices :
                \/ CompleteFlow(f, d) \/ CompleteIntoGap(f, d)
                \/ CompleteIntoNext(f, d) \/ AbandonFlow(f, d)
           \/ AdmitStep
    PROVE  Promises'
<1>1. ~failed'
  BY DEF Promises, TriggerStep, Arrival, TickTimer, GapEnd, EnterDevice, EntryVoid,
     DecodeToken, IntervalEnd, Reoffer, CompleteFlow, CompleteIntoGap,
     CompleteIntoNext, AbandonFlow, AdmitStep, AdmitAggregate, AdmitReserved
<1>2. \A t \in Tasks(stack') : t.op \notin {"Schedule", "Admit"}
  <2>1. CASE TriggerStep
    <3>1. \A r : Tasks(<<r>>) = {r}
      BY TasksParts
    <3> QED
      BY <2>1, <3>1, TasksParts DEF TriggerStep, Arrival, TickTimer, GapEnd, EnterDevice,
         EntryVoid, DecodeToken, IntervalEnd, Idle, TaskOf
  <2>2. CASE Reoffer
    BY <2>2, TasksParts DEF Reoffer, TaskOf
  <2>3. CASE \E f \in Flows, d \in Devices :
                \/ CompleteFlow(f, d) \/ CompleteIntoGap(f, d)
                \/ CompleteIntoNext(f, d) \/ AbandonFlow(f, d)
    <3>1. \A a, b : Tasks(<<a, b>>) = {a, b}
      BY DEF Tasks
    <3> QED
      BY <2>3, <3>1, TasksParts DEF CompleteFlow, CompleteIntoGap, CompleteIntoNext,
         AbandonFlow, TaskOf
  <2>4. CASE AdmitStep
    <3>1. PICK b \in Nat \cup {Unmetered} : AdmitAggregate(b) \/ AdmitReserved(b)
      BY <2>4, AdmitBudget
    <3>2. /\ EngineInv /\ ShapeInv /\ stack # <<>> /\ Head(stack).op = "Admit"
          /\ Pending("Admit") /\ EngineTypeOK
      BY <3>1 DEF Known, ReservationInv, EngineInv, AdmitAggregate, AdmitReserved, Pending
    <3>3. PICK f \in Flows : f = Head(stack).flow
      BY <3>2, ActionType DEF ActionOps
    <3> DEFINE r == TaskOf("InvocationReady", f, Step(f), NoDevice)
    <3>4. stack' = <<r>> \o Tail(stack)
      BY <3>1, <3>3 DEF AdmitAggregate, AdmitReserved, OfferNext
    <3>5. r \in Task /\ r.op = "InvocationReady"
      <4>1. Step(f) \in Nat /\ NoDevice \in 0..NumDevices
        BY <3>2, StepType, SizesAssumption DEF NoDevice
      <4> QED
        BY <4>1, TaskOfType DEF EventOps, TaskOf
    <3> HIDE DEF r
    <3>6. Tasks(stack') = {r}
      BY <3>2, <3>4, <3>5, EntryShape DEF EntryOps
    <3> QED
      BY <3>5, <3>6
  <2> QED
    BY <2>1, <2>2, <2>3, <2>4
<1> QED
  BY <1>1, <1>2, NothingPromised

\* Every step keeps what is promised, and none raises.
LEMMA PromisesKept ==
    ASSUME Known, BooksInv, AccountingExact, CommittedWithinHbm, Promises, [Next]_vars
    PROVE  Promises'
<1>1. CASE UNCHANGED vars
  <2>1. UNCHANGED <<failed, stack, pins, where, pinDev, spilled, beHbm, cursor>>
    BY <1>1 DEF vars, engineVars, flowVars, stepVars, deviceVars
  <2>2. /\ Placing' = Placing /\ Evicted' = Evicted /\ Tasks(stack') = Tasks(stack)
        /\ KvNow' = KvNow
    BY <2>1 DEF Placing, Calls, Evicted, KvNow, NextKv, Step
  <2>3. \A d : /\ BestEffort(d)' = BestEffort(d) /\ SlotsUsed(d)' = SlotsUsed(d)
               /\ HbmUsed(d)' = HbmUsed(d) /\ BookedOn(d)' = BookedOn(d)
               /\ HbmCommitted(d)' = HbmCommitted(d)
    BY <2>1, <2>2 DEF BestEffort, Resident, Reserved, SlotsUsed, HbmUsed, HbmCommitted,
       BookedOn
  <2>4. RestoreAlone'
    BY <2>1, <2>2 DEF Promises, RestoreAlone, Reserved
  <2>5. RestoreFits' /\ BookedFits'
    BY <2>1, <2>2, <2>3 DEF Promises, RestoreFits, BookedFits, SlotsAsked, HbmAsked
  <2>6. AdmitFits'
    BY <2>2, <2>3 DEF Promises, AdmitFits, CanPin, HasFreeSlot, HbmFits
  <2> QED
    BY <2>1, <2>4, <2>5, <2>6 DEF Promises
<1>2. CASE PolicyAnswer
  BY <1>2, GrantsPromise, RestorePromises, DrainPromises DEF PolicyAnswer
<1>3. CASE AdmitStep \/ TriggerStep
  BY <1>3, TriggerPromises
<1>4. CASE HandlingStep /\ UNCHANGED policyVars
  <2>1. ~AdmitRefused
    BY AdmitAllowed DEF AdmitRefused
  <2>2. ~ScheduleRefused /\ ~PreemptRefused
    BY ScheduleAllowed, PreemptAllowed DEF ScheduleRefused, PreemptRefused
  <2> QED
    BY <1>4, <2>1, <2>2, TriggerPromises, SchedulePromises, PreemptPromises,
       DegradePromises DEF HandlingStep
<1> QED
  BY <1>1, <1>2, <1>3, <1>4 DEF Next, EngineStep

\* What the policy asks for can be done whenever it is done: a pending restore will
\* fit, the placements of a drain fit together, a pending reservation can be pinned.
THEOREM PromisesHold == Spec => []Promises
<1>1. Init => Promises
  <2> SUFFICES ASSUME Init PROVE Promises
    OBVIOUS
  <2>1. ~failed /\ Tasks(stack) = {}
    BY TasksParts DEF Init
  <2>2. Placing = {} /\ \A d \in Devices : BookedOn(d) = {}
    BY <2>1 DEF Placing, Calls, BookedOn
  <2>3. Evicted = {}
    BY <2>1 DEF Evicted, Calls
  <2> QED
    BY <2>1, <2>2, <2>3 DEF Promises, RestoreAlone, RestoreFits, BookedFits, AdmitFits
<1> QED
  BY <1>1, PromisesKept, KnownAll, BooksInvHolds, AccountingHolds, CommitmentHolds, PTL
     DEF Spec

\* NoEngineError: no guard of the engine raises under the discipline, so every run
\* ends where its horizon does.
THEOREM NoErrorHolds == Spec => []NoEngineError
BY PromisesHold, PTL DEF Promises, NoEngineError

-----------------------------------------------------------------------------
(* Settling.  Only the eviction of an invocation that is still entering resets *)
(* an interval without crediting its service, and STRICT pins never spill, so  *)
(* that nothing is ever evicted to restore one.                                *)

Settles ==
    \A d \in Devices : accrued'[d] < accrued[d] =>
        \A f \in Decoding(d) : left'[f] = left[f] - accrued[d]

\* Everybody but the eviction of an entering invocation settles before it resets.
LEMMA StepSettles ==
    ASSUME Known, [Next]_vars,
           ~(Preempt /\ phase[Head(stack).flow] = "PREFILL")
    PROVE  Settles
<1>1. EngineInv /\ EngineTypeOK
  BY DEF Known, ReservationInv, EngineInv
<1>2. ASSUME accrued' = accrued PROVE Settles
  <2>1. \A d \in Devices : ~(accrued[d] < accrued[d])
    BY <1>1 DEF EngineTypeOK
  <2> QED
    BY <1>2, <2>1 DEF Settles
<1>3. ASSUME NEW d \in Devices, left' = CreditedLeft(d),
             accrued' = [accrued EXCEPT ![d] = 0]
      PROVE  Settles
  <2>1. \A f \in Decoding(d) : f \in Flows /\ left'[f] = left[f] - accrued[d]
    BY <1>3 DEF CreditedLeft, Decoding, Resident
  <2>2. \A e \in Devices : e # d => ~(accrued'[e] < accrued[e])
    BY <1>1, <1>3 DEF EngineTypeOK
  <2> QED
    BY <2>1, <2>2 DEF Settles
<1>4. CASE PolicyAnswer \/ UNCHANGED vars
  BY <1>2, <1>4, AnswerFrame DEF deviceVars, vars, engineVars
<1>5. CASE AdmitStep
  BY <1>2, <1>5 DEF AdmitStep, AdmitAggregate, AdmitReserved, deviceVars
<1>6. CASE TriggerStep
  <2>1. CASE Arrival \/ TickTimer \/ (\E f \in Flows : GapEnd(f)) \/ \E t \in timers : EntryVoid(t)
    BY <1>2, <2>1 DEF Arrival, TickTimer, GapEnd, EntryVoid, deviceVars
  <2>2. ASSUME NEW t \in timers, EnterDevice(t) PROVE Settles
    <3>1. t.dev \in Devices
      BY <1>1 DEF EngineTypeOK
    <3>2. left' = CreditedLeft(t.dev) /\ accrued' = [accrued EXCEPT ![t.dev] = 0]
      BY <2>2 DEF EnterDevice
    <3> QED
      BY <1>3, <3>1, <3>2
  <2>3. ASSUME NEW d \in Devices, IntervalEnd(d) PROVE Settles
    <3>1. left' = CreditedLeft(d) /\ accrued' = [accrued EXCEPT ![d] = 0]
      BY <2>3 DEF IntervalEnd
    <3> QED
      BY <1>3, <3>1
  <2>4. ASSUME NEW d \in Devices, DecodeToken(d) PROVE Settles
    <3>1. accrued' = [accrued EXCEPT ![d] = @ + 1]
      BY <2>4 DEF DecodeToken
    <3>2. \A e \in Devices : ~(accrued'[e] < accrued[e])
      BY <1>1, <3>1 DEF EngineTypeOK
    <3> QED
      BY <3>2 DEF Settles
  <2> QED
    BY <1>6, <2>1, <2>2, <2>3, <2>4 DEF TriggerStep
<1>7. CASE HandlingStep
  <2>1. CASE ~Preempt
    <3>1. accrued' = accrued
      BY <1>7, <2>1 DEF HandlingStep, CompleteFlow, CompleteIntoGap, CompleteIntoNext,
         AbandonFlow, Reoffer, AdmitRefused, ScheduleRefused, PreemptRefused, Raise,
         Schedule, Degrade, deviceVars
    <3> QED
      BY <1>2, <3>1
  <2>2. CASE Preempt
    <3>1. PICK f \in Flows : f = Head(stack).flow
      BY <1>1, <2>2, ActionType DEF Preempt, ActionOps
    <3>2. phase[f] = "DECODE"
      BY <2>2, <3>1 DEF Preempt, Preemptible
    <3>3. left' = CreditedLeft(where[f]) /\ accrued' = [accrued EXCEPT ![where[f]] = 0]
      BY <2>2, <3>1, <3>2 DEF Preempt
    <3>4. where[f] \in Devices
      <4>1. where[f] # NoDevice
        BY <1>1, <3>2 DEF EngineInv, ResidentIsPlaced
      <4>2. where[f] \in 0..NumDevices /\ NumDevices \in Nat
        BY <1>1, SizesAssumption DEF EngineTypeOK
      <4> QED
        BY <4>1, <4>2 DEF NoDevice, Devices
    <3> QED
      BY <1>3, <3>3, <3>4
  <2> QED
    BY <2>1, <2>2
<1> QED
  BY <1>4, <1>5, <1>6, <1>7 DEF Next, EngineStep

NobodyEvicted == Evicted = {}

\* With STRICT pins nobody is ever asked to leave.
LEMMA StrictEvictsNobody ==
    ASSUME PinMode = "STRICT", Known, BooksInv, NobodyEvicted, [Next]_vars
    PROVE  NobodyEvicted'
<1> USE DEF NobodyEvicted
<1>1. EngineInv /\ ReservationInv /\ ShapeInv /\ EngineTypeOK /\ stack \in Seq(Task)
  BY DEF Known, ReservationInv, EngineInv, EngineTypeOK
<1>2. ASSUME \A t \in Calls(stack') : t.op = "Preempt" => t \in Calls(stack)
      PROVE  Evicted' = {}
  BY <1>2 DEF Evicted
<1>3. CASE EngineStep
  <2>1. \A a, b : Tasks(<<a, b>>) = {a, b}
    BY DEF Tasks
  <2>2. stack # <<>> => Calls(Tail(stack)) \subseteq Calls(stack)
    BY <1>1, CallsParts
  <2>3. CASE stack' = stack \/ stack' = <<>> \/ (stack # <<>> /\ stack' = Tail(stack))
    BY <1>2, <2>2, <2>3, CallsParts
  <2>4. ASSUME NEW r \in Task, NEW c \in Task, r.op # "Preempt", c.op # "Preempt",
               stack' = <<r>> \/ stack' = <<r, c>>
        PROVE  Evicted' = {}
    <3>1. Tasks(stack') \subseteq {r, c}
      BY <2>1, <2>4, TasksParts
    <3> QED
      BY <1>2, <2>4, <3>1 DEF Calls
  <2> QED
    BY <1>1, <1>3, <2>3, <2>4, EngineStepStack DEF EventOps
<1>4. CASE AdmitStep
  <2>1. \A t \in Tasks(stack') : t.op = "InvocationReady"
    <3>1. PICK b \in Nat \cup {Unmetered} : AdmitAggregate(b) \/ AdmitReserved(b)
      BY <1>4, AdmitBudget
    <3>2. stack # <<>> /\ Head(stack).op = "Admit" /\ Pending("Admit")
      BY <3>1 DEF AdmitAggregate, AdmitReserved, Pending
    <3>3. PICK f \in Flows : f = Head(stack).flow
      BY <1>1, <3>2, ActionType DEF ActionOps
    <3> DEFINE r == TaskOf("InvocationReady", f, Step(f), NoDevice)
    <3>4. stack' = <<r>> \o Tail(stack)
      BY <3>1, <3>3 DEF AdmitAggregate, AdmitReserved, OfferNext
    <3>5. r \in Task /\ r.op = "InvocationReady"
      <4>1. Step(f) \in Nat /\ NoDevice \in 0..NumDevices
        BY <1>1, StepType, SizesAssumption DEF NoDevice
      <4> QED
        BY <4>1, TaskOfType DEF EventOps, TaskOf
    <3> HIDE DEF r
    <3>6. Tasks(stack') = {r}
      BY <1>1, <3>2, <3>4, <3>5, EntryShape DEF EntryOps
    <3> QED
      BY <3>5, <3>6
  <2> QED
    BY <1>2, <2>1 DEF Calls
<1>5. CASE GrantReservation \/ GrantAggregate
  <2>1. stack # <<>> /\ Head(stack).op = "FlowArrival"
    BY <1>1, <1>5, Grants
  <2>2. PICK r \in Task : Respond(<<r>>) /\ r.op = "Admit"
    BY <1>1, <1>5, Grants DEF TaskOf
  <2>3. Tasks(stack') = {r}
    BY <1>1, <2>1, <2>2, EntryShape DEF EntryOps, Respond
  <2> QED
    BY <1>2, <2>2, <2>3 DEF Calls
<1>6. CASE ReadyBestEffort \/ NoteComplete \/ OnTick
  <2>1. /\ stack # <<>>
        /\ Head(stack).op \in {"InvocationReady", "InvocationComplete", "Tick"}
    BY <1>1, <1>6, Drains
  <2>2. PICK first \in Seq(Task), s \in Seq(Task) :
          /\ \A i \in 1..Len(first) : first[i].op = "Degrade"
          /\ Bookings(Asked, Kept, s) /\ Respond(first \o s)
    BY <1>1, <1>6, Drains
  <2>3. \A t \in Tasks(first) \cup Tasks(s) : t.op # "Preempt"
    BY <2>2 DEF Bookings, Tasks
  <2>4. Tail(stack) \in Seq(Task) /\ \A t \in Tasks(Tail(stack)) : t.op # "Preempt"
    BY <1>1, <2>1, EventCalls DEF EventOps
  <2>5. first \o s \in Seq(Task)
    BY <2>2
  <2>6. Tasks(stack') = Tasks(first \o s) \cup Tasks(Tail(stack))
    BY <2>2, <2>4, <2>5, TasksParts DEF Respond
  <2>7. Tasks(first \o s) = Tasks(first) \cup Tasks(s)
    BY <2>2, TasksParts
  <2> QED
    BY <1>2, <2>3, <2>4, <2>6, <2>7 DEF Calls
<1>7. CASE ReadyReserved
  <2> DEFINE f == Head(stack).flow d == pinDev[f]
             run == TaskOf("Schedule", f, Head(stack).step, d)
  <2>1. stack # <<>> /\ Head(stack).op = "InvocationReady"
    BY <1>7 DEF ReadyReserved, Pending
  <2>2. f \notin spilled
    BY DEF BooksInv, SpillInv
  <2>3. PICK a \in Seq(Task) : Respond(a) /\ Restore(a, run, {})
    <3>1. \E a \in Seq(Task) :
          \E V \in (IF f \in spilled THEN Victims(f, d) ELSE {{}}) :
               /\ Respond(a) /\ PlainAnswer(a)
               /\ Restore(a, TaskOf("Schedule", f, Head(stack).step, d), V)
               /\ running' = AfterEviction(V)
      <4> HIDE DEF f, d
      <4> QED
        BY <1>1, <1>7, RestoreAnswers DEF f, d
    <3> QED
      BY <2>2, <3>1
  <2>4. \A t \in Tasks(a) : t = run
    BY <2>3 DEF Restore
  <2>5. run.op = "Schedule"
    BY DEF TaskOf
  <2>6. Tail(stack) \in Seq(Task) /\ \A t \in Tasks(Tail(stack)) : t.op # "Preempt"
    BY <1>1, <2>1, EventCalls DEF EventOps
  <2>7. Tasks(stack') = Tasks(a) \cup Tasks(Tail(stack))
    BY <2>3, <2>6, TasksParts DEF Respond
  <2> HIDE DEF run
  <2> QED
    BY <1>2, <2>4, <2>5, <2>6, <2>7 DEF Calls
<1>8. CASE UNCHANGED vars
  BY <1>8 DEF Evicted, Calls, vars, engineVars
<1> QED
  BY <1>3, <1>4, <1>5, <1>6, <1>7, <1>8 DEF Next, PolicyAnswer

\* SettlementCredits: with STRICT pins no service is lost, whenever a device is
\* settled.  (With TIERED pins it is: see the run lost_service.)
THEOREM StrictSettles ==
    ASSUME PinMode = "STRICT" PROVE Spec => SettlementCredits
<1>1. Init => NobodyEvicted
  BY NothingPending DEF Init, NobodyEvicted
<1>2. ASSUME Known, BooksInv, NobodyEvicted, [Next]_vars PROVE NobodyEvicted'
  BY <1>2, StrictEvictsNobody
<1>3. Spec => []NobodyEvicted
  BY <1>1, <1>2, KnownAll, BooksInvHolds, PTL DEF Spec
<1>4. ASSUME Known, NobodyEvicted, [Next]_vars
      PROVE  [\A d \in Devices : accrued'[d] < accrued[d] =>
                  \A f \in Decoding(d) : left'[f] = left[f] - accrued[d]]_engineVars
  <2>1. ~Preempt
    <3> SUFFICES ASSUME Preempt PROVE FALSE
      OBVIOUS
    <3>1. stack # <<>> /\ Head(stack).op = "Preempt" /\ stack \in Seq(Task)
      BY <1>4 DEF Preempt, Pending, Known, ReservationInv, EngineInv, EngineTypeOK
    <3>2. Head(stack) \in Calls(stack)
      BY <3>1, CallsParts DEF CallOps
    <3> QED
      BY <1>4, <3>1, <3>2, CallType DEF Evicted, NobodyEvicted
  <2> QED
    BY <1>4, <2>1, StepSettles DEF Settles
<1> QED
  BY <1>3, <1>4, KnownAll, PTL DEF Spec, SettlementCredits

-----------------------------------------------------------------------------
(* The budget.  It pays for every token a flow generates and for nothing else: *)
(* what an invocation still has to generate is its output until it starts, so  *)
(* that what it has generated is known; an invocation that stops has generated *)
(* all of its output, or all that its flow could pay for.                      *)

\* The budget of f is its class budget minus the tokens f generated.
MeterOf(f) ==
    /\ f \notin admitted => phase[f] = "PENDING"
    /\ phase[f] = "PENDING" => left[f] = output[f][Step(f)]
    /\ f \in admitted /\ f \notin abandoned /\ budget[f] # Unmetered =>
           budget[f] = ClassBudget[f] - Spent(f)
    /\ f \in abandoned => budget[f] = 0 /\ left[f] > 0
Metering ==
    /\ \A f \in Flows : MeterOf(f)
    /\ \A r \in finished : left[r.flow] = 0
    /\ \A r \in exhausted : left[r.flow] > 0 /\ budget[r.flow] = 0

\* What is added up is the output of finished invocations.
LEMMA SpentType ==
    ASSUME EngineInv, NEW f \in Flows
    PROVE  /\ Total(1..cursor[f], output[f]) \in Nat /\ Spent(f) \in Int
           /\ cursor[f] \in Nat /\ cursor[f] <= Len(Work[f]) /\ Len(Work[f]) \in Nat
           /\ left[f] \in Int /\ budget[f] \in Int /\ ClassBudget[f] \in Nat
           /\ \A s \in Steps(f) : output[f][s] \in Nat
           /\ IsFiniteSet(1..cursor[f]) /\ 1..cursor[f] \subseteq Steps(f)
<1>1. /\ cursor[f] \in Nat /\ cursor[f] <= Len(Work[f]) /\ Len(Work[f]) \in Nat
      /\ left[f] \in Int /\ budget[f] \in Int /\ output[f] \in [Steps(f) -> Nat]
  BY WorkType DEF EngineInv, EngineTypeOK, CursorInRange
<1>2. ClassBudget[f] \in Nat
  BY PolicyAssumption
<1>3. IsFiniteSet(1..cursor[f]) /\ 1..cursor[f] \subseteq Steps(f)
  <2>1. 1..cursor[f] \subseteq Steps(f)
    BY <1>1 DEF Steps
  <2>2. cursor[f] \in Int /\ 1 \in Int
    BY <1>1
  <2>3. IsFiniteSet(1..cursor[f])
    BY <2>2, FS_Interval
  <2> QED
    BY <2>1, <2>3
<1>4. \A s \in 1..cursor[f] : output[f][s] \in Nat
  BY <1>1, <1>3
<1>5. Total(1..cursor[f], output[f]) \in Nat
  <2> DEFINE S == 1..cursor[f] size == output[f]
  <2>1. IsFiniteSet(S) /\ \A s \in S : size[s] \in Nat
    BY <1>3, <1>4
  <2> HIDE DEF S, size
  <2>2. Total(S, size) \in Nat
    BY <2>1, TotalType
  <2> QED
    BY <2>2 DEF S, size
<1>6. ~IsComplete(f) => output[f][Step(f)] \in Nat
  BY <1>1 DEF IsComplete, Step, Steps
<1>7. Spent(f) \in Int
  <2> DEFINE rest == IF IsComplete(f) THEN 0 ELSE output[f][Step(f)] - left[f]
  <2>1. rest \in Int
    BY <1>1, <1>6
  <2> HIDE DEF rest
  <2>2. Total(1..cursor[f], output[f]) + rest \in Int
    BY <1>5, <2>1
  <2> QED
    BY <2>2 DEF Spent, rest
<1> QED
  BY <1>1, <1>2, <1>3, <1>5, <1>7

\* A flow that is not served is not charged, whatever becomes of its phase.
LEMMA MeterSame ==
    ASSUME NEW f \in Flows, MeterOf(f),
           cursor'[f] = cursor[f], left'[f] = left[f], budget'[f] = budget[f],
           output'[f] = output[f],
           f \in admitted' <=> f \in admitted, f \in abandoned' <=> f \in abandoned,
           phase'[f] = phase[f] \/ (phase'[f] # "PENDING" /\ f \in admitted)
    PROVE  MeterOf(f)'
BY DEF MeterOf, Spent, IsComplete, Step

\* A token of service is a token generated and a token paid for.
LEMMA MeterCredited ==
    ASSUME EngineInv, NEW f \in Flows, MeterOf(f), NEW a \in Nat,
           cursor'[f] = cursor[f], output'[f] = output[f],
           left'[f] = left[f] - a,
           budget'[f] = IF budget[f] # Unmetered THEN budget[f] - a ELSE budget[f],
           admitted' = admitted, abandoned' = abandoned,
           cursor[f] < Len(Work[f]), f \in admitted, f \notin abandoned,
           phase'[f] # "PENDING"
    PROVE  MeterOf(f)'
<1>1. /\ Total(1..cursor[f], output[f]) \in Nat /\ cursor[f] \in Nat
      /\ left[f] \in Int /\ budget[f] \in Int /\ ClassBudget[f] \in Nat
      /\ Len(Work[f]) \in Nat /\ \A s \in Steps(f) : output[f][s] \in Nat
  BY SpentType
<1>2. ~IsComplete(f) /\ ~IsComplete(f)' /\ output[f][Step(f)] \in Nat
  BY <1>1 DEF IsComplete, Steps, Step
<1> DEFINE T == Total(1..cursor[f], output[f]) o == output[f][Step(f)]
<1>3. Spent(f) = T + (o - left[f]) /\ Spent(f)' = T + (o - (left[f] - a))
  BY <1>2 DEF Spent, Step
<1>4. T \in Nat /\ o \in Nat
  BY <1>1, <1>2
<1> HIDE DEF T, o
<1>5. Spent(f)' = Spent(f) + a /\ Spent(f) \in Int
  BY <1>1, <1>3, <1>4
<1>6. budget'[f] # Unmetered =>
          budget[f] # Unmetered /\ budget'[f] = ClassBudget[f] - Spent(f)'
  BY <1>1, <1>5 DEF MeterOf
<1> QED
  BY <1>6 DEF MeterOf

\* When an invocation that generated its whole output is over, the next starts
\* with nothing generated.
LEMMA MeterAdvanced ==
    ASSUME EngineInv, NEW f \in Flows, MeterOf(f), left[f] = 0,
           cursor[f] < Len(Work[f]), f \in admitted, f \notin abandoned,
           cursor'[f] = cursor[f] + 1, output'[f] = output[f],
           budget'[f] = budget[f], admitted' = admitted, abandoned' = abandoned,
           \/ cursor'[f] = Len(Work[f]) /\ phase'[f] = "COMPLETE"
           \/ cursor'[f] < Len(Work[f]) /\ left'[f] = output[f][cursor'[f] + 1]
    PROVE  MeterOf(f)'
<1>1. /\ Total(1..cursor[f], output[f]) \in Nat /\ cursor[f] \in Nat
      /\ left[f] \in Int /\ budget[f] \in Int /\ ClassBudget[f] \in Nat
      /\ Len(Work[f]) \in Nat /\ \A s \in Steps(f) : output[f][s] \in Nat
      /\ IsFiniteSet(1..cursor[f]) /\ 1..cursor[f] \subseteq Steps(f)
  BY SpentType
<1>2. ~IsComplete(f) /\ Step(f) \in Steps(f) /\ Step(f) = cursor[f] + 1
      /\ Step(f) \notin 1..cursor[f]
  BY <1>1 DEF IsComplete, Steps, Step
<1>3. 1..cursor'[f] = (1..cursor[f]) \cup {Step(f)}
  BY <1>1, <1>2
<1>4. Total(1..cursor'[f], output[f]) = Total(1..cursor[f], output[f]) + output[f][Step(f)]
  <2> DEFINE S == 1..cursor[f] size == output[f] y == Step(f)
  <2>1. IsFiniteSet(S) /\ y \notin S
    BY <1>1, <1>2
  <2>2. \A x \in S \cup {y} : size[x] \in Nat
    BY <1>1, <1>2
  <2>3. Total(S \cup {y}, size) = Total(S, size) + size[y]
    <3> HIDE DEF S, size, y
    <3> QED
      BY ONLY <2>1, <2>2, TotalAdd
  <2> QED
    BY <1>3, <2>3 DEF S, size, y
<1> DEFINE T == Total(1..cursor[f], output[f]) o == output[f][Step(f)]
<1>5. Spent(f) = T + (o - 0)
  BY <1>2 DEF Spent
<1>6. Spent(f)' = (T + o) + 0
  <2>1. CASE cursor'[f] = Len(Work[f])
    <3>1. IsComplete(f)'
      BY <1>1, <2>1 DEF IsComplete
    <3> QED
      BY <1>4, <3>1 DEF Spent
  <2>2. CASE cursor'[f] < Len(Work[f]) /\ left'[f] = output[f][cursor'[f] + 1]
    <3>1. ~IsComplete(f)' /\ output[f][Step(f)'] \in Nat
      BY <1>1, <2>2 DEF IsComplete, Step, Steps
    <3>2. output'[f][Step(f)'] - left'[f] = 0
      BY <2>2, <3>1 DEF Step
    <3> QED
      BY <1>4, <3>1, <3>2 DEF Spent
  <2> QED
    BY <2>1, <2>2
<1>7. T \in Nat /\ o \in Nat
  BY <1>1, <1>2
<1>8. Spent(f)' = Spent(f)
  <2> HIDE DEF T, o
  <2> QED
    BY <1>5, <1>6, <1>7
<1>9. phase'[f] = "PENDING" => left'[f] = output'[f][Step(f)']
  <2>1. cursor'[f] < Len(Work[f]) => left'[f] = output[f][cursor'[f] + 1]
    BY <1>1
  <2>2. phase'[f] = "PENDING" => left'[f] = output[f][cursor'[f] + 1]
    BY <1>1
  <2> QED
    BY <2>2 DEF Step
<1> QED
  BY <1>8, <1>9 DEF MeterOf

\* A device that settles charges its decoders for what they generated.
LEMMA MeterSettles ==
    ASSUME Known, BooksInv, Metering, NEW d \in Devices,
           left' = CreditedLeft(d), budget' = CreditedBudget(d),
           UNCHANGED <<cursor, output, admitted, abandoned>>,
           \A f \in Flows : \/ phase'[f] = phase[f]
                            \/ /\ phase'[f] # "PENDING" /\ where[f] # NoDevice
    PROVE  \A f \in Flows : MeterOf(f)'
<1>1. EngineInv /\ EngineTypeOK /\ KnownAdmitted
  BY DEF Known, ReservationInv, EngineInv, KnownInv
<1> SUFFICES ASSUME NEW f \in Flows PROVE MeterOf(f)'
  OBVIOUS
<1>2. CASE f \in Decoding(d)
  <2>1. where[f] = d /\ phase[f] = "DECODE" /\ d # NoDevice
    BY <1>2 DEF Decoding, Resident, Devices, NoDevice
  <2>2. f \in admitted /\ cursor[f] < Len(Work[f])
    <3>1. f \in OnDevices
      BY <2>1 DEF OnDevices
    <3> QED
      BY <3>1 DEF BooksInv, Located, Partition, Open
  <2>3. f \notin abandoned
    <3>1. cursor[f] # Len(Work[f])
      BY <1>1, <2>2 DEF EngineInv, CompleteIsOver, EngineTypeOK
    <3> QED
      BY <3>1 DEF BooksInv, PinsLive
  <2>4. phase'[f] # "PENDING"
    BY <2>1
  <2>5. accrued[d] \in Nat
    BY <1>1 DEF EngineTypeOK
  <2>6. left'[f] = left[f] - accrued[d]
    BY <1>2 DEF CreditedLeft
  <2>7. budget'[f] = IF budget[f] # Unmetered THEN budget[f] - accrued[d] ELSE budget[f]
    BY <1>2 DEF CreditedBudget
  <2>8. MeterOf(f)
    BY DEF Metering
  <2> QED
    BY <1>1, <2>2, <2>3, <2>4, <2>5, <2>6, <2>7, <2>8, MeterCredited
<1>3. CASE f \notin Decoding(d)
  <2>1. left'[f] = left[f] /\ budget'[f] = budget[f]
    BY <1>3 DEF CreditedLeft, CreditedBudget
  <2>2. phase'[f] = phase[f] \/ (phase'[f] # "PENDING" /\ f \in admitted)
    BY <1>1 DEF KnownAdmitted
  <2>3. MeterOf(f)
    BY DEF Metering
  <2> QED
    BY <2>1, <2>2, <2>3, MeterSame
<1> QED
  BY <1>2, <1>3

\* What neither serves nor completes nor admits nor degrades leaves every meter.
LEMMA MeterQuiet ==
    ASSUME Metering, UNCHANGED <<cursor, left, budget, output, admitted, abandoned,
                                 finished, exhausted>>,
           \A f \in Flows : \/ phase'[f] = phase[f]
                            \/ phase'[f] # "PENDING" /\ f \in admitted
    PROVE  Metering'
<1>1. \A f \in Flows : MeterOf(f)'
  BY MeterSame DEF Metering
<1> QED
  BY <1>1 DEF Metering

\* An admission opens the meter of a flow that has generated nothing.
LEMMA MeterAdmits ==
    ASSUME Known, BooksInv, Metering, AdmitStep PROVE Metering'
<1>1. /\ EngineInv /\ EngineTypeOK /\ PinsInv /\ KnownAdmitted /\ stack \in Seq(Task)
  BY DEF Known, ReservationInv, EngineInv, EngineTypeOK, KnownInv
<1>2. PICK f \in Flows : /\ stack # <<>> /\ Head(stack).flow = f
                         /\ AdmitAggregate(BudgetFor(f)) \/ AdmitReserved(BudgetFor(f))
  BY DEF AdmitStep
<1>3. /\ Head(stack).op = "Admit" /\ admitted' = admitted \cup {f}
      /\ budget' = [budget EXCEPT ![f] = BudgetFor(f)]
      /\ UNCHANGED <<cursor, left, output, abandoned, phase, finished, exhausted>>
  BY <1>2 DEF AdmitAggregate, AdmitReserved, Pending, loopVars
<1>4. f \notin admitted
  <2>1. 1 \in 1..Len(stack) /\ stack[1] = Head(stack)
    BY <1>1, <1>2
  <2> QED
    BY <1>2, <1>3, <2>1 DEF Known, PinsInv, AdmitsOnce
<1>5. cursor[f] = 0 /\ f \notin abandoned /\ Len(Work[f]) \in Nat /\ Len(Work[f]) > 0
  BY <1>4, WorkType DEF BooksInv, Untouched, PinsLive
<1>6. MeterOf(f)'
  <2>1. phase[f] = "PENDING" /\ left[f] = output[f][1] /\ left[f] \in Int
    BY <1>1, <1>4, <1>5 DEF Metering, MeterOf, Step, EngineTypeOK
  <2>2. Spent(f)' = 0
    <3>1. 1..cursor[f] = {}
      BY <1>5
    <3>2. Total(1..cursor'[f], output'[f]) = 0
      <4>1. 1..cursor'[f] = {}
        BY <1>3, <3>1
      <4> QED
        BY <4>1, TotalEmpty, Zenon
    <3>3. ~IsComplete(f)' /\ Step(f)' = 1
      BY <1>3, <1>5 DEF IsComplete, Step
    <3>4. output'[f][Step(f)'] - left'[f] = 0
      BY <1>3, <2>1, <3>3
    <3> QED
      BY <3>2, <3>3, <3>4 DEF Spent
  <2>3. budget'[f] # Unmetered => budget'[f] = ClassBudget[f] /\ ClassBudget[f] \in Nat
    BY <1>1, <1>3, PolicyAssumption DEF EngineTypeOK, BudgetFor
  <2>4. budget'[f] # Unmetered => budget'[f] = ClassBudget[f] - Spent(f)'
    BY <2>2, <2>3
  <2> QED
    BY <1>3, <1>5, <2>1, <2>4 DEF MeterOf, Step
<1>7. \A g \in Flows : g # f => MeterOf(g)'
  <2> SUFFICES ASSUME NEW g \in Flows, g # f PROVE MeterOf(g)'
    OBVIOUS
  <2>1. budget'[g] = budget[g] /\ MeterOf(g)
    BY <1>1, <1>3 DEF EngineTypeOK, Metering
  <2> QED
    BY <1>3, <2>1, MeterSame
<1>8. \A r \in finished \cup exhausted : r.flow # f
  BY <1>1, <1>4 DEF KnownAdmitted
<1>9. \A r \in exhausted : budget'[r.flow] = budget[r.flow]
  BY <1>1, <1>3, <1>8 DEF EngineTypeOK
<1> QED
  BY <1>3, <1>6, <1>7, <1>9 DEF Metering

\* A degraded invocation has not started: what it has to generate shrinks with
\* what it would have generated.
LEMMA MeterDegrades ==
    ASSUME Known, BooksInv, Metering, Degrade PROVE Metering'
<1>1. EngineInv /\ EngineTypeOK
  BY DEF Known, ReservationInv, EngineInv
<1>2. PICK f \in Flows : f = Head(stack).flow
  BY <1>1, ActionType DEF Degrade, ActionOps
<1> DEFINE reshaped == {s \in Steps(f) : s > Step(f)
                                \/ (s = Step(f) /\ phase[f] = "PENDING")}
<1>3. /\ output' = [output EXCEPT ![f] =
               [s \in Steps(f) |-> IF s \in reshaped THEN Shortened(@[s]) ELSE @[s]]]
      /\ left' = IF Step(f) \in reshaped
                 THEN [left EXCEPT ![f] = Shortened(output[f][Step(f)])]
                 ELSE left
      /\ UNCHANGED <<cursor, budget, admitted, abandoned, phase, finished, exhausted,
                     where>>
  BY <1>2 DEF Degrade, loopVars
<1>4. /\ cursor[f] \in Nat /\ cursor[f] <= Len(Work[f]) /\ Len(Work[f]) \in Nat
      /\ IsFiniteSet(1..cursor[f]) /\ 1..cursor[f] \subseteq Steps(f)
      /\ left[f] \in Int
  BY <1>1, SpentType
<1>5. \A s \in Steps(f) :
          output'[f][s] = IF s \in reshaped THEN Shortened(output[f][s]) ELSE output[f][s]
  BY <1>1, <1>3 DEF EngineTypeOK
<1>6. \A s \in 1..cursor[f] : output'[f][s] = output[f][s]
  <2>1. \A s \in 1..cursor[f] : s \in Steps(f) /\ s < Step(f)
    BY <1>4 DEF Step
  <2>2. \A s \in 1..cursor[f] : s \notin reshaped
    BY <1>4, <2>1 DEF Step
  <2> QED
    BY <1>5, <2>1, <2>2
<1>7. Total(1..cursor[f], output'[f]) = Total(1..cursor[f], output[f])
  BY ONLY <1>6, TotalSame
<1>8. /\ Step(f) \in reshaped <=> Step(f) \in Steps(f) /\ phase[f] = "PENDING"
      /\ ~(Step(f) > Step(f))
  <2>1. ~(Step(f) > Step(f))
    BY <1>4 DEF Step
  <2> QED
    BY <2>1
<1>9. Step(f) \in Steps(f) <=> ~IsComplete(f)
  BY <1>4 DEF Step, Steps, IsComplete
<1>10. phase[f] = "PENDING" => ~IsComplete(f)
  BY <1>1, <1>4 DEF EngineInv, CompleteIsOver, IsComplete
<1> HIDE DEF reshaped
<1>11. MeterOf(f)'
  <2>1. CASE Step(f) \in reshaped
    <3>1. /\ left'[f] = Shortened(output[f][Step(f)])
          /\ output'[f][Step(f)] = Shortened(output[f][Step(f)])
          /\ phase[f] = "PENDING" /\ ~IsComplete(f)
      BY <1>1, <1>3, <1>5, <1>8, <1>9, <2>1 DEF EngineTypeOK
    <3>2. left[f] = output[f][Step(f)]
      BY <3>1 DEF Metering, MeterOf
    <3>3. Shortened(output[f][Step(f)]) \in Nat
      <4>1. output[f][Step(f)] \in Nat
        BY <1>1, <1>8, <2>1, SpentType
      <4> QED
        BY <4>1, ShortenedType
    <3>4. f \notin abandoned
      BY <1>4, <3>1 DEF BooksInv, PinsLive, IsComplete
    <3>5. Spent(f)' = Spent(f)
      <4>1. output[f][Step(f)] - left[f] = 0 /\ output'[f][Step(f)] - left'[f] = 0
        BY <1>4, <3>1, <3>2, <3>3
      <4> QED
        BY <1>3, <1>7, <3>1, <4>1 DEF Spent, IsComplete, Step
    <3> QED
      BY <1>3, <3>1, <3>4, <3>5 DEF Metering, MeterOf, Step
  <2>2. CASE Step(f) \notin reshaped
    <3>1. left' = left /\ phase[f] # "PENDING"
      BY <1>3, <1>8, <1>9, <1>10, <2>2
    <3>2. ~IsComplete(f) => output'[f][Step(f)] = output[f][Step(f)]
      BY <1>5, <1>9, <2>2
    <3>3. Spent(f)' = Spent(f)
      BY <1>3, <1>7, <3>1, <3>2 DEF Spent, IsComplete, Step
    <3> QED
      BY <1>3, <3>1, <3>3 DEF Metering, MeterOf
  <2> QED
    BY <2>1, <2>2
<1>12. \A g \in Flows : g # f => MeterOf(g)' /\ left'[g] = left[g]
  <2> SUFFICES ASSUME NEW g \in Flows, g # f PROVE MeterOf(g)' /\ left'[g] = left[g]
    OBVIOUS
  <2>1. left'[g] = left[g] /\ output'[g] = output[g] /\ MeterOf(g)
    BY <1>1, <1>3 DEF EngineTypeOK, Metering
  <2> QED
    BY <1>3, <2>1, MeterSame
<1>13. \A r \in finished \cup exhausted : left'[r.flow] = left[r.flow]
  <2> SUFFICES ASSUME NEW r \in finished \cup exhausted PROVE left'[r.flow] = left[r.flow]
    OBVIOUS
  <2>1. r.flow \in Flows /\ r.dev \in Devices /\ where[r.flow] = r.dev
    BY <1>1 DEF EngineTypeOK, BooksInv, HomesInv
  <2>2. phase[r.flow] # "PENDING"
    <3>1. where[r.flow] # NoDevice
      BY <2>1 DEF Devices, NoDevice
    <3> QED
      BY <1>1, <2>1, <3>1 DEF EngineInv, ResidentIsPlaced
  <2>3. CASE r.flow = f
    <3>1. Step(f) \notin reshaped
      BY <1>8, <2>2, <2>3
    <3> QED
      BY <1>3, <3>1
  <2> QED
    BY <1>12, <2>1, <2>3
<1> QED
  BY <1>3, <1>11, <1>12, <1>13 DEF Metering

\* An invocation that stops has generated all of its output, or all its flow could
\* pay for.
LEMMA MeterCompletes ==
    ASSUME Known, BooksInv, Metering, NEW f \in Flows, NEW d \in Devices,
           \/ CompleteFlow(f, d) \/ CompleteIntoGap(f, d)
           \/ CompleteIntoNext(f, d) \/ AbandonFlow(f, d)
    PROVE  Metering'
<1>1. EngineInv /\ EngineTypeOK /\ KnownAdmitted
  BY DEF Known, ReservationInv, EngineInv, KnownInv
<1>2. Stop(f, d) \in finished \cup exhausted
  BY DEF CompleteFlow, CompleteIntoGap, CompleteIntoNext, Advance, AbandonFlow, Completing
<1>3. /\ cursor[f] \in Nat /\ Len(Work[f]) \in Nat /\ cursor[f] < Len(Work[f])
      /\ Step(f) = cursor[f] + 1 /\ f \in admitted /\ f \notin abandoned
  <2>1. cursor[f] < Len(Work[f]) /\ cursor[f] \in Nat /\ Len(Work[f]) \in Nat
    BY <1>1, <1>2, StopType
  <2>2. f \in admitted
    BY <1>1, <1>2 DEF KnownAdmitted, Stop
  <2>3. f \notin abandoned
    BY <2>1 DEF BooksInv, PinsLive
  <2> QED
    BY <2>1, <2>2, <2>3 DEF Step
<1>4. \A r \in (finished \cup exhausted) \ {Stop(f, d)} : r.flow # f /\ r.flow \in Flows
  <2>1. \A r \in finished \cup exhausted : r.flow = f => r = Stop(f, d)
    BY <1>1, <1>2 DEF EngineInv, StopsOpen, Stop
  <2> QED
    BY <1>1, <2>1 DEF EngineTypeOK
<1>5. MeterOf(f)
  BY DEF Metering
<1>6. ASSUME MeterOf(f)', UNCHANGED <<budget, output, admitted>>,
             finished' \cup exhausted' \subseteq (finished \cup exhausted) \ {Stop(f, d)},
             finished' \subseteq finished, exhausted' \subseteq exhausted,
             \A g \in Flows : g # f => /\ cursor'[g] = cursor[g] /\ left'[g] = left[g]
                                       /\ phase'[g] = phase[g]
                                       /\ g \in abandoned' <=> g \in abandoned
      PROVE  Metering'
  <2>1. \A g \in Flows : MeterOf(g)'
    <3> SUFFICES ASSUME NEW g \in Flows, g # f PROVE MeterOf(g)'
      BY <1>6
    <3>1. MeterOf(g)
      BY DEF Metering
    <3> QED
      BY <1>6, <3>1, MeterSame
  <2>2. \A r \in finished' : left'[r.flow] = 0
    BY <1>4, <1>6 DEF Metering
  <2>3. \A r \in exhausted' : left'[r.flow] > 0 /\ budget'[r.flow] = 0
    BY <1>4, <1>6 DEF Metering
  <2> QED
    BY <2>1, <2>2, <2>3 DEF Metering
<1>7. CASE CompleteFlow(f, d)
  <2>1. /\ UNCHANGED <<budget, output, admitted, abandoned, exhausted>>
        /\ cursor' = [cursor EXCEPT ![f] = @ + 1]
        /\ left' = [left EXCEPT ![f] = 0] /\ phase' = [phase EXCEPT ![f] = "COMPLETE"]
        /\ finished' = finished \ {Stop(f, d)} /\ Stop(f, d) \in finished
        /\ Step(f) = Len(Work[f])
    BY <1>7 DEF CompleteFlow, Completing, Leave, IsLastStep, flowVars
  <2>2. /\ cursor'[f] = cursor[f] + 1 /\ cursor'[f] = Len(Work[f])
        /\ phase'[f] = "COMPLETE"
    BY <1>1, <1>3, <2>1 DEF EngineTypeOK
  <2>3. left[f] = 0
    BY <2>1 DEF Metering, Stop
  <2>4. MeterOf(f)'
    BY <1>1, <1>3, <1>5, <2>1, <2>2, <2>3, MeterAdvanced
  <2>5. Stop(f, d) \notin exhausted
    BY <1>1, <2>1 DEF EngineInv, StopsOpen
  <2> QED
    BY <1>1, <1>6, <2>1, <2>4, <2>5 DEF EngineTypeOK
<1>8. CASE Advance(f, d) /\ UNCHANGED <<flowVars, budget, exhausted>>
  <2>1. /\ UNCHANGED <<budget, output, admitted, abandoned, exhausted>>
        /\ cursor' = [cursor EXCEPT ![f] = @ + 1]
        /\ left' = [left EXCEPT ![f] = output[f][Step(f) + 1]]
        /\ phase' = [phase EXCEPT ![f] = "PENDING"]
        /\ finished' = finished \ {Stop(f, d)} /\ Stop(f, d) \in finished
        /\ Step(f) # Len(Work[f])
    BY <1>8 DEF Advance, Completing, Leave, IsLastStep, flowVars
  <2>2. /\ cursor'[f] = cursor[f] + 1 /\ cursor'[f] < Len(Work[f])
        /\ left'[f] = output[f][cursor'[f] + 1]
    <3>1. cursor'[f] = cursor[f] + 1 /\ left'[f] = output[f][Step(f) + 1]
      BY <1>1, <1>3, <2>1 DEF EngineTypeOK
    <3>2. Step(f) = cursor'[f]
      BY <1>3, <3>1
    <3>3. Step(f) # Len(Work[f])
      BY <2>1
    <3>4. cursor[f] + 1 # Len(Work[f])
      BY <1>3, <3>3
    <3>5. cursor[f] + 1 < Len(Work[f])
      BY <1>3, <3>4
    <3> QED
      BY <3>1, <3>2, <3>5
  <2>3. left[f] = 0
    BY <2>1 DEF Metering, Stop
  <2>4. MeterOf(f)'
    BY <1>1, <1>3, <1>5, <2>1, <2>2, <2>3, MeterAdvanced
  <2>5. Stop(f, d) \notin exhausted
    BY <1>1, <2>1 DEF EngineInv, StopsOpen
  <2> QED
    BY <1>1, <1>6, <2>1, <2>4, <2>5 DEF EngineTypeOK
<1>9. CASE AbandonFlow(f, d)
  <2>1. /\ UNCHANGED <<left, budget, output, admitted, finished>>
        /\ cursor' = [cursor EXCEPT ![f] = @ + (Len(Work[f]) - cursor[f])]
        /\ phase' = [phase EXCEPT ![f] = "COMPLETE"] /\ abandoned' = abandoned \cup {f}
        /\ exhausted' = exhausted \ {Stop(f, d)} /\ Stop(f, d) \in exhausted
        /\ finished = {}
    BY <1>9 DEF AbandonFlow, Leave
  <2>2. left[f] > 0 /\ budget[f] = 0
    BY <2>1 DEF Metering, Stop
  <2>3. MeterOf(f)'
    BY <1>1, <1>3, <2>1, <2>2 DEF MeterOf, EngineTypeOK
  <2> QED
    BY <1>1, <1>6, <2>1, <2>3 DEF EngineTypeOK
<1> QED
  BY <1>7, <1>8, <1>9 DEF CompleteIntoGap, CompleteIntoNext

\* At the end of an interval nobody has generated more than it had to or could pay.
LEMMA MeterInterval ==
    ASSUME Known, BooksInv, Metering, NeverOverserved', NEW d \in Devices,
           IntervalEnd(d)
    PROVE  Metering'
<1>1. /\ left' = CreditedLeft(d) /\ budget' = CreditedBudget(d)
      /\ finished' = {Stop(f, d) : f \in {g \in Decoding(d) : left'[g] = 0}}
      /\ exhausted' = {Stop(f, d) : f \in {g \in Decoding(d) :
                                        left'[g] # 0 /\ budget'[g] = 0}}
      /\ UNCHANGED <<cursor, output, admitted, abandoned, phase>>
  BY DEF IntervalEnd, flowVars
<1>2. \A f \in Flows : MeterOf(f)'
  BY <1>1, MeterSettles
<1>3. \A r \in finished' : left'[r.flow] = 0
  BY <1>1 DEF Stop
<1>4. \A r \in exhausted' : left'[r.flow] > 0 /\ budget'[r.flow] = 0
  <2> SUFFICES ASSUME NEW r \in exhausted' PROVE left'[r.flow] > 0 /\ budget'[r.flow] = 0
    OBVIOUS
  <2>1. r.flow \in Flows /\ left'[r.flow] # 0 /\ budget'[r.flow] = 0
    BY <1>1 DEF Stop, Decoding, Resident
  <2>2. left'[r.flow] >= 0 /\ left'[r.flow] \in Int
    <3>1. CreditedLeft(d) \in [Flows -> Int]
      BY CreditedType DEF Known, ReservationInv, EngineInv
    <3> QED
      BY <1>1, <2>1, <3>1 DEF NeverOverserved
  <2> QED
    BY <2>1, <2>2
<1> QED
  BY <1>2, <1>3, <1>4 DEF Metering

\* Everything else settles first or does not touch the meters.
LEMMA MeterPreempts ==
    ASSUME Known, BooksInv, Metering, Preempt PROVE Metering'
<1>1. EngineInv /\ EngineTypeOK /\ stack \in Seq(Task) /\ KnownAdmitted
  BY DEF Known, ReservationInv, EngineInv, EngineTypeOK, KnownInv
<1>2. PICK f \in Flows : f = Head(stack).flow
  BY <1>1, ActionType DEF Preempt, ActionOps
<1>3. /\ left' = IF phase[f] = "DECODE" THEN CreditedLeft(where[f]) ELSE left
      /\ budget' = IF phase[f] = "DECODE" THEN CreditedBudget(where[f]) ELSE budget
      /\ phase' = [phase EXCEPT ![f] = "PREEMPTED"]
      /\ phase[f] \in {"PREFILL", "DECODE"}
      /\ UNCHANGED <<cursor, output, admitted, abandoned, finished, exhausted>>
  BY <1>2 DEF Preempt, Preemptible, flowVars, loopVars
<1>4. finished = {} /\ exhausted = {}
  <2>1. f \in Evicted
    <3>1. stack # <<>> /\ Head(stack).op = "Preempt"
      BY DEF Preempt, Pending
    <3>2. Head(stack) \in Calls(stack)
      BY <1>1, <3>1, CallsParts DEF CallOps
    <3> QED
      BY <1>2, <3>1, <3>2 DEF Evicted
  <2> QED
    BY <2>1 DEF BooksInv, SpillInv
<1>5. where[f] # NoDevice /\ where[f] \in Devices /\ f \in admitted
  <2>1. where[f] # NoDevice
    BY <1>1, <1>3 DEF EngineInv, ResidentIsPlaced
  <2>2. where[f] \in 0..NumDevices /\ NumDevices \in Nat
    BY <1>1, SizesAssumption DEF EngineTypeOK
  <2> QED
    BY <1>1, <2>1, <2>2 DEF NoDevice, Devices, KnownAdmitted
<1>6. \A g \in Flows : phase'[g] = phase[g] \/ (phase'[g] # "PENDING" /\ g = f)
  BY <1>1, <1>3 DEF EngineTypeOK
<1>7. \A g \in Flows : MeterOf(g)'
  <2>1. CASE phase[f] = "DECODE"
    <3>1. /\ left' = CreditedLeft(where[f]) /\ budget' = CreditedBudget(where[f])
          /\ UNCHANGED <<cursor, output, admitted, abandoned>>
      BY <1>3, <2>1
    <3>2. \A g \in Flows : \/ phase'[g] = phase[g]
                            \/ /\ phase'[g] # "PENDING" /\ where[g] # NoDevice
      BY <1>5, <1>6
    <3> QED
      BY <1>5, <3>1, <3>2, MeterSettles
  <2>2. CASE phase[f] # "DECODE"
    <3>1. UNCHANGED <<left, budget>>
      BY <1>3, <2>2
    <3>2. \A g \in Flows : phase'[g] = phase[g] \/ (phase'[g] # "PENDING" /\ g \in admitted)
      BY <1>5, <1>6
    <3>3. Metering'
      BY <1>3, <3>1, <3>2, MeterQuiet
    <3> QED
      BY <3>3 DEF Metering
  <2> QED
    BY <2>1, <2>2
<1> QED
  BY <1>3, <1>4, <1>7 DEF Metering

\* Entering a device meters nothing.
LEMMA MeterEnters ==
    ASSUME Known, BooksInv, Metering, NEW t \in timers, EnterDevice(t)
    PROVE  Metering'
<1>1. EngineInv /\ EngineTypeOK /\ t.dev \in Devices /\ t.flow \in Flows
  BY DEF Known, ReservationInv, EngineInv, EngineTypeOK
<1>2. /\ left' = CreditedLeft(t.dev) /\ budget' = CreditedBudget(t.dev)
      /\ phase' = [phase EXCEPT ![t.flow] = "DECODE"] /\ where[t.flow] = t.dev
      /\ UNCHANGED <<cursor, output, admitted, abandoned, finished, exhausted>>
      /\ finished = {} /\ exhausted = {}
  BY DEF EnterDevice, StillEntering, Idle, flowVars, loopVars
<1>3. \A g \in Flows : \/ phase'[g] = phase[g]
                        \/ /\ phase'[g] # "PENDING" /\ where[g] # NoDevice
  BY <1>1, <1>2 DEF EngineTypeOK, Devices, NoDevice
<1>4. \A g \in Flows : MeterOf(g)'
  BY <1>1, <1>2, <1>3, MeterSettles
<1> QED
  BY <1>2, <1>4 DEF Metering

\* Every step of a run keeps budgets charged for what is generated.
LEMMA MeteringKept ==
    ASSUME Known, BooksInv, NeverOverserved', Metering, [Next]_vars
    PROVE  Metering'
<1>1. EngineInv /\ EngineTypeOK /\ stack \in Seq(Task) /\ KnownAdmitted
  BY DEF Known, ReservationInv, EngineInv, EngineTypeOK, KnownInv
<1>2. CASE UNCHANGED <<cursor, left, budget, output, admitted, abandoned, finished,
                       exhausted, phase>>
  BY <1>2, MeterQuiet
<1>3. CASE PolicyAnswer \/ UNCHANGED vars
  BY <1>2, <1>3, AnswerFrame DEF vars, engineVars, flowVars, stepVars, loopVars
<1>4. CASE AdmitStep
  BY <1>4, MeterAdmits
<1>5. CASE TriggerStep
  <2>1. CASE Arrival \/ TickTimer \/ (\E f \in Flows : GapEnd(f))
             \/ (\E t \in timers : EntryVoid(t)) \/ \E d \in Devices : DecodeToken(d)
    BY <1>2, <2>1 DEF Arrival, TickTimer, GapEnd, EntryVoid, DecodeToken, flowVars,
       stepVars, loopVars
  <2> QED
    BY <1>5, <2>1, MeterEnters, MeterInterval DEF TriggerStep
<1>6. CASE HandlingStep
  <2>1. CASE Reoffer \/ AdmitRefused \/ ScheduleRefused \/ PreemptRefused
    BY <1>2, <2>1 DEF Reoffer, AdmitRefused, ScheduleRefused, PreemptRefused, Raise,
       flowVars, stepVars, loopVars
  <2>2. CASE Schedule
    <3>1. PICK f \in Flows : f = Head(stack).flow
      BY <1>1, <2>2, ActionType DEF Schedule, ActionOps
    <3>2. /\ phase' = [phase EXCEPT ![f] = "PREFILL"]
          /\ UNCHANGED <<cursor, left, budget, output, admitted, abandoned, finished,
                         exhausted>>
      BY <2>2, <3>1 DEF Schedule, flowVars, loopVars
    <3>3. f \in admitted
      <4>1. 1 \in 1..Len(stack) /\ stack[1] = Head(stack) /\ Head(stack).op = "Schedule"
        BY <1>1, <2>2 DEF Schedule, Pending
      <4> QED
        BY <1>1, <3>1, <4>1 DEF KnownAdmitted, OfferedIn, ReadyOps
    <3>4. \A g \in Flows : phase'[g] = phase[g] \/ (phase'[g] # "PENDING" /\ g \in admitted)
      BY <1>1, <3>2, <3>3 DEF EngineTypeOK
    <3> QED
      BY <3>2, <3>4, MeterQuiet
  <2> QED
    BY <1>6, <2>1, <2>2, MeterCompletes, MeterPreempts, MeterDegrades DEF HandlingStep
<1> QED
  BY <1>3, <1>4, <1>5, <1>6 DEF Next, EngineStep

\* The budget of every flow is its class budget minus the tokens it generated, and
\* whoever stops has finished or spent it.
THEOREM MeteringHolds == Spec => []Metering
<1>1. Init => Metering
  <2> SUFFICES ASSUME Init PROVE Metering
    OBVIOUS
  <2>1. ASSUME NEW f \in Flows PROVE MeterOf(f)
    <3>1. Len(Work[f]) > 0 /\ Len(Work[f]) \in Nat
      BY WorkType
    <3>2. Step(f) = 1 /\ 1 \in Steps(f)
      BY <3>1 DEF Init, Step, Steps
    <3> QED
      BY <3>2 DEF Init, MeterOf
  <2> QED
    BY <2>1 DEF Init, Metering
<1>2. ASSUME Known, BooksInv, NeverOverserved, NeverOverserved', Metering, [Next]_vars
      PROVE  Metering'
  BY <1>2, MeteringKept
<1> QED
  BY <1>1, <1>2, KnownAll, BooksInvHolds, ServiceHolds, PTL DEF Spec

\* BudgetMetered: a flow is charged each token it generates, across preemptions,
\* degradations and invocations, and is abandoned only when it cannot pay the next.
THEOREM BudgetHolds == Spec => []BudgetMetered
<1>1. EngineTypeOK /\ Metering => BudgetMetered
  BY DEF EngineTypeOK, Metering, MeterOf, BudgetMetered
<1>2. Known => EngineTypeOK
  BY DEF Known, ReservationInv, EngineInv
<1> QED
  BY <1>1, <1>2, MeteringHolds, KnownAll, PTL

-----------------------------------------------------------------------------
(* No capacity idles.                                                      *)

\* No capacity has been freed that a drain is still to see.
Undisturbed ==
    /\ reready = <<>>
    /\ \A t \in Tasks(stack) : /\ t.op \notin {"InvocationComplete", "Preempt"}
                               /\ t.op = "InvocationReady" => Reserved(t.flow)
\* The next invocation of f fits on d beside all that is there or on its way.
Beside(f, d) == SlotsAsked(d) < MaxSlots /\ NextKv(f) + HbmAsked(d) <= HbmCap

\* What waits in the queue, and was looked at, has no room on any device.
WaitsFull ==
    Undisturbed => \A f \in queue, d \in Devices :
        Cardinality(Ahead(queue, f)) + Cardinality(running) < ScanBudget => ~Beside(f, d)

\* What has no room gets none from a step that frees nothing.
LEMMA WaitsKept ==
    ASSUME Known, BooksInv, WaitsFull, Undisturbed' => Undisturbed,
           UNCHANGED <<queue, running, cursor>>,
           \A d \in Devices : /\ SlotsAsked(d)' \in Nat /\ SlotsAsked(d) <= SlotsAsked(d)'
                              /\ HbmAsked(d)' \in Nat /\ HbmAsked(d) <= HbmAsked(d)'
    PROVE  WaitsFull'
<1>1. \A f \in queue : NextKv(f)' = NextKv(f) /\ NextKv(f) \in Nat
  <2> TAKE f \in queue
  <2>1. f \in Open /\ f \in Flows
    BY DEF BooksInv, Located, Partition, Known, ReservationInv, PolicyTypeOK
  <2>2. NextKv(f) \in Nat
    BY <2>1, OpenKv DEF Known, ReservationInv
  <2> QED
    BY <2>2 DEF NextKv, Step
<1>2. MaxSlots \in Nat /\ HbmCap \in Nat
  BY SizesAssumption
<1>3. \A d \in Devices : SlotsAsked(d) \in Nat /\ HbmAsked(d) \in Nat
  BY BookedType
<1>4. \A f \in queue, d \in Devices : Beside(f, d)' => Beside(f, d)
  BY <1>1, <1>2, <1>3 DEF Beside
<1> QED
  BY <1>4 DEF WaitsFull, Ahead

\* A step that moves nothing on the devices and books nothing frees nothing.
LEMMA WaitsSame ==
    ASSUME Known, BooksInv, WaitsFull, Undisturbed' => Undisturbed,
           UNCHANGED <<queue, running, cursor, pins, where, pinDev, spilled, beHbm>>,
           \A d \in Devices : BookedOn(d)' = BookedOn(d)
    PROVE  WaitsFull'
<1>1. KvNow' = KvNow
  BY DEF KvNow, NextKv, Step
<1>2. \A d : SlotsUsed(d)' = SlotsUsed(d) /\ HbmUsed(d)' = HbmUsed(d)
  BY DEF SlotsUsed, HbmUsed, BestEffort, Resident, Reserved
<1>3. \A d \in Devices : SlotsAsked(d)' = SlotsAsked(d) /\ HbmAsked(d)' = HbmAsked(d)
  BY <1>1, <1>2 DEF SlotsAsked, HbmAsked
<1>4. \A d \in Devices : SlotsAsked(d) \in Nat /\ HbmAsked(d) \in Nat
  BY BookedType
<1> QED
  BY <1>3, <1>4, WaitsKept

\* Timers free nothing, and what they offer to the queue is still to be drained.
LEMMA TriggerWaits ==
    ASSUME Known, BooksInv, WaitsFull, TriggerStep, UNCHANGED policyVars
    PROVE  WaitsFull'
<1>1. /\ stack = <<>> /\ reready = <<>>
      /\ UNCHANGED <<queue, running, cursor, pins, where, pinDev, spilled, beHbm>>
  BY DEF TriggerStep, Arrival, TickTimer, GapEnd, EnterDevice, EntryVoid, DecodeToken,
     IntervalEnd, Idle, policyVars, flowVars, stepVars, deviceVars
<1>2. Tasks(stack) = {}
  BY <1>1, TasksParts
<1>3. \A t \in Tasks(stack') : t.op # "Schedule"
  <2>1. \A r : Tasks(<<r>>) = {r}
    BY TasksParts
  <2> QED
    BY <2>1, TasksParts DEF TriggerStep, Arrival, TickTimer, GapEnd, EnterDevice,
       EntryVoid, DecodeToken, IntervalEnd, Idle, TaskOf
<1>4. \A d \in Devices : BookedOn(d)' = {} /\ BookedOn(d) = {}
  BY <1>2, <1>3 DEF BookedOn, Placing, Calls
<1>5. Undisturbed
  BY <1>1, <1>2 DEF Undisturbed
<1> QED
  BY <1>1, <1>4, <1>5, WaitsSame

\* The completion of an invocation, or its abandonment, is still to be drained.
LEMMA CompletionWaits ==
    ASSUME NEW f \in Flows, NEW d \in Devices,
           \/ CompleteFlow(f, d) \/ CompleteIntoGap(f, d)
           \/ CompleteIntoNext(f, d) \/ AbandonFlow(f, d)
    PROVE  WaitsFull'
<1>1. \E t \in Tasks(stack') : t.op = "InvocationComplete"
  <2>1. \A r : Tasks(<<r>>) = {r}
    BY TasksParts
  <2>2. \A a, b : Tasks(<<a, b>>) = {a, b}
    BY DEF Tasks
  <2> QED
    BY <2>1, <2>2 DEF CompleteFlow, CompleteIntoGap, CompleteIntoNext, AbandonFlow, TaskOf
<1> QED
  BY <1>1 DEF WaitsFull, Undisturbed

\* What is re-offered is best effort and still to be drained.
LEMMA ReofferWaits ==
    ASSUME Known, BooksInv, Reoffer, UNCHANGED policyVars PROVE WaitsFull'
<1>1. PICK v : v = Head(reready)
  OBVIOUS
<1>2. StillPreempted(v) /\ v \in Tasks(reready)
  <2> DEFINE S == [flow : Flows, step : Nat]
  <2>1. reready \in Seq(S) /\ reready # <<>>
    BY DEF Known, ReservationInv, EngineInv, EngineTypeOK, Reoffer
  <2> HIDE DEF S
  <2>2. v \in Tasks(reready)
    BY <1>1, <2>1, RereadyParts DEF BooksInv, RereadyNow
  <2> QED
    BY <1>1, <2>2, ReofferBooks
<1>3. stack' = <<TaskOf("InvocationReady", v.flow, v.step, NoDevice)>> /\ pinDev' = pinDev
  BY <1>1, <1>2 DEF Reoffer, flowVars
<1>4. Tasks(stack') = {TaskOf("InvocationReady", v.flow, v.step, NoDevice)}
  BY <1>3, TasksParts
<1>5. ~Reserved(v.flow)'
  BY <1>2, <1>3 DEF BooksInv, RereadyNow, Reserved
<1> QED
  BY <1>4, <1>5 DEF WaitsFull, Undisturbed, TaskOf

\* An arrival moves nothing.
LEMMA GrantWaits ==
    ASSUME Known, BooksInv, WaitsFull, GrantReservation \/ GrantAggregate
    PROVE  WaitsFull'
<1>1. /\ stack # <<>> /\ Head(stack).op = "FlowArrival" /\ Head(stack).flow \in Flows
      /\ EngineInv /\ ShapeInv /\ UNCHANGED <<queue, running>>
  BY Grants DEF Known, ReservationInv
<1>2. PICK r \in Task : r.op = "Admit" /\ stack' = <<r>> \o Tail(stack)
  <2>1. PICK d \in 0..NumDevices : /\ TaskOf("Admit", Head(stack).flow, 0, d) \in Task
                                   /\ Respond(<<TaskOf("Admit", Head(stack).flow, 0, d)>>)
    BY Grants DEF Known
  <2> QED
    BY <2>1 DEF Respond, TaskOf
<1>3. Tasks(stack') = {r} /\ Tasks(stack) = {Head(stack)}
  BY <1>1, <1>2, EntryShape DEF EntryOps
<1>4. UNCHANGED <<reready, pins, where, pinDev, spilled, beHbm, cursor>>
  BY AnswerFrame DEF PolicyAnswer, flowVars, stepVars, deviceVars
<1>5. \A d \in Devices : BookedOn(d)' = {} /\ BookedOn(d) = {}
  BY <1>1, <1>2, <1>3 DEF BookedOn, Placing, Calls
<1>6. Undisturbed' => Undisturbed
  BY <1>1, <1>3, <1>4 DEF Undisturbed
<1> QED
  BY <1>1, <1>4, <1>5, <1>6, WaitsSame

\* An admission offers a best-effort flow, which is still to be drained, or pins a
\* reserved one, which takes room.
LEMMA AdmitWaits ==
    ASSUME Known, BooksInv, WaitsFull, AdmitStep, UNCHANGED policyVars
    PROVE  WaitsFull'
<1>1. PICK b \in Nat \cup {Unmetered} : AdmitAggregate(b) \/ AdmitReserved(b)
  BY AdmitBudget
<1>2. /\ EngineInv /\ ShapeInv /\ EngineTypeOK /\ stack # <<>>
      /\ Head(stack).op = "Admit" /\ Head(stack).flow \in Flows
      /\ UNCHANGED <<queue, running, cursor, where, spilled, beHbm, reready>>
  BY <1>1, ActionType DEF Known, ReservationInv, EngineInv, AdmitAggregate,
     AdmitReserved, Pending, ActionOps, policyVars, deviceVars, timerVars
<1>3. PICK f \in Flows : f = Head(stack).flow
  BY <1>2
<1>4. ~Reserved(f)
  BY <1>2, <1>3 DEF Known, ShapeInv, Entries, EntryOps, PinsInv, ReservedAdmitted
<1>5. PICK r \in Task : r.op = "InvocationReady" /\ r.flow = f
                        /\ stack' = <<r>> \o Tail(stack)
  <2> DEFINE r == TaskOf("InvocationReady", f, Step(f), NoDevice)
  <2>1. Step(f) \in Nat /\ NoDevice \in 0..NumDevices
    BY <1>2, StepType, SizesAssumption DEF NoDevice
  <2>2. r \in Task /\ r.op = "InvocationReady" /\ r.flow = f
    BY <2>1, TaskOfType DEF EventOps, TaskOf
  <2>3. stack' = <<r>> \o Tail(stack)
    BY <1>1, <1>3 DEF AdmitAggregate, AdmitReserved, OfferNext
  <2> QED
    BY <2>2, <2>3
<1>6. Tasks(stack') = {r} /\ Tasks(stack) = {Head(stack)}
  BY <1>2, <1>5, EntryShape DEF EntryOps
<1>7. CASE AdmitAggregate(b)
  <2>1. ~Reserved(f)'
    BY <1>4, <1>7 DEF AdmitAggregate, Reserved
  <2> QED
    BY <1>5, <1>6, <2>1 DEF WaitsFull, Undisturbed
<1>8. CASE AdmitReserved(b)
  <2>1. PICK d \in Devices : d = Head(stack).dev
    <3>1. Head(stack).dev \in 0..NumDevices /\ Head(stack).dev # NoDevice
      BY <1>2, <1>8, ActionType DEF AdmitReserved, ActionOps
    <3> QED
      BY <3>1, SizesAssumption DEF NoDevice, Devices
  <2>2. /\ pins' = [pins EXCEPT ![d] = @ \cup {f}]
        /\ pinDev' = [pinDev EXCEPT ![f] = d]
    BY <1>3, <1>8, <2>1 DEF AdmitReserved
  <2>3. \A e \in Devices : BookedOn(e)' = {} /\ BookedOn(e) = {}
    BY <1>2, <1>5, <1>6 DEF BookedOn, Placing, Calls
  <2>4. Undisturbed' => Undisturbed
    BY <1>2, <1>6 DEF Undisturbed
  <2>5. where[f] = NoDevice
    BY <1>2, <1>3 DEF Known, KnownInv, KnownAdmitted, ShapeInv, Entries, EntryOps
  <2>6. \A e \in Devices : BestEffort(e)' = BestEffort(e)
    <3> TAKE e \in Devices
    <3>1. e # NoDevice /\ \A g \in Flows \ {f} : pinDev'[g] = pinDev[g]
      BY <1>2, <2>2 DEF EngineTypeOK, Devices, NoDevice
    <3>2. f \notin BestEffort(e) /\ f \notin BestEffort(e)'
      BY <1>2, <2>5, <3>1 DEF BestEffort, Resident
    <3>3. \A g \in Flows \ {f} : g \in BestEffort(e)' <=> g \in BestEffort(e)
      BY <1>2, <3>1 DEF BestEffort, Resident, Reserved
    <3>4. BestEffort(e) \subseteq Flows /\ BestEffort(e)' \subseteq Flows
      BY DEF BestEffort, Resident
    <3> QED
      BY <3>2, <3>3, <3>4
  <2>7. \A e \in Devices :
          /\ IsFiniteSet(pins'[e]) /\ pins[e] \subseteq pins'[e]
          /\ \A g \in pins'[e] : PinSize[g] \in Nat
    <3>1. \A e \in Devices : IsFiniteSet(pins[e]) /\ \A g \in pins[e] : PinSize[g] \in Nat
      BY <1>2, PinsFinite
    <3>2. PinSize[f] \in Nat
      BY <1>2, PinSizeType
    <3>3. \A e \in Devices : pins'[e] = IF e = d THEN pins[e] \cup {f} ELSE pins[e]
      BY <1>2, <2>2 DEF EngineTypeOK
    <3>4. \A e \in Devices : IsFiniteSet(pins[e] \cup {f})
      BY <3>1, FS_AddElement
    <3> QED
      BY <3>1, <3>2, <3>3, <3>4
  <2>8. \A e \in Devices :
          /\ SlotsUsed(e)' \in Nat /\ SlotsUsed(e) <= SlotsUsed(e)'
          /\ HbmUsed(e)' \in Nat /\ HbmUsed(e) <= HbmUsed(e)'
    <3> TAKE e \in Devices
    <3> DEFINE P == pins[e] \ spilled
    <3> DEFINE Q == pins'[e] \ spilled
    <3>1. IsFiniteSet(Q) /\ P \subseteq Q /\ \A g \in Q : PinSize[g] \in Nat
      BY <2>7, FS_Subset
    <3>2. Cardinality(pins[e]) <= Cardinality(pins'[e]) /\ Cardinality(pins'[e]) \in Nat
          /\ Cardinality(pins[e]) \in Nat
      BY <2>7, FS_Subset, FS_CardinalityType
    <3>3. Cardinality(BestEffort(e)) \in Nat /\ beHbm[e] \in Nat
      BY <1>2, ResidentsFinite, FS_CardinalityType, HbmType
    <3>4. SlotsUsed(e)' \in Nat /\ SlotsUsed(e) <= SlotsUsed(e)'
      BY <2>6, <3>2, <3>3 DEF SlotsUsed
    <3>5. HbmUsed(e)' = Total(Q, PinSize) + beHbm[e] /\ HbmUsed(e) = Total(P, PinSize) + beHbm[e]
      BY <1>2 DEF HbmUsed
    <3> HIDE DEF P, Q
    <3>6. Total(P, PinSize) <= Total(Q, PinSize) /\ Total(Q, PinSize) \in Nat
      BY <3>1, TotalMonotone, TotalType
    <3>7. IsFiniteSet(P) /\ \A g \in P : PinSize[g] \in Nat
      BY <3>1, FS_Subset
    <3>8. Total(P, PinSize) \in Nat
      BY <3>7, TotalType
    <3> QED
      BY <3>3, <3>4, <3>5, <3>6, <3>8
  <2>9. \A e \in Devices :
          /\ SlotsAsked(e)' = SlotsUsed(e)' /\ SlotsAsked(e) = SlotsUsed(e)
          /\ HbmAsked(e)' = HbmUsed(e)' /\ HbmAsked(e) = HbmUsed(e)
    <3> TAKE e \in Devices
    <3>1. Cardinality({}) = 0 /\ Total({}, KvNow) = 0 /\ Total({}, KvNow') = 0
      BY FS_EmptySet, TotalEmpty
    <3>2. /\ SlotsAsked(e)' = SlotsUsed(e)' + 0 /\ SlotsAsked(e) = SlotsUsed(e) + 0
          /\ HbmAsked(e)' = HbmUsed(e)' + 0 /\ HbmAsked(e) = HbmUsed(e) + 0
      BY <2>3, <3>1 DEF SlotsAsked, HbmAsked
    <3>3. SlotsUsed(e) \in Nat /\ HbmUsed(e) \in Nat
      BY <1>2, UsedType
    <3> QED
      BY <2>8, <3>2, <3>3
  <2> QED
    BY <1>2, <2>4, <2>8, <2>9, WaitsKept
<1> QED
  BY <1>1, <1>7, <1>8

\* A placement uses what was asked for it: a best-effort one its booking, a restore
\* the memory its pin was spilled from.
LEMMA ScheduleWaits ==
    ASSUME Known, BooksInv, Promises, WaitsFull, Schedule, UNCHANGED policyVars
    PROVE  WaitsFull'
<1>1. /\ EngineInv /\ ShapeInv /\ EngineTypeOK /\ stack # <<>>
      /\ Head(stack).op = "Schedule" /\ stack' = Tail(stack)
      /\ UNCHANGED <<queue, running, cursor, pins, pinDev, reready>>
  BY DEF Known, ReservationInv, EngineInv, Schedule, Pending, flowVars, policyVars
<1>2. PICK h \in Task : h = Head(stack)
  BY <1>1, PopCalls
<1>3. /\ Evicted = {} /\ Calls(stack) = {h} \cup Calls(stack')
      /\ \A t \in Calls(stack') : t.op = "Schedule" => t.flow # h.flow
  BY <1>1, <1>2, PopCalls DEF CallOps, ReadyOps
<1>4. Undisturbed' => Undisturbed
  <2>1. Tasks(stack) = {h} \cup Tasks(stack')
    BY <1>1, <1>2, TasksParts DEF EngineTypeOK
  <2> QED
    BY <1>1, <1>2, <2>1 DEF Undisturbed, Reserved
<1>5. CASE ~Reserved(h.flow)
  <2>1. \A e \in Devices : SlotsAsked(e)' = SlotsAsked(e) /\ HbmAsked(e)' = HbmAsked(e)
    BY <1>2, <1>5, ScheduleMoves
  <2>2. \A e \in Devices : SlotsAsked(e) \in Nat /\ HbmAsked(e) \in Nat
    BY BookedType
  <2> QED
    BY <1>1, <1>4, <2>1, <2>2, WaitsKept
<1>6. CASE Reserved(h.flow)
  <2>1. h \in Calls(stack) /\ h \in Placing /\ h.flow \in Flows
    BY <1>1, <1>2, <1>3, CallType DEF Placing, EngineTypeOK
  <2>2. PICK f \in Flows : f = h.flow
    BY <2>1
  <2>3. Placing = {h} /\ Placing' = {}
    <3>1. Placing = {h}
      BY <1>6, <2>1 DEF Promises, RestoreAlone
    <3>2. Placing' \subseteq Placing /\ h \notin Placing'
      BY <1>3 DEF Placing
    <3> QED
      BY <3>1, <3>2
  <2>4. \A e \in Devices : BookedOn(e) = {} /\ BookedOn(e)' = {}
    BY <1>6, <2>3 DEF BookedOn
  <2>5. /\ beHbm' = beHbm /\ spilled' \subseteq spilled
        /\ \A g \in Flows \ {f} : where'[g] = where[g]
    BY <1>1, <1>2, <1>6, <2>2 DEF Schedule, AfterRestore, EngineTypeOK
  <2>6. \A e \in Devices : BestEffort(e)' = BestEffort(e)
    <3> TAKE e \in Devices
    <3>1. \A g \in Flows : g \in BestEffort(e)' <=> g \in BestEffort(e)
      BY <1>1, <1>6, <2>2, <2>5 DEF BestEffort, Resident, Reserved
    <3>2. BestEffort(e) \subseteq Flows /\ BestEffort(e)' \subseteq Flows
      BY DEF BestEffort, Resident
    <3> QED
      BY <3>1, <3>2
  <2>7. \A e \in Devices :
          /\ SlotsUsed(e)' = SlotsUsed(e) /\ SlotsUsed(e) \in Nat
          /\ HbmUsed(e)' \in Nat /\ HbmUsed(e) <= HbmUsed(e)' /\ HbmUsed(e) \in Nat
    <3> TAKE e \in Devices
    <3> DEFINE P == pins[e] \ spilled
    <3> DEFINE Q == pins[e] \ spilled'
    <3>1. P \subseteq Q /\ IsFiniteSet(Q) /\ \A g \in Q : PinSize[g] \in Nat
      BY <1>1, <2>5, PinsFinite, FS_Subset
    <3>2. SlotsUsed(e) \in Nat /\ HbmUsed(e) \in Nat
      BY <1>1, UsedType
    <3>3. SlotsUsed(e)' = SlotsUsed(e)
      BY <1>1, <2>6 DEF SlotsUsed
    <3>4. HbmUsed(e)' = Total(Q, PinSize) + beHbm[e] /\ HbmUsed(e) = Total(P, PinSize) + beHbm[e]
      BY <1>1, <2>5 DEF HbmUsed
    <3>5. beHbm[e] \in Nat
      BY <1>1, HbmType
    <3> HIDE DEF P, Q
    <3>6. Total(P, PinSize) <= Total(Q, PinSize) /\ Total(Q, PinSize) \in Nat
      BY <3>1, TotalMonotone, TotalType
    <3>7. IsFiniteSet(P) /\ \A g \in P : PinSize[g] \in Nat
      BY <3>1, FS_Subset
    <3>8. Total(P, PinSize) \in Nat
      BY <3>7, TotalType
    <3> QED
      BY <3>2, <3>3, <3>4, <3>5, <3>6, <3>8
  <2>8. \A e \in Devices :
          /\ SlotsAsked(e)' = SlotsUsed(e)' /\ SlotsAsked(e) = SlotsUsed(e)
          /\ HbmAsked(e)' = HbmUsed(e)' /\ HbmAsked(e) = HbmUsed(e)
    <3> TAKE e \in Devices
    <3>1. Cardinality({}) = 0 /\ Total({}, KvNow) = 0 /\ Total({}, KvNow') = 0
      BY FS_EmptySet, TotalEmpty
    <3>2. /\ SlotsAsked(e)' = SlotsUsed(e)' + 0 /\ SlotsAsked(e) = SlotsUsed(e) + 0
          /\ HbmAsked(e)' = HbmUsed(e)' + 0 /\ HbmAsked(e) = HbmUsed(e) + 0
      BY <2>4, <3>1 DEF SlotsAsked, HbmAsked
    <3> QED
      BY <2>7, <3>2
  <2> QED
    BY <1>1, <1>4, <2>7, <2>8, WaitsKept
<1> QED
  BY <1>5, <1>6

\* A victim waits to be re-offered; what is degraded moves nothing.
LEMMA EvictionWaits ==
    ASSUME Known, BooksInv, Promises, WaitsFull, Preempt \/ Degrade, UNCHANGED policyVars
    PROVE  WaitsFull'
<1>1. CASE Preempt
  <2>1. PICK v : reready' = Append(reready, v)
    BY <1>1 DEF Preempt
  <2>2. Len(reready) \in Nat
    BY DEF Known, ReservationInv, EngineInv, EngineTypeOK
  <2>3. Len(reready') = Len(reready) + 1 /\ Len(<<>>) = 0
    BY <2>1 DEF Known, ReservationInv, EngineInv, EngineTypeOK
  <2>4. reready' # <<>>
    BY <2>2, <2>3
  <2> QED
    BY <2>4 DEF WaitsFull, Undisturbed
<1>2. CASE Degrade
  <2>1. /\ EngineInv /\ ShapeInv /\ stack # <<>> /\ stack \in Seq(Task)
        /\ Head(stack).op = "Degrade" /\ stack' = Tail(stack)
        /\ UNCHANGED <<queue, running, cursor, pins, where, pinDev, spilled, beHbm, reready>>
    BY <1>2 DEF Known, ReservationInv, EngineInv, EngineTypeOK, Degrade, Pending,
       deviceVars, policyVars
  <2>2. Calls(stack') = Calls(stack)
    BY <2>1, PopCalls
  <2>3. \A d \in Devices : BookedOn(d)' = BookedOn(d)
    BY <2>1, <2>2 DEF BookedOn, Placing, Reserved
  <2>4. Tasks(stack) = {Head(stack)} \cup Tasks(stack')
    BY <2>1, TasksParts
  <2>5. Undisturbed' => Undisturbed
    BY <2>1, <2>4 DEF Undisturbed, Reserved
  <2> QED
    BY <2>1, <2>3, <2>5, WaitsSame
<1> QED
  BY <1>1, <1>2

\* A restore that evicts somebody frees room, which is still to be drained; one that
\* does not books nothing.
LEMMA RestoreWaits ==
    ASSUME Known, BooksInv, WaitsFull, ReadyReserved PROVE WaitsFull'
<1>1. /\ EngineInv /\ EngineTypeOK /\ ReservationInv /\ stack \in Seq(Task)
      /\ stack # <<>> /\ Head(stack).op = "InvocationReady"
      /\ Reserved(Head(stack).flow) /\ Head(stack).flow \in Flows
  BY EventType DEF Known, ReservationInv, EngineInv, EngineTypeOK, ReadyReserved,
     Pending, EventOps
<1>2. PICK f \in Flows : f = Head(stack).flow
  BY <1>1
<1>3. PICK d : d = pinDev[f]
  OBVIOUS
<1>4. PICK h \in Task : h = Head(stack)
  BY <1>1, HeadType
<1> DEFINE run == TaskOf("Schedule", f, h.step, d)
<1>5. \E a \in Seq(Task) :
      \E V \in (IF f \in spilled THEN Victims(f, d) ELSE {{}}) :
        Respond(a) /\ Restore(a, run, V) /\ running' = AfterEviction(V)
  <2>1. \E a \in Seq(Task) :
        \E V \in (IF f \in spilled THEN Victims(f, d) ELSE {{}}) :
           /\ Respond(a) /\ PlainAnswer(a)
           /\ Restore(a, TaskOf("Schedule", f, Head(stack).step, d), V)
           /\ running' = AfterEviction(V)
    BY <1>1, <1>2, <1>3, RestoreAnswers
  <2> QED
    BY <1>4, <2>1
<1>6. PICK a \in Seq(Task) :
      \E V \in (IF f \in spilled THEN Victims(f, d) ELSE {{}}) :
        Respond(a) /\ Restore(a, run, V) /\ running' = AfterEviction(V)
  BY <1>5
<1>7. PICK V \in (IF f \in spilled THEN Victims(f, d) ELSE {{}}) :
        Respond(a) /\ Restore(a, run, V) /\ running' = AfterEviction(V)
  BY <1>6
<1>8. /\ UNCHANGED <<queue, pins, where, pinDev, spilled, beHbm, cursor, reready>>
      /\ stack' = a \o Tail(stack)
  BY <1>7 DEF Respond, ReadyReserved, flowVars, stepVars, deviceVars
<1>9. /\ Tail(stack) \in Seq(Task) /\ Evicted = {} /\ \A v : ~Placed(v)
      /\ \A t \in Tasks(Tail(stack)) : t.op = "InvocationComplete"
  BY <1>1, EventCalls DEF EventOps
<1>10. /\ Tasks(stack') = Tasks(a) \cup Tasks(Tail(stack))
       /\ Tasks(stack) = {h} \cup Tasks(Tail(stack))
  BY <1>1, <1>4, <1>8, <1>9, TasksParts
<1>11. run.op = "Schedule" /\ run.flow = f
  BY DEF TaskOf
<1>12. \A v : Eviction(v).op = "Preempt"
  BY DEF Eviction, TaskOf
<1>13. /\ run \in Tasks(a) /\ \A t \in Tasks(a) : t = run \/ \E v \in V : t = Eviction(v)
  BY <1>7 DEF Restore
<1> HIDE DEF run
<1>14. CASE V # {}
  <2>1. PICK v \in V : TRUE
    BY <1>14
  <2>2. V \subseteq running
    BY <1>7 DEF Victims, RunningOn
  <2>3. \A w \in V : Kv(w.flow, w.step) \in Nat
    <3>1. V = {} \/ V \in Victims(f, d)
      BY <1>7
    <3> QED
      BY <1>1, <1>9, <2>2, VictimsOnDevice
  <2>4. Eviction(v) \in Tasks(stack')
    BY <1>7, <1>10, <2>1, <2>3 DEF Restore
  <2> QED
    BY <1>12, <2>4 DEF WaitsFull, Undisturbed
<1>15. CASE V = {}
  <2>1. running' = running
    BY <1>7, <1>15 DEF AfterEviction
  <2>2. Tasks(a) = {run}
    BY <1>13, <1>15
  <2>3. \A e \in Devices : BookedOn(e)' = {} /\ BookedOn(e) = {}
    BY <1>1, <1>2, <1>4, <1>8, <1>9, <1>10, <1>11, <2>2
       DEF BookedOn, Placing, Calls, Reserved
  <2>4. Undisturbed' => Undisturbed
    BY <1>1, <1>2, <1>4, <1>8, <1>10 DEF Undisturbed, Reserved
  <2> QED
    BY <1>8, <2>1, <2>3, <2>4, WaitsSame
<1> QED
  BY <1>14, <1>15

\* A drain leaves behind what has no room beside what it books.
LEMMA DrainWaits ==
    ASSUME Known, BooksInv, ReadyBestEffort \/ NoteComplete \/ OnTick
    PROVE  WaitsFull'
<1>1. /\ Asked \subseteq Open /\ \A g \in Asked : NextKv(g) \in Nat
      /\ UNCHANGED <<pins, where, pinDev, spilled, beHbm, cursor>>
  BY DrainSends
<1>2. PICK s \in Seq(Task) :
        /\ Bookings(Asked, Kept, s) /\ LeftWaits(s)
        /\ \A e \in Devices : /\ BookedOn(e)' = SentOn(s, e)
                              /\ Cardinality(SentOn(s, e)) \in Nat
                              /\ Total(SentOn(s, e), KvNow) \in Nat
  BY DrainSends
<1>3. Cardinality(running') \in Nat /\ Len(s) <= Cardinality(running')
  <2> DEFINE n == Len(s)
  <2> DEFINE P == {Placement(s[i]) : i \in 1..n}
  <2> DEFINE name == [i \in 1..n |-> Placement(s[i])]
  <2>1. n \in Nat /\ running' = Kept \cup P /\ Kept \subseteq running
    BY <1>2 DEF Bookings, Kept
  <2>2. \A i, j \in 1..n : name[i] = name[j] => i = j
    BY <1>2 DEF Bookings, Placement
  <2>3. name \in Injection(1..n, P) /\ name \in Surjection(1..n, P)
    BY <2>2 DEF Injection, IsInjective, Surjection
  <2>4. IsFiniteSet(1..n) /\ Cardinality(1..n) = n
    BY <2>1, FS_Interval
  <2>5. IsFiniteSet(running)
    BY DEF Known, ReservationInv
  <2> HIDE DEF n, P, name
  <2>6. IsFiniteSet(P) /\ Cardinality(P) = n
    BY <2>1, <2>3, <2>4, FS_Surjection, FS_Injection
  <2>7. IsFiniteSet(Kept)
    BY <2>1, <2>5, FS_Subset
  <2>8. IsFiniteSet(running') /\ P \subseteq running'
    BY <2>1, <2>6, <2>7, FS_Union
  <2>9. Cardinality(P) <= Cardinality(running') /\ Cardinality(running') \in Nat
    BY <2>8, FS_Subset, FS_CardinalityType
  <2> QED
    BY <2>6, <2>9 DEF n
<1>4. SUFFICES ASSUME NEW f \in queue', NEW d \in Devices,
                      Cardinality(Ahead(queue', f)) + Cardinality(running') < ScanBudget
               PROVE  ~Beside(f, d)'
  BY DEF WaitsFull, Ahead
<1>5. f \in Asked /\ f \in Flows /\ NextKv(f) \in Nat /\ queue' \subseteq Flows
  <2>1. queue' \subseteq Asked
    BY <1>2 DEF Bookings
  <2>2. Asked \subseteq Flows
    BY <1>1 DEF Open, Known, ReservationInv, EngineInv, EngineTypeOK
  <2> QED
    BY <1>1, <2>1, <2>2
<1>6. Cardinality(Ahead(queue', f)) + Len(s) < ScanBudget
  <2>1. Ahead(queue', f) \in SUBSET Flows
    BY <1>5 DEF Ahead
  <2>2. Cardinality(Ahead(queue', f)) \in Nat
    BY <2>1, FlowsCounted
  <2>3. Len(s) \in Nat
    OBVIOUS
  <2> QED
    BY <1>3, <1>4, <2>2, <2>3, PolicyAssumption
<1>7. ~(/\ Cardinality(SentOn(s, d)) < FreeSlots(d)
        /\ NextKv(f) + Total(SentOn(s, d), KvNow) <= FreeHbm(d))
  BY <1>2, <1>6 DEF LeftWaits
<1>8. /\ SlotsAsked(d)' = SlotsUsed(d) + Cardinality(SentOn(s, d))
      /\ HbmAsked(d)' = HbmUsed(d) + Total(SentOn(s, d), KvNow)
      /\ NextKv(f)' = NextKv(f)
  <2>1. KvNow' = KvNow /\ NextKv(f)' = NextKv(f)
    BY <1>1 DEF KvNow, NextKv, Step
  <2>2. SlotsUsed(d)' = SlotsUsed(d) /\ HbmUsed(d)' = HbmUsed(d)
    BY <1>1 DEF SlotsUsed, HbmUsed, BestEffort, Resident, Reserved
  <2> QED
    BY <1>2, <2>1, <2>2 DEF SlotsAsked, HbmAsked
<1>9. SlotsUsed(d) \in Nat /\ HbmUsed(d) \in Nat /\ MaxSlots \in Nat /\ HbmCap \in Nat
  BY UsedType DEF Known, ReservationInv
<1> QED
  BY <1>2, <1>5, <1>7, <1>8, <1>9 DEF Beside, FreeSlots, FreeHbm

\* Every step leaves what waits without room.
LEMMA WaitsAlways ==
    ASSUME Known, BooksInv, Promises, WaitsFull, [Next]_vars PROVE WaitsFull'
<1>1. CASE UNCHANGED vars
  BY <1>1 DEF vars, engineVars, policyVars, flowVars, stepVars, deviceVars, WaitsFull,
     Undisturbed, Beside, SlotsAsked, HbmAsked, SlotsUsed, HbmUsed, BestEffort, Resident,
     Reserved, BookedOn, Placing, Calls, KvNow, NextKv, Step
<1>2. CASE PolicyAnswer
  BY <1>2, GrantWaits, RestoreWaits, DrainWaits DEF PolicyAnswer
<1>3. CASE (AdmitStep \/ TriggerStep) /\ UNCHANGED policyVars
  BY <1>3, AdmitWaits, TriggerWaits
<1>4. CASE (AdmitRefused \/ ScheduleRefused \/ PreemptRefused) /\ UNCHANGED policyVars
  <2>1. failed' = TRUE /\ stack' = stack /\ reready' = reready
        /\ UNCHANGED <<queue, running, cursor, pins, where, pinDev, spilled, beHbm>>
    BY <1>4 DEF AdmitRefused, ScheduleRefused, PreemptRefused, Raise, policyVars,
       flowVars, stepVars, deviceVars
  <2>2. \A d \in Devices : BookedOn(d)' = BookedOn(d)
    BY <2>1 DEF BookedOn, Placing, Calls, Reserved
  <2>3. Undisturbed' => Undisturbed
    BY <2>1 DEF Undisturbed, Reserved
  <2> QED
    BY <2>1, <2>2, <2>3, WaitsSame
<1>5. CASE HandlingStep /\ UNCHANGED policyVars
  BY <1>4, <1>5, CompletionWaits, ReofferWaits, ScheduleWaits, EvictionWaits
     DEF HandlingStep
<1> QED
  BY <1>1, <1>2, <1>3, <1>5 DEF Next, EngineStep

\* What waits in the queue waits for room, as far as the last drain looked.
THEOREM WaitsFullHolds == Spec => []WaitsFull
<1>1. Init /\ PolicyInit => WaitsFull
  BY DEF PolicyInit, WaitsFull
<1> QED
  BY <1>1, WaitsAlways, KnownAll, BooksInvHolds, PromisesHold, PTL DEF Spec

\* WorkConserving: between two triggers nothing the last drain looked at could be
\* placed on any device; FirstFit leaves no room that a queued invocation fits.
THEOREM ConservingHolds == Spec => []WorkConserving
<1>1. ASSUME Known, BooksInv, WaitsFull PROVE WorkConserving
  <2> SUFFICES ASSUME Idle, NEW f \in queue, NEW d \in Devices,
                      Cardinality(Ahead(queue, f)) + Cardinality(running) < ScanBudget,
                      CanPlace(f, d)
               PROVE  FALSE
    BY DEF WorkConserving
  <2>1. Undisturbed
    BY TasksParts DEF Idle, Undisturbed
  <2>2. BookedOn(d) = {}
    BY NothingPending DEF Idle, BookedOn, Placing
  <2>3. Cardinality({}) = 0 /\ Total({}, KvNow) = 0
    BY FS_EmptySet, TotalEmpty
  <2>4. SlotsUsed(d) \in Nat /\ HbmUsed(d) \in Nat
    BY <1>1, UsedType DEF Known, ReservationInv
  <2>5. SlotsAsked(d) = SlotsUsed(d) /\ HbmAsked(d) = HbmUsed(d)
    BY <2>2, <2>3, <2>4 DEF SlotsAsked, HbmAsked
  <2>6. NextKv(f) \in Nat
    <3>1. f \in Open /\ f \in Flows
      BY <1>1 DEF BooksInv, Located, Partition, Known, ReservationInv, PolicyTypeOK
    <3> QED
      BY <1>1, <3>1, OpenKv DEF Known, ReservationInv
  <2>7. Beside(f, d)
    BY <2>4, <2>5, <2>6, SizesAssumption DEF CanPlace, HasFreeSlot, HbmFits, Beside
  <2> QED
    BY <1>1, <2>1, <2>7 DEF WaitsFull
<1> QED
  BY <1>1, WaitsFullHolds, KnownAll, BooksInvHolds, PTL
=============================================================================
