--------------------------- MODULE AnyPolicyProofs ---------------------------
(***************************************************************************)
(* What the engine enforces whatever policy drives it, proved for every    *)
(* workload, cluster and set of answers.                                   *)
(***************************************************************************)
EXTENDS AnyPolicy, EngineProofs

\* An answer of the policy preserves the invariant.
LEMMA AnswerInv ==
    ASSUME EngineInv, Answer PROVE EngineInv'
<1>1. PICK actions \in Answers : Respond(actions)
  BY DEF Answer
<1>2. actions \in Seq(Task)
  <2>1. actions \in Seq(ActionTask)
    BY AnswersAssumption
  <2>2. ActionTask \subseteq Task
    BY DEF ActionTask, Task
  <2> QED
    BY <2>1, <2>2
<1>3. stack # <<>>
  BY DEF Answer
<1> QED
  BY <1>1, <1>2, <1>3, RespondInv

\* An admission preserves the invariant.
LEMMA AdmitAnyInv ==
    ASSUME EngineInv, AdmitAny PROVE EngineInv'
<1>1. \A b \in Budgets : b \in Int
  BY AnswersAssumption DEF Unmetered
<1> QED
  BY <1>1, AdmitAggregateInv, AdmitReservedInv DEF AdmitAny

\* Every step preserves the invariant.
LEMMA NextInv ==
    ASSUME EngineInv, [Next]_engineVars PROVE EngineInv'
BY EngineStepInv, AnswerInv, AdmitAnyInv, StutterInv DEF Next

\* Under every policy the engine keeps its invariant.
THEOREM InvariantHolds == Spec => []EngineInv
<1>1. Init => EngineInv
  BY InitInv
<1>2. EngineInv /\ [Next]_engineVars => EngineInv'
  BY NextInv
<1> QED
  BY <1>1, <1>2, PTL DEF Spec

\* Under every policy every variable keeps its type.
THEOREM TypeHolds == Spec => []EngineTypeOK
<1>1. EngineInv => EngineTypeOK
  BY DEF EngineInv
<1> QED
  BY <1>1, InvariantHolds, PTL

-----------------------------------------------------------------------------
\* Answers and aggregate admissions leave pins and placements alone.
LEMMA AnswerLeavesDevices ==
    ASSUME Answer \/ (\E b \in Budgets : AdmitAggregate(b))
    PROVE  pins' = pins /\ where' = where
BY DEF Answer, Respond, AdmitAggregate, deviceVars, stepVars

\* Under every policy the pins of a device, spilled ones included, are never
\* owed more memory than the device has (CommittedWithinHbm): the admission
\* guard of Device.can_pin keeps it, and it is inductive with the types.
THEOREM CommitmentHolds == Spec => []CommittedWithinHbm
<1>1. Init => CommittedWithinHbm
  <2> SUFFICES ASSUME Init, NEW d \in Devices PROVE HbmCommitted(d) <= HbmCap
    BY DEF CommittedWithinHbm
  <2>1. pins[d] = {}
    BY DEF Init
  <2> QED
    BY <2>1, TotalEmpty, SizesAssumption DEF HbmCommitted
<1>2. ASSUME EngineInv, EngineInv', CommittedWithinHbm, [Next]_engineVars
      PROVE  CommittedWithinHbm'
  <2>1. CASE EngineStep
    <3>1. \A d \in Devices : pins'[d] \subseteq pins[d]
      BY <1>2, <2>1, EngineStepKeepsPins DEF PinsKept
    <3> QED
      BY <1>2, <3>1, CommittedShrinks
  <2>2. CASE Answer \/ (\E b \in Budgets : AdmitAggregate(b))
    <3>1. pins' = pins
      BY <2>2, AnswerLeavesDevices
    <3> QED
      BY <1>2, <3>1 DEF CommittedWithinHbm, HbmCommitted
  <2>3. CASE \E b \in Budgets : AdmitReserved(b)
    BY <1>2, <2>3, CommittedAdmits
  <2>4. CASE UNCHANGED engineVars
    BY <1>2, <2>4 DEF CommittedWithinHbm, HbmCommitted, engineVars, deviceVars
  <2> QED
    BY <1>2, <2>1, <2>2, <2>3, <2>4 DEF Next, AdmitAny
<1> QED
  BY <1>1, <1>2, InvariantHolds, PTL DEF Spec

\* Under every policy a guaranteed flow leaves its device only by finishing
\* its invocation or by giving up at its budget (GuaranteeEnforced): the
\* engine refuses any other preemption.
THEOREM GuaranteeHolds == Spec => GuaranteeEnforced
<1>1. ASSUME EngineInv, Next PROVE LeavesByRight
  <2>1. CASE EngineStep
    BY <1>1, <2>1, EngineStepByRight
  <2>2. CASE Answer \/ AdmitAny
    <3>1. where' = where
      BY <2>2, AnswerLeavesDevices DEF AdmitAny, AdmitReserved
    <3> QED
      BY <3>1 DEF LeavesByRight
  <2> QED
    BY <1>1, <2>1, <2>2 DEF Next
<1>2. EngineInv /\ [Next]_engineVars =>
        [\A f \in Flows :
           Reserved(f) /\ NonPreemptible /\ where'[f] # where[f] =>
               where[f] = NoDevice \/ cursor'[f] > cursor[f]]_engineVars
  BY <1>1 DEF LeavesByRight
<1> QED
  BY <1>2, InvariantHolds, PTL DEF Spec, GuaranteeEnforced

\* Under every policy a pin lasts until its flow is over (PinLasts).
THEOREM PinsHold == Spec => PinLasts
<1>1. ASSUME EngineInv, Next PROVE PinsKept \/ \E b \in Budgets : AdmitReserved(b)
  <2>1. CASE EngineStep
    BY <1>1, <2>1, EngineStepKeepsPins
  <2>2. CASE Answer \/ (\E b \in Budgets : AdmitAggregate(b))
    BY <2>2, AnswerLeavesDevices DEF PinsKept
  <2> QED
    BY <1>1, <2>1, <2>2 DEF Next, AdmitAny
<1>2. ASSUME EngineInv, NEW b \in Budgets, AdmitReserved(b)
      PROVE  \A d \in Devices : pins[d] \subseteq pins'[d]
  BY <1>2 DEF AdmitReserved, EngineInv, EngineTypeOK
<1>3. EngineInv /\ [Next]_engineVars =>
        [\A d \in Devices : \A f \in pins[d] \ pins'[d] :
           cursor'[f] = Len(Work[f])]_engineVars
  BY <1>1, <1>2 DEF PinsKept
<1> QED
  BY <1>3, InvariantHolds, PTL DEF Spec, PinLasts

\* Under every policy a device never gives away more slots than it has
\* (SlotsWithinLimit), pins that are spilled or idle included.
THEOREM SlotsHold == Spec => []SlotsWithinLimit
<1>1. Init => SlotsWithinLimit
  <2> SUFFICES ASSUME Init, NEW d \in Devices PROVE SlotsUsed(d) <= MaxSlots
    BY DEF SlotsWithinLimit
  <2>1. pins[d] = {} /\ BestEffort(d) = {}
    BY DEF Init, BestEffort, Resident, NoDevice, Devices
  <2> QED
    BY <2>1, FS_EmptySet, SizesAssumption DEF SlotsUsed
<1>2. ASSUME EngineInv, EngineInv', SlotsWithinLimit, [Next]_engineVars
      PROVE  SlotsWithinLimit'
  <2>1. CASE EngineStep /\ ~Schedule
    BY <1>2, <2>1, EngineStepKeepsPins, EngineStepPlacesNobody, SlotsKept
  <2>2. CASE Schedule
    BY <1>2, <2>2, SlotsSchedule
  <2>3. CASE Answer \/ (\E b \in Budgets : AdmitAggregate(b)) \/ UNCHANGED engineVars
    <3>1. pins' = pins /\ where' = where /\ pinDev' = pinDev
      BY <2>3 DEF Answer, Respond, AdmitAggregate, deviceVars, stepVars,
           flowVars, engineVars
    <3> QED
      BY <1>2, <3>1, SlotsKept DEF PinsKept, NobodyPlaced, Reserved
  <2>4. CASE \E b \in Budgets : AdmitReserved(b)
    BY <1>2, <2>4, SlotsAdmit
  <2> QED
    BY <1>2, <2>1, <2>2, <2>3, <2>4 DEF Next, AdmitAny
<1> QED
  BY <1>1, <1>2, InvariantHolds, PTL DEF Spec

-----------------------------------------------------------------------------
\* An answer brings no admission of a flow that is, or is being, admitted.
LEMMA AnswerOnce ==
    ASSUME EngineInv, PinsInv, Answer PROVE AdmitsOnce(stack', admitted')
<1>1. PICK actions \in Answers : Sensible(actions) /\ Respond(actions)
  BY DEF Answer
<1>2. /\ actions \in Seq(ActionTask) /\ stack \in Seq(Task) /\ stack # <<>>
      /\ admitted' = admitted /\ stack' = actions \o Tail(stack)
  BY <1>1, AnswersAssumption
     DEF EngineInv, EngineTypeOK, Answer, Respond, flowVars
<1> DEFINE n == Len(actions)
<1> DEFINE q == actions \o Tail(stack)
<1>3. /\ n \in Nat /\ Len(stack) \in Nat /\ Len(q) = n + Len(stack) - 1
      /\ \A i \in 1..n : q[i] = actions[i]
      /\ \A i \in (n + 1)..Len(q) : /\ q[i] = stack[i - n + 1]
                                   /\ i - n + 1 \in 1..Len(stack)
  BY <1>2
<1>4. \A i \in 1..Len(q) : i \in 1..n \/ i \in (n + 1)..Len(q)
  BY <1>3
<1>5. \A i \in 1..n : actions[i].op = "Admit" =>
        /\ actions[i].flow \notin admitted
        /\ \A j \in 1..n : j # i => actions[j].flow # actions[i].flow
        /\ \A k \in 1..Len(stack) :
            stack[k].op = "Admit" => stack[k].flow # actions[i].flow
  BY <1>1, <1>2 DEF Sensible
<1>6. \A k \in 1..Len(stack) : stack[k].op = "Admit" =>
        /\ stack[k].flow \notin admitted
        /\ \A l \in 1..Len(stack) :
            stack[l].op = "Admit" /\ stack[l].flow = stack[k].flow => l = k
  BY DEF PinsInv, AdmitsOnce
<1> HIDE DEF n, q
<1>7. AdmitsOnce(q, admitted)
  <2> SUFFICES ASSUME NEW i \in 1..Len(q), q[i].op = "Admit"
               PROVE  /\ q[i].flow \notin admitted
                      /\ \A j \in 1..Len(q) :
                          q[j].op = "Admit" /\ q[j].flow = q[i].flow => j = i
    BY DEF AdmitsOnce
  <2>1. CASE i \in 1..n
    <3>1. q[i] = actions[i]
      BY <1>3, <2>1
    <3>2. ASSUME NEW j \in 1..n, q[j].flow = q[i].flow PROVE j = i
      BY <1>3, <1>5, <2>1, <3>1, <3>2
    <3>3. ASSUME NEW j \in (n + 1)..Len(q), q[j].op = "Admit"
          PROVE  q[j].flow # q[i].flow
      <4> DEFINE l == j - n + 1
      <4>1. q[j] = stack[l] /\ l \in 1..Len(stack)
        BY <1>3, <3>3
      <4>2. actions[i].op = "Admit"
        BY <3>1
      <4> HIDE DEF l
      <4> QED
        BY <1>5, <2>1, <3>1, <3>3, <4>1, <4>2
    <3> QED
      BY <1>4, <1>5, <2>1, <3>1, <3>2, <3>3
  <2>2. CASE i \in (n + 1)..Len(q)
    <3> DEFINE k == i - n + 1
    <3>1. q[i] = stack[k] /\ k \in 1..Len(stack) /\ stack[k].op = "Admit"
      BY <1>3, <2>2
    <3>2. ASSUME NEW j \in 1..n, q[j].op = "Admit" PROVE q[j].flow # q[i].flow
      BY <1>3, <1>5, <3>1, <3>2
    <3>3. ASSUME NEW j \in (n + 1)..Len(q), q[j].op = "Admit", q[j].flow = q[i].flow
          PROVE  j = i
      <4> DEFINE l == j - n + 1
      <4>1. q[j] = stack[l] /\ l \in 1..Len(stack)
        BY <1>3
      <4>2. l = k
        BY <1>6, <3>1, <3>3, <4>1
      <4> QED
        BY <1>3, <4>2
    <3>4. q[i].flow \notin admitted
      BY <1>6, <3>1
    <3> QED
      BY <1>4, <3>2, <3>3, <3>4
  <2> QED
    BY <1>4, <2>1, <2>2
<1> QED
  BY <1>2, <1>7 DEF q

\* Under every policy that admits a flow once, pins are where their flows are
\* reserved.
THEOREM PinsInvHolds == Spec => []PinsInv
<1>1. Init => PinsInv
  BY DEF Init, PinsInv, PinsHome, ReservedAdmitted, Reserved, AdmitsOnce
<1>2. ASSUME EngineInv, PinsInv, [Next]_engineVars PROVE PinsInv'
  <2>1. CASE EngineStep
    BY <1>2, <2>1, EngineStepPinsInv
  <2>2. CASE Answer
    <3>1. pins' = pins /\ pinDev' = pinDev /\ admitted' = admitted
      BY <2>2 DEF Answer, Respond, deviceVars, flowVars
    <3> QED
      BY <1>2, <2>2, <3>1, AnswerOnce DEF PinsInv, PinsHome, ReservedAdmitted, Reserved
  <2>3. CASE AdmitAny
    BY <1>2, <2>3, AdmitPinsInv DEF AdmitAny
  <2>4. CASE UNCHANGED engineVars
    BY <1>2, <2>4 DEF PinsInv, PinsHome, ReservedAdmitted, Reserved, AdmitsOnce,
         engineVars, deviceVars, flowVars
  <2> QED
    BY <1>2, <2>1, <2>2, <2>3, <2>4 DEF Next
<1> QED
  BY <1>1, <1>2, InvariantHolds, PTL DEF Spec

\* Under every policy what a device counts as held is within what it has:
\* restoring a spilled pin checks the memory it comes back to, and a pin is on
\* one device only.
LEMMA CounterHolds == Spec => []CounterWithinLimit
<1>1. Init => CounterWithinLimit
  <2> SUFFICES ASSUME Init, NEW d \in Devices PROVE HbmUsed(d) <= HbmCap
    BY DEF CounterWithinLimit
  <2>1. pins[d] \ spilled = {} /\ beHbm[d] = 0
    BY DEF Init
  <2> QED
    BY <2>1, TotalEmpty, SizesAssumption DEF HbmUsed
<1>2. ASSUME EngineInv, EngineInv', PinsInv, CounterWithinLimit, [Next]_engineVars
      PROVE  CounterWithinLimit'
  <2>1. CASE EngineStep /\ ~Schedule
    BY <1>2, <2>1, EngineStepBringsNothing, HbmKept DEF PinsInv
  <2>2. CASE Schedule
    BY <1>2, <2>2, HbmSchedule DEF PinsInv
  <2>3. CASE Answer \/ (\E b \in Budgets : AdmitAggregate(b)) \/ UNCHANGED engineVars
    <3>1. pins' = pins /\ spilled' = spilled /\ beHbm' = beHbm
      BY <2>3 DEF Answer, Respond, AdmitAggregate, deviceVars, engineVars
    <3> QED
      BY <1>2, <3>1 DEF CounterWithinLimit, HbmUsed
  <2>4. CASE \E b \in Budgets : AdmitReserved(b)
    BY <1>2, <2>4, HbmAdmit
  <2> QED
    BY <1>2, <2>1, <2>2, <2>3, <2>4 DEF Next, AdmitAny
<1> QED
  BY <1>1, <1>2, InvariantHolds, PinsInvHolds, PTL DEF Spec

-----------------------------------------------------------------------------
\* Under every policy that schedules only what it has admitted, nothing of a
\* flow is offered, resident or in tool-time before its admission.
THEOREM KnownHolds == Spec => []KnownAdmitted
<1>1. Init => KnownAdmitted
  BY DEF Init, KnownAdmitted, OfferedIn
<1>2. ASSUME EngineInv, KnownAdmitted, [Next]_engineVars PROVE KnownAdmitted'
  <2>1. CASE EngineStep
    BY <1>2, <2>1, TriggerKnown, HandlingKnown DEF EngineStep
  <2>2. CASE Answer
    <3>1. PICK actions \in Answers : Sensible(actions) /\ Respond(actions)
      BY <2>2 DEF Answer
    <3>2. actions \in Seq(Task) /\ stack # <<>>
      <4>1. actions \in Seq(ActionTask) /\ ActionTask \subseteq Task
        BY AnswersAssumption DEF ActionTask, Task
      <4> QED
        BY <2>2, <4>1 DEF Answer
    <3>3. OfferedIn(actions, admitted)
      <4>1. \A i \in 1..Len(actions) : actions[i].op \in ActionOps
        <5>1. actions \in Seq(ActionTask)
          BY AnswersAssumption
        <5> QED
          BY <5>1 DEF ActionTask
      <4> QED
        BY <3>1, <3>2, <4>1 DEF Sensible, OfferedIn, ReadyOps, ActionOps
    <3> QED
      BY <1>2, <3>1, <3>2, <3>3, RespondKnown
  <2>3. CASE AdmitAny
    BY <1>2, <2>3, AdmitKnown DEF AdmitAny
  <2>4. CASE UNCHANGED engineVars
    BY <1>2, <2>4 DEF KnownAdmitted, engineVars, flowVars, stepVars, timerVars,
         loopVars
  <2> QED
    BY <1>2, <2>1, <2>2, <2>3, <2>4 DEF Next
<1> QED
  BY <1>1, <1>2, InvariantHolds, PTL DEF Spec

-----------------------------------------------------------------------------
\* Every step keeps the accounting of the devices exact, as long as nobody has
\* been evicted since it stopped.
LEMMA AccountingKept ==
    ASSUME EngineInv, PinsInv, KnownAdmitted, AccountingExact, StopsResident,
           [Next]_engineVars
    PROVE  AccountingExact'
<1>1. CASE EngineStep
  BY <1>1, EngineStepAccounts
<1>2. CASE Answer \/ UNCHANGED engineVars
  BY <1>2, AccountingUntouched DEF Answer, Respond, engineVars, flowVars, stepVars,
     deviceVars
<1>3. CASE AdmitAny
  <2>1. PICK b : AdmitAggregate(b) \/ AdmitReserved(b)
    BY <1>3 DEF AdmitAny
  <2>2. Head(stack).op = "Admit" /\ stack # <<>> /\ stack \in Seq(Task)
    BY <2>1 DEF AdmitAggregate, AdmitReserved, Pending, EngineInv, EngineTypeOK
  <2>3. Head(stack) = stack[1] /\ 1 \in 1..Len(stack)
    BY <2>2
  <2>4. Head(stack).flow \notin admitted
    BY <2>2, <2>3 DEF PinsInv, AdmitsOnce
  <2>5. \A f \in Flows : where[f] # NoDevice => f \in admitted
    BY DEF KnownAdmitted
  <2> QED
    BY <2>1, <2>4, <2>5, AdmitAccounts
<1> QED
  BY <1>1, <1>2, <1>3 DEF Next

\* Under every policy that never evicts what has just stopped, no device holds
\* more KV than it has, its residents and its pins counted one by one
\* (HbmWithinLimit).
THEOREM MemoryHolds == Spec => ([]StopsResident => []HbmWithinLimit)
<1>1. Init => AccountingExact
  BY InitAccounts
<1>2. EngineInv /\ PinsInv /\ KnownAdmitted /\ StopsResident /\ AccountingExact
        /\ [Next]_engineVars => AccountingExact'
  BY AccountingKept
<1>3. AccountingExact /\ CounterWithinLimit => HbmWithinLimit
  BY HeldIsCounted
<1> QED
  BY <1>1, <1>2, <1>3, CounterHolds, InvariantHolds, PinsInvHolds, KnownHolds, PTL
     DEF Spec

\* Under every policy, on every cluster and workload: a device gives away no
\* more slots than it has, owes its pins no more memory than it has, and holds
\* no more while its accounting is exact, which no step ends but the completion
\* or abandonment of an invocation evicted since it stopped (CapacityRespected).
THEOREM CapacityHolds == Spec => CapacityRespected
<1>1. AccountingExact /\ CounterWithinLimit => HbmWithinLimit
  BY HeldIsCounted
<1>2. EngineInv /\ PinsInv /\ KnownAdmitted /\ [Next]_engineVars =>
        [AccountingExact /\ StopsResident => AccountingExact']_engineVars
  BY AccountingKept
<1> QED
  BY <1>1, <1>2, CommitmentHolds, SlotsHold, CounterHolds, InvariantHolds,
     PinsInvHolds, KnownHolds, PTL DEF Spec, CapacityRespected

\* What a device has served is always within what each of its decoders may
\* still generate; with it, settling never overdraws an invocation or a budget.
THEOREM ServiceInvHolds == Spec => []ServiceInv
<1>1. Init => ServiceInv
  <2> SUFFICES ASSUME Init PROVE ServiceInv
    OBVIOUS
  <2>1. \A f \in Flows : left[f] \in Nat /\ budget[f] = Unmetered
    <3>1. \A f \in Flows : Len(Work[f]) \in Nat /\ Len(Work[f]) > 0
      BY WorkType
    <3>2. \A f \in Flows : Work[f][1].output \in Nat
      BY <3>1, WorkType DEF Steps
    <3> QED
      BY <3>2 DEF Init
  <2>2. \A d \in Devices : Decoding(d) = {}
    BY DEF Init, Decoding, Resident
  <2> QED
    BY <2>1, <2>2 DEF ServiceInv, NeverOverserved, AccruedWithin
<1>2. ASSUME EngineInv, EngineInv', PinsInv, KnownAdmitted, ServiceInv,
             [Next]_engineVars
      PROVE  ServiceInv'
  <2>1. CASE EngineStep
    BY <1>2, <2>1, TriggerServes, HandlingServes DEF EngineStep
  <2>2. CASE Answer \/ UNCHANGED engineVars
    <3>1. /\ left' = left /\ budget' = budget /\ accrued' = accrued
          /\ where' = where /\ phase' = phase
      BY <2>2 DEF Answer, Respond, engineVars, stepVars, deviceVars
    <3> QED
      BY <1>2, <3>1 DEF ServiceInv, NeverOverserved, AccruedWithin, Decoding,
           Resident, TokensUntilStop
  <2>3. CASE AdmitAny
    BY <1>2, <2>3, AnswersAssumption, AdmitServes DEF AdmitAny, PinsInv, KnownAdmitted
  <2> QED
    BY <1>2, <2>1, <2>2, <2>3 DEF Next
<1> QED
  BY <1>1, <1>2, InvariantHolds, PinsInvHolds, KnownHolds, PTL DEF Spec

\* Under every policy no invocation generates more tokens than it has to, and
\* no flow more than its budget allows (NeverOverserved): a device sizes its
\* interval by the first decoder to stop, and settles whenever that changes.
THEOREM ServiceHolds == Spec => []NeverOverserved
BY ServiceInvHolds, PTL DEF ServiceInv
=============================================================================
