------------------------------- MODULE Engine -------------------------------
(***************************************************************************)
(* The simulation engine (sim/core/engine.py) over its devices             *)
(* (sim/cluster/device.py): the part of the simulator that owns every      *)
(* mechanism and that every policy is driven by.                           *)
(*                                                                         *)
(* The engine is single-threaded.  An external trigger (an arrival, a      *)
(* tick, the end of a tool-time gap, the end of a decode interval, the end *)
(* of an entry latency) runs to completion before the next one, but it     *)
(* runs through nested calls: it delivers an event to the policy, executes *)
(* the actions the policy returns one by one, and some of those deliver    *)
(* events in turn.  `stack` is that call tree flattened: the events still  *)
(* to be delivered and the actions still to be executed, innermost first.  *)
(* A policy module adds the steps that replace an event at the head of the *)
(* stack by the actions the policy answers with.                           *)
(*                                                                         *)
(* Time is abstracted: what remains of it is the order of the triggers and *)
(* the number of tokens a decoder has been served since its device was     *)
(* last settled (`accrued`), one unit per token.                           *)
(***************************************************************************)
EXTENDS Integers, Sequences, FiniteSets, Capacity

CONSTANTS
    NumFlows,        \* flows the workload offers, numbered in arrival order
    NumDevices,      \* devices of the cluster
    MaxSlots,        \* max_concurrent_decodes of a device
    HbmCap,          \* hbm_capacity_gib of a device, in units of KV
    Work,            \* Work[f]: the flow's invocations, [kv, output, gap] each
    PinMode,         \* "STRICT" or "TIERED"
    NonPreemptible,  \* the non_preemptible flag of every reservation
    TokenScalePct,   \* token_scale of the degradation action, in percent
    PreemptCap       \* bound: the preemptions counter stays at this value

Flows == 1..NumFlows
Devices == 1..NumDevices
NoDevice == 0
Unmetered == -1       \* budget_remaining is None or infinite

ASSUME SizesAssumption ==
    /\ NumFlows \in Nat /\ NumDevices \in Nat
    /\ MaxSlots \in Nat /\ HbmCap \in Nat
ASSUME WorkAssumption ==
    /\ DOMAIN Work = Flows
    /\ \A f \in Flows :
        /\ Work[f] \in Seq([kv : Nat, output : Nat, gap : BOOLEAN])
        /\ Work[f] # <<>>
ASSUME ModeAssumption ==
    /\ PinMode \in {"STRICT", "TIERED"}
    /\ NonPreemptible \in BOOLEAN
    /\ TokenScalePct \in 0..100
ASSUME BoundAssumption == PreemptCap \in Nat

VARIABLES
    \* flows and their invocations
    arrivals,        \* how many flows have arrived
    admitted,        \* flows with flow.admitted
    cursor,          \* flow.cursor: invocations already finished
    phase,           \* phase of the flow's next invocation
    where,           \* device_id of that invocation
    left,            \* its decode_remaining
    preemptions,     \* how often it was preempted
    output,          \* output_tokens of each invocation of the flow
    budget,          \* flow.budget_remaining
    pinDev,          \* flow.reservation.device_id, NoDevice if not reserved
    abandoned,       \* flows with flow.abandoned
    degraded,        \* flows with flow.degradations > 0
    \* devices
    pins,            \* pins[d]: flows holding a pin on d
    spilled,         \* flows whose pin is spilled to the host
    beHbm,           \* besteffort_hbm_gib of each device
    accrued,         \* tokens served on d since the last settlement
    \* engine processes and agenda
    occupied,        \* _pin_occupied
    timers,          \* pending _enter_device processes
    gaps,            \* pending _gap_then_ready processes
    reready,         \* _reready
    stack,           \* nested deliveries and actions, innermost first
    finished,        \* rest of a device loop's `finished` list, [flow, dev] each
    exhausted,       \* rest of its `exhausted` list
    failed           \* an engine guard raised; the run is over

flowVars == <<admitted, output, pinDev, abandoned, degraded>>
stepVars == <<cursor, phase, where, left, preemptions, budget>>
deviceVars == <<pins, spilled, beHbm, accrued>>
timerVars == <<occupied, timers, gaps>>
loopVars == <<finished, exhausted>>
engineVars == <<arrivals, flowVars, stepVars, deviceVars, timerVars, loopVars,
                reready, stack, failed>>

-----------------------------------------------------------------------------
(* Tasks on the stack: the events of the policy interface and the actions. *)

EventOps == {"FlowArrival", "InvocationReady", "InvocationComplete", "Tick"}
ActionOps == {"Admit", "Schedule", "Preempt", "Degrade"}
FlowTask == [op : (EventOps \ {"Tick"}) \cup ActionOps, flow : Flows,
             step : Nat, dev : 0..NumDevices]
TickTask == [op : {"Tick"}, flow : {0}, step : {0}, dev : {NoDevice}]
Task == FlowTask \cup TickTask

TaskOf(op, f, s, d) == [op |-> op, flow |-> f, step |-> s, dev |-> d]

Steps(f) == 1..Len(Work[f])
Step(f) == cursor[f] + 1               \* the next invocation, counted from 1
IsComplete(f) == cursor[f] >= Len(Work[f])
Reserved(f) == pinDev[f] # NoDevice
Kv(f, s) == Work[f][s].kv
NextKv(f) == Kv(f, Step(f))

\* peak_context_tokens: the pin holds the largest context of the flow.
PinSize == [f \in Flows |-> Greatest({Kv(f, s) : s \in Steps(f)})]

-----------------------------------------------------------------------------
(* Device accounting.                                                      *)

Resident(d) == {f \in Flows : where[f] = d}
Decoding(d) == {f \in Resident(d) : phase[f] = "DECODE"}
BestEffort(d) == {f \in Resident(d) : ~Reserved(f)}

SlotsUsed(d) == Cardinality(pins[d]) + Cardinality(BestEffort(d))
HbmUsed(d) == Total(pins[d] \ spilled, PinSize) + beHbm[d]
HbmCommitted(d) == Total(pins[d], PinSize)

HasFreeSlot(d) == SlotsUsed(d) < MaxSlots
HbmFits(d, gib) == HbmUsed(d) + gib <= HbmCap
CanPlace(f, d) == HasFreeSlot(d) /\ HbmFits(d, NextKv(f))
CanPin(f, d) ==
    /\ HasFreeSlot(d)
    /\ HbmFits(d, PinSize[f])
    /\ HbmCommitted(d) + PinSize[f] <= HbmCap

\* Plausible bugs: the clamp is forgotten, and that a pin has its own memory.
ReleasedUnclamped(f, d) == [beHbm EXCEPT ![d] = @ - NextKv(f)]
ReleasedForPinsToo(f, d) ==
    [beHbm EXCEPT ![d] = IF @ < NextKv(f) THEN 0 ELSE @ - NextKv(f)]
\* besteffort_hbm_gib after Device.release, which clamps it at zero.
Released(f, d) ==
    IF Reserved(f) /\ where[f] = d THEN beHbm
    ELSE [beHbm EXCEPT ![d] = IF @ < NextKv(f) THEN 0 ELSE @ - NextKv(f)]

\* Plausible bugs: only one decoder is credited; each pays for the whole batch.
CreditedFirstOnly(d) ==
    [f \in Flows |-> IF Decoding(d) # {} /\ f = Least(Decoding(d))
                     THEN left[f] - accrued[d] ELSE left[f]]
ChargedForBatch(d) ==
    [f \in Flows |-> IF f \in Decoding(d) /\ budget[f] # Unmetered
                     THEN budget[f] - accrued[d] * Cardinality(Decoding(d))
                     ELSE budget[f]]
\* Decode service credited to the decoders of d when it is settled.
CreditedLeft(d) ==
    [f \in Flows |-> IF f \in Decoding(d) THEN left[f] - accrued[d]
                                          ELSE left[f]]
CreditedBudget(d) ==
    [f \in Flows |-> IF f \in Decoding(d) /\ budget[f] # Unmetered
                     THEN budget[f] - accrued[d] ELSE budget[f]]

\* A plausible bug: the interval is sized by the output alone.
TokensUntilFinish(f) == left[f]
\* Tokens a decoder may still generate: to its end, or to its flow's budget.
TokensUntilStop(f) ==
    IF budget[f] # Unmetered /\ budget[f] < left[f] THEN budget[f] ELSE left[f]
MinStop(d) == Least({TokensUntilStop(f) : f \in Decoding(d)})

-----------------------------------------------------------------------------
Init ==
    /\ arrivals = 0
    /\ admitted = {}
    /\ cursor = [f \in Flows |-> 0]
    /\ phase = [f \in Flows |-> "PENDING"]
    /\ where = [f \in Flows |-> NoDevice]
    /\ output = [f \in Flows |-> [s \in Steps(f) |-> Work[f][s].output]]
    /\ left = [f \in Flows |-> Work[f][1].output]
    /\ preemptions = [f \in Flows |-> 0]
    /\ budget = [f \in Flows |-> Unmetered]
    /\ pinDev = [f \in Flows |-> NoDevice]
    /\ abandoned = {} /\ degraded = {}
    /\ pins = [d \in Devices |-> {}]
    /\ spilled = {}
    /\ beHbm = [d \in Devices |-> 0]
    /\ accrued = [d \in Devices |-> 0]
    /\ occupied = {} /\ timers = {} /\ gaps = {}
    /\ reready = <<>> /\ stack = <<>>
    /\ finished = {} /\ exhausted = {}
    /\ failed = FALSE

\* Between two triggers: nothing is being delivered, executed or re-offered.
Idle == /\ stack = <<>> /\ finished = {} /\ exhausted = {}
        /\ reready = <<>> /\ ~failed

\* The innermost pending call is `op`.
Pending(op) == /\ ~failed /\ stack # <<>> /\ Head(stack).op = op

\* A guard of the engine raises: the exception ends the run.
Raise ==
    /\ failed' = TRUE
    /\ UNCHANGED <<arrivals, flowVars, stepVars, deviceVars, timerVars,
                   reready, stack, loopVars>>

-----------------------------------------------------------------------------
(* External triggers.                                                      *)

\* _arrival_loop: the next flow of the workload arrives.
Arrival ==
    /\ Idle /\ arrivals < NumFlows
    /\ arrivals' = arrivals + 1
    /\ stack' = <<TaskOf("FlowArrival", arrivals + 1, 0, NoDevice)>>
    /\ UNCHANGED <<flowVars, stepVars, deviceVars, timerVars, reready,
                   loopVars, failed>>

\* _tick_loop: the periodic tick is delivered.
TickTimer ==
    /\ Idle
    /\ stack' = <<TaskOf("Tick", 0, 0, NoDevice)>>
    /\ UNCHANGED <<arrivals, flowVars, stepVars, deviceVars, timerVars,
                   reready, loopVars, failed>>

\* _gap_then_ready: the tool-time of flow f is over.
GapEnd(f) ==
    /\ Idle /\ f \in gaps
    /\ gaps' = gaps \ {f}
    /\ stack' = <<TaskOf("InvocationReady", f, Step(f), NoDevice)>>
    /\ UNCHANGED <<arrivals, flowVars, stepVars, deviceVars, occupied, timers,
                   reready, loopVars, failed>>

\* The test _enter_device makes when its latency is over.
StillEntering(t) ==
    /\ t.step = Step(t.flow)
    /\ phase[t.flow] = "PREFILL"
    /\ where[t.flow] = t.dev

\* _enter_device: the invocation joins the decode set of its device.
EnterDevice(t) ==
    /\ Idle /\ t \in timers /\ StillEntering(t)
    /\ timers' = timers \ {t}
    /\ left' = CreditedLeft(t.dev)
    /\ budget' = CreditedBudget(t.dev)
    /\ accrued' = [accrued EXCEPT ![t.dev] = 0]
    /\ phase' = [phase EXCEPT ![t.flow] = "DECODE"]
    /\ UNCHANGED <<arrivals, flowVars, cursor, where, preemptions, pins,
                   spilled, beHbm, occupied, gaps, reready, stack, loopVars,
                   failed>>

\* _enter_device, early return: the invocation is no longer entering here.
EntryVoid(t) ==
    /\ Idle /\ t \in timers /\ ~StillEntering(t)
    /\ timers' = timers \ {t}
    /\ UNCHANGED <<arrivals, flowVars, stepVars, deviceVars, occupied, gaps,
                   reready, stack, loopVars, failed>>

\* One token's worth of time passes on device d inside a decode interval.
DecodeToken(d) ==
    /\ Idle /\ Decoding(d) # {} /\ accrued[d] < MinStop(d)
    /\ accrued' = [accrued EXCEPT ![d] = @ + 1]
    /\ UNCHANGED <<arrivals, flowVars, stepVars, pins, spilled, beHbm,
                   timerVars, reready, stack, loopVars, failed>>

\* The decoder of f stops on device d.
Stop(f, d) == [flow |-> f, dev |-> d]

\* _device_loop: the interval is over; settle, then sort out who stops.
IntervalEnd(d) ==
    /\ Idle /\ Decoding(d) # {} /\ accrued[d] = MinStop(d)
    /\ left' = CreditedLeft(d)
    /\ budget' = CreditedBudget(d)
    /\ accrued' = [accrued EXCEPT ![d] = 0]
    /\ finished' = {Stop(f, d) : f \in {g \in Decoding(d) : left'[g] = 0}}
    /\ exhausted' = {Stop(f, d) : f \in {g \in Decoding(d) :
                                        left'[g] # 0 /\ budget'[g] = 0}}
    /\ UNCHANGED <<arrivals, flowVars, cursor, phase, where, preemptions,
                   pins, spilled, beHbm, timerVars, reready, stack, failed>>

-----------------------------------------------------------------------------
(* The rest of a device-loop turn: completions, then abandonments.         *)

\* _set_pin_occupied(flow, False): the pin is held, no longer occupied.
Vacated(f) == occupied \ {f}

\* The invocation of f leaves device d and the flow moves on by n steps.
Leave(f, d, n) ==
    /\ beHbm' = Released(f, d)
    /\ where' = [where EXCEPT ![f] = NoDevice]
    /\ occupied' = Vacated(f)
    /\ cursor' = [cursor EXCEPT ![f] = @ + n]
    /\ preemptions' = [preemptions EXCEPT ![f] = 0]

Completing(f, d) == ~failed /\ stack = <<>> /\ Stop(f, d) \in finished
IsLastStep(f) == Step(f) = Len(Work[f])

\* _release_reservation: the pin goes back, spilled or not.
ReleasePin(f) ==
    /\ pins' = [d \in Devices |-> IF d = pinDev[f] THEN pins[d] \ {f}
                                                   ELSE pins[d]]
    /\ spilled' = spilled \ {f}

\* _complete_invocation, last invocation: the flow is done.
CompleteFlow(f, d) ==
    /\ Completing(f, d) /\ IsLastStep(f)
    /\ finished' = finished \ {Stop(f, d)}
    /\ Leave(f, d, 1)
    /\ ReleasePin(f)
    /\ phase' = [phase EXCEPT ![f] = "COMPLETE"]
    /\ left' = [left EXCEPT ![f] = 0]
    /\ stack' = <<TaskOf("InvocationComplete", f, Step(f), NoDevice)>>
    /\ UNCHANGED <<arrivals, flowVars, budget, accrued, timers, gaps, reready,
                   exhausted, failed>>

\* The next invocation of f replaces the completed one as its current one.
Advance(f, d) ==
    /\ Completing(f, d) /\ ~IsLastStep(f)
    /\ finished' = finished \ {Stop(f, d)}
    /\ Leave(f, d, 1)
    /\ phase' = [phase EXCEPT ![f] = "PENDING"]
    /\ left' = [left EXCEPT ![f] = output[f][Step(f) + 1]]

\* A plausible bug: the pin is given back for the tool-time.
DropAcrossGap(f) == ReleasePin(f)
\* Across tool-time the pin is kept; a TIERED one spills its KV to the host.
HoldAcrossGap(f) ==
    /\ spilled' = IF Reserved(f) /\ PinMode = "TIERED" THEN spilled \cup {f}
                                                       ELSE spilled
    /\ pins' = pins

\* _complete_invocation before tool-time: the flow goes idle, the gap starts.
CompleteIntoGap(f, d) ==
    /\ Advance(f, d) /\ Work[f][Step(f)].gap
    /\ HoldAcrossGap(f)
    /\ gaps' = gaps \cup {f}
    /\ stack' = <<TaskOf("InvocationComplete", f, Step(f), NoDevice)>>
    /\ UNCHANGED <<arrivals, flowVars, budget, accrued, timers, reready,
                   exhausted, failed>>

\* _complete_invocation without a gap: the next invocation is offered first.
CompleteIntoNext(f, d) ==
    /\ Advance(f, d) /\ ~Work[f][Step(f)].gap
    /\ stack' = <<TaskOf("InvocationReady", f, Step(f) + 1, NoDevice),
                  TaskOf("InvocationComplete", f, Step(f), NoDevice)>>
    /\ UNCHANGED <<arrivals, flowVars, budget, pins, spilled, accrued, timers,
                   gaps, reready, exhausted, failed>>

\* _abandon_flow: the budget is gone, no further invocation of f runs.
AbandonFlow(f, d) ==
    /\ ~failed /\ stack = <<>> /\ finished = {} /\ Stop(f, d) \in exhausted
    /\ exhausted' = exhausted \ {Stop(f, d)}
    /\ Leave(f, d, Len(Work[f]) - cursor[f])
    /\ ReleasePin(f)
    /\ phase' = [phase EXCEPT ![f] = "COMPLETE"]
    /\ abandoned' = abandoned \cup {f}
    /\ stack' = <<TaskOf("InvocationComplete", f, Step(f), NoDevice)>>
    /\ UNCHANGED <<arrivals, admitted, left, output, budget, pinDev, degraded,
                   accrued, timers, gaps, reready, finished, failed>>

\* A plausible bug: the re-offer looks for the wrong phase.
NeverPreempted(v) == phase[v.flow] = "PENDING"
\* A victim is re-offered if nobody has rescheduled or completed it since.
StillPreempted(v) == Step(v.flow) = v.step /\ phase[v.flow] = "PREEMPTED"

\* _drain_reready: re-offer the next preempted invocation, if it still waits.
Reoffer ==
    /\ ~failed /\ stack = <<>> /\ finished = {} /\ exhausted = {}
    /\ reready # <<>>
    /\ LET v == Head(reready) IN
        stack' = IF StillPreempted(v)
                 THEN <<TaskOf("InvocationReady", v.flow, v.step, NoDevice)>>
                 ELSE <<>>
    /\ reready' = Tail(reready)
    /\ UNCHANGED <<arrivals, flowVars, stepVars, deviceVars, timerVars,
                   loopVars, failed>>

-----------------------------------------------------------------------------
(* Actions of the policy, as _dispatch executes them.                      *)

\* The admitted flow's first invocation is offered at once (_make_ready).
OfferNext(f) ==
    stack' = <<TaskOf("InvocationReady", f, Step(f), NoDevice)>> \o Tail(stack)

\* _admit into the aggregate class: metered by b, not pinned.
AdmitAggregate(b) ==
    /\ Pending("Admit") /\ Head(stack).dev = NoDevice
    /\ LET f == Head(stack).flow IN
        /\ admitted' = admitted \cup {f}
        /\ budget' = [budget EXCEPT ![f] = b]
        /\ OfferNext(f)
    /\ UNCHANGED <<arrivals, cursor, phase, where, left, preemptions, output,
                   pinDev, abandoned, degraded, deviceVars, timerVars,
                   reready, loopVars, failed>>

\* _admit with a reservation: the pin is established and its budget opened.
AdmitReserved(b) ==
    /\ Pending("Admit") /\ Head(stack).dev # NoDevice
    /\ LET f == Head(stack).flow
           d == Head(stack).dev IN
        /\ f \notin pins[d] /\ CanPin(f, d)
        /\ admitted' = admitted \cup {f}
        /\ pins' = [pins EXCEPT ![d] = @ \cup {f}]
        /\ pinDev' = [pinDev EXCEPT ![f] = d]
        /\ budget' = [budget EXCEPT ![f] = b]
        /\ OfferNext(f)
    /\ UNCHANGED <<arrivals, cursor, phase, where, left, preemptions, output,
                   abandoned, degraded, spilled, beHbm, accrued, timerVars,
                   reready, loopVars, failed>>

\* Device.pin_flow raises: the policy's ledger over-committed the device.
AdmitRefused ==
    /\ Pending("Admit") /\ Head(stack).dev # NoDevice
    /\ LET f == Head(stack).flow
           d == Head(stack).dev IN f \in pins[d] \/ ~CanPin(f, d)
    /\ Raise

\* A reserved invocation runs in its own pin, which must be able to come home.
PinUsable(f, d) ==
    /\ d = pinDev[f] /\ f \in pins[d]
    /\ PinMode = "TIERED" /\ f \in spilled => HbmFits(d, PinSize[f])

\* A plausible bug: the pin stays marked as spilled.
NotRestored(f) == spilled
\* Device.restore_pin: the KV of a TIERED pin is back on the device.
AfterRestore(f) == IF Reserved(f) /\ PinMode = "TIERED" THEN spilled \ {f}
                                                        ELSE spilled

Schedulable(f, d) ==
    /\ phase[f] \in {"PENDING", "PREEMPTED"}
    /\ d \in Devices
    /\ IF Reserved(f) THEN PinUsable(f, d) ELSE CanPlace(f, d)

\* _schedule: the invocation moves onto the device and starts entering.
Schedule ==
    /\ Pending("Schedule")
    /\ LET f == Head(stack).flow
           d == Head(stack).dev IN
        /\ Schedulable(f, d)
        /\ spilled' = AfterRestore(f)
        /\ beHbm' = IF Reserved(f) THEN beHbm
                    ELSE [beHbm EXCEPT ![d] = @ + NextKv(f)]
        /\ occupied' = IF Reserved(f) THEN occupied \cup {f} ELSE occupied
        /\ where' = [where EXCEPT ![f] = d]
        /\ phase' = [phase EXCEPT ![f] = "PREFILL"]
        /\ timers' = timers \cup {[flow |-> f, step |-> Step(f), dev |-> d,
                                   attempt |-> preemptions[f]]}
    /\ stack' = Tail(stack)
    /\ UNCHANGED <<arrivals, flowVars, cursor, left, preemptions, budget,
                   pins, accrued, gaps, reready, loopVars, failed>>

\* _schedule raises: wrong phase, wrong device, no capacity or no restore.
ScheduleRefused ==
    /\ Pending("Schedule")
    /\ ~Schedulable(Head(stack).flow, Head(stack).dev)
    /\ Raise

\* A plausible bug: the guarantee is not looked at.
PreemptibleResident(f, s) == s = Step(f) /\ phase[f] \in {"PREFILL", "DECODE"}
Preemptible(f, s) ==
    /\ s = Step(f) /\ phase[f] \in {"PREFILL", "DECODE"}
    /\ ~(Reserved(f) /\ NonPreemptible)

\* How often an invocation was preempted, exact up to the bound PreemptCap.
CountedOn(n) == IF n < PreemptCap THEN n + 1 ELSE n

\* _preempt: the victim leaves and queues for re-offer.  The device is settled
\* only for a DECODE victim, but its interval restarts either way.
Preempt ==
    /\ Pending("Preempt")
    /\ LET f == Head(stack).flow
           d == where[f] IN
        /\ Preemptible(f, Head(stack).step)
        /\ left' = IF phase[f] = "DECODE" THEN CreditedLeft(d) ELSE left
        /\ budget' = IF phase[f] = "DECODE" THEN CreditedBudget(d) ELSE budget
        /\ accrued' = [accrued EXCEPT ![d] = 0]
        /\ beHbm' = Released(f, d)
        /\ where' = [where EXCEPT ![f] = NoDevice]
        /\ phase' = [phase EXCEPT ![f] = "PREEMPTED"]
        /\ preemptions' = [preemptions EXCEPT ![f] = CountedOn(@)]
        /\ occupied' = Vacated(f)
        /\ reready' = Append(reready, [flow |-> f, step |-> Step(f)])
    /\ stack' = Tail(stack)
    /\ UNCHANGED <<arrivals, flowVars, cursor, pins, spilled, timers, gaps,
                   loopVars, failed>>

\* _preempt raises: the victim is not resident, or it is guaranteed.
PreemptRefused ==
    /\ Pending("Preempt")
    /\ ~Preemptible(Head(stack).flow, Head(stack).step)
    /\ Raise

\* Output of an invocation after the degradation action: never below one token.
Shortened(n) == IF (n * TokenScalePct) \div 100 < 1 THEN 1
                ELSE (n * TokenScalePct) \div 100

\* _degrade: the invocations of the flow that are still PENDING shrink.
Degrade ==
    /\ Pending("Degrade")
    /\ LET f == Head(stack).flow
           reshaped == {s \in Steps(f) : s > Step(f)
                                \/ (s = Step(f) /\ phase[f] = "PENDING")} IN
        /\ output' = [output EXCEPT ![f] =
               [s \in Steps(f) |-> IF s \in reshaped THEN Shortened(@[s])
                                                     ELSE @[s]]]
        /\ left' = IF Step(f) \in reshaped
                   THEN [left EXCEPT ![f] = Shortened(output[f][Step(f)])]
                   ELSE left
        /\ degraded' = degraded \cup {f}
    /\ stack' = Tail(stack)
    /\ UNCHANGED <<arrivals, admitted, cursor, phase, where, preemptions,
                   budget, pinDev, abandoned, deviceVars, timerVars, reready,
                   loopVars, failed>>

\* The policy answers the event at the head of the stack with `actions`.
Respond(actions) ==
    /\ stack' = actions \o Tail(stack)
    /\ UNCHANGED <<arrivals, flowVars, stepVars, deviceVars, timerVars,
                   reready, loopVars, failed>>

-----------------------------------------------------------------------------
\* Timers of the simulation kernel: only between two triggers.
TriggerStep ==
    \/ Arrival \/ TickTimer
    \/ \E f \in Flows : GapEnd(f)
    \/ \E t \in timers : EnterDevice(t) \/ EntryVoid(t)
    \/ \E d \in Devices : DecodeToken(d) \/ IntervalEnd(d)

\* Handling of the current trigger, but for the policy's answers and for the
\* Admit actions, whose budget is the policy's.
HandlingStep ==
    \/ \E f \in Flows, d \in Devices :
        \/ CompleteFlow(f, d) \/ CompleteIntoGap(f, d)
        \/ CompleteIntoNext(f, d) \/ AbandonFlow(f, d)
    \/ Reoffer \/ AdmitRefused \/ Schedule \/ ScheduleRefused
    \/ Preempt \/ PreemptRefused \/ Degrade

EngineStep == TriggerStep \/ HandlingStep

\* The flows that have tool-time: no gap of another one ever starts.
TooledFlows == {f \in Flows : \E s \in Steps(f) : Work[f][s].gap}

\* SimPy fires every timer it holds (a run's horizon is taken as unbounded).
\* Strong, because a timer cannot fire while another trigger is being handled:
\* it stays scheduled and fires afterwards.
TriggerFairness ==
    /\ SF_engineVars(Arrival)
    /\ \A f \in TooledFlows : SF_engineVars(GapEnd(f))
    /\ \A f \in Flows :
        SF_engineVars(\E t \in timers :
                          t.flow = f /\ (EnterDevice(t) \/ EntryVoid(t)))
    /\ \A d \in Devices : SF_engineVars(DecodeToken(d) \/ IntervalEnd(d))
=============================================================================
