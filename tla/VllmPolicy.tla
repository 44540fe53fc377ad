------------------------------ MODULE VllmPolicy ------------------------------
(***************************************************************************)
(* The vLLM-style baseline (sim/scheduler/policies/vllm_style.py) composed *)
(* with the engine: admit everything, place by class priority (a smaller   *)
(* number is a higher priority), and evict one invocation of strictly      *)
(* lower priority when nothing else gives room.                            *)
(***************************************************************************)
EXTENDS PolicyPass

CONSTANTS
    ClassPriority,   \* class_priority of each flow's class
    BatchPct         \* max_batch_fraction, in percent

VARIABLE running     \* _running

policyVars == <<running, queue>>

\* _order_key
OrderedBefore(f, g) ==
    \/ ClassPriority[f] < ClassPriority[g]
    \/ ClassPriority[f] = ClassPriority[g] /\ f < g

\* Room left in the batch of d; a device is open for as many more as both its
\* slots and its batch allow.
BatchRoom(d) == (BatchPct * MaxSlots) \div 100 - SlotsUsed(d)
PassMirror(q, run) ==
    [Mirror(run, q) EXCEPT !.slots =
        [d \in Devices |-> Least({FreeSlots(d), BatchRoom(d)})]]

\* A plausible bug: equals may evict each other.
VictimsAmongEquals(m, f) ==
    {r \in m.running : ClassPriority[r.flow] >= ClassPriority[f] /\ r.flow # f}
Candidates(m, f) == {r \in m.running : ClassPriority[r.flow] > ClassPriority[f]}

\* _pick_victim: the lowest priority, and of those the newest.
PickVictim(m, f) ==
    CHOOSE r \in Candidates(m, f) : \A v \in Candidates(m, f) :
        \/ v = r \/ OrderedBefore(v.flow, r.flow)
        \/ v.flow = r.flow /\ v.step < r.step

\* A plausible bug: nobody is evicted for memory while a slot is free.
TryPlaceForSlot(m, f) ==
    LET d == FindDevice(m, f)
        freed == Evicted(m, PickVictim(m, f))
        e == FindDevice(freed, f)
    IN IF d # NoDevice THEN Booked(m, f, d)
       ELSE IF AnySlot(m) \/ Candidates(m, f) = {} THEN Declined(m, f)
       ELSE IF e = NoDevice THEN Declined(freed, f)
       ELSE Booked(freed, f, e)
\* try_place: where it fits, or where it fits once one victim is evicted; the
\* victim is gone even if that did not help.
TryPlace(m, f) ==
    LET d == FindDevice(m, f)
        freed == Evicted(m, PickVictim(m, f))
        e == FindDevice(freed, f)
    IN IF d # NoDevice THEN Booked(m, f, d)
       ELSE IF Candidates(m, f) = {} THEN Declined(m, f)
       ELSE IF e = NoDevice THEN Declined(freed, f)
       ELSE Booked(freed, f, e)

\* has_capacity: somewhere to put work, or something the head may evict.
HasCapacity(m, f) == AnySlot(m) \/ Candidates(m, f) # {}

\* _schedule_pass over the queue q with `run` left of _running.
SchedulePass(q, run) ==
    \E m \in Drained(PassMirror(q, run),
                     Sorted(q, [f \in q |-> {g \in q : OrderedBefore(g, f)}]),
                     TryPlace, HasCapacity) :
        queue' = m.waiting /\ running' = m.running /\ Respond(m.actions)

-----------------------------------------------------------------------------
(* on_event.                                                               *)

AdmitArrival ==
    /\ Pending("FlowArrival")
    /\ Respond(<<TaskOf("Admit", Head(stack).flow, 0, NoDevice)>>)
    /\ UNCHANGED policyVars

EnqueueReady == /\ Pending("InvocationReady")
                /\ SchedulePass(queue \cup {Head(stack).flow}, running)

NoteComplete == /\ Pending("InvocationComplete")
                /\ SchedulePass(queue, Forget(running))

OnTick == Pending("Tick") /\ SchedulePass(queue, running)

PolicyAnswer == AdmitArrival \/ EnqueueReady \/ NoteComplete \/ OnTick
=============================================================================
