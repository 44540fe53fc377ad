------------------------------ MODULE FcfsPolicy ------------------------------
(***************************************************************************)
(* The first-come-first-served baseline (sim/scheduler/policies/fcfs.py)   *)
(* composed with the engine: admit everything, queue by flow and step,     *)
(* place whatever fits, never preempt.                                     *)
(***************************************************************************)
EXTENDS PolicyPass

\* try_place: the first device that has room, if any.
TryPlace(m, f) == LET d == FindDevice(m, f)
                  IN IF d = NoDevice THEN Declined(m, f) ELSE Booked(m, f, d)

\* _drain over the queue q, in the order of flows.
Drain(q) ==
    \E m \in Drained(Mirror({}, q), Sorted(q, EarlierFlows),
                    TryPlace, LAMBDA r, f : AnySlot(r)) :
        queue' = m.waiting /\ Respond(m.actions)

-----------------------------------------------------------------------------
(* on_event.                                                               *)

AdmitArrival ==
    /\ Pending("FlowArrival")
    /\ Respond(<<TaskOf("Admit", Head(stack).flow, 0, NoDevice)>>)
    /\ UNCHANGED queue

EnqueueReady == /\ Pending("InvocationReady")
                /\ Drain(queue \cup {Head(stack).flow})

\* A completion or a tick may have freed capacity.
DrainOnPoke == /\ Pending("InvocationComplete") \/ Pending("Tick")
               /\ Drain(queue)

PolicyAnswer == AdmitArrival \/ EnqueueReady \/ DrainOnPoke

Next == \/ PolicyAnswer
        \/ (EngineStep \/ AdmitAggregate(Unmetered)) /\ UNCHANGED queue
=============================================================================
