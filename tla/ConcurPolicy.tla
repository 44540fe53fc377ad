---------------------------- MODULE ConcurPolicy ----------------------------
(***************************************************************************)
(* The CONCUR-style baseline (sim/scheduler/policies/concur_style.py)      *)
(* composed with the engine: admission gated on an AIMD window, and        *)
(* concurrency held at the window by pausing the newest work.              *)
(***************************************************************************)
EXTENDS Aimd

VARIABLE running       \* _running

policyVars == <<running, queue, window, inFlight>>

Newer(r, v) == r.flow > v.flow \/ (r.flow = v.flow /\ r.step > v.step)

\* What exceeds the window w, newest first.
Paused(w, run) ==
    Sorted({r \in run : Cardinality({v \in run : Newer(v, r)})
                            < Cardinality(run) - w \div OneFlow},
           [r \in run |-> {v \in run : Newer(v, r)}])

\* The first device with room, if any.
TryPlace(m, f) == LET d == FindDevice(m, f)
                  IN IF d = NoDevice THEN Declined(m, f) ELSE Booked(m, f, d)

\* A plausible bug: one more than the window is let run.
BelowWindowByOne(w, m) == Cardinality(m.running) <= w \div OneFlow
BelowWindow(w, m) == Cardinality(m.running) < w \div OneFlow

\* _reconcile: pause what exceeds the window, then fill up to it, oldest first.
Reconcile(w, q, run) ==
    \E m \in PassOver(FoldLeft(Evicted, Mirror(run, q), Paused(w, run)),
                      Sorted(q, EarlierFlows), TryPlace,
                      LAMBDA r, f : BelowWindow(w, r)) :
        queue' = m.waiting /\ running' = m.running /\ Respond(m.actions)

-----------------------------------------------------------------------------
(* on_event.                                                               *)

AdmitArrival == GateArrival /\ UNCHANGED <<running, queue, window>>

EnqueueReady ==
    /\ Pending("InvocationReady")
    /\ LET q == queue \cup {Head(stack).flow} IN
        window' = Decreased(window, q) /\ Reconcile(window', q, running)
    /\ UNCHANGED inFlight

NoteComplete ==
    /\ Pending("InvocationComplete")
    /\ Leaves
    /\ Reconcile(window', queue, Forget(running))

OnTick ==
    /\ Pending("Tick")
    /\ window' = Decreased(window, queue) /\ Reconcile(window', queue, running)
    /\ UNCHANGED inFlight

PolicyAnswer == AdmitArrival \/ EnqueueReady \/ NoteComplete \/ OnTick
=============================================================================
