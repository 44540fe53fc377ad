----------------------------- MODULE MarsPolicy -----------------------------
(***************************************************************************)
(* The MARS-style baseline (sim/scheduler/policies/mars_style.py) composed *)
(* with the engine: the admission window of CONCUR, which may exceed the   *)
(* slots, before the feedback queue of FastServe.  What a preemption costs *)
(* (_preempt_mode_for) is left out with the lengths of entry latencies.    *)
(***************************************************************************)
EXTENDS Aimd, Levels

policyVars == <<running, queue, window, inFlight, levelVars>>

-----------------------------------------------------------------------------
(* The window, and the levels.                                             *)

Increase == window' = IF FlowOver(Head(stack).flow) THEN Increased(window)
                                                    ELSE window

InFlightAfter == IF FlowOver(Head(stack).flow) THEN Greatest({0, inFlight - 1})
                                               ELSE inFlight

MaybeDecrease(q) == window' = Decreased(window, q)

\* _demote_running: only what runs accrues service, so only that sinks.
DemoteRunning == Demote(Residents(running))

StillRunning == Filtered(running, Forget(ToSet(running)))

-----------------------------------------------------------------------------
(* Scheduling.                                                             *)

\* _fill over the queue q, with `run` left of _running: nobody is evicted.
Fill(q, run) == \E m \in FilledFrom(Mirror(ToSet(run), q)) : AnswerPass(run, m)

\* _reconcile: evict who is outranked, then fill.
Reconcile == \E out \in Outranked(running) :
                 \E m \in FilledFrom(out) : AnswerPass(running, m)

-----------------------------------------------------------------------------
(* on_event.                                                               *)

AdmitArrival == GateArrival /\ UNCHANGED <<running, queue, window, levelVars>>

EnqueueReady ==
    /\ Pending("InvocationReady")
    /\ LET q == queue \cup {Head(stack).flow} IN
        MaybeDecrease(q) /\ Track(Head(stack).flow) /\ Fill(q, running)
    /\ UNCHANGED inFlight

NoteComplete ==
    /\ Pending("InvocationComplete")
    /\ ForgetLevel
    /\ Increase
    /\ inFlight' = InFlightAfter
    /\ Fill(queue, StillRunning)

OnTick ==
    /\ Pending("Tick")
    /\ DemoteRunning /\ MaybeDecrease(queue) /\ Reconcile
    /\ UNCHANGED inFlight

PolicyAnswer == AdmitArrival \/ EnqueueReady \/ NoteComplete \/ OnTick
=============================================================================
