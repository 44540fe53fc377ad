----------------------------- MODULE MlfqPolicy -----------------------------
(***************************************************************************)
(* The FastServe-style baseline (sim/scheduler/policies/fastserve_mlfq.py) *)
(* composed with the engine: admit everything, and let a multi-level       *)
(* feedback queue decide who decodes.                                      *)
(***************************************************************************)
EXTENDS Levels

policyVars == <<running, queue, levelVars>>

\* _fill over the queue q, with `run` left of _running: nobody is evicted.
Fill(q, run) == \E m \in FilledFrom(Mirror(ToSet(run), q)) : AnswerPass(run, m)

\* _reconcile: evict who is outranked, then fill.
Reconcile(run) == \E out \in Outranked(run) :
                      \E m \in FilledFrom(out) : AnswerPass(run, m)

-----------------------------------------------------------------------------
(* on_event.                                                               *)

AdmitArrival ==
    /\ Pending("FlowArrival")
    /\ Respond(<<TaskOf("Admit", Head(stack).flow, 0, NoDevice)>>)
    /\ UNCHANGED policyVars

EnqueueReady ==
    /\ Pending("InvocationReady")
    /\ Track(Head(stack).flow)
    /\ Fill(queue \cup {Head(stack).flow}, running)

StillRunning == Filtered(running, Forget(ToSet(running)))

NoteComplete ==
    /\ Pending("InvocationComplete")
    /\ ForgetLevel
    /\ Fill(queue, StillRunning)

\* A tick demotes among all the managed, then reconciles.
OnTick ==
    /\ Pending("Tick")
    /\ Demote(queue \cup Residents(running))
    /\ Reconcile(running)

PolicyAnswer == AdmitArrival \/ EnqueueReady \/ NoteComplete \/ OnTick
=============================================================================
