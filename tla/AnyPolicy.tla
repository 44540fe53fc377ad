------------------------------ MODULE AnyPolicy ------------------------------
(***************************************************************************)
(* The engine under an arbitrary policy: any event may be answered with    *)
(* any of the sequences of actions in Answers (interface.py: on_event maps *)
(* an event to a list of actions, and nothing else is asked of a policy).  *)
(* What holds here is what the engine enforces by itself.                  *)
(***************************************************************************)
EXTENDS EngineProperties

CONSTANTS
    Answers,     \* sequences of actions a policy may answer with
    Budgets,     \* budgets it may attach to an Admit
    MaxPending,  \* bound on the depth of the nested calls
    MaxPreempts  \* bound on the preemptions of one invocation

ActionTask == {t \in FlowTask : t.op \in ActionOps}

ASSUME AnswersAssumption ==
    /\ Answers \subseteq Seq(ActionTask)
    /\ Budgets \subseteq Nat \cup {Unmetered} /\ MaxPending \in Nat

\* A policy knows the flows that have arrived, admits each of them once before
\* it schedules it, and schedules no invocation that has stopped on a device
\* and waits for the device loop to complete or abandon it: the engine offers
\* nothing of that flow before.
Sensible(actions) ==
    \A i \in DOMAIN actions :
        /\ actions[i].flow <= arrivals
        /\ actions[i].op = "Preempt" =>
               preemptions[actions[i].flow] < MaxPreempts
        /\ actions[i].op = "Schedule" =>
               \A d \in Devices : Stop(actions[i].flow, d)
                                      \notin finished \cup exhausted
        /\ (actions[i].op = "Admit") = (actions[i].flow \notin admitted)
        /\ \A j \in DOMAIN actions : \A k \in DOMAIN stack :
            actions[i].op = "Admit" =>
                /\ i # j => actions[j].flow # actions[i].flow
                /\ stack[k].op = "Admit" => stack[k].flow # actions[i].flow

Answer ==
    /\ ~failed /\ stack # <<>> /\ Head(stack).op \in EventOps
    /\ \E actions \in Answers :
        /\ Sensible(actions) /\ Len(stack) - 1 + Len(actions) <= MaxPending
        /\ Respond(actions)

AdmitAny == \E b \in Budgets : AdmitAggregate(b) \/ AdmitReserved(b)

Next == EngineStep \/ Answer \/ AdmitAny

Spec == Init /\ [][Next]_engineVars
=============================================================================
