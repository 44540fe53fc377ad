----------------------------- MODULE MCAnyPolicy -----------------------------
(***************************************************************************)
(* A small instance of the engine under an arbitrary policy: an answer is  *)
(* at most one action, or an eviction followed by a placement.             *)
(***************************************************************************)
EXTENDS AnyPolicy

Inv(k, tokens, tooled) == [kv |-> k, output |-> tokens, gap |-> tooled]
SmallWork == <<<<Inv(1, 1, TRUE), Inv(3, 1, FALSE), Inv(1, 2, FALSE)>>,
               <<Inv(2, 1, FALSE)>>, <<Inv(1, 1, FALSE)>>>>

Admits == {TaskOf("Admit", f, 0, d) : f \in Flows, d \in 0..NumDevices}
Schedules == {TaskOf("Schedule", f, 0, d) : f \in Flows, d \in Devices}
Preempts == {TaskOf("Preempt", f, 1, NoDevice) : f \in Flows}
Degrades == {TaskOf("Degrade", 2, 0, NoDevice)}

SmallAnswers ==
    {<<>>} \cup {<<a>> : a \in Admits \cup Schedules \cup Preempts \cup Degrades}
           \cup {<<p, s>> : p \in Preempts, s \in Schedules}
SmallBudgets == {2}
=============================================================================
