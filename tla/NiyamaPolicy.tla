----------------------------- MODULE NiyamaPolicy -----------------------------
(***************************************************************************)
(* The Niyama-style baseline (sim/scheduler/policies/niyama_style.py)      *)
(* composed with the engine: class priority, earliest deadline within it,  *)
(* eviction of strictly lower priority, and a cliff: at a tick a flow that *)
(* has burned a slice of its SLO is demoted by one priority level.         *)
(*                                                                         *)
(* Clock values are abstracted: which flows are overdue at a tick is       *)
(* chosen, consistently with the order in which the flows arrived.         *)
(***************************************************************************)
EXTENDS PolicyPass

CONSTANTS
    ClassPriority,   \* class_priority of each flow's class
    Slo,             \* class_slo_s of each flow's class, 0 if it has none
    DeadlineRank,    \* the flows' deadlines, by rank
    NumDemotions     \* num_demotions

HasSlo(f) == Slo[f] > 0

VARIABLES
    running,     \* _running
    live,        \* _active: flows still doing work
    demotions,   \* _demotions
    key          \* the priority a queued flow was pushed with

policyVars == <<running, queue, live, demotions, key>>

EffectivePriority(dem, f) == ClassPriority[f] + dem[f]

\* The tail of _order_key: earliest deadline first, then by flow.
EarlierDue(f, g) ==
    \/ DeadlineRank[f] < DeadlineRank[g]
    \/ DeadlineRank[f] = DeadlineRank[g] /\ f < g

\* _order_key under the priorities `prio`.
OrderedBefore(prio, f, g) ==
    prio[f] < prio[g] \/ (prio[f] = prio[g] /\ EarlierDue(f, g))

-----------------------------------------------------------------------------
(* One pass over the queue q, keyed by k, under the demotions dem.         *)

\* A plausible bug: equals may evict each other.
VictimsAmongEquals(dem, m, f) ==
    {r \in m.running :
        /\ EffectivePriority(dem, r.flow) >= EffectivePriority(dem, f)
        /\ r.flow # f}
Candidates(dem, m, f) ==
    {r \in m.running :
        EffectivePriority(dem, r.flow) > EffectivePriority(dem, f)}

\* _pick_victim: the most demoted, and of those the latest due.
PickVictim(dem, m, f) ==
    LET prio == [g \in Flows |-> EffectivePriority(dem, g)] IN
    CHOOSE r \in Candidates(dem, m, f) : \A v \in Candidates(dem, m, f) :
        \/ v = r \/ OrderedBefore(prio, v.flow, r.flow)
        \/ v.flow = r.flow /\ v.step < r.step

\* try_place, with one victim at most.
TryPlace(dem, m, f) ==
    LET d == FindDevice(m, f)
        freed == Evicted(m, PickVictim(dem, m, f))
        e == FindDevice(freed, f)
    IN IF d # NoDevice THEN Booked(m, f, d)
       ELSE IF Candidates(dem, m, f) = {} THEN Declined(m, f)
       ELSE IF e = NoDevice THEN Declined(freed, f)
       ELSE Booked(freed, f, e)

\* has_capacity
HasCapacity(dem, m, f) == AnySlot(m) \/ Candidates(dem, m, f) # {}

SchedulePass(q, k, dem, run) ==
    \E m \in Drained(Mirror(run, q),
                    Sorted(q, [f \in q |-> {g \in q : OrderedBefore(k, g, f)}]),
                    LAMBDA r, f : TryPlace(dem, r, f),
                    LAMBDA r, f : HasCapacity(dem, r, f)) :
        /\ queue' = m.waiting /\ running' = m.running
        /\ key' = [f \in Flows |-> IF f \in m.aside
                                   THEN EffectivePriority(dem, f) ELSE k[f]]
        /\ Respond(m.actions)

-----------------------------------------------------------------------------
(* The cliff.                                                              *)

\* A plausible bug: nobody is ever taken off the list of live flows.
OverNever(f) == FALSE
Over(f) == IsComplete(f) \/ f \in abandoned

\* Flows a tick may demote, and the sets of them that may be overdue: who
\* arrived earlier and has no more to burn is overdue first.
Demotable == {f \in live : ~Over(f) /\ HasSlo(f) /\ demotions[f] < NumDemotions}
Overdue ==
    {D \in SUBSET Demotable :
        \A f \in Demotable, g \in D :
            f < g /\ Slo[f] * (demotions[f] + 1) <= Slo[g] * (demotions[g] + 1)
                => f \in D}

\* A plausible bug: the queue keeps the keys of before the demotion.
NotRekeyed(dem) == key
\* PolicyQueue.reheapify: every queued flow gets its key of now.
Rekeyed(dem) == [f \in Flows |-> IF f \in queue THEN EffectivePriority(dem, f)
                                                ELSE key[f]]

-----------------------------------------------------------------------------
(* on_event.                                                               *)

AdmitArrival ==
    /\ Pending("FlowArrival")
    /\ live' = live \cup {Head(stack).flow}
    /\ Respond(<<TaskOf("Admit", Head(stack).flow, 0, NoDevice)>>)
    /\ UNCHANGED <<running, queue, demotions, key>>

EnqueueReady ==
    /\ Pending("InvocationReady")
    /\ LET f == Head(stack).flow IN
        SchedulePass(queue \cup {f},
                     [key EXCEPT ![f] = EffectivePriority(demotions, f)],
                     demotions, running)
    /\ UNCHANGED <<live, demotions>>

NoteComplete ==
    /\ Pending("InvocationComplete")
    /\ live' = {f \in live : f # Head(stack).flow \/ ~Over(f)}
    /\ SchedulePass(queue, key, demotions, Forget(running))
    /\ UNCHANGED demotions

\* Demote who is overdue, re-key the queue if anybody was, and pass over it.
OnTick ==
    /\ Pending("Tick")
    /\ live' = {f \in live : ~Over(f)}
    /\ \E D \in Overdue :
        /\ demotions' = [f \in Flows |-> IF f \in D THEN demotions[f] + 1
                                                    ELSE demotions[f]]
        /\ SchedulePass(queue, IF D = {} THEN key ELSE Rekeyed(demotions'),
                        demotions', running)

PolicyAnswer == AdmitArrival \/ EnqueueReady \/ NoteComplete \/ OnTick
=============================================================================
