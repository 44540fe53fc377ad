------------------------------ MODULE PolicyPass ------------------------------
(***************************************************************************)
(* One scheduling pass of the baseline policies: a drain of their queue    *)
(* (sim/scheduler/queueing.py) against mirrors of the devices' capacity,   *)
(* so that the placements of one answer account for each other before the  *)
(* engine executes them.                                                   *)
(***************************************************************************)
EXTENDS ClusterView, Folds

CONSTANT ScanBudget        \* DEFAULT_SCAN_BUDGET of the queue

ASSUME ScanAssumption == ScanBudget \in Nat

VARIABLE queue             \* _queue: flows whose next invocation waits

\* A sequence from its first element to its last, and its elements: as in
\* SequencesExt, which no module that is proved about can reach (RECURSIVE).
FoldLeft(op(_, _), base, s) ==
    MapThenFoldSet(LAMBDA x, y : op(y, x), base, LAMBDA i : s[i], Greatest, DOMAIN s)
ToSet(s) == {s[i] : i \in DOMAIN s}

\* _running holds the invocations a policy has placed, and where.
Placement(f, d) == [flow |-> f, step |-> Step(f), dev |-> d]
\* The completed invocation is popped from it.
Forget(run) ==
    {r \in run : ~(r.flow = Head(stack).flow /\ r.step = Head(stack).step)}

\* The elements of a finite set, best first: ahead[x] is what is better than x.
Sorted(S, ahead) ==
    [i \in 1..Cardinality(S) |->
        CHOOSE x \in S : Cardinality(S \cap ahead[x]) = i - 1]
\* The order of flows and their steps.
EarlierFlows == [f \in Flows |-> 1..(f - 1)]

\* What a pass has booked so far, from a snapshot, _running and the queue.
Mirror(run, q) ==
    [slots |-> [d \in Devices |-> FreeSlots(d)],
     hbm |-> [d \in Devices |-> FreeHbm(d)],
     running |-> run, waiting |-> q, aside |-> {}, actions |-> <<>>,
     stopped |-> FALSE]

\* The first device with a free slot and space for the KV of f.
FindDevice(m, f) ==
    LET fits == {d \in Devices : m.slots[d] > 0 /\ m.hbm[d] >= NextKv(f)}
    IN IF fits = {} THEN NoDevice ELSE Least(fits)

\* A plausible bug: the memory of a placement is not booked.
BookedSlotOnly(m, f, d) ==
    [m EXCEPT !.slots[d] = @ - 1,
              !.running = @ \cup {Placement(f, d)}, !.waiting = @ \ {f},
              !.actions = Append(@, TaskOf("Schedule", f, Step(f), d))]
\* A placement is booked in the mirror.
Booked(m, f, d) ==
    [m EXCEPT !.slots[d] = @ - 1, !.hbm[d] = @ - NextKv(f),
              !.running = @ \cup {Placement(f, d)}, !.waiting = @ \ {f},
              !.actions = Append(@, TaskOf("Schedule", f, Step(f), d))]

\* An eviction gives back the slot and the memory of the victim.
Evicted(m, r) ==
    [m EXCEPT !.slots[r.dev] = @ + 1, !.hbm[r.dev] = @ + Kv(r.flow, r.step),
              !.running = @ \ {r},
              !.actions = Append(@, TaskOf("Preempt", r.flow, r.step, NoDevice))]

\* A plausible bug: what was examined and declined is not put back.
DroppedIfDeclined(m, f) == [m EXCEPT !.waiting = @ \ {f}]
\* What a pass declines is set aside and goes back to the queue.
Declined(m, f) == [m EXCEPT !.aside = @ \cup {f}]

\* The members of s that are in S, in their order.
Filtered(s, S) ==
    FoldLeft(LAMBDA t, x : IF x \in S THEN Append(t, x) ELSE t, <<>>, s)

\* A pass over the waiting flows in `order`: examine them one by one while there
\* is capacity.  The set of what may come of it, which is one mirror.
PassOver(m, order, TryPlace(_, _), HasCapacity(_, _)) ==
    FoldLeft(LAMBDA mirrors, f : {IF r.stopped \/ ~HasCapacity(r, f)
                                  THEN [r EXCEPT !.stopped = TRUE]
                                  ELSE TryPlace(r, f) : r \in mirrors},
             {m}, order)

\* As many of the best as the scan budget allows.
Examined(order) ==
    SubSeq(order, 1, IF Len(order) < ScanBudget THEN Len(order) ELSE ScanBudget)

\* PolicyQueue.drain: a pass that examines only so many, best first.
Drained(m, order, TryPlace(_, _), HasCapacity(_, _)) ==
    PassOver(m, Examined(order), TryPlace, HasCapacity)

AnySlot(m) == \E d \in Devices : m.slots[d] > 0
=============================================================================
