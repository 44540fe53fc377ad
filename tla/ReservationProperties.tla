----------------------- MODULE ReservationProperties -----------------------
(***************************************************************************)
(* What the reservation discipline promises, stated of its composition     *)
(* with the engine.                                                        *)
(***************************************************************************)
EXTENDS ReservationPolicy, EngineProperties

\* Every variable, the policy's included, holds a value of its type.
TypeOK ==
    /\ EngineTypeOK
    /\ ledger \subseteq Flows /\ active \subseteq Flows /\ queue \subseteq Flows
    /\ running \subseteq [flow : Flows, step : Nat, dev : Devices]

\* The policy's ledger and the engine's pins are the same set of flows: those
\* with a reservation that are not over.  It never exceeds K.
LedgerBacked ==
    /\ Cardinality(ledger) <= SubsetBound
    /\ Idle => /\ ledger = UNION {pins[d] : d \in Devices}
               /\ ledger = {f \in Flows : Reserved(f) /\ ~IsComplete(f)}
               /\ \A f \in ledger : f \in pins[pinDev[f]]

\* What the policy believes is running is what the engine has resident.
RunningExact == BooksMatch(running)

\* Four books agree: what the policy believes is running, between two triggers;
\* what the engine has resident; the device's memory for best-effort work, which
\* every placement, preemption, completion and abandonment changes by the KV of
\* the resident; and the set of occupied pins the idle metric is charged from.
BooksAgree == RunningExact /\ AccountingExact /\ OccupiedExact

\* No work is lost between the queue, the gaps, the timers and the devices.
NoWorkLost == InOnePlace(queue)

\* A reserved flow never waits for capacity: between two triggers it is on its
\* device with its KV restored, or in tool-time, and only there may it be
\* spilled.
ReservedNeverWaits ==
    Idle => \A f \in Flows : Reserved(f) /\ ~IsComplete(f) =>
                \/ where[f] = pinDev[f] /\ f \notin spilled
                \/ f \in gaps

\* No capacity idles that queued work could use: between two triggers nothing
\* in the queue fits on any device, if the last drain got to look at it.  What
\* is ahead of it in the queue was looked at before it, and so, at worst, was
\* all that runs: placed entries use up the scan budget too.
WorkConserving ==
    Idle => \A f \in queue : \A d \in Devices :
                Cardinality(Ahead(queue, f)) + Cardinality(running) < ScanBudget
                    => ~CanPlace(f, d)

\* The budget is metered at decode across all invocations of a flow: what is
\* left of it is the class budget minus the tokens generated, and a flow is
\* abandoned exactly when it has none left and still has tokens to generate.
Spent(f) == Total(1..cursor[f], output[f])
                + IF IsComplete(f) THEN 0 ELSE output[f][Step(f)] - left[f]
BudgetMetered ==
    \A f \in admitted :
        /\ f \notin abandoned /\ budget[f] # Unmetered =>
               budget[f] = ClassBudget[f] - Spent(f)
        /\ f \in abandoned => budget[f] = 0 /\ left[f] > 0

\* The discipline implements its contract: what a client is entitled to is its
\* live pin, and it is being worked on while its invocation is resident.
Contract == INSTANCE ReservationContract WITH
    Clients <- Flows, Hosts <- Devices, Nowhere <- NoDevice,
    Jobs <- [f \in Flows |-> Len(Work[f])],
    Size <- PinSize,
    Capacities <- [d \in Devices |-> HbmCap],
    Bound <- SubsetBound,
    joined <- admitted,
    entitled <- [f \in Flows |->
                    IF pinDev[f] # NoDevice /\ f \in pins[pinDev[f]]
                    THEN pinDev[f] ELSE NoDevice],
    worksAt <- where,
    done <- cursor

\* Reservations are bounded, covered, kept to the end, begun and never taken
\* back; only best-effort work is ever interrupted.
ImplementsContract == Contract!Spec
=============================================================================
