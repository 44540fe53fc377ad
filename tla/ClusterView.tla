----------------------------- MODULE ClusterView -----------------------------
(***************************************************************************)
(* What a policy sees of the cluster (DeviceView and ClusterStateView of   *)
(* sim/scheduler/interface.py), taken from the engine's accounting at the  *)
(* moment an event is delivered.                                           *)
(***************************************************************************)
EXTENDS Engine

TotalSlots == NumDevices * MaxSlots

\* A plausible bug: the slot of a resident reserved flow is counted twice.
FreeSlotsByResidents(d) ==
    MaxSlots - Cardinality(pins[d]) - Cardinality(Resident(d))
FreeSlots(d) == MaxSlots - SlotsUsed(d)
\* A plausible bug: best-effort residents occupy nothing.
FreeHbmByPins(d) == HbmCap - Total(pins[d] \ spilled, PinSize)
FreeHbm(d) == HbmCap - HbmUsed(d)
Pinnable(d) == HbmCap - HbmCommitted(d)
=============================================================================
