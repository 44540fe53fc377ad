------------------------------- MODULE Metrics -------------------------------
(***************************************************************************)
(* The metrics collector of a run (sim/metrics/collectors.py): counters    *)
(* and time integrals, clipped to the window from the warm-up to the       *)
(* horizon.  An integral is brought up to date lazily, when what it        *)
(* integrates is about to change.  Every operator takes the collector m    *)
(* and the time of the call, and yields the collector after it; all flows  *)
(* have the same weight.                                                   *)
(***************************************************************************)
EXTENDS Integers, FiniteSets, Capacity

CONSTANTS Horizon, Warmup, Monitored    \* the times, and the devices

ASSUME WindowAssumption ==
    Horizon \in Nat /\ Warmup \in Nat /\ Warmup < Horizon /\ IsFiniteSet(Monitored)

NotBusy == -1      \* _device_busy_since is None

\* A new collector.
Fresh ==
    [offered |-> 0, completed |-> 0, sojourns |-> 0, abandonments |-> 0,
     generated |-> 0, useful |-> 0,
     inSystem |-> 0, lastChange |-> 0, systemArea |-> 0,
     pinned |-> 0, active |-> 0, pinChange |-> 0, pinnedArea |-> 0,
     activeArea |-> 0,
     busySince |-> [d \in Monitored |-> NotBusy],
     busy |-> [d \in Monitored |-> 0]]

\* _clip
Clip(t) == IF t < Warmup THEN Warmup ELSE IF t > Horizon THEN Horizon ELSE t

\* Time of the measured window that passed between two instants.
Measured(from, to) == Greatest({0, Clip(to) - Clip(from)})

\* A plausible bug: the interval that ends here is not integrated.
SystemNotIntegrated(m, now) == [m EXCEPT !.lastChange = now]
\* _accumulate_in_system
SystemIntegrated(m, now) ==
    [m EXCEPT !.systemArea = @ + m.inSystem * Measured(m.lastChange, now),
              !.lastChange = now]

\* _accumulate_pins
PinsIntegrated(m, now) ==
    [m EXCEPT !.pinnedArea = @ + m.pinned * Measured(m.pinChange, now),
              !.activeArea = @ + m.active * Measured(m.pinChange, now),
              !.pinChange = now]

OnArrival(m, now) == [m EXCEPT !.offered = @ + (IF now >= Warmup THEN 1 ELSE 0)]

OnAdmit(m, now) == [SystemIntegrated(m, now) EXCEPT !.inSystem = @ + 1]

OnTokensDecoded(m, now, tokens) ==
    [m EXCEPT !.generated = @ + (IF now >= Warmup THEN tokens ELSE 0)]

\* A plausible bug: the count changes before the interval that ends is added.
PinChangedFirst(m, now, delta) == PinsIntegrated([m EXCEPT !.pinned = @ + delta], now)
OnPinChange(m, now, delta) == [PinsIntegrated(m, now) EXCEPT !.pinned = @ + delta]

OnPinActiveChange(m, now, delta) ==
    [PinsIntegrated(m, now) EXCEPT !.active = @ + delta]

OnAbandonment(m, now) ==
    [SystemIntegrated(m, now) EXCEPT !.inSystem = @ - 1, !.abandonments = @ + 1]

\* A completion counts from the warm-up on, whenever the flow arrived.
OnFlowComplete(m, now, sojourn, tokens) ==
    LET gone == [SystemIntegrated(m, now) EXCEPT !.inSystem = @ - 1] IN
    IF now < Warmup THEN gone
    ELSE [gone EXCEPT !.completed = @ + 1, !.sojourns = @ + sojourn,
                      !.useful = @ + tokens]

OnDeviceBusyStart(m, now, d) ==
    [m EXCEPT !.busySince[d] = IF @ = NotBusy THEN now ELSE @]

OnDeviceBusyEnd(m, now, d) ==
    IF m.busySince[d] = NotBusy THEN m
    ELSE [m EXCEPT !.busy[d] = @ + Measured(m.busySince[d], now),
                   !.busySince[d] = NotBusy]

\* finalize: the integrals are brought up to date, the busy intervals closed.
Finalized(m, now) ==
    LET upToDate == PinsIntegrated(SystemIntegrated(m, now), now) IN
    [upToDate EXCEPT
        !.busy = [d \in Monitored |-> OnDeviceBusyEnd(m, now, d).busy[d]],
        !.busySince = [d \in Monitored |-> NotBusy]]
=============================================================================
