----------------------------- MODULE MeteredRun -----------------------------
(***************************************************************************)
(* A measured run of the reservation discipline: the engine calls the      *)
(* collector from inside its handlers, and a clock ends the run at its     *)
(* horizon (env.run(until=...)).  How many tokens fit between two ticks of *)
(* the clock is left open.                                                 *)
(***************************************************************************)
EXTENDS ReservationPolicy, Metrics

\* run_simulation hands the collector the number of devices of the cluster.
ASSUME MonitoredAssumption == Monitored = Devices

VARIABLES
    now,       \* env.now
    born,      \* arrival_time of each flow
    meter      \* the collector

runVars == <<now, born, meter>>

\* Calls of _settle_device, of _set_pin_occupied and about the busy time of d.
SettleCall(m, d) ==
    OnTokensDecoded(m, now, accrued[d] * Cardinality(Decoding(d)))
VacateCall(m, f) == IF f \in occupied THEN OnPinActiveChange(m, now, -1) ELSE m
OccupyCall(m, f) == IF Reserved(f) /\ f \notin occupied
                    THEN OnPinActiveChange(m, now, 1) ELSE m
EndBusyCall(m, d) == IF Cardinality(Resident(d)) = 1
                     THEN OnDeviceBusyEnd(m, now, d) ELSE m
UnpinCall(m, f) == IF Reserved(f) THEN OnPinChange(m, now, -1) ELSE m

TotalOutput(f) == Total(Steps(f), output[f])

-----------------------------------------------------------------------------
(* The handlers of the engine, with the calls they make.                   *)

MeteredArrival ==
    /\ Arrival
    /\ born' = [born EXCEPT ![arrivals + 1] = now]
    /\ meter' = OnArrival(meter, now)

MeteredAdmit ==
    /\ AdmitStep
    /\ meter' = LET m == OnAdmit(meter, now) IN
                IF Head(stack).dev = NoDevice THEN m ELSE OnPinChange(m, now, 1)
    /\ UNCHANGED born

MeteredSchedule ==
    /\ Schedule
    /\ LET f == Head(stack).flow
           d == Head(stack).dev IN
        meter' = OccupyCall(IF Resident(d) = {} THEN OnDeviceBusyStart(meter, now, d)
                                                ELSE meter, f)
    /\ UNCHANGED born

MeteredEntry(t) == /\ EnterDevice(t)
                   /\ meter' = SettleCall(meter, t.dev)
                   /\ UNCHANGED born

MeteredIntervalEnd(d) == /\ IntervalEnd(d)
                         /\ meter' = SettleCall(meter, d)
                         /\ UNCHANGED born

MeteredPreempt ==
    /\ Preempt
    /\ LET f == Head(stack).flow
           d == where[f]
           m == IF phase[f] = "DECODE" THEN SettleCall(meter, d) ELSE meter IN
        meter' = VacateCall(EndBusyCall(m, d), f)
    /\ UNCHANGED born

MeteredStep(f, d) ==
    /\ CompleteIntoGap(f, d) \/ CompleteIntoNext(f, d)
    /\ meter' = VacateCall(EndBusyCall(meter, d), f)
    /\ UNCHANGED born

\* The last invocation: the pin is given back, then the flow recorded.
MeteredCompletion(f, d) ==
    /\ CompleteFlow(f, d)
    /\ meter' = OnFlowComplete(
                    UnpinCall(VacateCall(EndBusyCall(meter, d), f), f),
                    now, now - born[f], TotalOutput(f))
    /\ UNCHANGED born

MeteredAbandonment(f, d) ==
    /\ AbandonFlow(f, d)
    /\ meter' = OnAbandonment(
                    UnpinCall(VacateCall(EndBusyCall(meter, d), f), f), now)
    /\ UNCHANGED born

\* Handlers the collector hears nothing of, or nothing but a counter.  A
\* run in which a guard of the engine raises yields no result: it is left out.
UnmeteredStep ==
    /\ \/ TickTimer \/ Reoffer \/ Degrade
       \/ \E f \in Flows : GapEnd(f)
       \/ \E t \in timers : EntryVoid(t)
       \/ \E d \in Devices : DecodeToken(d)
    /\ UNCHANGED <<born, meter>>

MeteredEngine ==
    \/ MeteredArrival \/ MeteredAdmit \/ MeteredSchedule \/ MeteredPreempt
    \/ UnmeteredStep
    \/ \E t \in timers : MeteredEntry(t)
    \/ \E d \in Devices : MeteredIntervalEnd(d)
    \/ \E f \in Flows, d \in Devices :
        MeteredStep(f, d) \/ MeteredCompletion(f, d) \/ MeteredAbandonment(f, d)

\* Time passes between two triggers; nothing fires at the horizon itself.
ClockStep == /\ Idle /\ now < Horizon
             /\ now' = now + 1
             /\ UNCHANGED <<vars, born, meter>>

RunInit == /\ Init /\ PolicyInit
           /\ now = 0 /\ born = [f \in Flows |-> 0] /\ meter = Fresh

RunNext ==
    \/ ClockStep
    \/ /\ now < Horizon
       /\ UNCHANGED now
       /\ \/ PolicyAnswer /\ UNCHANGED <<born, meter>>
          \/ MeteredEngine /\ UNCHANGED policyVars

RunSpec == RunInit /\ [][RunNext]_<<vars, runVars>>

-----------------------------------------------------------------------------
(* The measures recomputed from the whole history of the run.              *)
VARIABLE history   \* what was true during each unit of time that has passed

InSystem == {f \in admitted : ~IsComplete(f)}

\* What holds while the time from now to now + 1 passes.
Moment == [inSystem |-> Cardinality(InSystem),
           pinned |-> Cardinality({f \in Flows : \E d \in Devices : f \in pins[d]}),
           active |-> Cardinality({f \in Flows : Reserved(f) /\ where[f] # NoDevice}),
           busy |-> {d \in Devices : Resident(d) # {}}]

HistoryInit == RunInit /\ history = <<>>
HistoryNext ==
    /\ RunNext
    /\ history' = IF now' = now THEN history ELSE Append(history, Moment)
HistorySpec == HistoryInit /\ [][HistoryNext]_<<vars, runVars, history>>

\* The sum of size over the moments of the measured window so far.
InWindow == {t \in DOMAIN history : t > Warmup}
OverWindow(size(_)) == Total(InWindow, [t \in InWindow |-> size(history[t])])

AsOfNow == Finalized(meter, now)

\* The lazy integrals are exact at any moment, in whatever order flows are
\* admitted, completed and abandoned, pins change hands, and work is evicted and
\* comes back: those of the flows in the system, of the pins held and the pins in
\* use (from which the reserved-idle fraction is computed), and the busy time of
\* each device.
MetricsExact ==
    Idle => /\ AsOfNow.systemArea = OverWindow(LAMBDA h : h.inSystem)
            /\ AsOfNow.pinnedArea = OverWindow(LAMBDA h : h.pinned)
            /\ AsOfNow.activeArea = OverWindow(LAMBDA h : h.active)
            /\ \A d \in Devices :
                AsOfNow.busy[d] =
                    Cardinality({t \in InWindow : d \in history[t].busy})

\* Little's law holds of what is measured.  Once everyone is done and nobody was
\* abandoned, the time flows spent in the system is the sum of their sojourns
\* (collected by other calls), but for the part of a sojourn before the warm-up.
LittlesLaw ==
    Idle /\ InSystem = {} /\ meter.abandonments = 0 =>
        /\ AsOfNow.systemArea <= meter.sojourns
        /\ (\A f \in admitted : born[f] >= Warmup)
               => AsOfNow.systemArea = meter.sojourns

\* The wasted tokens are those of flows that do not complete, so that the rest
\* are useful: no more is useful than was generated.  Refuted by any warm-up: what a
\* flow generated before it counts as useful when the flow completes after it.
UsefulWasGenerated == meter.useful <= meter.generated
=============================================================================
