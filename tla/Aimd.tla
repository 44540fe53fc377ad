-------------------------------- MODULE Aimd --------------------------------
(***************************************************************************)
(* The concurrency window of the AIMD baselines (concur_style.py, and the  *)
(* same in mars_style.py): additive increase when a flow leaves,           *)
(* multiplicative decrease when the backlog is long.                       *)
(*                                                                         *)
(* The window is a float; here it is counted in hundredths of a flow, and  *)
(* a product is rounded down to one.                                       *)
(***************************************************************************)
EXTENDS PolicyPass

CONSTANTS
    InitialPct,        \* initial_window_fraction, in percent
    Increment,         \* additive_increase, in flows
    DecreasePct,       \* multiplicative_decrease, in percent
    CongestionPct,     \* congestion_queue_threshold, in percent
    CeilingPct         \* the largest window, in percent of the slots

VARIABLES
    window,            \* _window, in hundredths
    inFlight           \* _in_flight

OneFlow == 100

\* _ensure_window, on the first event.
InitialWindow == Greatest({OneFlow, InitialPct * TotalSlots})

\* _clamp_window
Clamped(w) == Least({Greatest({w, OneFlow}), CeilingPct * TotalSlots})

Increased(w) == Clamped(w + Increment * OneFlow)

\* _maybe_decrease, with the backlog q.
Decreased(w, q) ==
    IF OneFlow * Cardinality(q) > CongestionPct * TotalSlots
    THEN Clamped((w * DecreasePct) \div 100) ELSE w

AdmitsAnother == OneFlow * inFlight < window

\* The admission gate: outside the window the flow is refused, not queued.  The
\* engine does nothing about a refused flow but count it.
GateArrival ==
    /\ Pending("FlowArrival")
    /\ IF AdmitsAnother
       THEN /\ inFlight' = inFlight + 1
            /\ Respond(<<TaskOf("Admit", Head(stack).flow, 0, NoDevice)>>)
       ELSE inFlight' = inFlight /\ Respond(<<>>)

FlowOver(f) == IsComplete(f) \/ f \in abandoned

\* A plausible bug: every finished invocation counts as a flow that left.
LeavesByStep ==
    /\ inFlight' = Greatest({0, inFlight - 1}) /\ window' = Increased(window)
\* Only a flow that leaves the system makes room and widens the window.
Leaves == IF FlowOver(Head(stack).flow)
          THEN inFlight' = Greatest({0, inFlight - 1})
               /\ window' = Increased(window)
          ELSE inFlight' = inFlight /\ window' = window
=============================================================================
