---------------------------- MODULE MCReservation ----------------------------
(***************************************************************************)
(* Small instances of the reservation discipline.  KV sizes and HbmCap are *)
(* in the same unit; outputs and budgets are in tokens.                    *)
(***************************************************************************)
EXTENDS ReservationProperties

Inv(k, tokens, tooled) == [kv |-> k, output |-> tokens, gap |-> tooled]

\* One agentic flow with tool-time, and best-effort flows that compete for
\* the memory its spilled pin leaves behind: one big, one with two steps.
ContendedWork ==
    <<<<Inv(2, 1, TRUE), Inv(3, 1, FALSE)>>,
      <<Inv(3, 2, FALSE)>>,
      <<Inv(2, 1, FALSE), Inv(2, 1, TRUE)>>>>
ContendedBudget == <<3, 3, 3>>

\* Three agentic flows for two reservations, one of them too big to be pinned,
\* and two best-effort flows, on two devices: what a drain may not look at any
\* more can find room.  The budgets run out at the end of an invocation that
\* has a successor, in the middle of one, and exactly with the last one.
PinnedWork ==
    <<<<Inv(2, 1, TRUE), Inv(1, 1, FALSE)>>,
      <<Inv(3, 2, FALSE)>>,
      <<Inv(1, 1, FALSE), Inv(2, 1, FALSE)>>,
      <<Inv(2, 1, TRUE), Inv(2, 1, FALSE)>>,
      <<Inv(1, 1, FALSE)>>>>
PinnedBudget == <<2, 1, 2, 1, 1>>
=============================================================================
