------------------------------ MODULE MCMetrics ------------------------------
(***************************************************************************)
(* Small instances of a measured run.                                      *)
(***************************************************************************)
EXTENDS MeteredRun

Inv(k, tokens, tooled) == [kv |-> k, output |-> tokens, gap |-> tooled]

\* A reserved flow with tool-time, and a best-effort flow that may run out of
\* budget.
MeasuredWork ==
    <<<<Inv(2, 1, TRUE), Inv(2, 1, FALSE)>>, <<Inv(2, 1, TRUE), Inv(1, 2, FALSE)>>>>
MeasuredBudget == <<9, 2>>
=============================================================================
