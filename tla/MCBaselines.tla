----------------------------- MODULE MCBaselines -----------------------------
(***************************************************************************)
(* Small instances of the baseline policies.  KV sizes and HbmCap are in   *)
(* the same unit, outputs and quanta in tokens.                            *)
(***************************************************************************)
EXTENDS Baselines

Inv(k, tokens, tooled) == [kv |-> k, output |-> tokens, gap |-> tooled]

\* Five flows that two devices do not hold at once: one fills a device, two come
\* back from tool-time, the last goes on without any.
ScarceWork ==
    <<<<Inv(2, 1, TRUE), Inv(1, 1, FALSE)>>,
      <<Inv(3, 2, FALSE)>>,
      <<Inv(1, 1, TRUE), Inv(2, 1, FALSE)>>,
      <<Inv(2, 1, FALSE)>>,
      <<Inv(2, 1, FALSE), Inv(2, 1, FALSE)>>>>
ScarceClasses == <<2, 1, 0, 1, 0>>
ScarceSlo == <<0, 1, 0, 0, 0>>
ScarceRank == <<9, 2, 9, 9, 9>>
\* The fifth is kept from the policies that a step without tool-time may confuse.
LastForTheFaithful == policy \notin Faithful => arrivals <= 4

\* Four flows for two slots.  A short one widens the window for three more.
SlotWork ==
    <<<<Inv(1, 1, FALSE)>>, <<Inv(1, 2, FALSE)>>, <<Inv(1, 1, FALSE)>>,
      <<Inv(1, 1, FALSE)>>>>
SlotClasses == <<0, 1, 0, 0>>
SlotSlo == <<0, 0, 0, 1>>

\* A flow of high priority that does not fit beside another one of its class,
\* and two victims of lower priority whose memory is not enough for it.
CyclicWork ==
    <<<<Inv(2, 1, FALSE)>>, <<Inv(1, 1, FALSE)>>, <<Inv(1, 1, FALSE)>>,
      <<Inv(3, 1, FALSE)>>>>
CyclicClasses == <<0, 1, 1, 0>>

AllPolicies == KnownPolicies
NoSlo == [f \in Flows |-> 0]
ArrivalRank == [f \in Flows |-> f]
Quanta == <<1, 2, 9>>
=============================================================================
