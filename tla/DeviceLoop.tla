----------------------------- MODULE DeviceLoop -----------------------------
(***************************************************************************)
(* The serve loop of one device at the grain of the SimPy events it is     *)
(* made of (engine.py: _device_loop, _enter_device, _settle_device,        *)
(* _poke_device, _preempt).  Engine takes a decode interval as one step    *)
(* and a change of the decode set as another; here a change only POKES the *)
(* loop, which may be idle, waiting for the end of its interval, already   *)
(* woken, or the very process that makes the change, and the loop finds    *)
(* out when the event queue comes to it.                                   *)
(*                                                                         *)
(* Of SimPy: an interruption is processed before any other event of the    *)
(* same instant and takes the loop off the event it waited for; the other  *)
(* events of an instant come in an order left open here; a succeeded event *)
(* cannot succeed again.  Time and tokens are counted in whole units: the  *)
(* end of an interval is rounded up to the next unit of time, where the    *)
(* code has floats and a tolerance (_TOKEN_EPS).                           *)
(***************************************************************************)
EXTENDS Integers, FiniteSets, Capacity

CONSTANTS
    Invs,            \* the invocations the device may serve
    Tokens,          \* the output tokens of each
    Slots,           \* the decode batch cap
    Rate(_),         \* tokens per time unit of one invocation, by batch size
    Latencies,       \* entry latencies
    Grain, Horizon,  \* BOUND: the instants at which other processes act
    MaxPreempt       \* BOUND: preemptions in a behaviour

ASSUME LoopAssumption ==
    /\ IsFiniteSet(Invs)
    /\ Tokens \in Nat \ {0} /\ Slots \in Nat \ {0}
    /\ \A b \in 1..Slots : Rate(b) \in Nat \ {0}
    /\ Latencies \subseteq Nat
    /\ Grain \in Nat \ {0} /\ Horizon \in Nat /\ MaxPreempt \in Nat

VARIABLES
    now,
    phase,     \* per invocation: "away", "prefill", "decode", "complete"
    enters,    \* when the entry latency of an invocation is over
    left,      \* decode_remaining, as credited
    interval,  \* interval_start and interval_rate
    waits,     \* what the loop waits for: "idle", "timeout"
    due,       \* when the timeout it waits for is over
    woken,     \* whether its idle event has been triggered
    pokes,     \* interruptions of the loop not yet processed
    evicted,   \* preemptions so far
    error      \* a call SimPy refuses

loopState == <<interval, waits, due, woken, pokes>>
loopVars == <<now, phase, enters, left, loopState, evicted, error>>

Decoding == {i \in Invs : phase[i] = "decode"}
Resident == {i \in Invs : phase[i] \in {"prefill", "decode"}}

\* Elapsed service is credited to the decode set that received it.
Settled ==
    [i \in Invs |->
        IF phase[i] = "decode"
        THEN left[i] - (now - interval.start) * interval.rate
        ELSE left[i]]

-----------------------------------------------------------------------------
(* _poke_device, called by another process.                                *)

WakeIdle ==
    /\ woken' = TRUE
    /\ error' = (error \/ woken)
    /\ UNCHANGED pokes
Interrupt ==
    /\ pokes' = pokes + 1
    /\ UNCHANGED <<woken, error>>

\* Plausible bugs: a loop in an interval is not cut short; an idle one is not
\* woken.
PokeIdleOnly == IF waits = "idle" /\ ~woken THEN WakeIdle
                ELSE UNCHANGED <<woken, pokes, error>>
PokeRunningOnly == IF waits = "idle" THEN UNCHANGED <<woken, pokes, error>>
                   ELSE Interrupt
Poke == IF waits = "idle" /\ ~woken THEN WakeIdle ELSE Interrupt

-----------------------------------------------------------------------------
(* The loop.                                                               *)

Init ==
    /\ now = 0
    /\ phase = [i \in Invs |-> "away"]
    /\ enters = [i \in Invs |-> 0]
    /\ left = [i \in Invs |-> Tokens]
    /\ interval = [start |-> 0, rate |-> 0]
    /\ waits = "idle" /\ woken = FALSE
    /\ due = 0
    /\ pokes = 0
    /\ evicted = 0
    /\ error = FALSE

CeilDiv(a, b) == (a + b - 1) \div b

\* What is left before the first of a set stops; nothing rather than less.
ToFirstStop(set, credited) ==
    Greatest({0, Least({credited[i] : i \in set})})

\* The next iteration: wait idle, or open an interval over the decode set up
\* to the first of them that stops.
Reopen(set, credited) ==
    IF set = {}
    THEN /\ waits' = "idle" /\ woken' = FALSE
         /\ interval' = [start |-> now, rate |-> 0]
         /\ due' = due
    ELSE LET rate == Rate(Cardinality(set)) IN
         /\ waits' = "timeout" /\ woken' = FALSE
         /\ interval' = [start |-> now, rate |-> rate]
         /\ due' = now + CeilDiv(ToFirstStop(set, credited), rate)

\* The policy's answers to the completions of a turn: the loop itself places
\* and evicts, and pokes itself in vain.
Cascade(credited, done) ==
    \E placed \in SUBSET {i \in Invs : phase[i] = "away"},
       victims \in SUBSET (Decoding \ done) :
        /\ Cardinality((Resident \ (done \cup victims)) \cup placed) <= Slots
        /\ evicted' = evicted + Cardinality(victims)
        /\ evicted' <= MaxPreempt
        /\ done = {} => placed = {} /\ victims = {}
        /\ phase' = [i \in Invs |-> IF i \in done THEN "complete"
                                    ELSE IF i \in victims THEN "away"
                                    ELSE IF i \in placed THEN "prefill"
                                    ELSE phase[i]]
        /\ \E lat \in Latencies :
              enters' = [i \in Invs |-> IF i \in placed THEN now + lat
                                        ELSE enters[i]]
        /\ left' = credited
        /\ Reopen(Decoding \ (done \cup victims), credited)
    /\ UNCHANGED <<now, error>>

\* A turn from the end of an interval, whether it ended or was cut short.
TurnFromInterval ==
    Cascade(Settled, {i \in Decoding : Settled[i] <= 0})

TurnFromIdle ==
    /\ Reopen(Decoding, left)
    /\ UNCHANGED <<now, phase, enters, left, evicted, error>>

Turn == IF waits = "idle" THEN TurnFromIdle ELSE TurnFromInterval

\* An interruption: the loop leaves the event it waited for.
Interrupted ==
    /\ pokes > 0
    /\ pokes' = pokes - 1
    /\ Turn

Woken ==
    /\ pokes = 0 /\ waits = "idle" /\ woken
    /\ UNCHANGED pokes
    /\ Turn

IntervalOver ==
    /\ pokes = 0 /\ waits = "timeout" /\ due = now
    /\ UNCHANGED pokes
    /\ Turn

(***************************************************************************)
(* Other processes: an entry that ends, and a policy at an arrival or a    *)
(* tick, which may place and may evict.                                    *)
(***************************************************************************)
Entered(i) ==
    /\ pokes = 0
    /\ phase[i] = "prefill" /\ enters[i] = now
    /\ left' = Settled
    /\ phase' = [phase EXCEPT ![i] = "decode"]
    /\ interval' = [interval EXCEPT !.start = now]
    /\ Poke
    /\ UNCHANGED <<now, enters, waits, due, evicted>>

PolicyActs == pokes = 0 /\ now % Grain = 0 /\ now <= Horizon

Place(i) ==
    /\ PolicyActs
    /\ phase[i] = "away"
    /\ Cardinality(Resident) < Slots
    /\ phase' = [phase EXCEPT ![i] = "prefill"]
    /\ \E lat \in Latencies : enters' = [enters EXCEPT ![i] = now + lat]
    /\ UNCHANGED <<now, left, loopState, evicted, error>>

\* Whoever is evicted while decoding is credited first, with all that decode
\* beside it; an eviction on the way in credits nobody.
Evict(i) ==
    /\ PolicyActs
    /\ evicted < MaxPreempt
    /\ phase[i] \in {"decode", "prefill"}
    /\ left' = IF phase[i] = "decode" THEN Settled ELSE left
    /\ phase' = [phase EXCEPT ![i] = "away"]
    /\ interval' = [interval EXCEPT !.start = now]
    /\ evicted' = evicted + 1
    /\ Poke
    /\ UNCHANGED <<now, enters, waits, due>>

(***************************************************************************)
(* Time passes to the next event when none is left at this instant.        *)
(***************************************************************************)
Agenda ==
    (IF waits = "timeout" THEN {due} ELSE {})
    \cup {enters[i] : i \in {j \in Invs : phase[j] = "prefill"}}
    \cup {t \in 0..Horizon : t % Grain = 0 /\ t > now}

Advance ==
    /\ pokes = 0
    /\ ~(waits = "idle" /\ woken)
    /\ now \notin Agenda
    /\ Agenda # {}
    /\ now' = Least(Agenda)
    /\ UNCHANGED <<phase, enters, left, loopState, evicted, error>>

Next ==
    \/ Interrupted
    \/ Woken
    \/ IntervalOver
    \/ \E i \in Invs : Entered(i) \/ Place(i) \/ Evict(i)
    \/ Advance

Spec == Init /\ [][Next]_loopVars

-----------------------------------------------------------------------------
(* What the device loop promises: the tokens it credits are the tokens     *)
(* that were generated.  The history variable generated accounts service   *)
(* by the decode set and the clock alone.                                  *)

VARIABLES
    generated,  \* tokens each invocation has generated
    lossless    \* whether nobody was evicted on the way in so far

EvictedEntering == \E i \in Invs : phase[i] = "prefill" /\ phase'[i] = "away"

Served ==
    /\ generated' = [i \in Invs |->
            IF phase[i] = "decode"
            THEN generated[i] + (now' - now) * Rate(Cardinality(Decoding))
            ELSE generated[i]]
    /\ lossless' = (lossless /\ ~EvictedEntering)

HistoryInit == Init /\ generated = [i \in Invs |-> 0] /\ lossless = TRUE
HistoryNext == Next /\ Served
historyVars == <<loopVars, generated, lossless>>
HistorySpec == HistoryInit /\ [][HistoryNext]_historyVars

\* The event queue is processed in time order.  No policy is obliged to act.
FairSpec ==
    /\ HistorySpec
    /\ WF_historyVars(Interrupted /\ Served)
    /\ WF_historyVars(Woken /\ Served)
    /\ WF_historyVars(IntervalOver /\ Served)
    /\ \A i \in Invs : WF_historyVars(Entered(i) /\ Served)
    /\ WF_historyVars(Advance /\ Served)

\* What the loop would credit an invocation if it settled now.
Credited(i) == Tokens - Settled[i]

\* "Preemption never loses or invents a token": whoever joined, left, poked or
\* was poked in between, the credit with the service of the open interval is
\* exactly what was generated, and a completed invocation generated its output
\* and nothing after the unit of time of its last token.  Only the eviction of
\* an invocation on its way in forgets the service of an open interval; even
\* then nobody is credited what it did not receive.  Nor does _poke_device ever
\* make a call SimPy refuses.
ServiceExact ==
    /\ ~error
    /\ \A i \in Invs :
        /\ Credited(i) <= generated[i]
        /\ lossless => Credited(i) = generated[i]
        /\ lossless /\ phase[i] = "complete" =>
               /\ Tokens <= generated[i]
               /\ \E b \in 1..Slots : generated[i] < Tokens + Rate(b)

\* No wake-up is lost: time passes only over a loop that waits for the end of
\* an interval of the current decode set, or that has nothing to decode.
IntervalCurrent ==
    [][now' # now =>
          IF Decoding = {} THEN waits = "idle"
          ELSE /\ waits = "timeout"
               /\ interval.rate = Rate(Cardinality(Decoding))
               /\ due >= now']_historyVars

\* Every decoding invocation completes or is evicted.
EveryDecodeEnds ==
    \A i \in Invs : phase[i] = "decode" ~> phase[i] # "decode"
=============================================================================
