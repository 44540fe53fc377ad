----------------------------- MODULE LoopProofs -----------------------------
(***************************************************************************)
(* The promises of the device loop, proved for every set of invocations,   *)
(* table of rates, set of entry latencies and number of slots: what is     *)
(* credited is what was generated, and no change of the decode set goes    *)
(* unnoticed.                                                              *)
(***************************************************************************)
EXTENDS DeviceLoop, FiniteSetTheorems, WellFoundedInduction, TLAPS

-----------------------------------------------------------------------------
(* The inductive invariant.                                                *)

LoopTypeOK ==
    /\ now \in Nat
    /\ phase \in [Invs -> {"away", "prefill", "decode", "complete"}]
    /\ enters \in [Invs -> Nat]
    /\ left \in [Invs -> Int]
    /\ interval \in [start : Nat, rate : Nat]
    /\ waits \in {"idle", "timeout"} /\ due \in Nat
    /\ woken \in BOOLEAN /\ pokes \in Nat
    /\ evicted \in Nat /\ error \in BOOLEAN
    /\ generated \in [Invs -> Nat] /\ lossless \in BOOLEAN

\* Nothing that is to come lies in the past.
InTime ==
    /\ interval.start <= now
    /\ waits = "timeout" => now <= due
    /\ \A i \in Invs : phase[i] = "prefill" => now <= enters[i]

\* The loop has not been told of anything it has not yet looked at.
Undisturbed == pokes = 0 /\ ~(waits = "idle" /\ woken)

\* An undisturbed loop serves the decode set there is, at its rate; one that
\* waits idle serves nobody.
Attentive ==
    /\ waits = "idle" => interval.rate = 0
    /\ Undisturbed =>
          IF Decoding = {} THEN waits = "idle"
          ELSE waits = "timeout" /\ interval.rate = Rate(Cardinality(Decoding))

\* x falls short of nothing by less than is served in a unit of time.
AlmostLeft(x) == \E b \in 1..Slots : 0 < x + Rate(b)

\* Nobody has been served past its end by more than a unit of time, nor will
\* be when the interval of an undisturbed loop is over.
StopsInTime ==
    /\ \A i \in Invs : AlmostLeft(Settled[i])
    /\ \A i \in Invs : phase[i] = "complete" => left[i] <= 0
    /\ Undisturbed /\ waits = "timeout" =>
          \A i \in Decoding :
              AlmostLeft(left[i] - (due - interval.start) * interval.rate)

SlotsKept == Cardinality(Resident) <= Slots

\* The books against the history.
Accounts ==
    /\ ~error
    /\ \A i \in Invs : /\ Credited(i) <= generated[i]
                       /\ lossless => Credited(i) = generated[i]

LoopInv ==
    /\ LoopTypeOK /\ InTime /\ Attentive /\ StopsInTime /\ SlotsKept /\ Accounts

-----------------------------------------------------------------------------
(* Arithmetic of the loop.                                                 *)

\* A rounded-up quotient is enough, and by less than one divisor.
LEMMA CeilDivBounds ==
    ASSUME NEW a \in Nat, NEW b \in Nat \ {0}
    PROVE  /\ CeilDiv(a, b) \in Nat
           /\ a <= CeilDiv(a, b) * b /\ CeilDiv(a, b) * b < a + b
BY DEF CeilDiv

\* What is almost left of less is almost left of more.
LEMMA AlmostLeftMore ==
    ASSUME NEW x \in Int, NEW y \in Int, x <= y, AlmostLeft(x)
    PROVE  AlmostLeft(y)
<1>1. PICK b \in 1..Slots : 0 < x + Rate(b)
  BY DEF AlmostLeft
<1>2. Rate(b) \in Nat
  BY LoopAssumption
<1>3. 0 < y + Rate(b)
  BY <1>1, <1>2
<1> QED
  BY <1>3 DEF AlmostLeft

\* Nobody has less left than nothing.
LEMMA AlmostLeftNothing ==
    ASSUME NEW x \in Nat PROVE AlmostLeft(x)
<1>1. 1 \in 1..Slots /\ Rate(1) \in Nat \ {0}
  BY LoopAssumption
<1>2. 0 < x + Rate(1)
  BY <1>1
<1> QED
  BY <1>1, <1>2 DEF AlmostLeft

\* The values of a function on a finite non-empty set have a least one.
LEMMA LeastValue ==
    ASSUME NEW S, IsFiniteSet(S), S # {}, NEW f, \A i \in S : f[i] \in Int
    PROVE  /\ Least({f[i] : i \in S}) \in {f[i] : i \in S}
           /\ \A j \in S : Least({f[i] : i \in S}) <= f[j]
\* An element below which there is a smallest set of others.
<1> DEFINE Below(i) == {j \in S : f[j] < f[i]}
<1>1. {Below(i) : i \in S} \subseteq FiniteSubsetsOf(S)
  <2>1. ASSUME NEW i \in S PROVE Below(i) \in FiniteSubsetsOf(S)
    <3>1. Below(i) \in SUBSET S
      OBVIOUS
    <3>2. IsFiniteSet(Below(i))
      BY <3>1, FS_Subset
    <3> QED
      BY <3>1, <3>2 DEF FiniteSubsetsOf
  <2> QED
    BY <2>1
<1>2. IsWellFoundedOn(StrictSubsetOrdering(S), FiniteSubsetsOf(S))
  BY FS_StrictSubsetOrderingWellFounded
<1> DEFINE T == {Below(i) : i \in S}
<1>3. T # {}
  OBVIOUS
<1> HIDE DEF T
<1>4. PICK X \in T : \A Y \in T : ~(<<Y, X>> \in StrictSubsetOrdering(S))
  <2>1. T \subseteq FiniteSubsetsOf(S)
    BY <1>1 DEF T
  <2> QED
    BY <2>1, <1>2, <1>3, WFMin
<1>5. PICK m \in S : X = Below(m)
  BY DEF T
<1>6. ASSUME NEW i \in S PROVE f[m] <= f[i]
  <2> SUFFICES ASSUME f[i] < f[m] PROVE FALSE
    OBVIOUS
  <2>1. Below(i) \in T
    BY DEF T
  <2>2. i \in Below(m) /\ i \notin Below(i)
    OBVIOUS
  <2>3. Below(i) \subseteq Below(m)
    OBVIOUS
  <2>4. Below(i) \in SUBSET S /\ Below(m) \in SUBSET S
    OBVIOUS
  <2> HIDE DEF Below
  <2>5. <<Below(i), Below(m)>> \in StrictSubsetOrdering(S)
    BY <2>2, <2>3, <2>4 DEF StrictSubsetOrdering
  <2> QED
    BY <1>4, <1>5, <2>1, <2>5
<1>7. f[m] \in {f[i] : i \in S} /\ \A y \in {f[i] : i \in S} : f[m] <= y
  BY <1>6
<1>8. /\ Least({f[i] : i \in S}) \in {f[i] : i \in S}
      /\ \A y \in {f[i] : i \in S} : Least({f[i] : i \in S}) <= y
  BY <1>7 DEF Least
<1> QED
  BY <1>8

\* The interval is sized by somebody's remaining tokens, or ends at once.
LEMMA ToFirstStopBounds ==
    ASSUME NEW S, IsFiniteSet(S), S # {}, NEW f, \A i \in S : f[i] \in Int
    PROVE  /\ ToFirstStop(S, f) \in Nat
           /\ \A i \in S : ToFirstStop(S, f) = 0 \/ ToFirstStop(S, f) <= f[i]
<1> DEFINE m == Least({f[i] : i \in S})
<1>1. m \in Int /\ \A i \in S : m <= f[i]
  BY LeastValue
<1> HIDE DEF m
<1>2. Greatest({0, m}) \in {0, m} /\ \A x \in {0, m} : x <= Greatest({0, m})
  <2>1. \E x \in {0, m} : \A y \in {0, m} : y <= x
    BY <1>1
  <2> QED
    BY <2>1 DEF Greatest
<1> DEFINE g == Greatest({0, m})
<1>3. g \in Nat /\ (g = 0 \/ g = m)
  BY <1>1, <1>2
<1>4. ToFirstStop(S, f) = g
  BY DEF ToFirstStop, m
<1> HIDE DEF g
<1> QED
  BY <1>1, <1>3, <1>4

-----------------------------------------------------------------------------
(* The decode set.                                                         *)

\* A part of no more invocations than there are slots.
LEMMA PartSize ==
    ASSUME NEW R, R \subseteq Invs, Cardinality(R) <= Slots,
           NEW D, D \subseteq R, D # {}
    PROVE  Cardinality(D) \in 1..Slots
<1>1. IsFiniteSet(Invs) /\ Slots \in Nat
  BY LoopAssumption
<1>2. IsFiniteSet(R)
  BY <1>1, FS_Subset
<1>3. IsFiniteSet(D) /\ Cardinality(D) <= Cardinality(R)
  BY <1>2, FS_Subset
<1>4. Cardinality(D) \in Nat /\ Cardinality(R) \in Nat
  BY <1>2, <1>3, FS_CardinalityType
<1>5. Cardinality(D) # 0
  BY <1>3, FS_EmptySet
<1> QED
  BY <1>1, <1>3, <1>4, <1>5

\* A device decodes no more than it has slots for, at a positive rate.
LEMMA DecodingSize ==
    ASSUME SlotsKept, Decoding # {}
    PROVE  Rate(Cardinality(Decoding)) \in Nat \ {0}
<1>1. Resident \subseteq Invs /\ Decoding \subseteq Resident
  BY DEF Resident, Decoding
<1>2. Cardinality(Decoding) \in 1..Slots
  BY <1>1, PartSize DEF SlotsKept
<1> QED
  BY <1>2, LoopAssumption

\* What has been settled and credited is a number.
LEMMA SettledType ==
    ASSUME LoopTypeOK
    PROVE  /\ Settled \in [Invs -> Int]
           /\ \A i \in Invs : Credited(i) \in Int
<1>1. now \in Nat /\ interval.start \in Nat /\ interval.rate \in Nat /\ left \in [Invs -> Int]
  BY DEF LoopTypeOK
<1>2. (now - interval.start) * interval.rate \in Int
  BY <1>1
<1>3. Settled \in [Invs -> Int]
  BY <1>1, <1>2 DEF Settled
<1>4. Tokens \in Int
  BY LoopAssumption
<1> QED
  BY <1>3, <1>4 DEF Credited

\* No service is open right after a settlement.
LEMMA JustSettled ==
    ASSUME LoopTypeOK, interval.start = now PROVE Settled = left
<1>1. now \in Nat /\ interval.rate \in Nat /\ left \in [Invs -> Int]
  BY DEF LoopTypeOK
<1>2. (now - now) * interval.rate = 0
  BY <1>1
<1>3. ASSUME NEW i \in Invs PROVE Settled[i] = left[i]
  <2>1. left[i] \in Int
    BY <1>1
  <2>2. left[i] - (now - interval.start) * interval.rate = left[i]
    BY <1>2, <2>1
  <2> QED
    BY <2>2 DEF Settled
<1>4. Settled = [i \in Invs |-> Settled[i]]
  BY DEF Settled
<1> QED
  BY <1>1, <1>3, <1>4

\* Nobody is served while the loop waits idle.
LEMMA IdleSettled ==
    ASSUME LoopTypeOK, interval.rate = 0 PROVE Settled = left
<1>1. now \in Nat /\ interval.start \in Nat /\ left \in [Invs -> Int]
  BY DEF LoopTypeOK
<1>2. (now - interval.start) * 0 = 0
  BY <1>1
<1>3. ASSUME NEW i \in Invs PROVE Settled[i] = left[i]
  <2>1. left[i] \in Int
    BY <1>1
  <2>2. left[i] - (now - interval.start) * interval.rate = left[i]
    BY <1>2, <2>1
  <2> QED
    BY <2>2 DEF Settled
<1>4. Settled = [i \in Invs |-> Settled[i]]
  BY DEF Settled
<1> QED
  BY <1>1, <1>3, <1>4

\* The history stands still while time does.
LEMMA ServedAtOnce ==
    ASSUME LoopTypeOK, SlotsKept, now' = now, Served
    PROVE  generated' = generated
<1>1. now \in Nat /\ generated \in [Invs -> Nat]
  BY DEF LoopTypeOK
<1>2. ASSUME NEW i \in Invs PROVE generated'[i] = generated[i]
  <2>1. CASE phase[i] = "decode"
    <3>1. i \in Decoding
      BY <2>1 DEF Decoding
    <3>2. Rate(Cardinality(Decoding)) \in Nat
      BY <3>1, DecodingSize
    <3>3. (now' - now) * Rate(Cardinality(Decoding)) = 0
      BY <1>1, <3>2
    <3>4. generated[i] + (now' - now) * Rate(Cardinality(Decoding)) = generated[i]
      BY <1>1, <3>3
    <3> QED
      BY <2>1, <3>4 DEF Served
  <2>2. CASE phase[i] # "decode"
    BY <2>2 DEF Served
  <2> QED
    BY <2>1, <2>2
<1>3. generated' = [i \in Invs |-> generated'[i]]
  BY DEF Served
<1> QED
  BY <1>1, <1>2, <1>3

-----------------------------------------------------------------------------
(* The steps.                                                              *)

\* A run starts in the invariant.
LEMMA InitLoopInv == HistoryInit => LoopInv
<1> SUFFICES ASSUME HistoryInit PROVE LoopInv
  OBVIOUS
<1>0. Tokens \in Nat
  BY LoopAssumption
<1>1. LoopTypeOK /\ interval.start = now /\ interval.rate = 0
  <2>1. interval.start = 0 /\ interval.rate = 0 /\ now = 0
    BY DEF HistoryInit, Init
  <2>2. left \in [Invs -> Int] /\ generated \in [Invs -> Nat]
    BY <1>0 DEF HistoryInit, Init
  <2>3. interval \in [start : Nat, rate : Nat]
    BY DEF HistoryInit, Init
  <2>4. /\ phase \in [Invs -> {"away", "prefill", "decode", "complete"}]
        /\ enters \in [Invs -> Nat]
    BY DEF HistoryInit, Init
  <2> QED
    BY <2>1, <2>2, <2>3, <2>4 DEF HistoryInit, Init, LoopTypeOK
<1>2. InTime
  BY DEF HistoryInit, Init, InTime
<1>3. Decoding = {} /\ Resident = {}
  BY DEF HistoryInit, Init, Decoding, Resident
<1>4. Attentive
  BY <1>1, <1>3 DEF HistoryInit, Init, Attentive
<1>5. \A i \in Invs : Settled[i] = Tokens
  BY <1>1, JustSettled DEF HistoryInit, Init
<1>6. StopsInTime
  BY <1>0, <1>3, <1>5, AlmostLeftNothing DEF StopsInTime, HistoryInit, Init
<1>7. SlotsKept
  BY <1>3, FS_EmptySet, LoopAssumption DEF SlotsKept
<1>8. Accounts
  BY <1>0, <1>5 DEF Accounts, Credited, HistoryInit, Init
<1> QED
  BY <1>1, <1>2, <1>4, <1>6, <1>7, <1>8 DEF LoopInv

\* What the next iteration of the loop leaves it with.
LEMMA ReopenFacts ==
    ASSUME LoopTypeOK, NEW S, IsFiniteSet(S), NEW credited,
           \A i \in S : credited[i] \in Int /\ AlmostLeft(credited[i]),
           S # {} => Cardinality(S) \in 1..Slots,
           Reopen(S, credited)
    PROVE  /\ woken' = FALSE /\ due' \in Nat
           /\ interval' \in [start : Nat, rate : Nat] /\ interval'.start = now
           /\ S = {} => waits' = "idle" /\ interval'.rate = 0 /\ due' = due
           /\ S # {} => /\ waits' = "timeout"
                        /\ interval'.rate = Rate(Cardinality(S))
                        /\ now <= due'
                        /\ \A i \in S : AlmostLeft(credited[i] - (due' - now)
                                                    * interval'.rate)
<1>0. now \in Nat /\ due \in Nat
  BY DEF LoopTypeOK
<1>1. CASE S = {}
  BY <1>0, <1>1 DEF Reopen
<1>2. CASE S # {}
  <2> DEFINE b == Cardinality(S)
             rate == Rate(b)
             tokens == ToFirstStop(S, credited)
             span == CeilDiv(tokens, rate)
  <2>1. b \in 1..Slots /\ rate \in Nat \ {0}
    BY <1>2, LoopAssumption
  <2>2. /\ tokens \in Nat
        /\ \A i \in S : tokens = 0 \/ tokens <= credited[i]
    BY <1>2, ToFirstStopBounds
  <2>3. /\ waits' = "timeout" /\ woken' = FALSE
        /\ interval' = [start |-> now, rate |-> rate]
        /\ due' = now + span
    BY <1>2 DEF Reopen
  <2> HIDE DEF rate, tokens
  <2>4. span \in Nat /\ span * rate < tokens + rate
    BY <2>1, <2>2, CeilDivBounds
  <2>5. tokens = 0 => span = 0
    <3> SUFFICES ASSUME tokens = 0, span # 0 PROVE FALSE
      OBVIOUS
    <3>1. span * rate < rate
      BY <2>1, <2>4
    <3> HIDE DEF span
    <3> QED
      BY <2>1, <2>4, <3>1
  <2> HIDE DEF span
  <2>6. due' - now = span /\ now <= due' /\ due' \in Nat
    BY <1>0, <2>3, <2>4
  <2>7. ASSUME NEW i \in S PROVE AlmostLeft(credited[i] - span * rate)
    <3>1. CASE tokens = 0
      <4>1. span * rate = 0 /\ credited[i] \in Int
        BY <2>1, <2>5, <3>1
      <4>2. credited[i] - span * rate = credited[i]
        BY <4>1
      <4> QED
        BY <4>2
    <3>2. CASE tokens <= credited[i]
      <4>1. span * rate \in Nat /\ credited[i] \in Int
        BY <2>1, <2>4
      <4>2. 0 < credited[i] - span * rate + rate
        BY <2>1, <2>2, <2>4, <3>2, <4>1
      <4> QED
        BY <2>1, <4>2 DEF AlmostLeft, rate
    <3> QED
      BY <2>2, <3>1, <3>2
  <2>8. interval'.rate = rate /\ interval'.start = now
    BY <2>3
  <2>9. interval' \in [start : Nat, rate : Nat]
    BY <1>0, <2>1, <2>3
  <2> QED
    BY <1>2, <2>3, <2>6, <2>7, <2>8, <2>9 DEF rate
<1> QED
  BY <1>1, <1>2

\* A turn of the loop: whoever stopped has left, and all the others have been
\* credited in full.
LEMMA TurnFacts ==
    ASSUME LoopInv, Turn
    PROVE  /\ now' = now /\ error' = error
           /\ left' = Settled /\ Reopen(Decoding', left')
           /\ phase' \in [Invs -> {"away", "prefill", "decode", "complete"}]
           /\ enters' \in [Invs -> Nat] /\ evicted' \in Nat
           /\ \A i \in Invs : phase'[i] = "prefill" => now <= enters'[i]
           /\ \A i \in Invs : phase'[i] = "complete" => left'[i] <= 0
           /\ Cardinality(Resident') <= Slots
           /\ \A i \in Invs : phase[i] = "prefill" => phase'[i] # "away"
<1>0. LoopTypeOK /\ InTime /\ Attentive /\ StopsInTime /\ SlotsKept
  BY DEF LoopInv
<1>t. /\ now \in Nat /\ evicted \in Nat /\ enters \in [Invs -> Nat]
      /\ phase \in [Invs -> {"away", "prefill", "decode", "complete"}]
  BY <1>0 DEF LoopTypeOK
<1>1. CASE waits = "idle"
  <2>1. /\ Reopen(Decoding, left) /\ now' = now /\ phase' = phase
        /\ enters' = enters /\ left' = left /\ evicted' = evicted /\ error' = error
    BY <1>1 DEF Turn, TurnFromIdle
  <2>2. Decoding' = Decoding /\ Resident' = Resident
    BY <2>1 DEF Decoding, Resident
  <2>3. Settled = left
    BY <1>0, <1>1, IdleSettled DEF Attentive
  <2> QED
    BY <1>0, <1>t, <2>1, <2>2, <2>3 DEF InTime, StopsInTime, SlotsKept
<1>2. CASE waits # "idle"
  <2> DEFINE done == {i \in Decoding : Settled[i] <= 0}
  <2>1. Cascade(Settled, done)
    BY <1>2 DEF Turn, TurnFromInterval
  <2>2. PICK placed \in SUBSET {i \in Invs : phase[i] = "away"},
             victims \in SUBSET (Decoding \ done) :
        /\ Cardinality((Resident \ (done \cup victims)) \cup placed) <= Slots
        /\ evicted' = evicted + Cardinality(victims)
        /\ phase' = [i \in Invs |-> IF i \in done THEN "complete"
                                    ELSE IF i \in victims THEN "away"
                                    ELSE IF i \in placed THEN "prefill"
                                    ELSE phase[i]]
        /\ \E lat \in Latencies :
              enters' = [i \in Invs |-> IF i \in placed THEN now + lat
                                        ELSE enters[i]]
        /\ left' = Settled
        /\ Reopen(Decoding \ (done \cup victims), Settled)
    BY <2>1 DEF Cascade
  <2>3. now' = now /\ error' = error
    BY <2>1 DEF Cascade
  <2>4. PICK lat \in Latencies :
            enters' = [i \in Invs |-> IF i \in placed THEN now + lat ELSE enters[i]]
    BY <2>2
  <2>5. lat \in Nat
    BY LoopAssumption
  <2>6. Decoding' = Decoding \ (done \cup victims)
    BY <2>2 DEF Decoding
  <2>7. Resident' = (Resident \ (done \cup victims)) \cup placed
    BY <2>2 DEF Resident, Decoding
  <2>8. phase' \in [Invs -> {"away", "prefill", "decode", "complete"}]
    BY <1>t, <2>2
  <2>9. enters' \in [Invs -> Nat]
    BY <1>t, <2>4, <2>5
  <2>10. ASSUME NEW i \in Invs, phase'[i] = "prefill" PROVE now <= enters'[i]
    <3>1. CASE i \in placed
      BY <1>t, <2>4, <2>5, <3>1
    <3>2. CASE i \notin placed
      <4>1. phase[i] = "prefill"
        BY <2>2, <2>10, <3>2
      <4> QED
        BY <1>0, <2>4, <3>2, <4>1 DEF InTime
    <3> QED
      BY <3>1, <3>2
  <2>11. ASSUME NEW i \in Invs, phase'[i] = "complete" PROVE left'[i] <= 0
    <3>1. CASE i \in done
      BY <2>2, <3>1
    <3>2. CASE i \notin done
      <4>1. phase[i] = "complete"
        BY <2>2, <2>11, <3>2
      <4>2. left[i] <= 0 /\ Settled[i] = left[i]
        BY <1>0, <4>1 DEF StopsInTime, Settled
      <4> QED
        BY <2>2, <4>2
    <3> QED
      BY <3>1, <3>2
  <2>12. ASSUME NEW i \in Invs, phase[i] = "prefill" PROVE phase'[i] # "away"
    <3>1. i \notin done /\ i \notin victims
      BY <2>12 DEF Decoding
    <3> QED
      BY <2>2, <2>12, <3>1
  <2>13. IsFiniteSet(victims)
    <3>1. victims \subseteq Invs
      BY DEF Decoding
    <3> QED
      BY <3>1, LoopAssumption, FS_Subset
  <2>14. evicted' \in Nat
    BY <1>t, <2>2, <2>13, FS_CardinalityType
  <2> QED
    BY <2>2, <2>3, <2>6, <2>7, <2>8, <2>9, <2>10, <2>11, <2>12, <2>14
<1> QED
  BY <1>1, <1>2

\* The books after a step that takes no time and leaves no service open.
LEMMA SettledNext ==
    LoopTypeOK' /\ interval'.start = now' => Settled' = left'
<1> SUFFICES ASSUME LoopTypeOK', interval'.start = now' PROVE Settled' = left'
  OBVIOUS
<1>1. now' \in Nat /\ interval'.rate \in Nat /\ left' \in [Invs -> Int]
  BY DEF LoopTypeOK
<1>2. (now' - now') * interval'.rate = 0
  BY <1>1
<1>3. ASSUME NEW i \in Invs PROVE Settled'[i] = left'[i]
  <2>1. left'[i] \in Int
    BY <1>1
  <2>2. left'[i] - (now' - interval'.start) * interval'.rate = left'[i]
    BY <1>2, <2>1
  <2> QED
    BY <2>2 DEF Settled
<1>4. Settled' = [i \in Invs |-> Settled'[i]]
  BY DEF Settled
<1> QED
  BY <1>1, <1>3, <1>4

\* A turn of the loop preserves the invariant.
LEMMA TurnInv ==
    ASSUME LoopInv, Turn, Served, pokes' \in Nat
    PROVE  LoopInv'
<1>0. LoopTypeOK /\ InTime /\ Attentive /\ StopsInTime /\ SlotsKept /\ Accounts
  BY DEF LoopInv
<1>1. /\ now' = now /\ error' = error
      /\ left' = Settled /\ Reopen(Decoding', left')
      /\ phase' \in [Invs -> {"away", "prefill", "decode", "complete"}]
      /\ enters' \in [Invs -> Nat] /\ evicted' \in Nat
      /\ \A i \in Invs : phase'[i] = "prefill" => now <= enters'[i]
      /\ \A i \in Invs : phase'[i] = "complete" => left'[i] <= 0
      /\ Cardinality(Resident') <= Slots
      /\ \A i \in Invs : phase[i] = "prefill" => phase'[i] # "away"
  BY TurnFacts
<1>2. SlotsKept'
  BY <1>1 DEF SlotsKept
<1>3. Decoding' \subseteq Invs /\ IsFiniteSet(Decoding')
  <2>1. Decoding' \subseteq Invs
    BY DEF Decoding
  <2> QED
    BY <2>1, LoopAssumption, FS_Subset
<1>4. Decoding' # {} => Cardinality(Decoding') \in 1..Slots
  <2>1. PICK R, D : R = Resident' /\ D = Decoding'
    OBVIOUS
  <2>2. R \subseteq Invs /\ D \subseteq R
    BY <2>1 DEF Resident, Decoding
  <2>3. Cardinality(R) <= Slots
    BY <1>1, <2>1
  <2>4. D # {} => Cardinality(D) \in 1..Slots
    BY ONLY <2>2, <2>3, PartSize
  <2> QED
    BY <2>1, <2>4
<1>5. \A i \in Decoding' : left'[i] \in Int /\ AlmostLeft(left'[i])
  BY <1>0, <1>1, <1>3, SettledType DEF StopsInTime
<1>6. PICK S, credited : S = Decoding' /\ credited = left'
  OBVIOUS
<1>7. /\ woken' = FALSE /\ due' \in Nat
      /\ interval' \in [start : Nat, rate : Nat] /\ interval'.start = now
      /\ S = {} => waits' = "idle" /\ interval'.rate = 0 /\ due' = due
      /\ S # {} => /\ waits' = "timeout"
                   /\ interval'.rate = Rate(Cardinality(S))
                   /\ now <= due'
                   /\ \A i \in S : AlmostLeft(credited[i] - (due' - now)
                                                * interval'.rate)
  <2>1. Reopen(S, credited)
    BY <1>1, <1>6
  <2>2. IsFiniteSet(S) /\ S # {} => Cardinality(S) \in 1..Slots
    BY <1>4, <1>6
  <2>3. \A i \in S : credited[i] \in Int /\ AlmostLeft(credited[i])
    BY <1>5, <1>6
  <2>4. IsFiniteSet(S)
    BY <1>3, <1>6
  <2> QED
    BY ONLY <1>0, <2>1, <2>2, <2>3, <2>4, ReopenFacts
<1>8. generated' = generated
  BY <1>0, <1>1, ServedAtOnce
<1>9. lossless' = lossless
  BY <1>0, <1>1 DEF Served, EvictedEntering, LoopTypeOK
<1>10. LoopTypeOK'
  <2>1. /\ now' \in Nat /\ left' \in [Invs -> Int] /\ error' \in BOOLEAN
        /\ generated' \in [Invs -> Nat] /\ lossless' \in BOOLEAN
    BY <1>0, <1>1, <1>8, <1>9, SettledType DEF LoopTypeOK
  <2>2. waits' \in {"idle", "timeout"} /\ woken' \in BOOLEAN
    BY <1>7
  <2> QED
    BY <1>1, <1>7, <2>1, <2>2 DEF LoopTypeOK
<1>11. Settled' = left'
  BY <1>1, <1>7, <1>10, SettledNext
<1>12. InTime'
  <2>1. waits' = "timeout" => now' <= due'
    BY <1>1, <1>7
  <2>2. interval'.start <= now'
    BY <1>0, <1>1, <1>7 DEF LoopTypeOK
  <2> QED
    BY <1>1, <2>1, <2>2 DEF InTime
<1>13. Attentive'
  BY <1>6, <1>7 DEF Attentive
<1>14. StopsInTime'
  <2>1. \A i \in Invs : AlmostLeft(Settled'[i])
    BY <1>0, <1>1, <1>11 DEF StopsInTime
  <2>2. ASSUME waits' = "timeout", NEW i \in Decoding'
        PROVE  AlmostLeft(left'[i] - (due' - interval'.start) * interval'.rate)
    BY <1>6, <1>7, <2>2
  <2> QED
    BY <1>1, <2>1, <2>2 DEF StopsInTime
<1>15. Accounts'
  BY <1>0, <1>1, <1>8, <1>9, <1>11 DEF Accounts, Credited
<1> QED
  BY <1>2, <1>10, <1>12, <1>13, <1>14, <1>15 DEF LoopInv

\* A poked loop is not undisturbed, and the call is one SimPy accepts.
LEMMA PokeFacts ==
    ASSUME LoopTypeOK, Poke, waits' = waits
    PROVE  /\ error' = error /\ ~Undisturbed'
           /\ woken' \in BOOLEAN /\ pokes' \in Nat
<1>0. pokes \in Nat /\ error \in BOOLEAN /\ woken \in BOOLEAN
  BY DEF LoopTypeOK
<1>1. CASE waits = "idle" /\ ~woken
  BY <1>0, <1>1 DEF Poke, WakeIdle, Undisturbed
<1>2. CASE ~(waits = "idle" /\ ~woken)
  <2>1. pokes' = pokes + 1 /\ woken' = woken /\ error' = error
    BY <1>2 DEF Poke, Interrupt
  <2>2. pokes' # 0
    BY <1>0, <2>1
  <2> QED
    BY <1>0, <2>1, <2>2 DEF Undisturbed
<1> QED
  BY <1>1, <1>2

\* So does any step of another process that takes no time, credits the decode
\* set or admits that it does not, pokes the loop and places nobody.
LEMMA PokedInv ==
    ASSUME LoopInv, Served, Poke,
           now' = now, waits' = waits, due' = due, enters' = enters,
           interval' = [interval EXCEPT !.start = now],
           phase' \in [Invs -> {"away", "prefill", "decode", "complete"}],
           \A i \in Invs : phase'[i] \in {"prefill", "complete"} => phase'[i] = phase[i],
           Resident' \subseteq Resident, evicted' \in Nat,
           left' = Settled \/ (left' = left /\ ~lossless')
    PROVE  LoopInv'
<1>0. LoopTypeOK /\ InTime /\ Attentive /\ StopsInTime /\ SlotsKept /\ Accounts
  BY DEF LoopInv
<1>1. /\ error' = error /\ ~Undisturbed'
      /\ woken' \in BOOLEAN /\ pokes' \in Nat
  BY <1>0, PokeFacts
<1>2. interval'.start = now' /\ interval'.rate = interval.rate
      /\ interval' \in [start : Nat, rate : Nat]
  BY <1>0 DEF LoopTypeOK
<1>3. generated' = generated
  BY <1>0, ServedAtOnce
<1>4. lossless' \in BOOLEAN /\ (lossless' => lossless)
  BY <1>0 DEF Served, LoopTypeOK
<1>t. /\ now \in Nat /\ interval.start \in Nat /\ interval.rate \in Nat
      /\ left \in [Invs -> Int] /\ Settled \in [Invs -> Int]
  BY <1>0, SettledType DEF LoopTypeOK
<1>5. LoopTypeOK'
  <2>1. left' \in [Invs -> Int]
    BY <1>t
  <2> QED
    BY <1>0, <1>1, <1>2, <1>3, <1>4, <2>1 DEF LoopTypeOK
<1>6. Settled' = left'
  BY <1>2, <1>5, SettledNext
\* Nobody has been credited more than it was served.
<1>7. ASSUME NEW i \in Invs PROVE Settled[i] <= left[i]
  <2>1. now - interval.start \in Nat
    BY <1>0, <1>t DEF InTime
  <2>2. (now - interval.start) * interval.rate \in Nat
    BY <1>t, <2>1
  <2> QED
    BY <1>t, <2>2 DEF Settled
<1>8. ASSUME NEW i \in Invs PROVE Settled[i] <= Settled'[i] /\ Settled'[i] \in Int
  BY <1>t, <1>6, <1>7
<1>9. InTime'
  <2>1. \A i \in Invs : phase'[i] = "prefill" => now' <= enters'[i]
    BY <1>0 DEF InTime
  <2>2. waits' = "timeout" => now' <= due'
    BY <1>0 DEF InTime
  <2> QED
    BY <1>t, <1>2, <2>1, <2>2 DEF InTime
<1>10. Attentive'
  BY <1>0, <1>1, <1>2 DEF Attentive
<1>11. StopsInTime'
  <2>1. ASSUME NEW i \in Invs PROVE AlmostLeft(Settled'[i])
    <3>1. AlmostLeft(Settled[i]) /\ Settled[i] \in Int
      BY <1>0, <1>t DEF StopsInTime
    <3> DEFINE x == Settled[i] y == left'[i]
    <3>2. x \in Int /\ y \in Int /\ x <= y /\ AlmostLeft(x)
      BY <1>6, <1>8, <3>1
    <3> HIDE DEF x, y
    <3>3. AlmostLeft(y)
      BY <3>2, AlmostLeftMore
    <3> QED
      BY <1>6, <3>3 DEF y
  <2>2. ASSUME NEW i \in Invs, phase'[i] = "complete" PROVE left'[i] <= 0
    <3>1. phase[i] = "complete"
      BY <2>2
    <3>2. left[i] <= 0 /\ Settled[i] = left[i]
      BY <1>0, <3>1 DEF StopsInTime, Settled
    <3> QED
      BY <3>2
  <2> QED
    BY <1>1, <2>1, <2>2 DEF StopsInTime
<1>12. SlotsKept'
  <2>1. IsFiniteSet(Resident)
    <3>1. Resident \subseteq Invs
      BY DEF Resident
    <3> QED
      BY <3>1, LoopAssumption, FS_Subset
  <2>2. PICK R : R = Resident'
    OBVIOUS
  <2>3. IsFiniteSet(R) /\ Cardinality(R) <= Cardinality(Resident)
    BY <2>1, <2>2, FS_Subset
  <2>4. Cardinality(R) \in Nat /\ Cardinality(Resident) \in Nat /\ Slots \in Nat
    BY <2>1, <2>3, FS_CardinalityType, LoopAssumption
  <2>5. Cardinality(R) <= Slots
    BY <1>0, <2>3, <2>4 DEF SlotsKept
  <2> QED
    BY <2>2, <2>5 DEF SlotsKept
<1>13. Accounts'
  <2>1. Tokens \in Int
    BY LoopAssumption
  <2>2. ASSUME NEW i \in Invs
        PROVE  /\ Tokens - Settled'[i] <= generated'[i]
               /\ lossless' => Tokens - Settled'[i] = generated'[i]
    <3>1. /\ Tokens - Settled[i] <= generated[i] /\ generated[i] \in Int
          /\ lossless => Tokens - Settled[i] = generated[i]
      BY <1>0 DEF Accounts, Credited, LoopTypeOK
    <3>2. lossless' => Settled'[i] = Settled[i]
      BY <1>6
    <3>3. Tokens - Settled'[i] <= Tokens - Settled[i]
      BY <1>8, <1>t, <2>1
    <3>4. Tokens - Settled'[i] <= generated[i]
      BY <1>8, <1>t, <2>1, <3>1, <3>3
    <3> QED
      BY <1>3, <1>4, <3>1, <3>2, <3>4
  <2> QED
    BY <1>0, <1>1, <2>2 DEF Accounts, Credited
<1> QED
  BY <1>5, <1>9, <1>10, <1>11, <1>12, <1>13 DEF LoopInv

\* The end of an entry latency preserves the invariant.
LEMMA EnteredInv ==
    ASSUME LoopInv, NEW j \in Invs, Entered(j), Served PROVE LoopInv'
<1>0. LoopTypeOK
  BY DEF LoopInv
<1>t. /\ phase \in [Invs -> {"away", "prefill", "decode", "complete"}]
      /\ evicted \in Nat
  BY <1>0 DEF LoopTypeOK
<1>1. /\ phase[j] = "prefill" /\ phase' = [phase EXCEPT ![j] = "decode"]
      /\ left' = Settled /\ interval' = [interval EXCEPT !.start = now]
      /\ Poke /\ now' = now
      /\ enters' = enters /\ waits' = waits /\ due' = due /\ evicted' = evicted
  BY DEF Entered
<1>2. Resident' \subseteq Resident
  BY <1>t, <1>1 DEF Resident
<1>3. phase' \in [Invs -> {"away", "prefill", "decode", "complete"}]
  BY <1>t, <1>1
<1>4. \A i \in Invs : phase'[i] \in {"prefill", "complete"} => phase'[i] = phase[i]
  BY <1>t, <1>1
<1> QED
  BY <1>t, <1>1, <1>2, <1>3, <1>4, PokedInv

\* An eviction preserves the invariant.
LEMMA EvictInv ==
    ASSUME LoopInv, NEW j \in Invs, Evict(j), Served PROVE LoopInv'
<1>0. LoopTypeOK
  BY DEF LoopInv
<1>t. /\ phase \in [Invs -> {"away", "prefill", "decode", "complete"}]
      /\ evicted \in Nat
  BY <1>0 DEF LoopTypeOK
<1>1. /\ phase[j] \in {"decode", "prefill"}
      /\ phase' = [phase EXCEPT ![j] = "away"]
      /\ left' = IF phase[j] = "decode" THEN Settled ELSE left
      /\ interval' = [interval EXCEPT !.start = now]
      /\ Poke /\ now' = now /\ evicted' = evicted + 1
      /\ enters' = enters /\ waits' = waits /\ due' = due
  BY DEF Evict
<1>2. Resident' \subseteq Resident
  BY <1>t, <1>1 DEF Resident
<1>3. phase' \in [Invs -> {"away", "prefill", "decode", "complete"}]
  BY <1>t, <1>1
<1>4. \A i \in Invs : phase'[i] \in {"prefill", "complete"} => phase'[i] = phase[i]
  BY <1>t, <1>1
<1>5. phase[j] # "decode" => left' = left /\ ~lossless'
  BY <1>t, <1>1 DEF Served, EvictedEntering
<1>6. phase[j] = "decode" => left' = Settled
  BY <1>1
<1>7. evicted' \in Nat
  BY <1>t, <1>1
<1> QED
  BY <1>1, <1>2, <1>3, <1>4, <1>5, <1>6, <1>7, PokedInv

\* A placement preserves the invariant.
LEMMA PlaceInv ==
    ASSUME LoopInv, NEW j \in Invs, Place(j), Served PROVE LoopInv'
<1>0. LoopTypeOK /\ InTime /\ Attentive /\ StopsInTime /\ SlotsKept /\ Accounts
  BY DEF LoopInv
<1>t. /\ phase \in [Invs -> {"away", "prefill", "decode", "complete"}]
      /\ enters \in [Invs -> Nat] /\ now \in Nat /\ Slots \in Nat
  BY <1>0, LoopAssumption DEF LoopTypeOK
<1>1. /\ phase[j] = "away" /\ phase' = [phase EXCEPT ![j] = "prefill"]
      /\ Cardinality(Resident) < Slots
      /\ now' = now /\ left' = left /\ evicted' = evicted /\ error' = error
      /\ interval' = interval /\ waits' = waits /\ due' = due
      /\ woken' = woken /\ pokes' = pokes
  BY DEF Place, loopState
<1>2. PICK lat \in Latencies : enters' = [enters EXCEPT ![j] = now + lat]
  BY DEF Place
<1>3. lat \in Nat
  BY LoopAssumption
<1>4. generated' = generated
  BY <1>0, <1>1, ServedAtOnce
<1>5. lossless' = lossless
  BY <1>0, <1>t, <1>1 DEF Served, EvictedEntering, LoopTypeOK
<1>6. Decoding' = Decoding
  BY <1>t, <1>1 DEF Decoding
<1>7. Settled' = Settled
  BY <1>t, <1>1 DEF Settled
<1>8. phase' \in [Invs -> {"away", "prefill", "decode", "complete"}]
      /\ enters' \in [Invs -> Nat]
  BY <1>t, <1>1, <1>2, <1>3
<1>9. LoopTypeOK'
  BY <1>0, <1>1, <1>4, <1>5, <1>8 DEF LoopTypeOK
<1>10. InTime'
  BY <1>0, <1>t, <1>1, <1>2, <1>3 DEF InTime
<1>11. Attentive'
  BY <1>0, <1>1, <1>6 DEF Attentive, Undisturbed
<1>12. StopsInTime'
  BY <1>0, <1>t, <1>1, <1>6, <1>7 DEF StopsInTime, Undisturbed
<1>13. SlotsKept'
  <2>1. IsFiniteSet(Resident)
    <3>1. Resident \subseteq Invs
      BY DEF Resident
    <3> QED
      BY <3>1, LoopAssumption, FS_Subset
  <2>2. Resident' = Resident \cup {j} /\ j \notin Resident
    BY <1>t, <1>1 DEF Resident
  <2>3. /\ Cardinality(Resident \cup {j}) = Cardinality(Resident) + 1
        /\ Cardinality(Resident) \in Nat
    BY <2>1, <2>2, FS_AddElement, FS_CardinalityType
  <2> QED
    BY <1>t, <1>1, <2>2, <2>3 DEF SlotsKept
<1>14. Accounts'
  BY <1>0, <1>1, <1>4, <1>5, <1>7 DEF Accounts, Credited
<1> QED
  BY <1>9, <1>10, <1>11, <1>12, <1>13, <1>14 DEF LoopInv

-----------------------------------------------------------------------------
(* Time.                                                                   *)

\* What time may go on to is finite.
LEMMA AgendaFinite == IsFiniteSet(Agenda)
<1>1. IsFiniteSet(IF waits = "timeout" THEN {due} ELSE {})
  BY FS_Singleton, FS_EmptySet
<1>2. IsFiniteSet({enters[i] : i \in {j \in Invs : phase[j] = "prefill"}})
  <2> DEFINE S == {j \in Invs : phase[j] = "prefill"}
             entry == [i \in S |-> enters[i]]
  <2>1. IsFiniteSet(S)
    BY LoopAssumption, FS_Subset
  <2>2. entry \in Surjection(S, {enters[i] : i \in S})
    BY DEF Surjection
  <2> QED
    BY <2>1, <2>2, FS_Surjection
<1>3. IsFiniteSet({t \in 0..Horizon : t % Grain = 0 /\ t > now})
  <2>1. IsFiniteSet(0..Horizon)
    BY LoopAssumption, FS_Interval
  <2> QED
    BY <2>1, FS_Subset
<1> QED
  BY <1>1, <1>2, <1>3, FS_Union DEF Agenda

\* Time goes on to what comes next, over an undisturbed loop.
LEMMA AdvanceFacts ==
    ASSUME LoopInv, Advance
    PROVE  /\ Undisturbed /\ now' \in Nat /\ now < now'
           /\ waits = "timeout" => now' <= due
           /\ \A i \in Invs : phase[i] = "prefill" => now' <= enters[i]
<1>0. LoopTypeOK /\ InTime
  BY DEF LoopInv
<1>t. now \in Nat /\ due \in Nat /\ enters \in [Invs -> Nat]
  BY <1>0 DEF LoopTypeOK
<1>1. Agenda \in SUBSET Nat /\ Agenda # {}
  BY <1>t, LoopAssumption DEF Agenda, Advance
<1>2. Least(Agenda) \in Agenda /\ \A x \in Agenda : Least(Agenda) <= x
  <2> DEFINE itself == [x \in Agenda |-> x]
  <2>1. IsFiniteSet(Agenda)
    BY AgendaFinite
  <2>2. /\ Least({itself[x] : x \in Agenda}) \in {itself[x] : x \in Agenda}
        /\ \A y \in Agenda : Least({itself[x] : x \in Agenda}) <= itself[y]
    <3>1. \A x \in Agenda : itself[x] \in Int
      BY <1>1
    <3> HIDE DEF itself
    <3> QED
      BY <1>1, <2>1, <3>1, LeastValue
  <2>3. {itself[x] : x \in Agenda} = Agenda
    OBVIOUS
  <2> QED
    BY <2>2, <2>3
<1>3. now' = Least(Agenda) /\ now \notin Agenda
  BY DEF Advance
<1>4. ASSUME NEW x \in Agenda PROVE now <= x
  <2>1. CASE waits = "timeout" /\ x = due
    BY <1>0, <2>1 DEF InTime
  <2>2. CASE x \in {enters[i] : i \in {j \in Invs : phase[j] = "prefill"}}
    BY <1>0, <2>2 DEF InTime
  <2>3. CASE x \in {t \in 0..Horizon : t % Grain = 0 /\ t > now}
    BY <1>t, <2>3
  <2> QED
    BY <2>1, <2>2, <2>3 DEF Agenda
<1>5. now' \in Nat /\ now < now'
  <2>1. now' \in Agenda
    BY <1>2, <1>3
  <2>2. now' \in Nat /\ now <= now' /\ now' # now
    BY <1>1, <1>3, <1>4, <2>1
  <2> QED
    BY <1>t, <2>2
<1>6. waits = "timeout" => due \in Agenda
  BY DEF Agenda
<1>7. \A i \in Invs : phase[i] = "prefill" => enters[i] \in Agenda
  BY DEF Agenda
<1>8. Undisturbed
  BY DEF Advance, Undisturbed
<1> QED
  BY <1>2, <1>3, <1>5, <1>6, <1>7, <1>8

\* The passage of time preserves the invariant: what the loop will credit for
\* it is what the history accounts.
LEMMA AdvanceInv ==
    ASSUME LoopInv, Advance, Served PROVE LoopInv'
<1>0. LoopTypeOK /\ InTime /\ Attentive /\ StopsInTime /\ SlotsKept /\ Accounts
  BY DEF LoopInv
<1>1. /\ Undisturbed /\ now' \in Nat /\ now < now'
      /\ waits = "timeout" => now' <= due
      /\ \A i \in Invs : phase[i] = "prefill" => now' <= enters[i]
  BY AdvanceFacts
<1>2. /\ phase' = phase /\ enters' = enters /\ left' = left /\ evicted' = evicted
      /\ error' = error /\ interval' = interval /\ waits' = waits /\ due' = due
      /\ woken' = woken /\ pokes' = pokes
  BY DEF Advance, loopState
<1>3. Decoding' = Decoding /\ Resident' = Resident
  BY <1>2 DEF Decoding, Resident
<1>4. lossless' = lossless
  BY <1>0, <1>2 DEF Served, EvictedEntering, LoopTypeOK
<1>t. /\ now \in Nat /\ due \in Nat /\ interval.start \in Nat
      /\ interval.rate \in Nat /\ left \in [Invs -> Int]
      /\ generated \in [Invs -> Nat] /\ Tokens \in Nat
      /\ interval.start <= now
  BY <1>0, LoopAssumption DEF LoopTypeOK, InTime
\* Who decodes is served at the rate of the interval; nobody else is.
<1>5. ASSUME NEW i \in Decoding
      PROVE  /\ interval.rate = Rate(Cardinality(Decoding)) /\ waits = "timeout"
             /\ Settled[i] = left[i] - (now - interval.start) * interval.rate
             /\ Settled'[i] = left[i] - (now' - interval.start) * interval.rate
             /\ Settled'[i] = Settled[i] - (now' - now) * interval.rate
             /\ generated'[i] = generated[i] + (now' - now) * interval.rate
  <2>0. i \in Invs /\ phase[i] = "decode" /\ left[i] \in Int
    BY <1>t DEF Decoding
  <2>1. interval.rate = Rate(Cardinality(Decoding)) /\ waits = "timeout"
    BY <1>0, <1>1 DEF Attentive
  <2>2. generated'[i] = generated[i] + (now' - now) * interval.rate
    BY <2>0, <2>1 DEF Served
  <2>3. /\ Settled[i] = left[i] - (now - interval.start) * interval.rate
        /\ Settled'[i] = left[i] - (now' - interval.start) * interval.rate
    BY <1>2, <2>0 DEF Settled
  <2>4. (now' - interval.start) * interval.rate
            = (now - interval.start) * interval.rate + (now' - now) * interval.rate
    BY <1>t, <1>1
  <2>5. /\ (now' - interval.start) * interval.rate \in Int
        /\ (now - interval.start) * interval.rate \in Int
        /\ (now' - now) * interval.rate \in Int
    BY <1>t, <1>1
  <2> QED
    BY <2>0, <2>1, <2>2, <2>3, <2>4, <2>5
<1>6. ASSUME NEW i \in Invs, i \notin Decoding
      PROVE  /\ Settled'[i] = left[i] /\ Settled[i] = left[i]
             /\ generated'[i] = generated[i]
  <2>1. phase[i] # "decode"
    BY <1>6 DEF Decoding
  <2> QED
    BY <1>2, <2>1 DEF Settled, Served
<1>7. LoopTypeOK'
  <2>1. ASSUME NEW i \in Invs PROVE generated'[i] \in Nat
    <3>1. CASE i \in Decoding
      <4>1. now' - now \in Nat
        BY <1>t, <1>1
      <4>2. (now' - now) * interval.rate \in Nat
        BY <1>t, <4>1
      <4> QED
        BY <1>t, <1>5, <3>1, <4>2
    <3>2. CASE i \notin Decoding
      BY <1>t, <1>6, <3>2
    <3> QED
      BY <3>1, <3>2
  <2>2. generated' \in [Invs -> Nat]
    <3>1. generated' = [i \in Invs |-> generated'[i]]
      BY DEF Served
    <3> QED
      BY <2>1, <3>1
  <2> QED
    BY <1>0, <1>1, <1>2, <1>4, <2>2 DEF LoopTypeOK
<1>8. InTime'
  BY <1>t, <1>1, <1>2 DEF InTime
<1>9. Attentive'
  BY <1>0, <1>2, <1>3 DEF Attentive, Undisturbed
<1>10. StopsInTime'
  <2>1. ASSUME NEW i \in Invs PROVE AlmostLeft(Settled'[i])
    <3>1. CASE i \in Decoding
      <4> DEFINE x == left[i] - (due - interval.start) * interval.rate
                 y == left[i] - (now' - interval.start) * interval.rate
      <4>0. now' <= due
        BY <1>1, <1>5, <3>1
      <4>1. AlmostLeft(x)
        BY <1>0, <1>1, <1>5, <3>1 DEF StopsInTime
      <4>2. (now' - interval.start) * interval.rate
                <= (due - interval.start) * interval.rate
        <5>1. due - now' \in Nat
          <6>1. PICK n : n = now'
            OBVIOUS
          <6>2. due \in Nat /\ n \in Nat /\ n <= due
            BY ONLY <1>t, <1>1, <4>0, <6>1
          <6>3. due - n \in Nat
            BY ONLY <6>2
          <6> QED
            BY ONLY <6>1, <6>3
        <5>2. (due - now') * interval.rate \in Nat
          BY <1>t, <5>1
        <5>3. (due - interval.start) * interval.rate
                = (now' - interval.start) * interval.rate + (due - now') * interval.rate
          BY <1>t, <1>1
        <5>4. (now' - interval.start) * interval.rate \in Int
          BY <1>t, <1>1
        <5> QED
          BY <5>2, <5>3, <5>4
      <4>3. /\ left[i] \in Int /\ (now' - interval.start) * interval.rate \in Int
            /\ (due - interval.start) * interval.rate \in Int
        BY <1>t, <1>1
      <4>4. x \in Int /\ y \in Int /\ x <= y
        BY <4>2, <4>3
      <4>5. Settled'[i] = y
        BY <1>5, <3>1
      <4> HIDE DEF x, y
      <4> QED
        BY <4>1, <4>4, <4>5, AlmostLeftMore
    <3>2. CASE i \notin Decoding
      BY <1>0, <1>6, <3>2 DEF StopsInTime
    <3> QED
      BY <3>1, <3>2
  <2>2. \A i \in Invs : phase'[i] = "complete" => left'[i] <= 0
    BY <1>0, <1>2 DEF StopsInTime
  <2>3. Undisturbed' /\ waits' = "timeout" =>
          \A i \in Decoding' :
              AlmostLeft(left'[i] - (due' - interval'.start) * interval'.rate)
    BY <1>0, <1>1, <1>2, <1>3 DEF StopsInTime
  <2> QED
    BY <2>1, <2>2, <2>3 DEF StopsInTime
<1>11. SlotsKept'
  BY <1>0, <1>3 DEF SlotsKept
<1>12. Accounts'
  <2>1. ASSUME NEW i \in Invs
        PROVE  /\ Tokens - Settled'[i] <= generated'[i]
               /\ lossless' => Tokens - Settled'[i] = generated'[i]
    <3>1. /\ Tokens - Settled[i] <= generated[i] /\ generated[i] \in Nat
          /\ lossless => Tokens - Settled[i] = generated[i]
          /\ Settled[i] \in Int
      BY <1>0, <1>t, SettledType DEF Accounts, Credited
    <3>2. CASE i \in Decoding
      <4> DEFINE served == (now' - now) * interval.rate
      <4>1. served \in Int
        BY <1>t, <1>1
      <4>2. Settled'[i] = Settled[i] - served /\ generated'[i] = generated[i] + served
        BY <1>5, <3>2
      <4> HIDE DEF served
      <4> QED
        BY <1>t, <1>4, <3>1, <4>1, <4>2
    <3>3. CASE i \notin Decoding
      BY <1>4, <1>6, <3>1, <3>3
    <3> QED
      BY <3>2, <3>3
  <2> QED
    BY <1>0, <1>2, <2>1 DEF Accounts, Credited
<1> QED
  BY <1>7, <1>8, <1>9, <1>10, <1>11, <1>12 DEF LoopInv

-----------------------------------------------------------------------------
(* The theorems.                                                           *)

\* Every step preserves the invariant.
LEMMA NextLoopInv ==
    ASSUME LoopInv, [HistoryNext]_historyVars PROVE LoopInv'
<1>1. CASE UNCHANGED historyVars
  <2>1. /\ now' = now /\ phase' = phase /\ enters' = enters /\ left' = left
        /\ interval' = interval /\ waits' = waits /\ due' = due /\ woken' = woken
        /\ pokes' = pokes /\ evicted' = evicted /\ error' = error
        /\ generated' = generated /\ lossless' = lossless
    BY <1>1 DEF historyVars, loopVars, loopState
  <2> QED
    BY <2>1 DEF LoopInv, LoopTypeOK, InTime, Attentive, Undisturbed, StopsInTime,
                SlotsKept, Accounts, Credited, Settled, Decoding, Resident
<1>2. CASE HistoryNext
  <2>0. Served /\ pokes \in Nat
    BY <1>2 DEF HistoryNext, LoopInv, LoopTypeOK
  <2>1. CASE Interrupted
    <3>1. Turn /\ pokes' \in Nat
      BY <2>0, <2>1 DEF Interrupted
    <3> QED
      BY <2>0, <3>1, TurnInv
  <2>2. CASE Woken
    <3>1. Turn /\ pokes' \in Nat
      BY <2>0, <2>2 DEF Woken
    <3> QED
      BY <2>0, <3>1, TurnInv
  <2>3. CASE IntervalOver
    <3>1. Turn /\ pokes' \in Nat
      BY <2>0, <2>3 DEF IntervalOver
    <3> QED
      BY <2>0, <3>1, TurnInv
  <2>4. CASE \E i \in Invs : Entered(i) \/ Place(i) \/ Evict(i)
    BY <2>0, <2>4, EnteredInv, PlaceInv, EvictInv
  <2>5. CASE Advance
    BY <2>0, <2>5, AdvanceInv
  <2> QED
    BY <1>2, <2>1, <2>2, <2>3, <2>4, <2>5 DEF HistoryNext, Next
<1> QED
  BY <1>1, <1>2

\* The loop keeps its invariant, whoever joins, leaves or is evicted, and
\* whenever.
THEOREM LoopHolds == HistorySpec => []LoopInv
<1>1. ASSUME LoopInv, [HistoryNext]_historyVars PROVE LoopInv'
  BY <1>1, NextLoopInv
<1> QED
  BY <1>1, InitLoopInv, PTL DEF HistorySpec

\* What the loop credits is what was generated (_settle_device, _device_loop).
THEOREM ServiceHolds == HistorySpec => []ServiceExact
<1>1. ASSUME LoopInv PROVE ServiceExact
  <2>0. /\ LoopTypeOK /\ StopsInTime /\ Accounts
    BY <1>1 DEF LoopInv
  <2>1. ASSUME NEW i \in Invs, lossless, phase[i] = "complete"
        PROVE  /\ Tokens <= generated[i]
               /\ \E b \in 1..Slots : generated[i] < Tokens + Rate(b)
    <3>1. Settled[i] = left[i] /\ left[i] <= 0 /\ AlmostLeft(left[i])
      BY <2>0, <2>1 DEF StopsInTime, Settled
    <3>2. Tokens - left[i] = generated[i]
      BY <2>0, <2>1, <3>1 DEF Accounts, Credited
    <3>3. PICK b \in 1..Slots : 0 < left[i] + Rate(b)
      BY <3>1 DEF AlmostLeft
    <3>4. Rate(b) \in Int /\ Tokens \in Int /\ left[i] \in Int
      BY <2>0, LoopAssumption DEF LoopTypeOK
    <3>5. Tokens <= generated[i] /\ generated[i] < Tokens + Rate(b)
      BY <3>1, <3>2, <3>3, <3>4
    <3> QED
      BY <3>5
  <2> QED
    BY <2>0, <2>1 DEF ServiceExact, Accounts
<1> QED
  BY <1>1, LoopHolds, PTL

\* Time passes only over a loop that serves the decode set there is
\* (_poke_device).
THEOREM IntervalHolds == HistorySpec => IntervalCurrent
<1> DEFINE Current ==
      now' # now => IF Decoding = {} THEN waits = "idle"
                    ELSE /\ waits = "timeout"
                         /\ interval.rate = Rate(Cardinality(Decoding))
                         /\ due >= now'
<1>1. ASSUME LoopInv, [HistoryNext]_historyVars PROVE [Current]_historyVars
  <2>1. CASE Advance
    <3>1. /\ Undisturbed /\ now' \in Nat
          /\ waits = "timeout" => now' <= due
      BY <1>1, <2>1, AdvanceFacts
    <3>2. due \in Nat /\ Attentive
      BY <1>1 DEF LoopInv, LoopTypeOK
    <3> QED
      BY <3>1, <3>2 DEF Attentive
  <2>2. CASE HistoryNext /\ ~Advance
    <3>1. CASE Interrupted \/ Woken \/ IntervalOver
      <4>1. Turn
        BY <3>1 DEF Interrupted, Woken, IntervalOver
      <4> QED
        BY <1>1, <4>1, TurnFacts
    <3>2. CASE \E i \in Invs : Entered(i) \/ Place(i) \/ Evict(i)
      BY <3>2 DEF Entered, Place, Evict
    <3> QED
      BY <2>2, <3>1, <3>2 DEF HistoryNext, Next
  <2>3. CASE UNCHANGED historyVars
    BY <2>3
  <2> QED
    BY <1>1, <2>1, <2>2, <2>3
<1> QED
  BY <1>1, LoopHolds, PTL DEF HistorySpec, IntervalCurrent
=============================================================================
