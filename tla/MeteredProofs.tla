--------------------------- MODULE MeteredProofs ---------------------------
(***************************************************************************)
(* The collector measures the run: its lazy integrals are the sums over    *)
(* the history of the run, and Little's law holds of what it measures.     *)
(***************************************************************************)
EXTENDS MeteredRun, DisciplineProofs

-----------------------------------------------------------------------------
(* Time of the measured window.                                            *)

\* The greater of zero and a number.
LEMMA GreatestOfTwo ==
    ASSUME NEW x \in Int PROVE Greatest({0, x}) = IF x > 0 THEN x ELSE 0
<1> DEFINE m == IF x > 0 THEN x ELSE 0
<1>1. m \in {0, x} /\ \A y \in {0, x} : y <= m
  OBVIOUS
<1>2. \A k \in {0, x} : (\A y \in {0, x} : y <= k) => k = m
  OBVIOUS
<1> HIDE DEF m
<1>3. Greatest({0, x}) \in {0, x} /\ \A y \in {0, x} : y <= Greatest({0, x})
  BY <1>1 DEF Greatest
<1> QED
  BY <1>2, <1>3 DEF m

\* The measured part of an interval: nothing of an empty one and before the
\* warm-up, a unit for every unit after it, never more than the interval.
LEMMA MeasuredIs ==
    ASSUME NEW s \in Nat, NEW t \in Nat, s <= t
    PROVE  /\ Measured(s, t) \in Nat
           /\ Measured(t, t) = 0
           /\ t <= Warmup => Measured(s, t) = 0
           /\ t < Horizon => Measured(s, t + 1) =
                                 Measured(s, t) + (IF t >= Warmup THEN 1 ELSE 0)
           /\ t <= Horizon => Measured(s, t) <= t - s
           /\ t <= Horizon /\ s >= Warmup => Measured(s, t) = t - s
<1>1. Horizon \in Nat /\ Warmup \in Nat /\ Warmup < Horizon
  BY WindowAssumption
<1>2. ASSUME NEW k \in Nat
      PROVE  Clip(k) \in Nat /\ Clip(k) = IF k < Warmup THEN Warmup
                                 ELSE IF k > Horizon THEN Horizon ELSE k
  BY <1>1 DEF Clip
<1>3. ASSUME NEW j \in Nat, NEW k \in Nat
      PROVE  Measured(j, k) = IF Clip(k) - Clip(j) > 0 THEN Clip(k) - Clip(j) ELSE 0
  <2>1. Clip(k) - Clip(j) \in Int
    BY <1>2
  <2> QED
    BY <2>1, GreatestOfTwo DEF Measured
<1> DEFINE u == t + 1
<1> DEFINE cs == Clip(s)
<1> DEFINE ct == Clip(t)
<1> DEFINE cu == Clip(u)
<1>4. u \in Nat /\ u = t + 1
  OBVIOUS
<1>5. /\ cs = IF s < Warmup THEN Warmup ELSE IF s > Horizon THEN Horizon ELSE s
      /\ ct = IF t < Warmup THEN Warmup ELSE IF t > Horizon THEN Horizon ELSE t
      /\ cu = IF u < Warmup THEN Warmup ELSE IF u > Horizon THEN Horizon ELSE u
      /\ cs \in Nat /\ ct \in Nat /\ cu \in Nat
  BY <1>2, <1>4
<1>6. /\ Measured(s, t) = IF ct - cs > 0 THEN ct - cs ELSE 0
      /\ Measured(t, t) = IF ct - ct > 0 THEN ct - ct ELSE 0
      /\ Measured(s, u) = IF cu - cs > 0 THEN cu - cs ELSE 0
  BY <1>3, <1>4
<1> HIDE DEF cs, ct, cu, u
<1>7. /\ Measured(s, t) \in Nat /\ Measured(t, t) = 0
      /\ t <= Warmup => Measured(s, t) = 0
  BY <1>1, <1>5, <1>6
<1>8. t < Horizon => Measured(s, u) =
                         Measured(s, t) + (IF t >= Warmup THEN 1 ELSE 0)
  BY <1>1, <1>4, <1>5, <1>6
<1>9. /\ t <= Horizon => Measured(s, t) <= t - s
      /\ t <= Horizon /\ s >= Warmup => Measured(s, t) = t - s
  BY <1>1, <1>5, <1>6
<1> QED
  BY <1>7, <1>8, <1>9 DEF u

-----------------------------------------------------------------------------
(* The calls of the collector: none changes an integral as of its own time. *)

Collector ==
    [offered : Int, completed : Int, sojourns : Int, abandonments : Int,
     generated : Int, useful : Int,
     inSystem : Int, lastChange : Int, systemArea : Int,
     pinned : Int, active : Int, pinChange : Int, pinnedArea : Int,
     activeArea : Int,
     busySince : [Devices -> Int], busy : [Devices -> Int]]

\* The integrals of collector m as of time t.
SystemAt(m, t) == m.systemArea + m.inSystem * Measured(m.lastChange, t)
PinnedAt(m, t) == m.pinnedArea + m.pinned * Measured(m.pinChange, t)
ActiveAt(m, t) == m.activeArea + m.active * Measured(m.pinChange, t)
BusyAt(m, t, d) == m.busy[d] + IF m.busySince[d] = NotBusy THEN 0
                               ELSE Measured(m.busySince[d], t)

\* A collector whose last entries are not later than t.
UpTo(m, t) ==
    /\ m \in Collector /\ m.lastChange \in 0..t /\ m.pinChange \in 0..t
    /\ \A d \in Devices : m.busySince[d] \in {NotBusy} \cup 0..t

\* After a call at time t the collector is n: its integrals as of t are those of
\* m, its counts have changed by a, b and c, and devices are busy since B.
Called(m, n, t, a, b, c, B) ==
    /\ UpTo(n, t)
    /\ SystemAt(n, t) = SystemAt(m, t)
    /\ PinnedAt(n, t) = PinnedAt(m, t)
    /\ ActiveAt(n, t) = ActiveAt(m, t)
    /\ \A d \in Devices : BusyAt(n, t, d) = BusyAt(m, t, d)
    /\ n.inSystem = m.inSystem + a /\ n.pinned = m.pinned + b
    /\ n.active = m.active + c /\ n.busySince = B
\* What it has recorded of flows that left has grown by s and x.
Recorded(m, n, s, x) ==
    n.sojourns = m.sojourns + s /\ n.abandonments = m.abandonments + x

\* One call after the other.
LEMMA CallsCompose ==
    ASSUME NEW t \in Nat, NEW m, UpTo(m, t), NEW n, NEW p,
           NEW a \in Int, NEW b \in Int, NEW c \in Int, NEW B,
           NEW a2 \in Int, NEW b2 \in Int, NEW c2 \in Int, NEW B2,
           Called(m, n, t, a, b, c, B), Called(n, p, t, a2, b2, c2, B2)
    PROVE  Called(m, p, t, a + a2, b + b2, c + c2, B2)
<1>1. /\ m.inSystem \in Int /\ m.pinned \in Int /\ m.active \in Int
  BY DEF UpTo, Collector
<1> QED
  BY <1>1 DEF Called

\* A count of flows in the system that changes once the integral is up to date.
LEMMA SystemChanges ==
    ASSUME NEW t \in Nat, NEW m, UpTo(m, t), NEW a \in Int, NEW n \in Collector,
           n.systemArea = SystemAt(m, t), n.lastChange = t,
           n.inSystem = m.inSystem + a, n.pinned = m.pinned,
           n.active = m.active, n.pinChange = m.pinChange,
           n.pinnedArea = m.pinnedArea, n.activeArea = m.activeArea,
           n.busySince = m.busySince, n.busy = m.busy
    PROVE  Called(m, n, t, a, 0, 0, m.busySince)
<1>1. /\ m.inSystem \in Int /\ m.pinned \in Int /\ m.active \in Int
      /\ n.inSystem \in Int
  BY DEF UpTo, Collector
<1>2. Measured(t, t) = 0
  BY MeasuredIs
<1>3. SystemAt(n, t) = n.systemArea
  <2>1. n.inSystem * 0 = 0 /\ n.systemArea \in Int
    BY <1>1 DEF Collector
  <2> QED
    BY <1>2, <2>1 DEF SystemAt
<1>4. /\ PinnedAt(n, t) = PinnedAt(m, t) /\ ActiveAt(n, t) = ActiveAt(m, t)
      /\ \A d \in Devices : BusyAt(n, t, d) = BusyAt(m, t, d)
  BY DEF PinnedAt, ActiveAt, BusyAt
<1>5. UpTo(n, t)
  BY DEF UpTo
<1> QED
  BY <1>1, <1>3, <1>4, <1>5 DEF Called

\* Counts of pins that change once their integrals are up to date.
LEMMA PinsChange ==
    ASSUME NEW t \in Nat, NEW m, UpTo(m, t), NEW b \in Int, NEW c \in Int,
           NEW n \in Collector,
           n.pinnedArea = PinnedAt(m, t), n.activeArea = ActiveAt(m, t),
           n.pinChange = t, n.pinned = m.pinned + b, n.active = m.active + c,
           n.inSystem = m.inSystem, n.lastChange = m.lastChange,
           n.systemArea = m.systemArea,
           n.busySince = m.busySince, n.busy = m.busy
    PROVE  Called(m, n, t, 0, b, c, m.busySince)
<1>1. /\ m.inSystem \in Int /\ m.pinned \in Int /\ m.active \in Int
      /\ n.pinned \in Int /\ n.active \in Int
  BY DEF UpTo, Collector
<1>2. Measured(t, t) = 0
  BY MeasuredIs
<1>3. PinnedAt(n, t) = n.pinnedArea /\ ActiveAt(n, t) = n.activeArea
  <2>1. n.pinned * 0 = 0 /\ n.active * 0 = 0
        /\ n.pinnedArea \in Int /\ n.activeArea \in Int
    BY <1>1 DEF Collector
  <2> QED
    BY <1>2, <2>1 DEF PinnedAt, ActiveAt
<1>4. /\ SystemAt(n, t) = SystemAt(m, t)
      /\ \A d \in Devices : BusyAt(n, t, d) = BusyAt(m, t, d)
  BY DEF SystemAt, BusyAt
<1>5. UpTo(n, t)
  BY DEF UpTo
<1> QED
  BY <1>1, <1>3, <1>4, <1>5 DEF Called

\* A call that only counts something else, or nothing.
LEMMA CountsOnly ==
    ASSUME NEW t \in Nat, NEW m, UpTo(m, t), NEW n \in Collector,
           n.pinnedArea = m.pinnedArea, n.activeArea = m.activeArea,
           n.pinChange = m.pinChange, n.pinned = m.pinned, n.active = m.active,
           n.inSystem = m.inSystem, n.lastChange = m.lastChange,
           n.systemArea = m.systemArea,
           n.busySince = m.busySince, n.busy = m.busy
    PROVE  Called(m, n, t, 0, 0, 0, m.busySince)
<1>1. /\ m.inSystem \in Int /\ m.pinned \in Int /\ m.active \in Int
  BY DEF UpTo, Collector
<1> QED
  BY <1>1 DEF Called, UpTo, SystemAt, PinnedAt, ActiveAt, BusyAt

\* The calls that only count something else.
LEMMA CountingCalls ==
    ASSUME NEW t \in Nat, NEW m, UpTo(m, t), NEW k \in Int
    PROVE  /\ Called(m, m, t, 0, 0, 0, m.busySince) /\ Recorded(m, m, 0, 0)
           /\ LET n == OnTokensDecoded(m, t, k) IN
              Called(m, n, t, 0, 0, 0, m.busySince) /\ Recorded(m, n, 0, 0)
           /\ LET n == OnArrival(m, t) IN
              Called(m, n, t, 0, 0, 0, m.busySince) /\ Recorded(m, n, 0, 0)
<1>1. m \in Collector
  BY DEF UpTo
<1>2. Recorded(m, m, 0, 0) /\ Called(m, m, t, 0, 0, 0, m.busySince)
  <2>1. m.sojourns \in Int /\ m.abandonments \in Int
    BY <1>1 DEF Collector
  <2> QED
    BY <1>1, <2>1, CountsOnly DEF Recorded
<1> DEFINE n == OnTokensDecoded(m, t, k)
<1> DEFINE p == OnArrival(m, t)
<1>3. /\ n \in Collector /\ p \in Collector
      /\ n.pinnedArea = m.pinnedArea /\ n.activeArea = m.activeArea
      /\ n.pinChange = m.pinChange /\ n.pinned = m.pinned /\ n.active = m.active
      /\ n.inSystem = m.inSystem /\ n.lastChange = m.lastChange
      /\ n.systemArea = m.systemArea /\ n.busySince = m.busySince /\ n.busy = m.busy
      /\ n.sojourns = m.sojourns /\ n.abandonments = m.abandonments
  BY <1>1 DEF Collector, OnTokensDecoded, OnArrival
<1>4. /\ p.pinnedArea = m.pinnedArea /\ p.activeArea = m.activeArea
      /\ p.pinChange = m.pinChange /\ p.pinned = m.pinned /\ p.active = m.active
      /\ p.inSystem = m.inSystem /\ p.lastChange = m.lastChange
      /\ p.systemArea = m.systemArea /\ p.busySince = m.busySince /\ p.busy = m.busy
      /\ p.sojourns = m.sojourns /\ p.abandonments = m.abandonments
  BY <1>1 DEF Collector, OnArrival
<1> HIDE DEF n, p
<1>5. Called(m, n, t, 0, 0, 0, m.busySince) /\ Called(m, p, t, 0, 0, 0, m.busySince)
  BY <1>3, <1>4, CountsOnly
<1>6. Recorded(m, n, 0, 0) /\ Recorded(m, p, 0, 0)
  BY <1>2, <1>3, <1>4 DEF Recorded
<1> QED
  BY <1>2, <1>5, <1>6 DEF n, p

\* Adding nothing to a counter.
LEMMA NothingAdded ==
    ASSUME NEW m \in Collector
    PROVE  /\ m.sojourns + 0 = m.sojourns /\ m.abandonments + 0 = m.abandonments
           /\ m.inSystem + 0 = m.inSystem /\ m.inSystem - 1 = m.inSystem + (-1)
           /\ m.pinned + 0 = m.pinned /\ m.active + 0 = m.active
<1>1. /\ m.sojourns \in Int /\ m.abandonments \in Int /\ m.inSystem \in Int
      /\ m.pinned \in Int /\ m.active \in Int
  BY DEF Collector
<1> QED
  BY <1>1

\* A collector with other numbers in it is one.
LEMMA CollectorUpdates ==
    ASSUME NEW m \in Collector, NEW x \in Int, NEW y \in Int, NEW z \in Int
    PROVE  /\ [m EXCEPT !.systemArea = x, !.lastChange = y, !.inSystem = z] \in Collector
           /\ [m EXCEPT !.pinnedArea = x, !.activeArea = y, !.pinChange = z] \in Collector
           /\ [m EXCEPT !.pinned = x] \in Collector
           /\ [m EXCEPT !.active = x] \in Collector
           /\ [m EXCEPT !.abandonments = x] \in Collector
           /\ [m EXCEPT !.completed = x, !.sojourns = y, !.useful = z] \in Collector
<1>1. [m EXCEPT !.systemArea = x, !.lastChange = y, !.inSystem = z] \in Collector
  BY DEF Collector
<1>2. [m EXCEPT !.pinnedArea = x, !.activeArea = y, !.pinChange = z] \in Collector
  BY DEF Collector
<1>3. [m EXCEPT !.pinned = x] \in Collector /\ [m EXCEPT !.active = x] \in Collector
  BY DEF Collector
<1>4. [m EXCEPT !.abandonments = x] \in Collector
  BY DEF Collector
<1>5. [m EXCEPT !.completed = x, !.sojourns = y, !.useful = z] \in Collector
  BY DEF Collector
<1> QED
  BY <1>1, <1>2, <1>3, <1>4, <1>5

\* Its counters are numbers.
LEMMA CounterTypes ==
    ASSUME NEW m \in Collector
    PROVE  /\ m.inSystem \in Int /\ m.pinned \in Int /\ m.active \in Int
           /\ m.abandonments \in Int /\ m.completed \in Int
           /\ m.sojourns \in Int /\ m.useful \in Int
BY DEF Collector

\* An integral brought up to date.
LEMMA IntegralTypes ==
    ASSUME NEW t \in Nat, NEW m, UpTo(m, t)
    PROVE  /\ SystemAt(m, t) \in Int /\ PinnedAt(m, t) \in Int /\ ActiveAt(m, t) \in Int
           /\ \A d \in Devices : BusyAt(m, t, d) \in Int
<1>1. /\ m \in Collector /\ Measured(m.lastChange, t) \in Nat
      /\ Measured(m.pinChange, t) \in Nat
  BY MeasuredIs DEF UpTo
<1>2. ASSUME NEW x \in Int, NEW y \in Int, NEW k \in Nat PROVE x + y * k \in Int
  OBVIOUS
<1>3. /\ m.systemArea \in Int /\ m.inSystem \in Int /\ m.pinnedArea \in Int
      /\ m.pinned \in Int /\ m.activeArea \in Int /\ m.active \in Int
  BY <1>1 DEF Collector
<1>4. ASSUME NEW d \in Devices PROVE BusyAt(m, t, d) \in Int
  <2>1. /\ m.busy[d] \in Int
        /\ m.busySince[d] = NotBusy \/ Measured(m.busySince[d], t) \in Nat
    BY <1>1, MeasuredIs DEF UpTo, Collector
  <2> QED
    BY <2>1 DEF BusyAt
<1> QED
  BY <1>1, <1>2, <1>3, <1>4 DEF SystemAt, PinnedAt, ActiveAt

\* A flow enters the system.
LEMMA AdmitCall ==
    ASSUME NEW t \in Nat, NEW m, UpTo(m, t)
    PROVE  LET n == OnAdmit(m, t) IN
           Called(m, n, t, 1, 0, 0, m.busySince) /\ Recorded(m, n, 0, 0)
<1>1. m \in Collector /\ SystemAt(m, t) \in Int
  BY IntegralTypes DEF UpTo
<1>2. SystemIntegrated(m, t) = [m EXCEPT !.systemArea = SystemAt(m, t), !.lastChange = t]
  BY <1>1 DEF SystemIntegrated, SystemAt, Collector
<1> DEFINE n == OnAdmit(m, t)
<1>3. n = [m EXCEPT !.systemArea = SystemAt(m, t), !.lastChange = t,
                    !.inSystem = @ + 1]
  BY <1>1, <1>2 DEF OnAdmit, Collector
<1>4. n \in Collector
  <2>1. m.inSystem + 1 \in Int /\ t \in Int
    BY <1>1, CounterTypes
  <2>2. n = [m EXCEPT !.systemArea = SystemAt(m, t), !.lastChange = t,
                      !.inSystem = m.inSystem + 1]
    BY <1>3
  <2> HIDE DEF n
  <2> QED
    BY <1>1, <2>1, <2>2, CollectorUpdates
<1>5. /\ n.systemArea = SystemAt(m, t) /\ n.lastChange = t
      /\ n.inSystem = m.inSystem + 1 /\ n.pinned = m.pinned
      /\ n.active = m.active /\ n.pinChange = m.pinChange
      /\ n.pinnedArea = m.pinnedArea /\ n.activeArea = m.activeArea
      /\ n.busySince = m.busySince /\ n.busy = m.busy
      /\ n.sojourns = m.sojourns /\ n.abandonments = m.abandonments
  BY <1>1, <1>3 DEF Collector
<1> HIDE DEF n
<1> QED
  BY <1>1, <1>4, <1>5, NothingAdded, SystemChanges DEF Recorded, n

\* A flow leaves it, at its end or without a budget.
LEMMA LeavingCalls ==
    ASSUME NEW t \in Nat, NEW m, UpTo(m, t), NEW s \in Int, NEW k \in Int
    PROVE  /\ LET n == OnAbandonment(m, t) IN
              Called(m, n, t, -1, 0, 0, m.busySince) /\ Recorded(m, n, 0, 1)
           /\ LET n == OnFlowComplete(m, t, s, k) IN
              /\ Called(m, n, t, -1, 0, 0, m.busySince)
              /\ Recorded(m, n, IF t < Warmup THEN 0 ELSE s, 0)
<1>1. m \in Collector /\ SystemAt(m, t) \in Int
  BY IntegralTypes DEF UpTo
<1>2. SystemIntegrated(m, t) = [m EXCEPT !.systemArea = SystemAt(m, t), !.lastChange = t]
  BY <1>1 DEF SystemIntegrated, SystemAt, Collector
<1> DEFINE n == OnAbandonment(m, t)
<1> DEFINE p == OnFlowComplete(m, t, s, k)
<1> DEFINE gone == [m EXCEPT !.systemArea = SystemAt(m, t), !.lastChange = t,
                             !.inSystem = @ - 1]
<1>3. n = [gone EXCEPT !.abandonments = @ + 1]
  BY <1>1, <1>2 DEF OnAbandonment, Collector
<1>4. p = IF t < Warmup THEN gone
          ELSE [gone EXCEPT !.completed = @ + 1, !.sojourns = @ + s, !.useful = @ + k]
  BY <1>1, <1>2 DEF OnFlowComplete, Collector
<1>5. n \in Collector /\ p \in Collector
  <2>1. m.inSystem - 1 \in Int /\ t \in Int
    BY <1>1, CounterTypes
  <2>2. gone = [m EXCEPT !.systemArea = SystemAt(m, t), !.lastChange = t,
                         !.inSystem = m.inSystem - 1]
    OBVIOUS
  <2> HIDE DEF gone
  <2>3. gone \in Collector
    BY <1>1, <2>1, <2>2, CollectorUpdates
  <2>4. /\ gone.abandonments + 1 \in Int /\ gone.completed + 1 \in Int
        /\ gone.sojourns + s \in Int /\ gone.useful + k \in Int
    BY <2>3, CounterTypes
  <2>5. /\ n = [gone EXCEPT !.abandonments = gone.abandonments + 1]
        /\ p = IF t < Warmup THEN gone
               ELSE [gone EXCEPT !.completed = gone.completed + 1,
                                 !.sojourns = gone.sojourns + s,
                                 !.useful = gone.useful + k]
    BY <1>3, <1>4
  <2> HIDE DEF n, p
  <2> QED
    BY <2>3, <2>4, <2>5, CollectorUpdates
<1>6. /\ n.systemArea = SystemAt(m, t) /\ n.lastChange = t
      /\ n.inSystem = m.inSystem - 1 /\ n.pinned = m.pinned
      /\ n.active = m.active /\ n.pinChange = m.pinChange
      /\ n.pinnedArea = m.pinnedArea /\ n.activeArea = m.activeArea
      /\ n.busySince = m.busySince /\ n.busy = m.busy
      /\ n.sojourns = m.sojourns /\ n.abandonments = m.abandonments + 1
  BY <1>1, <1>3 DEF Collector
<1>7. /\ p.systemArea = SystemAt(m, t) /\ p.lastChange = t
      /\ p.inSystem = m.inSystem - 1 /\ p.pinned = m.pinned
      /\ p.active = m.active /\ p.pinChange = m.pinChange
      /\ p.pinnedArea = m.pinnedArea /\ p.activeArea = m.activeArea
      /\ p.busySince = m.busySince /\ p.busy = m.busy
      /\ p.sojourns = (IF t < Warmup THEN m.sojourns ELSE m.sojourns + s)
      /\ p.abandonments = m.abandonments
  BY <1>1, <1>4 DEF Collector
<1> HIDE DEF n, p, gone
<1>8. Called(m, n, t, -1, 0, 0, m.busySince) /\ Called(m, p, t, -1, 0, 0, m.busySince)
  BY <1>1, <1>5, <1>6, <1>7, NothingAdded, SystemChanges
<1> QED
  BY <1>1, <1>6, <1>7, <1>8, NothingAdded DEF Recorded, n, p

\* A pin is established or given back, an invocation moves into one or out of it.
LEMMA PinCalls ==
    ASSUME NEW t \in Nat, NEW m, UpTo(m, t), NEW k \in Int
    PROVE  /\ LET n == OnPinChange(m, t, k) IN
              Called(m, n, t, 0, k, 0, m.busySince) /\ Recorded(m, n, 0, 0)
           /\ LET n == OnPinActiveChange(m, t, k) IN
              Called(m, n, t, 0, 0, k, m.busySince) /\ Recorded(m, n, 0, 0)
<1>1. m \in Collector /\ PinnedAt(m, t) \in Int /\ ActiveAt(m, t) \in Int
  BY IntegralTypes DEF UpTo
<1> DEFINE i == [m EXCEPT !.pinnedArea = PinnedAt(m, t), !.activeArea = ActiveAt(m, t),
                          !.pinChange = t]
<1>2. PinsIntegrated(m, t) = i
  BY <1>1 DEF PinsIntegrated, PinnedAt, ActiveAt, Collector
<1> DEFINE n == OnPinChange(m, t, k)
<1> DEFINE p == OnPinActiveChange(m, t, k)
<1>3. n = [i EXCEPT !.pinned = @ + k] /\ p = [i EXCEPT !.active = @ + k]
  BY <1>2 DEF OnPinChange, OnPinActiveChange
<1>4. n \in Collector /\ p \in Collector
  <2>1. i \in Collector
    <3> DEFINE a == PinnedAt(m, t)
    <3> DEFINE b == ActiveAt(m, t)
    <3>1. a \in Int /\ b \in Int /\ t \in Int
      BY <1>1
    <3> HIDE DEF a, b
    <3>2. [m EXCEPT !.pinnedArea = a, !.activeArea = b, !.pinChange = t] \in Collector
      BY <1>1, <3>1, CollectorUpdates
    <3> QED
      BY <3>2 DEF a, b
  <2> HIDE DEF i
  <2>2. i.pinned + k \in Int /\ i.active + k \in Int
    BY <2>1, CounterTypes
  <2>3. n = [i EXCEPT !.pinned = i.pinned + k] /\ p = [i EXCEPT !.active = i.active + k]
    BY <1>3
  <2> HIDE DEF n, p
  <2> QED
    BY <2>1, <2>2, <2>3, CollectorUpdates
<1>5. /\ n.pinnedArea = PinnedAt(m, t) /\ n.activeArea = ActiveAt(m, t)
      /\ n.pinChange = t /\ n.pinned = m.pinned + k /\ n.active = m.active
      /\ n.inSystem = m.inSystem /\ n.lastChange = m.lastChange
      /\ n.systemArea = m.systemArea /\ n.busySince = m.busySince /\ n.busy = m.busy
      /\ n.sojourns = m.sojourns /\ n.abandonments = m.abandonments
  BY <1>1, <1>3 DEF Collector
<1>6. /\ p.pinnedArea = PinnedAt(m, t) /\ p.activeArea = ActiveAt(m, t)
      /\ p.pinChange = t /\ p.pinned = m.pinned /\ p.active = m.active + k
      /\ p.inSystem = m.inSystem /\ p.lastChange = m.lastChange
      /\ p.systemArea = m.systemArea /\ p.busySince = m.busySince /\ p.busy = m.busy
      /\ p.sojourns = m.sojourns /\ p.abandonments = m.abandonments
  BY <1>1, <1>3 DEF Collector
<1> HIDE DEF n, p, i
<1>7. Called(m, n, t, 0, k, 0, m.busySince) /\ Called(m, p, t, 0, 0, k, m.busySince)
  BY <1>1, <1>4, <1>5, <1>6, NothingAdded, PinsChange
<1> QED
  BY <1>1, <1>5, <1>6, <1>7, NothingAdded DEF Recorded, n, p

\* A device that was idle starts to be busy, and one that was busy ends.
LEMMA BusyCalls ==
    ASSUME NEW t \in Nat, NEW m, UpTo(m, t), NEW d \in Devices
    PROVE  /\ m.busySince[d] = NotBusy =>
              LET n == OnDeviceBusyStart(m, t, d) IN
              /\ Called(m, n, t, 0, 0, 0, [m.busySince EXCEPT ![d] = t])
              /\ Recorded(m, n, 0, 0)
           /\ LET n == OnDeviceBusyEnd(m, t, d) IN
              /\ Called(m, n, t, 0, 0, 0, [m.busySince EXCEPT ![d] = NotBusy])
              /\ Recorded(m, n, 0, 0)
              /\ n.busy[d] = BusyAt(m, t, d)
<1>0. m \in Collector /\ t # NotBusy /\ Measured(t, t) = 0
  BY MeasuredIs DEF UpTo, NotBusy
<1>6. m.busySince \in [Devices -> Int] /\ m.busy \in [Devices -> Int]
  BY <1>0 DEF Collector
<1>1. /\ m \in Collector /\ t # NotBusy /\ Measured(t, t) = 0
      /\ \A e \in Devices : m.busySince[e] \in {NotBusy} \cup 0..t
      /\ \A e \in Devices : m.busy[e] \in Int /\ BusyAt(m, t, e) \in Int
      /\ m.busySince \in [Devices -> Int] /\ m.busy \in [Devices -> Int]
  BY <1>0, <1>6, IntegralTypes DEF UpTo
<1>2. /\ m.sojourns + 0 = m.sojourns /\ m.abandonments + 0 = m.abandonments
      /\ m.inSystem + 0 = m.inSystem
      /\ m.active + 0 = m.active /\ m.pinned + 0 = m.pinned
  BY <1>1, NothingAdded
\* Whatever changes only when devices are busy since and have been busy.
<1>3. ASSUME NEW B \in [Devices -> {NotBusy} \cup 0..t], NEW C \in [Devices -> Int],
             \A e \in Devices : C[e] + (IF B[e] = NotBusy THEN 0 ELSE Measured(B[e], t))
                                    = BusyAt(m, t, e),
             NEW n, n = [m EXCEPT !.busySince = B, !.busy = C]
      PROVE  /\ Called(m, n, t, 0, 0, 0, B) /\ Recorded(m, n, 0, 0) /\ n.busy = C
  <2>1. B \in [Devices -> Int]
    BY <1>3 DEF NotBusy
  <2>2. /\ n \in Collector /\ n.busySince = B /\ n.busy = C
        /\ n.inSystem = m.inSystem /\ n.lastChange = m.lastChange
        /\ n.systemArea = m.systemArea /\ n.pinned = m.pinned /\ n.active = m.active
        /\ n.pinChange = m.pinChange /\ n.pinnedArea = m.pinnedArea
        /\ n.activeArea = m.activeArea
        /\ n.sojourns = m.sojourns /\ n.abandonments = m.abandonments
    BY <1>1, <1>3, <2>1 DEF Collector
  <2>3. UpTo(n, t)
    BY <1>3, <2>2 DEF UpTo
  <2>4. \A e \in Devices : BusyAt(n, t, e) = BusyAt(m, t, e)
    BY <1>3, <2>2 DEF BusyAt
  <2> QED
    BY <1>2, <2>2, <2>3, <2>4 DEF Called, Recorded, SystemAt, PinnedAt, ActiveAt
<1>4. ASSUME m.busySince[d] = NotBusy
      PROVE  LET n == OnDeviceBusyStart(m, t, d) IN
             /\ Called(m, n, t, 0, 0, 0, [m.busySince EXCEPT ![d] = t])
             /\ Recorded(m, n, 0, 0)
  <2> DEFINE B == [m.busySince EXCEPT ![d] = t]
  <2> DEFINE n == OnDeviceBusyStart(m, t, d)
  <2>1. B \in [Devices -> {NotBusy} \cup 0..t]
    BY <1>1
  <2>2. n = [m EXCEPT !.busySince = B, !.busy = m.busy]
    BY <1>1, <1>4 DEF OnDeviceBusyStart, Collector
  <2>3. ASSUME NEW e \in Devices
        PROVE  m.busy[e] + (IF B[e] = NotBusy THEN 0 ELSE Measured(B[e], t))
                   = BusyAt(m, t, e)
    BY <1>1, <1>4 DEF BusyAt
  <2> HIDE DEF B, n
  <2>4. Called(m, n, t, 0, 0, 0, B) /\ Recorded(m, n, 0, 0)
    BY <1>1, <1>3, <2>1, <2>2, <2>3
  <2> QED
    BY <2>4 DEF B, n
<1>5. LET n == OnDeviceBusyEnd(m, t, d) IN
      /\ Called(m, n, t, 0, 0, 0, [m.busySince EXCEPT ![d] = NotBusy])
      /\ Recorded(m, n, 0, 0) /\ n.busy[d] = BusyAt(m, t, d)
  <2> DEFINE B == [m.busySince EXCEPT ![d] = NotBusy]
  <2> DEFINE C == [m.busy EXCEPT ![d] = BusyAt(m, t, d)]
  <2> DEFINE n == OnDeviceBusyEnd(m, t, d)
  <2>1. B \in [Devices -> {NotBusy} \cup 0..t] /\ C \in [Devices -> Int]
    BY <1>1
  <2>2. n = [m EXCEPT !.busySince = B, !.busy = C]
    <3>1. CASE m.busySince[d] = NotBusy
      <4>1. B = m.busySince /\ C = m.busy
        BY <1>1, <3>1 DEF BusyAt
      <4> QED
        BY <1>1, <3>1, <4>1 DEF OnDeviceBusyEnd, Collector
    <3>2. CASE m.busySince[d] # NotBusy
      <4>1. C = [m.busy EXCEPT ![d] = @ + Measured(m.busySince[d], t)]
        BY <1>1, <3>2 DEF BusyAt
      <4> QED
        BY <1>1, <3>2, <4>1 DEF OnDeviceBusyEnd, Collector
    <3> QED
      BY <3>1, <3>2
  <2>3. ASSUME NEW e \in Devices
        PROVE  C[e] + (IF B[e] = NotBusy THEN 0 ELSE Measured(B[e], t))
                   = BusyAt(m, t, e)
    BY <1>1 DEF BusyAt
  <2>4. C[d] = BusyAt(m, t, d)
    BY <1>1
  <2> HIDE DEF B, C, n
  <2>5. Called(m, n, t, 0, 0, 0, B) /\ Recorded(m, n, 0, 0) /\ n.busy = C
    BY <1>3, <2>1, <2>2, <2>3
  <2> QED
    BY <2>4, <2>5 DEF B, n
<1> QED
  BY <1>4, <1>5

\* finalize reports the integrals as of its time.
LEMMA FinalizedIs ==
    ASSUME NEW t \in Nat, NEW m, UpTo(m, t)
    PROVE  /\ Finalized(m, t).systemArea = SystemAt(m, t)
           /\ Finalized(m, t).pinnedArea = PinnedAt(m, t)
           /\ Finalized(m, t).activeArea = ActiveAt(m, t)
           /\ \A d \in Devices : Finalized(m, t).busy[d] = BusyAt(m, t, d)
<1>1. m \in Collector /\ Monitored = Devices
  BY MonitoredAssumption DEF UpTo
<1>2. \A d \in Devices : OnDeviceBusyEnd(m, t, d).busy[d] = BusyAt(m, t, d)
  BY BusyCalls
<1> DEFINE up == PinsIntegrated(SystemIntegrated(m, t), t)
<1>3. /\ up.systemArea = SystemAt(m, t) /\ up.pinnedArea = PinnedAt(m, t)
      /\ up.activeArea = ActiveAt(m, t)
      /\ DOMAIN up = DOMAIN m
  BY <1>1 DEF Collector, SystemIntegrated, PinsIntegrated, SystemAt, PinnedAt, ActiveAt
<1>4. {"systemArea", "pinnedArea", "activeArea", "busy"} \subseteq DOMAIN m
  BY <1>1 DEF Collector
<1> DEFINE B == [d \in Devices |-> OnDeviceBusyEnd(m, t, d).busy[d]]
<1> DEFINE N == [d \in Devices |-> NotBusy]
<1>5. Finalized(m, t) = [up EXCEPT !.busy = B, !.busySince = N]
  BY <1>1 DEF Finalized
<1> HIDE DEF up, B, N
<1>6. /\ Finalized(m, t).systemArea = up.systemArea
      /\ Finalized(m, t).pinnedArea = up.pinnedArea
      /\ Finalized(m, t).activeArea = up.activeArea
      /\ Finalized(m, t).busy = B
  BY <1>3, <1>4, <1>5
<1> QED
  BY <1>2, <1>3, <1>6 DEF B

-----------------------------------------------------------------------------
(* The counts of the collector follow the run.                             *)

PinnedFlows == {f \in Flows : \E d \in Devices : f \in pins[d]}

\* The counts the integrals are taken of are those of the engine.
Counts ==
    /\ meter.inSystem = Cardinality(InSystem)
    /\ meter.pinned = Cardinality(PinnedFlows)
    /\ meter.active = Cardinality(occupied)
    /\ \A d \in Devices : meter.busySince[d] = NotBusy <=> Resident(d) = {}

\* What a step may assume, and what it does to the collector: no integral as of
\* now changes, s and x are recorded, and the counts follow.
Running == Known /\ BooksInv /\ now \in Nat /\ UpTo(meter, now) /\ Counts
Metered(s, x) ==
    /\ \E a, b, c \in Int : \E B : Called(meter, meter', now, a, b, c, B)
    /\ Recorded(meter, meter', s, x)
    /\ Counts'

\* The steps of a measured run are those of the discipline, or of the clock.
LEMMA RunSteps ==
    ASSUME [RunNext]_<<vars, runVars>> PROVE [Next]_vars
<1>1. CASE MeteredEngine /\ UNCHANGED policyVars
  <2>1. EngineStep \/ AdmitStep
    BY <1>1 DEF MeteredEngine, MeteredArrival, MeteredAdmit, MeteredSchedule,
       MeteredPreempt, UnmeteredStep, MeteredEntry, MeteredIntervalEnd, MeteredStep,
       MeteredCompletion, MeteredAbandonment, EngineStep, TriggerStep, HandlingStep
  <2> QED
    BY <1>1, <2>1 DEF Next
<1>2. CASE PolicyAnswer
  BY <1>2 DEF Next
<1>3. CASE ClockStep \/ UNCHANGED <<vars, runVars>>
  BY <1>3 DEF ClockStep
<1> QED
  BY <1>1, <1>2, <1>3 DEF RunNext

\* The cardinality of a set that one flow joins or leaves.
LEMMA OneMore ==
    ASSUME NEW S \in SUBSET Flows, NEW f \in Flows
    PROVE  /\ Cardinality(S) \in Nat
           /\ Cardinality(S \cup {f}) = Cardinality(S) + IF f \in S THEN 0 ELSE 1
           /\ Cardinality(S \ {f}) = Cardinality(S) + IF f \in S THEN -1 ELSE 0
           /\ f \in S => (Cardinality(S) = 1 <=> S \ {f} = {})
<1>1. IsFiniteSet(S) /\ Cardinality(S) \in Nat
  BY FlowsCounted
<1>2. /\ f \in S => S \cup {f} = S
      /\ f \notin S => S \ {f} = S
  OBVIOUS
<1>3. f \notin S => Cardinality(S \cup {f}) = Cardinality(S) + 1
  BY <1>1, FS_AddElement
<1>4. f \in S => Cardinality(S \ {f}) = Cardinality(S) - 1
  BY <1>1, FS_RemoveElement
<1>5. IsFiniteSet(S \ {f}) /\ Cardinality(S \ {f}) \in Nat
  BY FlowsCounted
<1>6. S \ {f} = {} <=> Cardinality(S \ {f}) = 0
  BY <1>5, FS_EmptySet
<1> QED
  BY <1>1, <1>2, <1>3, <1>4, <1>6

\* The counts after a step, from the change of each.
LEMMA CountsBy ==
    ASSUME UpTo(meter, now), Counts, NEW a \in Int, NEW b \in Int, NEW c \in Int, NEW B,
           Called(meter, meter', now, a, b, c, B),
           Cardinality(InSystem') = Cardinality(InSystem) + a,
           Cardinality(PinnedFlows') = Cardinality(PinnedFlows) + b,
           Cardinality(occupied') = Cardinality(occupied) + c,
           \A d \in Devices : B[d] = NotBusy <=> Resident(d)' = {},
           NEW s, NEW x, Recorded(meter, meter', s, x)
    PROVE  Metered(s, x)
<1>1. Counts'
  BY DEF Counts, Called
<1> QED
  BY <1>1 DEF Metered

\* Sets of flows.
LEMMA CountedSets ==
    ASSUME Known
    PROVE  /\ InSystem \in SUBSET Flows /\ PinnedFlows \in SUBSET Flows
           /\ occupied \in SUBSET Flows
           /\ \A d \in Devices : Resident(d) \in SUBSET Flows
           /\ Cardinality(InSystem) \in Nat /\ Cardinality(PinnedFlows) \in Nat
           /\ Cardinality(occupied) \in Nat
<1>1. admitted \subseteq Flows /\ occupied \subseteq Flows
  BY DEF Known, ReservationInv, EngineInv, EngineTypeOK
<1>2. InSystem \in SUBSET Flows /\ PinnedFlows \in SUBSET Flows /\ occupied \in SUBSET Flows
  BY <1>1 DEF InSystem, PinnedFlows
<1>3. ASSUME NEW S \in SUBSET Flows PROVE Cardinality(S) \in Nat
  BY FlowsCounted
<1> QED
  BY <1>2, <1>3 DEF Resident

\* A step that moves no flow makes no call that counts here.
LEMMA QuietCounts ==
    ASSUME Running, UNCHANGED <<admitted, cursor, pins, occupied, where>>,
           Called(meter, meter', now, 0, 0, 0, meter.busySince),
           Recorded(meter, meter', 0, 0)
    PROVE  Metered(0, 0)
<1>1. /\ InSystem' = InSystem /\ PinnedFlows' = PinnedFlows /\ occupied' = occupied
      /\ \A d \in Devices : Resident(d)' = Resident(d)
  BY DEF InSystem, IsComplete, PinnedFlows, Resident
<1>2. /\ Cardinality(InSystem') = Cardinality(InSystem) + 0
      /\ Cardinality(PinnedFlows') = Cardinality(PinnedFlows) + 0
      /\ Cardinality(occupied') = Cardinality(occupied) + 0
  BY <1>1, CountedSets DEF Running
<1>3. \A d \in Devices : meter.busySince[d] = NotBusy <=> Resident(d)' = {}
  BY <1>1 DEF Running, Counts
<1> QED
  BY <1>2, <1>3, CountsBy DEF Running

\* The arrival of a flow, the end of an entry latency or of a decode interval,
\* and the handlers the collector hears nothing of.
LEMMA QuietMetered ==
    ASSUME Running,
           \/ MeteredArrival \/ UnmeteredStep
           \/ \E t \in timers : MeteredEntry(t)
           \/ \E d \in Devices : MeteredIntervalEnd(d)
           \/ PolicyAnswer /\ meter' = meter
    PROVE  /\ Metered(0, 0) /\ UNCHANGED <<admitted, cursor>>
<1>1. UNCHANGED <<admitted, cursor, pins, occupied, where>>
  BY AnswerFrame DEF MeteredArrival, Arrival, UnmeteredStep, TickTimer, Reoffer, Degrade,
     GapEnd, EntryVoid, DecodeToken, MeteredEntry, EnterDevice, MeteredIntervalEnd,
     IntervalEnd, flowVars, stepVars, deviceVars, timerVars
<1>2. ASSUME NEW d \in Devices
      PROVE  accrued[d] * Cardinality(Decoding(d)) \in Int
  <2>1. accrued[d] \in Nat
    BY DEF Running, Known, ReservationInv, EngineInv, EngineTypeOK
  <2>2. Cardinality(Decoding(d)) \in Nat
    BY FlowsCounted DEF Decoding, Resident
  <2>3. ASSUME NEW x \in Nat, NEW y \in Nat PROVE x * y \in Int
    OBVIOUS
  <2> QED
    BY <2>1, <2>2, <2>3
<1>3. ASSUME NEW d \in Devices, meter' = SettleCall(meter, d)
      PROVE  /\ Called(meter, meter', now, 0, 0, 0, meter.busySince)
             /\ Recorded(meter, meter', 0, 0)
  BY <1>2, <1>3, CountingCalls DEF Running, SettleCall
<1>4. CASE MeteredArrival \/ UnmeteredStep \/ meter' = meter
  BY <1>1, <1>4, CountingCalls, QuietCounts DEF Running, MeteredArrival, UnmeteredStep
<1>5. CASE \E t \in timers : MeteredEntry(t)
  <2>1. PICK t \in timers : MeteredEntry(t)
    BY <1>5
  <2>2. t.dev \in Devices
    BY DEF Running, Known, ReservationInv, EngineInv, EngineTypeOK
  <2> QED
    BY <1>1, <1>3, <2>1, <2>2, QuietCounts DEF MeteredEntry
<1>6. CASE \E d \in Devices : MeteredIntervalEnd(d)
  BY <1>1, <1>3, <1>6, QuietCounts DEF MeteredIntervalEnd
<1> QED
  BY <1>4, <1>5, <1>6

\* A flow is admitted: it is in the system, and holds a pin if it has one.
LEMMA AdmitMetered ==
    ASSUME Running, MeteredAdmit
    PROVE  LET f == Head(stack).flow IN
           /\ Metered(0, 0) /\ f \in Flows /\ f \notin admitted
           /\ admitted' = admitted \cup {f} /\ InSystem' = InSystem \cup {f}
           /\ cursor' = cursor /\ Head(stack).op = "Admit"
<1> DEFINE f == Head(stack).flow
<1> DEFINE d == Head(stack).dev
<1>0. PICK b \in Nat \cup {Unmetered} : AdmitAggregate(b) \/ AdmitReserved(b)
  BY AdmitBudget DEF MeteredAdmit
<1>1. Pending("Admit") /\ f \in Flows /\ d \in 0..NumDevices
  BY <1>0, ActionType
     DEF AdmitAggregate, AdmitReserved, ActionOps, Running, Known, ReservationInv
<1>2. f \notin admitted
  BY <1>1 DEF Pending, Running, Known, ShapeInv, Entries, EntryOps
<1>3. /\ admitted' = admitted \cup {f} /\ UNCHANGED <<cursor, where, occupied>>
      /\ pins' = IF d = NoDevice THEN pins ELSE [pins EXCEPT ![d] = @ \cup {f}]
  BY <1>0 DEF AdmitAggregate, AdmitReserved, deviceVars, timerVars
<1>4. meter' = IF d = NoDevice THEN OnAdmit(meter, now)
               ELSE OnPinChange(OnAdmit(meter, now), now, 1)
  BY DEF MeteredAdmit
<1>5. /\ cursor[f] = 0 /\ Len(Work[f]) \in Nat /\ Len(Work[f]) > 0
      /\ \A e \in Devices : f \notin pins[e]
      /\ \A e \in Devices : pins[e] \subseteq Flows
      /\ pins \in [Devices -> SUBSET Flows]
  <2>1. cursor[f] = 0 /\ ~Reserved(f)
    BY <1>1, <1>2 DEF Running, BooksInv, Untouched, Known, PinsInv, ReservedAdmitted
  <2>2. \A e \in Devices : f \notin pins[e]
    BY <2>1 DEF Running, Known, PinsInv, PinsHome, Reserved, Devices, NoDevice
  <2> QED
    BY <1>1, <2>1, <2>2, WorkType
       DEF Running, Known, ReservationInv, EngineInv, EngineTypeOK
<1>6. Head(stack).op = "Admit"
  BY <1>1 DEF Pending
<1> DEFINE b2 == IF d = NoDevice THEN 0 ELSE 1
<1>7. Called(meter, meter', now, 1, b2, 0, meter.busySince) /\ Recorded(meter, meter', 0, 0)
  <2> DEFINE m == OnAdmit(meter, now)
  <2>1. Called(meter, m, now, 1, 0, 0, meter.busySince) /\ Recorded(meter, m, 0, 0)
    BY AdmitCall DEF Running
  <2>2. UpTo(m, now) /\ m.busySince = meter.busySince
    BY <2>1 DEF Called
  <2> HIDE DEF m
  <2>3. CASE d = NoDevice
    BY <1>4, <2>1, <2>3 DEF m
  <2>4. CASE d # NoDevice
    <3>1. meter' = OnPinChange(m, now, 1)
      BY <1>4, <2>4 DEF m
    <3>2. /\ Called(m, meter', now, 0, 1, 0, meter.busySince)
          /\ Recorded(m, meter', 0, 0)
      BY <2>2, <3>1, PinCalls DEF Running
    <3>3. Called(meter, meter', now, 1 + 0, 0 + 1, 0 + 0, meter.busySince)
      BY <2>1, <3>2, CallsCompose DEF Running
    <3>4. Recorded(meter, meter', 0, 0)
      <4>1. meter.sojourns + 0 = meter.sojourns /\ meter.abandonments + 0 = meter.abandonments
        BY NothingAdded DEF Running, UpTo
      <4> QED
        BY <2>1, <3>2, <4>1 DEF Recorded
    <3> QED
      BY <2>4, <3>3, <3>4
  <2> QED
    BY <2>3, <2>4
<1> HIDE DEF f, d
<1>8. InSystem' = InSystem \cup {f} /\ f \notin InSystem
  BY <1>1, <1>2, <1>3, <1>5 DEF InSystem, IsComplete
<1>9. Cardinality(InSystem') = Cardinality(InSystem) + 1
  BY <1>1, <1>8, CountedSets, OneMore DEF Running
<1>10. Cardinality(PinnedFlows') = Cardinality(PinnedFlows) + b2
  <2>1. CASE d = NoDevice
    <3>1. PinnedFlows' = PinnedFlows
      BY <1>3, <2>1 DEF PinnedFlows
    <3> QED
      BY <2>1, <3>1, CountedSets DEF Running
  <2>2. CASE d # NoDevice
    <3>1. d \in Devices
      BY <1>1, <2>2, SizesAssumption DEF Devices, NoDevice
    <3>2. \A e \in Devices : pins'[e] = IF e = d THEN pins[e] \cup {f} ELSE pins[e]
      BY <1>3, <1>5, <2>2
    <3>3. PinnedFlows' = PinnedFlows \cup {f} /\ f \notin PinnedFlows
      BY <1>1, <1>5, <3>1, <3>2 DEF PinnedFlows
    <3> QED
      BY <1>1, <2>2, <3>3, CountedSets, OneMore DEF Running
  <2> QED
    BY <2>1, <2>2
<1>11. Cardinality(occupied') = Cardinality(occupied) + 0
  BY <1>3, CountedSets DEF Running
<1>12. \A e \in Devices : meter.busySince[e] = NotBusy <=> Resident(e)' = {}
  BY <1>3 DEF Running, Counts, Resident
<1>13. Metered(0, 0)
  BY <1>7, <1>9, <1>10, <1>11, <1>12, CountsBy DEF Running
<1> QED
  BY <1>1, <1>2, <1>3, <1>6, <1>8, <1>13 DEF f

\* Recording nothing, call after call.
LEMMA RecordedCompose ==
    ASSUME NEW t, NEW m, UpTo(m, t), NEW n, NEW p, NEW s \in Int, NEW x \in Int,
           Recorded(m, n, 0, 0), Recorded(n, p, s, x)
    PROVE  Recorded(m, p, s, x)
<1>1. m.sojourns + 0 = m.sojourns /\ m.abandonments + 0 = m.abandonments
  BY NothingAdded DEF UpTo
<1> QED
  BY <1>1 DEF Recorded

\* An invocation moves onto a device: the device is busy, and its flow's pin, if
\* it has one, is in use.
LEMMA ScheduleMetered ==
    ASSUME Running, OccupiedExact, MeteredSchedule
    PROVE  Metered(0, 0) /\ UNCHANGED <<admitted, cursor>>
<1> DEFINE f == Head(stack).flow
<1> DEFINE d == Head(stack).dev
<1>1. /\ f \in Flows /\ UNCHANGED <<admitted, cursor, pins>>
      /\ where' = [where EXCEPT ![f] = d] /\ Schedulable(f, d)
      /\ occupied' = IF Reserved(f) THEN occupied \cup {f} ELSE occupied
  BY ActionType DEF MeteredSchedule, Schedule, ActionOps, flowVars, Running, Known,
     ReservationInv
<1>2. /\ d \in Devices /\ where[f] = NoDevice /\ where \in [Flows -> 0..NumDevices]
  BY <1>1 DEF Schedulable, Running, Known, ReservationInv, EngineInv, EngineTypeOK,
     ResidentIsPlaced
<1>3. meter' = OccupyCall(IF Resident(d) = {} THEN OnDeviceBusyStart(meter, now, d)
                          ELSE meter, f)
  BY DEF MeteredSchedule
<1> HIDE DEF f, d
<1> DEFINE m == IF Resident(d) = {} THEN OnDeviceBusyStart(meter, now, d) ELSE meter
<1> DEFINE B == IF Resident(d) = {} THEN [meter.busySince EXCEPT ![d] = now]
                                    ELSE meter.busySince
<1> DEFINE c == IF Reserved(f) /\ f \notin occupied THEN 1 ELSE 0
<1>4. Called(meter, m, now, 0, 0, 0, B) /\ Recorded(meter, m, 0, 0)
  <2>1. CASE Resident(d) = {}
    <3>1. meter.busySince[d] = NotBusy
      BY <1>2, <2>1 DEF Running, Counts
    <3>2. m = OnDeviceBusyStart(meter, now, d) /\ B = [meter.busySince EXCEPT ![d] = now]
      BY <2>1
    <3> HIDE DEF m, B
    <3> QED
      BY <1>2, <3>1, <3>2, BusyCalls DEF Running
  <2>2. CASE Resident(d) # {}
    <3>1. m = meter /\ B = meter.busySince
      BY <2>2
    <3> HIDE DEF m, B
    <3> QED
      BY <3>1, CountingCalls DEF Running
  <2> QED
    BY <2>1, <2>2
<1>5. Called(meter, meter', now, 0, 0, c, B) /\ Recorded(meter, meter', 0, 0)
  <2>1. UpTo(m, now) /\ m.busySince = B
    BY <1>4 DEF Called
  <2>2. meter' = IF Reserved(f) /\ f \notin occupied
                 THEN OnPinActiveChange(m, now, 1) ELSE m
    BY <1>3 DEF OccupyCall
  <2> HIDE DEF m, B
  <2>3. Called(m, meter', now, 0, 0, c, B) /\ Recorded(m, meter', 0, 0)
    BY <2>1, <2>2, PinCalls, CountingCalls DEF Running
  <2>4. Called(meter, meter', now, 0 + 0, 0 + 0, 0 + c, B)
    BY <1>4, <2>3, CallsCompose DEF Running
  <2> QED
    BY <1>4, <2>3, <2>4, RecordedCompose DEF Running
<1>6. /\ InSystem' = InSystem /\ PinnedFlows' = PinnedFlows
      /\ Cardinality(InSystem') = Cardinality(InSystem) + 0
      /\ Cardinality(PinnedFlows') = Cardinality(PinnedFlows) + 0
  <2>1. InSystem' = InSystem /\ PinnedFlows' = PinnedFlows
    BY <1>1 DEF InSystem, IsComplete, PinnedFlows
  <2> QED
    BY <2>1, CountedSets DEF Running
<1>7. Cardinality(occupied') = Cardinality(occupied) + c
  <2>1. CASE Reserved(f)
    BY <1>1, <2>1, CountedSets, OneMore DEF Running
  <2>2. CASE ~Reserved(f)
    BY <1>1, <2>2, CountedSets DEF Running
  <2> QED
    BY <2>1, <2>2
<1>8. ASSUME NEW e \in Devices PROVE B[e] = NotBusy <=> Resident(e)' = {}
  <2>1. meter.busySince \in [Devices -> Int] /\ now # NotBusy
        /\ (meter.busySince[e] = NotBusy <=> Resident(e) = {})
    BY DEF Running, Counts, UpTo, Collector, NotBusy
  <2>2. CASE e = d
    <3>1. f \in Resident(e)'
      BY <1>1, <1>2, <2>2 DEF Resident
    <3>2. B[e] # NotBusy
      BY <1>2, <2>1, <2>2
    <3> QED
      BY <3>1, <3>2
  <2>3. CASE e # d
    <3>1. Resident(e)' = Resident(e)
      BY <1>1, <1>2, <2>3 DEF Resident, Devices, NoDevice
    <3>2. B[e] = meter.busySince[e]
      BY <1>2, <2>1, <2>3
    <3> QED
      BY <2>1, <3>1, <3>2
  <2> QED
    BY <2>2, <2>3
<1> HIDE DEF B, c, m
<1>9. c \in Int
  BY DEF c
<1>10. Metered(0, 0)
  BY <1>5, <1>6, <1>7, <1>8, <1>9, CountsBy DEF Running
<1> QED
  BY <1>1, <1>10

\* The collector n after the calls about a departure.
Departed(n) ==
    \E c \in Int : \E B :
        /\ Called(meter, n, now, 0, 0, c, B) /\ Recorded(meter, n, 0, 0)
        /\ Cardinality(occupied') = Cardinality(occupied) + c
        /\ \A e \in Devices : B[e] = NotBusy <=> Resident(e)' = {}

\* The calls about a departure from device d: its busy interval ends with its
\* last resident, and the flow's pin is no longer in use.
LEMMA DepartureCalls ==
    ASSUME Running, NEW f \in Flows, NEW d \in Devices, where[f] = d,
           NEW m, Called(meter, m, now, 0, 0, 0, meter.busySince),
           Recorded(meter, m, 0, 0),
           NEW n, n = VacateCall(EndBusyCall(m, d), f),
           where' = [where EXCEPT ![f] = NoDevice], occupied' = Vacated(f)
    PROVE  Departed(n)
<1> DEFINE k == EndBusyCall(m, d)
<1> DEFINE B == IF Cardinality(Resident(d)) = 1
                THEN [meter.busySince EXCEPT ![d] = NotBusy] ELSE meter.busySince
<1> DEFINE c == IF f \in occupied THEN -1 ELSE 0
<1>1. UpTo(m, now) /\ m.busySince = meter.busySince
  BY DEF Called
<1>2. Called(m, k, now, 0, 0, 0, B) /\ Recorded(m, k, 0, 0)
  <2>1. CASE Cardinality(Resident(d)) = 1
    <3>1. k = OnDeviceBusyEnd(m, now, d) /\ B = [m.busySince EXCEPT ![d] = NotBusy]
      BY <1>1, <2>1 DEF EndBusyCall
    <3> HIDE DEF k, B
    <3> QED
      BY <1>1, <3>1, BusyCalls DEF Running
  <2>2. CASE Cardinality(Resident(d)) # 1
    <3>1. k = m /\ B = m.busySince
      BY <1>1, <2>2 DEF EndBusyCall
    <3> HIDE DEF k, B
    <3> QED
      BY <1>1, <3>1, CountingCalls DEF Running
  <2> QED
    BY <2>1, <2>2
<1>3. UpTo(k, now) /\ k.busySince = B
  BY <1>2 DEF Called
<1>4. Called(k, n, now, 0, 0, c, B) /\ Recorded(k, n, 0, 0)
  <2>1. n = IF f \in occupied THEN OnPinActiveChange(k, now, -1) ELSE k
    BY DEF VacateCall
  <2> HIDE DEF k, B
  <2> QED
    BY <1>3, <2>1, PinCalls, CountingCalls DEF Running
<1>5. Called(meter, n, now, 0, 0, c, B) /\ Recorded(meter, n, 0, 0)
  <2> HIDE DEF k, B
  <2>1. Called(meter, k, now, 0 + 0, 0 + 0, 0 + 0, B)
    BY <1>2, CallsCompose DEF Running
  <2>2. Called(meter, n, now, 0 + 0, 0 + 0, 0 + c, B)
    BY <1>4, <2>1, CallsCompose DEF Running
  <2>3. Recorded(meter, k, 0, 0)
    BY <1>2, RecordedCompose DEF Running
  <2>4. Recorded(meter, n, 0, 0)
    BY <1>4, <2>3, RecordedCompose DEF Running
  <2> QED
    BY <2>2, <2>4
<1>6. Cardinality(occupied') = Cardinality(occupied) + c
  BY CountedSets, OneMore DEF Running, Vacated
<1>7. ASSUME NEW e \in Devices PROVE B[e] = NotBusy <=> Resident(e)' = {}
  <2>1. /\ meter.busySince \in [Devices -> Int]
        /\ (meter.busySince[e] = NotBusy <=> Resident(e) = {})
        /\ where \in [Flows -> 0..NumDevices]
    BY DEF Running, Counts, UpTo, Collector, Known, ReservationInv, EngineInv,
       EngineTypeOK
  <2>2. CASE e = d
    <3>1. f \in Resident(d) /\ Resident(d)' = Resident(d) \ {f}
      BY <2>1 DEF Resident, Devices, NoDevice
    <3>2. Cardinality(Resident(d)) = 1 <=> Resident(d) \ {f} = {}
      BY <3>1, CountedSets, OneMore DEF Running
    <3>3. CASE Cardinality(Resident(d)) = 1
      BY <2>1, <2>2, <3>1, <3>2, <3>3
    <3>4. CASE Cardinality(Resident(d)) # 1
      BY <2>1, <2>2, <3>1, <3>2, <3>4
    <3> QED
      BY <3>3, <3>4
  <2>3. CASE e # d
    <3>1. Resident(e)' = Resident(e)
      BY <2>1, <2>3 DEF Resident, Devices, NoDevice
    <3>2. B[e] = meter.busySince[e]
      BY <2>1, <2>3
    <3> QED
      BY <2>1, <3>1, <3>2
  <2> QED
    BY <2>2, <2>3
<1> HIDE DEF B, c, k
<1>8. c \in Int
  BY DEF c
<1> QED
  BY <1>5, <1>6, <1>7, <1>8 DEF Departed

\* A preemption takes an invocation off its device.
LEMMA PreemptMetered ==
    ASSUME Running, MeteredPreempt
    PROVE  Metered(0, 0) /\ UNCHANGED <<admitted, cursor>>
<1> DEFINE f == Head(stack).flow
<1> DEFINE d == where[f]
<1>1. /\ f \in Flows /\ UNCHANGED <<admitted, cursor, pins>>
      /\ where' = [where EXCEPT ![f] = NoDevice] /\ occupied' = Vacated(f)
      /\ phase[f] \in {"PREFILL", "DECODE"}
  BY ActionType DEF MeteredPreempt, Preempt, Preemptible, ActionOps, flowVars, Running,
     Known, ReservationInv
<1>2. d \in Devices
  <2>1. d \in 0..NumDevices /\ d # NoDevice
    BY <1>1 DEF Running, Known, ReservationInv, EngineInv, EngineTypeOK, ResidentIsPlaced
  <2> QED
    BY <2>1, SizesAssumption DEF Devices, NoDevice
<1> DEFINE m == IF phase[f] = "DECODE" THEN SettleCall(meter, d) ELSE meter
<1>3. Called(meter, m, now, 0, 0, 0, meter.busySince) /\ Recorded(meter, m, 0, 0)
  <2>1. accrued[d] * Cardinality(Decoding(d)) \in Int
    <3>1. accrued[d] \in Nat /\ Cardinality(Decoding(d)) \in Nat
      BY <1>2, FlowsCounted
         DEF Running, Known, ReservationInv, EngineInv, EngineTypeOK, Decoding, Resident
    <3>2. ASSUME NEW x \in Nat, NEW y \in Nat PROVE x * y \in Int
      OBVIOUS
    <3> QED
      BY <3>1, <3>2
  <2> QED
    BY <2>1, CountingCalls DEF Running, SettleCall
<1>4. meter' = VacateCall(EndBusyCall(m, d), f)
  BY DEF MeteredPreempt
<1> HIDE DEF f, m
<1>5. Departed(meter')
  BY <1>1, <1>2, <1>3, <1>4, DepartureCalls
<1>6. /\ Cardinality(InSystem') = Cardinality(InSystem) + 0
      /\ Cardinality(PinnedFlows') = Cardinality(PinnedFlows) + 0
  <2>1. InSystem' = InSystem /\ PinnedFlows' = PinnedFlows
    BY <1>1 DEF InSystem, IsComplete, PinnedFlows
  <2> QED
    BY <2>1, CountedSets DEF Running
<1>7. Metered(0, 0)
  BY <1>5, <1>6, CountsBy DEF Running, Departed
<1> QED
  BY <1>1, <1>7

\* An invocation ends on device d: it was there, and its flow was not over.
LEMMA EndsHere ==
    ASSUME Running, NEW f \in Flows, NEW d \in Devices,
           \/ CompleteFlow(f, d) \/ CompleteIntoGap(f, d)
           \/ CompleteIntoNext(f, d) \/ AbandonFlow(f, d),
           UNCHANGED policyVars
    PROVE  /\ where[f] = d /\ where' = [where EXCEPT ![f] = NoDevice]
           /\ occupied' = Vacated(f) /\ admitted' = admitted
           /\ f \in InSystem /\ Len(Work[f]) \in Nat /\ cursor' \in [Flows -> Nat]
           /\ cursor'[f] <= Len(Work[f])
           /\ \A g \in Flows \ {f} : cursor'[g] = cursor[g]
           /\ InSystem' = IF cursor'[f] = Len(Work[f]) THEN InSystem \ {f} ELSE InSystem
<1>1. Completion(f, d)
  BY Completions DEF Running
<1>2. /\ where' = [where EXCEPT ![f] = NoDevice] /\ admitted' = admitted
      /\ \A g \in Flows \ {f} : cursor'[g] = cursor[g]
      /\ Stop(f, d) \in finished \cup exhausted
      /\ cursor'[f] = Len(Work[f]) \/ cursor'[f] < Len(Work[f])
  BY <1>1 DEF Completion
<1>3. occupied' = Vacated(f) /\ cursor' = [cursor EXCEPT ![f] = cursor'[f]]
  BY DEF CompleteFlow, CompleteIntoGap, CompleteIntoNext, AbandonFlow, Advance, Leave,
     Running, Known, ReservationInv, EngineInv, EngineTypeOK
<1>4. /\ where[f] = d /\ f \in admitted /\ cursor[f] < Len(Work[f])
      /\ Len(Work[f]) \in Nat /\ cursor \in [Flows -> Nat] /\ admitted \subseteq Flows
  <2>1. Stop(f, d).flow = f /\ Stop(f, d).dev = d
    BY DEF Stop
  <2>2. where[f] = d
    BY <1>2, <2>1 DEF Running, BooksInv, HomesInv
  <2>3. f \in admitted
    BY <1>2, <2>1 DEF Running, Known, KnownInv, KnownAdmitted
  <2>4. cursor[f] < Len(Work[f])
    BY <1>2, <2>1 DEF Running, Known, ReservationInv, EngineInv, StopsOpen
  <2> QED
    BY <2>2, <2>3, <2>4, WorkType
       DEF Running, Known, ReservationInv, EngineInv, EngineTypeOK
<1>5. f \in InSystem
  BY <1>4 DEF InSystem, IsComplete
<1>6. cursor'[f] \in Nat
  <2>1. CASE cursor'[f] = Len(Work[f])
    BY <1>4, <2>1
  <2>2. CASE cursor'[f] # Len(Work[f])
    BY <1>1, <1>4, <2>2 DEF Completion
  <2> QED
    BY <2>1, <2>2
<1>7. InSystem' = IF cursor'[f] = Len(Work[f]) THEN InSystem \ {f} ELSE InSystem
  <2>1. ASSUME NEW g \in admitted, g # f
        PROVE  g \in InSystem' <=> g \in InSystem
    BY <1>2, <1>4, <2>1 DEF InSystem, IsComplete
  <2>2. f \in InSystem' <=> cursor'[f] # Len(Work[f])
    BY <1>2, <1>4, <1>6 DEF InSystem, IsComplete
  <2>3. InSystem' \subseteq admitted /\ InSystem \subseteq admitted
    BY <1>2 DEF InSystem
  <2> QED
    BY <1>5, <2>1, <2>2, <2>3
<1> QED
  BY <1>2, <1>3, <1>4, <1>5, <1>6, <1>7

\* An invocation ends and the flow goes on.
LEMMA StepMetered ==
    ASSUME Running, NEW f \in Flows, NEW d \in Devices, MeteredStep(f, d),
           UNCHANGED policyVars
    PROVE  Metered(0, 0) /\ InSystem' = InSystem /\ admitted' = admitted
<1>1. /\ where[f] = d /\ where' = [where EXCEPT ![f] = NoDevice]
      /\ occupied' = Vacated(f) /\ admitted' = admitted
      /\ InSystem' = IF cursor'[f] = Len(Work[f]) THEN InSystem \ {f} ELSE InSystem
  BY EndsHere DEF MeteredStep
<1>2. cursor'[f] # Len(Work[f])
  <2>1. /\ cursor'[f] = cursor[f] + 1 /\ cursor[f] + 1 # Len(Work[f])
    BY DEF MeteredStep, CompleteIntoGap, CompleteIntoNext, Advance, Leave, IsLastStep,
       Step, Running, Known, ReservationInv, EngineInv, EngineTypeOK
  <2> QED
    BY <2>1
<1>3. pins' = pins
  BY DEF MeteredStep, CompleteIntoGap, CompleteIntoNext, HoldAcrossGap
<1>4. meter' = VacateCall(EndBusyCall(meter, d), f)
  BY DEF MeteredStep
<1>5. /\ Called(meter, meter, now, 0, 0, 0, meter.busySince)
      /\ Recorded(meter, meter, 0, 0)
  BY CountingCalls DEF Running
<1>6. Departed(meter')
  BY <1>1, <1>4, <1>5, DepartureCalls
<1>7. /\ Cardinality(InSystem') = Cardinality(InSystem) + 0
      /\ Cardinality(PinnedFlows') = Cardinality(PinnedFlows) + 0
  <2>1. PinnedFlows' = PinnedFlows
    BY <1>3 DEF PinnedFlows
  <2> QED
    BY <1>1, <1>2, <2>1, CountedSets DEF Running
<1>8. Metered(0, 0)
  BY <1>6, <1>7, CountsBy DEF Running, Departed
<1> QED
  BY <1>1, <1>2, <1>8

\* The calls about the end of a flow, up to those that record it.
LEMMA EndCalls ==
    ASSUME Running, NEW f \in Flows, NEW d \in Devices,
           CompleteFlow(f, d) \/ AbandonFlow(f, d), UNCHANGED policyVars,
           NEW k, k = UnpinCall(VacateCall(EndBusyCall(meter, d), f), f)
    PROVE  /\ admitted' = admitted /\ f \in InSystem /\ InSystem' = InSystem \ {f}
           /\ Cardinality(InSystem') = Cardinality(InSystem) + (-1)
           /\ \E b, c \in Int : \E B :
                  /\ Called(meter, k, now, 0, b, c, B) /\ Recorded(meter, k, 0, 0)
                  /\ Cardinality(PinnedFlows') = Cardinality(PinnedFlows) + b
                  /\ Cardinality(occupied') = Cardinality(occupied) + c
                  /\ \A e \in Devices : B[e] = NotBusy <=> Resident(e)' = {}
<1>1. /\ where[f] = d /\ where' = [where EXCEPT ![f] = NoDevice]
      /\ occupied' = Vacated(f) /\ admitted' = admitted
      /\ f \in InSystem /\ Len(Work[f]) \in Nat
      /\ InSystem' = IF cursor'[f] = Len(Work[f]) THEN InSystem \ {f} ELSE InSystem
  BY EndsHere
<1>2. cursor'[f] = Len(Work[f])
  <2>1. cursor \in [Flows -> Nat] /\ cursor[f] \in Nat
    BY DEF Running, Known, ReservationInv, EngineInv, EngineTypeOK
  <2>2. \/ cursor'[f] = cursor[f] + 1 /\ cursor[f] + 1 = Len(Work[f])
        \/ cursor'[f] = cursor[f] + (Len(Work[f]) - cursor[f])
    BY <2>1 DEF CompleteFlow, AbandonFlow, Leave, IsLastStep, Step
  <2> QED
    BY <1>1, <2>1, <2>2
<1>3. Cardinality(InSystem') = Cardinality(InSystem) + (-1) /\ InSystem' = InSystem \ {f}
  BY <1>1, <1>2, CountedSets, OneMore DEF Running
<1> DEFINE n == VacateCall(EndBusyCall(meter, d), f)
<1>4. /\ Called(meter, meter, now, 0, 0, 0, meter.busySince)
      /\ Recorded(meter, meter, 0, 0)
  BY CountingCalls DEF Running
<1>5. Departed(n)
  <2> HIDE DEF n
  <2> QED
    BY <1>1, <1>4, DepartureCalls DEF n
<1>6. PICK c \in Int : \E B :
          /\ Called(meter, n, now, 0, 0, c, B) /\ Recorded(meter, n, 0, 0)
          /\ Cardinality(occupied') = Cardinality(occupied) + c
          /\ \A e \in Devices : B[e] = NotBusy <=> Resident(e)' = {}
  BY <1>5 DEF Departed
<1>7. PICK B :
          /\ Called(meter, n, now, 0, 0, c, B) /\ Recorded(meter, n, 0, 0)
          /\ Cardinality(occupied') = Cardinality(occupied) + c
          /\ \A e \in Devices : B[e] = NotBusy <=> Resident(e)' = {}
  BY <1>6
<1> DEFINE b == IF Reserved(f) THEN -1 ELSE 0
<1>8. Called(meter, k, now, 0, b, c, B) /\ Recorded(meter, k, 0, 0)
  <2>1. UpTo(n, now) /\ n.busySince = B
    BY <1>7 DEF Called
  <2>2. k = IF Reserved(f) THEN OnPinChange(n, now, -1) ELSE n
    BY DEF UnpinCall
  <2> HIDE DEF n
  <2>3. Called(n, k, now, 0, b, 0, B) /\ Recorded(n, k, 0, 0)
    BY <2>1, <2>2, PinCalls, CountingCalls DEF Running
  <2>4. Called(meter, k, now, 0 + 0, 0 + b, c + 0, B)
    BY <1>7, <2>3, CallsCompose DEF Running
  <2> QED
    BY <1>7, <2>3, <2>4, RecordedCompose DEF Running
<1>9. Cardinality(PinnedFlows') = Cardinality(PinnedFlows) + b
  <2>1. \A e \in Devices : pins'[e] = IF e = pinDev[f] THEN pins[e] \ {f} ELSE pins[e]
    BY DEF CompleteFlow, AbandonFlow, ReleasePin
  <2>2. \A e \in Devices : f \in pins[e] => pinDev[f] = e
    BY DEF Running, Known, PinsInv, PinsHome
  <2>3. CASE Reserved(f)
    <3>1. pinDev[f] \in Devices
      BY <2>3, SizesAssumption DEF Reserved, Devices, NoDevice, Running, Known,
         ReservationInv, EngineInv, EngineTypeOK
    <3>2. cursor[f] < Len(Work[f])
      BY <1>1 DEF InSystem, IsComplete, Running, Known, ReservationInv, EngineInv,
         EngineTypeOK
    <3>3. f \in pins[pinDev[f]]
      BY <2>3, <3>2 DEF Running, BooksInv, PinsLive
    <3>4. f \in PinnedFlows /\ PinnedFlows' = PinnedFlows \ {f}
      BY <2>1, <2>2, <3>1, <3>3 DEF PinnedFlows
    <3> QED
      BY <2>3, <3>4, CountedSets, OneMore DEF Running
  <2>4. CASE ~Reserved(f)
    <3>0. \A e \in Devices : e # pinDev[f]
      BY <2>4 DEF Reserved, Devices, NoDevice
    <3>1. \A e \in Devices : pins'[e] = pins[e]
      BY <2>1, <3>0
    <3>2. PinnedFlows' = PinnedFlows
      BY <3>1 DEF PinnedFlows
    <3> QED
      BY <2>4, <3>2, CountedSets DEF Running
  <2> QED
    BY <2>3, <2>4
<1> HIDE DEF b, n
<1>10. b \in Int
  BY DEF b
<1> QED
  BY <1>1, <1>3, <1>7, <1>8, <1>9, <1>10

\* A flow completes: its sojourn is recorded, if the window has begun.
LEMMA CompletionMetered ==
    ASSUME Running, NEW f \in Flows, NEW d \in Devices, MeteredCompletion(f, d),
           UNCHANGED policyVars, born \in [Flows -> Nat]
    PROVE  /\ Metered(IF now < Warmup THEN 0 ELSE now - born[f], 0)
           /\ admitted' = admitted /\ f \in InSystem /\ InSystem' = InSystem \ {f}
<1> DEFINE k == UnpinCall(VacateCall(EndBusyCall(meter, d), f), f)
<1> DEFINE s == now - born[f]
<1> DEFINE o == TotalOutput(f)
<1>1. meter' = OnFlowComplete(k, now, s, o) /\ CompleteFlow(f, d)
  BY DEF MeteredCompletion
<1>2. s \in Int /\ o \in Int
  <2>1. IsFiniteSet(Steps(f)) /\ \A i \in Steps(f) : output[f][i] \in Nat
    <3>1. IsFiniteSet(Steps(f))
      BY WorkType, FS_Interval DEF Steps
    <3>2. output[f] \in [Steps(f) -> Nat]
      BY DEF Running, Known, ReservationInv, EngineInv, EngineTypeOK
    <3> QED
      BY <3>1, <3>2
  <2>2. o \in Nat
    BY <2>1, TotalType DEF TotalOutput
  <2>3. s \in Int
    BY DEF Running
  <2> QED
    BY <2>2, <2>3
<1> HIDE DEF k, s, o
<1>3. /\ admitted' = admitted /\ f \in InSystem /\ InSystem' = InSystem \ {f}
      /\ Cardinality(InSystem') = Cardinality(InSystem) + (-1)
      /\ \E b, c \in Int : \E B :
             /\ Called(meter, k, now, 0, b, c, B) /\ Recorded(meter, k, 0, 0)
             /\ Cardinality(PinnedFlows') = Cardinality(PinnedFlows) + b
             /\ Cardinality(occupied') = Cardinality(occupied) + c
             /\ \A e \in Devices : B[e] = NotBusy <=> Resident(e)' = {}
  BY <1>1, EndCalls DEF k
<1>4. PICK b \in Int, c \in Int : \E B :
             /\ Called(meter, k, now, 0, b, c, B) /\ Recorded(meter, k, 0, 0)
             /\ Cardinality(PinnedFlows') = Cardinality(PinnedFlows) + b
             /\ Cardinality(occupied') = Cardinality(occupied) + c
             /\ \A e \in Devices : B[e] = NotBusy <=> Resident(e)' = {}
  BY <1>3
<1>5. PICK B :
             /\ Called(meter, k, now, 0, b, c, B) /\ Recorded(meter, k, 0, 0)
             /\ Cardinality(PinnedFlows') = Cardinality(PinnedFlows) + b
             /\ Cardinality(occupied') = Cardinality(occupied) + c
             /\ \A e \in Devices : B[e] = NotBusy <=> Resident(e)' = {}
  BY <1>4
<1>6. UpTo(k, now) /\ k.busySince = B
  BY <1>5 DEF Called
<1> DEFINE r == IF now < Warmup THEN 0 ELSE s
<1>7. Called(k, meter', now, -1, 0, 0, B) /\ Recorded(k, meter', r, 0)
  BY <1>1, <1>2, <1>6, LeavingCalls DEF Running
<1>8. r \in Int
  BY <1>2
<1> HIDE DEF r
<1>9. /\ Called(meter, meter', now, 0 + (-1), b + 0, c + 0, B)
      /\ Recorded(meter, meter', r, 0)
  BY <1>5, <1>7, <1>8, CallsCompose, RecordedCompose DEF Running
<1>10. Called(meter, meter', now, -1, b, c, B)
  BY <1>9
<1>11. Metered(r, 0)
  <2>1. PICK q \in Int : q = r
    BY <1>8
  <2>2. Recorded(meter, meter', q, 0)
    BY <1>9, <2>1
  <2>3. /\ Cardinality(InSystem') = Cardinality(InSystem) + (-1)
        /\ Cardinality(PinnedFlows') = Cardinality(PinnedFlows) + b
        /\ Cardinality(occupied') = Cardinality(occupied) + c
        /\ \A e \in Devices : B[e] = NotBusy <=> Resident(e)' = {}
    BY <1>3, <1>5
  <2>4. UpTo(meter, now) /\ Counts /\ -1 \in Int
    BY DEF Running
  <2>5. Metered(q, 0)
    BY ONLY b \in Int, c \in Int, <1>10, <2>2, <2>3, <2>4, CountsBy
  <2> QED
    BY <2>1, <2>5 DEF Metered
<1> QED
  BY <1>3, <1>11 DEF r, s

\* A flow is abandoned: nothing but that is recorded.
LEMMA AbandonmentMetered ==
    ASSUME Running, NEW f \in Flows, NEW d \in Devices, MeteredAbandonment(f, d),
           UNCHANGED policyVars
    PROVE  /\ Metered(0, 1)
           /\ admitted' = admitted /\ InSystem' = InSystem \ {f}
<1> DEFINE k == UnpinCall(VacateCall(EndBusyCall(meter, d), f), f)
<1>1. meter' = OnAbandonment(k, now) /\ AbandonFlow(f, d)
  BY DEF MeteredAbandonment
<1> HIDE DEF k
<1>3. /\ admitted' = admitted /\ f \in InSystem /\ InSystem' = InSystem \ {f}
      /\ Cardinality(InSystem') = Cardinality(InSystem) + (-1)
      /\ \E b, c \in Int : \E B :
             /\ Called(meter, k, now, 0, b, c, B) /\ Recorded(meter, k, 0, 0)
             /\ Cardinality(PinnedFlows') = Cardinality(PinnedFlows) + b
             /\ Cardinality(occupied') = Cardinality(occupied) + c
             /\ \A e \in Devices : B[e] = NotBusy <=> Resident(e)' = {}
  BY <1>1, EndCalls DEF k
<1>4. PICK b \in Int, c \in Int : \E B :
             /\ Called(meter, k, now, 0, b, c, B) /\ Recorded(meter, k, 0, 0)
             /\ Cardinality(PinnedFlows') = Cardinality(PinnedFlows) + b
             /\ Cardinality(occupied') = Cardinality(occupied) + c
             /\ \A e \in Devices : B[e] = NotBusy <=> Resident(e)' = {}
  BY <1>3
<1>5. PICK B :
             /\ Called(meter, k, now, 0, b, c, B) /\ Recorded(meter, k, 0, 0)
             /\ Cardinality(PinnedFlows') = Cardinality(PinnedFlows) + b
             /\ Cardinality(occupied') = Cardinality(occupied) + c
             /\ \A e \in Devices : B[e] = NotBusy <=> Resident(e)' = {}
  BY <1>4
<1>6. UpTo(k, now) /\ k.busySince = B
  BY <1>5 DEF Called
<1>7. Called(k, meter', now, -1, 0, 0, B) /\ Recorded(k, meter', 0, 1)
  <2>1. 0 \in Int
    OBVIOUS
  <2> QED
    BY <1>1, <1>6, <2>1, LeavingCalls DEF Running
<1>9. /\ Called(meter, meter', now, 0 + (-1), b + 0, c + 0, B)
      /\ Recorded(meter, meter', 0, 1)
  BY <1>5, <1>7, CallsCompose, RecordedCompose DEF Running
<1>10. Called(meter, meter', now, -1, b, c, B)
  BY <1>9
<1>11. Metered(0, 1)
  BY <1>3, <1>5, <1>9, <1>10, CountsBy DEF Running
<1> QED
  BY <1>3, <1>11

-----------------------------------------------------------------------------
(* The integrals are the sums over the history.                            *)

Moments == [inSystem : Nat, pinned : Nat, active : Nat, busy : SUBSET Devices]

\* One moment for every unit of time that has passed.
HistoryKept == history \in Seq(Moments) /\ Len(history) = now

SystemSum == Total(InWindow, [t \in InWindow |-> history[t].inSystem])
PinnedSum == Total(InWindow, [t \in InWindow |-> history[t].pinned])
ActiveSum == Total(InWindow, [t \in InWindow |-> history[t].active])
BusyMoments(d) == {t \in InWindow : d \in history[t].busy}
Integrals ==
    /\ SystemAt(meter, now) = SystemSum
    /\ PinnedAt(meter, now) = PinnedSum
    /\ ActiveAt(meter, now) = ActiveSum
    /\ \A d \in Devices : BusyAt(meter, now, d) = Cardinality(BusyMoments(d))

MeterInv == /\ now \in Nat /\ now <= Horizon /\ born \in [Flows -> Nat]
            /\ UpTo(meter, now) /\ Counts /\ HistoryKept /\ Integrals

\* One more moment of the window.
LEMMA WindowSum ==
    ASSUME NEW W, IsFiniteSet(W), NEW n, n \notin W, NEW a, NEW b,
           \A t \in W : a[t] \in Nat /\ b[t] = a[t], b[n] \in Nat
    PROVE  Total(W \cup {n}, b) = Total(W, a) + b[n]
<1>1. Total(W, a) = Total(W, b)
  BY TotalSame
<1>2. \A t \in W \cup {n} : b[t] \in Nat
  OBVIOUS
<1>3. Total(W \cup {n}, b) = Total(W, b) + b[n]
  BY <1>2, TotalAdd
<1> QED
  BY <1>1, <1>3

\* The window after a tick of the clock.
LEMMA WindowGrows ==
    ASSUME MeterInv, NEW h \in Moments, history' = Append(history, h)
    PROVE  /\ IsFiniteSet(InWindow) /\ now + 1 \notin InWindow
           /\ \A t \in InWindow : /\ history'[t] = history[t]
                                  /\ history[t] \in Moments
           /\ history' \in Seq(Moments) /\ Len(history') = now + 1
           /\ history'[now + 1] = h
           /\ InWindow' = IF now >= Warmup THEN InWindow \cup {now + 1} ELSE InWindow
<1>1. /\ history \in Seq(Moments) /\ Len(history) = now /\ now \in Nat
      /\ Warmup \in Nat
  BY WindowAssumption DEF MeterInv, HistoryKept
<1>2. /\ history' \in Seq(Moments) /\ Len(history') = now + 1
      /\ history'[now + 1] = h /\ \A t \in 1..now : history'[t] = history[t]
      /\ DOMAIN history = 1..now /\ DOMAIN history' = 1..(now + 1)
  BY <1>1
<1>3. \A t \in 1..now : history[t] \in Moments
  BY <1>1, ElementType
<1>4. InWindow = {t \in 1..now : t > Warmup}
      /\ InWindow' = {t \in 1..(now + 1) : t > Warmup}
  BY <1>2 DEF InWindow
<1>5. IsFiniteSet(InWindow)
  <2>1. IsFiniteSet(1..now) /\ InWindow \subseteq 1..now
    BY <1>1, <1>4, FS_Interval
  <2> QED
    BY <2>1, FS_Subset
<1>6. now + 1 \notin InWindow
  BY <1>1, <1>4
<1>7. InWindow' = IF now >= Warmup THEN InWindow \cup {now + 1} ELSE InWindow
  BY <1>1, <1>4
<1> QED
  BY <1>2, <1>3, <1>4, <1>5, <1>6, <1>7

\* What is true now is a moment.
LEMMA MomentType ==
    ASSUME Known, OccupiedExact, Counts
    PROVE  /\ Moment \in Moments /\ Moment.inSystem = meter.inSystem
           /\ Moment.pinned = meter.pinned /\ Moment.active = meter.active
           /\ \A d \in Devices : d \in Moment.busy <=> meter.busySince[d] # NotBusy
<1>1. /\ Cardinality(InSystem) \in Nat /\ Cardinality(PinnedFlows) \in Nat
      /\ Cardinality(occupied) \in Nat
  BY CountedSets
<1>2. /\ {f \in Flows : \E d \in Devices : f \in pins[d]} = PinnedFlows
      /\ {f \in Flows : Reserved(f) /\ where[f] # NoDevice} = occupied
  BY DEF PinnedFlows, OccupiedExact
<1> DEFINE busy == {d \in Devices : Resident(d) # {}}
<1>3. Moment = [inSystem |-> Cardinality(InSystem), pinned |-> Cardinality(PinnedFlows),
                active |-> Cardinality(occupied), busy |-> busy]
  BY <1>2 DEF Moment
<1>4. busy \in SUBSET Devices
      /\ \A d \in Devices : d \in busy <=> meter.busySince[d] # NotBusy
  BY DEF Counts
<1> HIDE DEF busy
<1> QED
  BY <1>1, <1>3, <1>4 DEF Moments, Counts

\* What the integrals grow by with a tick of the clock.
LEMMA TickGrows ==
    ASSUME now \in Nat, now < Horizon, UpTo(meter, now)
    PROVE  /\ \A since \in 0..now :
                  /\ Measured(since, now + 1) =
                         Measured(since, now) + (IF now >= Warmup THEN 1 ELSE 0)
                  /\ Measured(since, now) \in Nat
           /\ SystemAt(meter, now + 1) = SystemAt(meter, now)
                  + (IF now >= Warmup THEN meter.inSystem ELSE 0)
           /\ PinnedAt(meter, now + 1) = PinnedAt(meter, now)
                  + (IF now >= Warmup THEN meter.pinned ELSE 0)
           /\ ActiveAt(meter, now + 1) = ActiveAt(meter, now)
                  + (IF now >= Warmup THEN meter.active ELSE 0)
<1> DEFINE u == now + 1
<1> DEFINE one == IF now >= Warmup THEN 1 ELSE 0
<1>7. ASSUME NEW since \in 0..now
      PROVE  Measured(since, u) = Measured(since, now) + one
             /\ Measured(since, now) \in Nat
  <2>1. since \in Nat /\ since <= now /\ now \in Nat /\ now < Horizon
    BY <1>7
  <2> QED
    BY <2>1, MeasuredIs
<1>8. ASSUME NEW area \in Int, NEW n \in Int, NEW k \in Nat
      PROVE  area + n * (k + one) = area + n * k + (IF now >= Warmup THEN n ELSE 0)
  <2>1. n * (k + 1) = n * k + n /\ n * (k + 0) = n * k /\ n * k \in Int
    BY <1>8
  <2> QED
    BY <1>8, <2>1
<1> HIDE DEF one
<1>9. /\ SystemAt(meter, u) = SystemAt(meter, now)
                                  + (IF now >= Warmup THEN meter.inSystem ELSE 0)
      /\ PinnedAt(meter, u) = PinnedAt(meter, now)
                                  + (IF now >= Warmup THEN meter.pinned ELSE 0)
      /\ ActiveAt(meter, u) = ActiveAt(meter, now)
                                  + (IF now >= Warmup THEN meter.active ELSE 0)
  <2>1. /\ meter.lastChange \in 0..now /\ meter.pinChange \in 0..now
        /\ meter.systemArea \in Int /\ meter.pinnedArea \in Int
        /\ meter.activeArea \in Int /\ meter.inSystem \in Int /\ meter.pinned \in Int
        /\ meter.active \in Int
    BY DEF UpTo, Collector
  <2> QED
    <3> DEFINE k == Measured(meter.lastChange, now)
    <3> DEFINE j == Measured(meter.pinChange, now)
    <3>1. /\ Measured(meter.lastChange, u) = k + one /\ k \in Nat
          /\ Measured(meter.pinChange, u) = j + one /\ j \in Nat
      BY <1>7, <2>1
    <3>2. /\ SystemAt(meter, now) = meter.systemArea + meter.inSystem * k
          /\ PinnedAt(meter, now) = meter.pinnedArea + meter.pinned * j
          /\ ActiveAt(meter, now) = meter.activeArea + meter.active * j
      BY DEF SystemAt, PinnedAt, ActiveAt
    <3> HIDE DEF k, j, u
    <3>3. /\ SystemAt(meter, u) = meter.systemArea + meter.inSystem * (k + one)
          /\ PinnedAt(meter, u) = meter.pinnedArea + meter.pinned * (j + one)
          /\ ActiveAt(meter, u) = meter.activeArea + meter.active * (j + one)
      BY <3>1 DEF SystemAt, PinnedAt, ActiveAt
    <3>4. SystemAt(meter, u) = SystemAt(meter, now)
                                   + (IF now >= Warmup THEN meter.inSystem ELSE 0)
      <4>1. meter.systemArea + meter.inSystem * (k + one) =
                meter.systemArea + meter.inSystem * k
                    + (IF now >= Warmup THEN meter.inSystem ELSE 0)
        BY <1>8, <2>1, <3>1, Zenon
      <4> QED
        BY <3>2, <3>3, <4>1, Zenon
    <3>5. PinnedAt(meter, u) = PinnedAt(meter, now)
                                   + (IF now >= Warmup THEN meter.pinned ELSE 0)
      <4>1. meter.pinnedArea + meter.pinned * (j + one) =
                meter.pinnedArea + meter.pinned * j
                    + (IF now >= Warmup THEN meter.pinned ELSE 0)
        BY <1>8, <2>1, <3>1, Zenon
      <4> QED
        BY <3>2, <3>3, <4>1, Zenon
    <3>6. ActiveAt(meter, u) = ActiveAt(meter, now)
                                   + (IF now >= Warmup THEN meter.active ELSE 0)
      <4>1. meter.activeArea + meter.active * (j + one) =
                meter.activeArea + meter.active * j
                    + (IF now >= Warmup THEN meter.active ELSE 0)
        BY <1>8, <2>1, <3>1, Zenon
      <4> QED
        BY <3>2, <3>3, <4>1, Zenon
    <3> QED
      BY <3>4, <3>5, <3>6
<1> QED
  BY <1>7, <1>9 DEF u, one

\* The clock ticks: every integral grows by its count, in the window.
LEMMA ClockIntegrals ==
    ASSUME Known, OccupiedExact, MeterInv, ClockStep, history' = Append(history, Moment)
    PROVE  MeterInv'
<1> DEFINE u == now + 1
<1> DEFINE one == IF now >= Warmup THEN 1 ELSE 0
<1>1. /\ now \in Nat /\ now < Horizon /\ UpTo(meter, now) /\ Counts
      /\ now' = u /\ meter' = meter /\ UNCHANGED vars /\ born' = born
      /\ meter \in Collector /\ Horizon \in Nat
  BY WindowAssumption DEF MeterInv, ClockStep, UpTo
<1>2. /\ Moment \in Moments /\ Moment.inSystem = meter.inSystem
      /\ Moment.pinned = meter.pinned /\ Moment.active = meter.active
      /\ \A d \in Devices : d \in Moment.busy <=> meter.busySince[d] # NotBusy
  BY <1>1, MomentType
<1>3. PICK h \in Moments : h = Moment
  BY <1>2
<1>4. /\ IsFiniteSet(InWindow) /\ u \notin InWindow
      /\ \A t \in InWindow : history'[t] = history[t] /\ history[t] \in Moments
      /\ history' \in Seq(Moments) /\ Len(history') = u /\ history'[u] = h
      /\ InWindow' = IF now >= Warmup THEN InWindow \cup {u} ELSE InWindow
  BY <1>3, WindowGrows
<1>5. /\ UpTo(meter, u) /\ HistoryKept' /\ u <= Horizon /\ u \in Nat
  <2>1. u <= Horizon /\ u \in Nat /\ 0..now \subseteq 0..u
    BY <1>1
  <2>2. UpTo(meter, u)
    BY <1>1, <2>1 DEF UpTo
  <2> QED
    BY <1>1, <1>4, <2>1, <2>2 DEF HistoryKept
<1>6. Counts'
  BY <1>1 DEF Counts, InSystem, IsComplete, PinnedFlows, Resident, vars, engineVars,
     flowVars, stepVars, deviceVars, timerVars
<1>7. ASSUME NEW since \in 0..now
      PROVE  Measured(since, u) = Measured(since, now) + one
             /\ Measured(since, now) \in Nat
  BY <1>1, <1>7, TickGrows
<1> HIDE DEF one
<1>9. /\ SystemAt(meter, u) = SystemAt(meter, now)
                                  + (IF now >= Warmup THEN h.inSystem ELSE 0)
      /\ PinnedAt(meter, u) = PinnedAt(meter, now)
                                  + (IF now >= Warmup THEN h.pinned ELSE 0)
      /\ ActiveAt(meter, u) = ActiveAt(meter, now)
                                  + (IF now >= Warmup THEN h.active ELSE 0)
  BY <1>1, <1>2, <1>3, TickGrows
<1>10. /\ SystemSum' = SystemSum + (IF now >= Warmup THEN h.inSystem ELSE 0)
       /\ PinnedSum' = PinnedSum + (IF now >= Warmup THEN h.pinned ELSE 0)
       /\ ActiveSum' = ActiveSum + (IF now >= Warmup THEN h.active ELSE 0)
  <2> DEFINE a1 == [t \in InWindow |-> history[t].inSystem]
  <2> DEFINE a2 == [t \in InWindow |-> history[t].pinned]
  <2> DEFINE a3 == [t \in InWindow |-> history[t].active]
  <2>0. PICK V : V = InWindow'
    OBVIOUS
  <2> DEFINE b1 == [t \in V |-> history'[t].inSystem]
  <2> DEFINE b2 == [t \in V |-> history'[t].pinned]
  <2> DEFINE b3 == [t \in V |-> history'[t].active]
  <2>1. /\ SystemSum = Total(InWindow, a1) /\ PinnedSum = Total(InWindow, a2)
        /\ ActiveSum = Total(InWindow, a3)
        /\ SystemSum' = Total(V, b1) /\ PinnedSum' = Total(V, b2)
        /\ ActiveSum' = Total(V, b3)
    BY <2>0 DEF SystemSum, PinnedSum, ActiveSum
  <2>2. /\ \A t \in InWindow : /\ t \in V /\ history'[t] = history[t]
                               /\ history[t].inSystem \in Nat
                               /\ history[t].pinned \in Nat /\ history[t].active \in Nat
        /\ h.inSystem \in Nat /\ h.pinned \in Nat /\ h.active \in Nat
    BY <1>4, <2>0 DEF Moments
  <2>3. \A t \in InWindow : a1[t] \in Nat /\ b1[t] = a1[t]
    BY <2>2
  <2>6. \A t \in InWindow : a2[t] \in Nat /\ b2[t] = a2[t]
    BY <2>2
  <2>7. \A t \in InWindow : a3[t] \in Nat /\ b3[t] = a3[t]
    BY <2>2
  <2>4. CASE now >= Warmup
    <3>1. V = InWindow \cup {u}
      BY <1>4, <2>0, <2>4
    <3>2. b1[u] = h.inSystem /\ b2[u] = h.pinned /\ b3[u] = h.active
      BY <1>4, <3>1
    <3> HIDE DEF a1, a2, a3, b1, b2, b3, u
    <3>3. /\ IsFiniteSet(InWindow) /\ u \notin InWindow
          /\ b1[u] \in Nat /\ b2[u] \in Nat /\ b3[u] \in Nat
      BY <1>4, <2>2, <3>2
    <3>9. ASSUME NEW a, NEW b, \A t \in InWindow : a[t] \in Nat /\ b[t] = a[t],
                 b[u] \in Nat
          PROVE  Total(InWindow \cup {u}, b) = Total(InWindow, a) + b[u]
      <4>1. PICK W, n : W = InWindow /\ n = u
        OBVIOUS
      <4>2. Total(W \cup {n}, b) = Total(W, a) + b[n]
        <5>1. IsFiniteSet(W) /\ n \notin W
          BY <3>3, <4>1
        <5>2. (\A t \in W : a[t] \in Nat /\ b[t] = a[t]) /\ b[n] \in Nat
          BY <3>9, <4>1
        <5> QED
          BY ONLY <5>1, <5>2, WindowSum
      <4> QED
        BY <4>1, <4>2
    <3>4. Total(InWindow \cup {u}, b1) = Total(InWindow, a1) + b1[u]
      BY <2>3, <3>3, <3>9, Zenon
    <3>5. Total(InWindow \cup {u}, b2) = Total(InWindow, a2) + b2[u]
      BY <2>6, <3>3, <3>9, Zenon
    <3>6. Total(InWindow \cup {u}, b3) = Total(InWindow, a3) + b3[u]
      BY <2>7, <3>3, <3>9, Zenon
    <3> QED
      BY <2>1, <2>4, <3>1, <3>2, <3>4, <3>5, <3>6
  <2>5. CASE ~(now >= Warmup)
    <3>1. V = InWindow
      BY <1>4, <2>0, <2>5
    <3>2. \A n \in Nat : n + 0 = n
      OBVIOUS
    <3> HIDE DEF a1, a2, a3, b1, b2, b3, u
    <3>3. /\ Total(V, b1) = Total(InWindow, a1) /\ Total(V, b2) = Total(InWindow, a2)
          /\ Total(V, b3) = Total(InWindow, a3)
      BY <2>3, <2>6, <2>7, <3>1, TotalSame
    <3>4. /\ Total(InWindow, a1) \in Nat /\ Total(InWindow, a2) \in Nat
          /\ Total(InWindow, a3) \in Nat
      BY <1>4, <2>3, <2>6, <2>7, TotalType
    <3> QED
      BY <2>1, <2>5, <3>2, <3>3, <3>4
  <2> QED
    BY <2>4, <2>5
<1>11. ASSUME NEW d \in Devices
       PROVE  BusyAt(meter, u, d) = Cardinality(BusyMoments(d)')
  <2>0. PICK V, B : V = InWindow' /\ B = BusyMoments(d)'
    OBVIOUS
  <2>1. /\ meter.busySince[d] \in {NotBusy} \cup 0..now /\ meter.busy[d] \in Int
        /\ BusyAt(meter, now, d) = Cardinality(BusyMoments(d))
    BY <1>1 DEF UpTo, Collector, MeterInv, Integrals
  <2>2. B = {t \in V : d \in history'[t].busy}
    BY <2>0 DEF BusyMoments
  <2>3. IsFiniteSet(BusyMoments(d)) /\ Cardinality(BusyMoments(d)) \in Nat
    BY <1>4, FS_Subset, FS_CardinalityType DEF BusyMoments
  <2>4. d \in h.busy <=> meter.busySince[d] # NotBusy
    BY <1>2, <1>3
  <2>5. CASE now >= Warmup /\ d \in h.busy
    <3>1. V = InWindow \cup {u}
      BY <1>4, <2>0, <2>5
    <3>2. B = BusyMoments(d) \cup {u} /\ u \notin BusyMoments(d)
      BY <1>4, <2>2, <2>5, <3>1 DEF BusyMoments
    <3>3. Cardinality(B) = Cardinality(BusyMoments(d)) + 1
      BY <2>3, <3>2, FS_AddElement
    <3>4. BusyAt(meter, u, d) = BusyAt(meter, now, d) + 1
      <4>1. one = 1 /\ meter.busySince[d] \in 0..now
        BY <2>1, <2>4, <2>5 DEF one
      <4>2. Measured(meter.busySince[d], u) = Measured(meter.busySince[d], now) + 1
            /\ Measured(meter.busySince[d], now) \in Nat
        BY <1>7, <4>1
      <4> QED
        BY <2>1, <2>4, <2>5, <4>2 DEF BusyAt
    <3> QED
      BY <2>0, <2>1, <3>3, <3>4
  <2>6. CASE ~(now >= Warmup /\ d \in h.busy)
    <3>1. B = BusyMoments(d)
      BY <1>4, <2>0, <2>2, <2>6 DEF BusyMoments
    <3>2. BusyAt(meter, u, d) = BusyAt(meter, now, d)
      <4>1. CASE d \notin h.busy
        BY <2>4, <4>1 DEF BusyAt
      <4>2. CASE d \in h.busy
        <5>1. one = 0 /\ meter.busySince[d] \in 0..now
          BY <2>1, <2>4, <2>6, <4>2 DEF one
        <5>2. Measured(meter.busySince[d], u) = Measured(meter.busySince[d], now)
          BY <1>7, <5>1
        <5> QED
          BY <5>2 DEF BusyAt
      <4> QED
        BY <4>1, <4>2
    <3> QED
      BY <2>0, <2>1, <3>1, <3>2
  <2> QED
    BY <2>5, <2>6
<1>12. Integrals'
  <2>1. SystemAt(meter, u) = SystemSum' /\ PinnedAt(meter, u) = PinnedSum'
        /\ ActiveAt(meter, u) = ActiveSum'
    BY <1>9, <1>10 DEF MeterInv, Integrals
  <2> QED
    BY <1>1, <1>11, <2>1 DEF Integrals, SystemAt, PinnedAt, ActiveAt, BusyAt
<1> QED
  BY <1>1, <1>5, <1>6, <1>12 DEF MeterInv

\* A call that leaves the integrals as of now alone keeps the invariant.
LEMMA MeteredKeeps ==
    ASSUME MeterInv, NEW s, NEW x, Metered(s, x), now' = now, history' = history,
           born' \in [Flows -> Nat]
    PROVE  MeterInv'
<1>1. PICK a \in Int, b \in Int, c \in Int : \E B : Called(meter, meter', now, a, b, c, B)
  BY DEF Metered
<1>2. /\ UpTo(meter', now)
      /\ SystemAt(meter', now) = SystemAt(meter, now)
      /\ PinnedAt(meter', now) = PinnedAt(meter, now)
      /\ ActiveAt(meter', now) = ActiveAt(meter, now)
      /\ \A d \in Devices : BusyAt(meter', now, d) = BusyAt(meter, now, d)
  BY <1>1 DEF Called
<1>3. /\ SystemSum' = SystemSum /\ PinnedSum' = PinnedSum /\ ActiveSum' = ActiveSum
      /\ \A d \in Devices : BusyMoments(d)' = BusyMoments(d)
  BY DEF SystemSum, PinnedSum, ActiveSum, BusyMoments, InWindow
<1>4. /\ SystemAt(meter, now)' = SystemAt(meter', now)
      /\ PinnedAt(meter, now)' = PinnedAt(meter', now)
      /\ ActiveAt(meter, now)' = ActiveAt(meter', now)
      /\ \A d \in Devices : BusyAt(meter, now, d)' = BusyAt(meter', now, d)
  BY DEF SystemAt, PinnedAt, ActiveAt, BusyAt
<1>5. Integrals'
  BY <1>2, <1>3, <1>4 DEF MeterInv, Integrals
<1>6. HistoryKept' /\ Counts' /\ UpTo(meter', now')
  BY <1>2 DEF MeterInv, HistoryKept, Metered
<1> QED
  BY <1>5, <1>6 DEF MeterInv

\* Every handler that fires makes its calls.
LEMMA EngineMetered ==
    ASSUME Running, OccupiedExact, born \in [Flows -> Nat], UNCHANGED policyVars,
           MeteredEngine
    PROVE  \E s, x : Metered(s, x)
BY QuietMetered, AdmitMetered, ScheduleMetered, PreemptMetered, StepMetered,
   CompletionMetered, AbandonmentMetered DEF MeteredEngine

\* Only an arrival sets the birth of a flow: its own.
LEMMA Births ==
    ASSUME EngineTypeOK, now \in Nat, born \in [Flows -> Nat],
           MeteredEngine
    PROVE  /\ born' \in [Flows -> Nat]
           /\ \/ born' = born /\ arrivals' = arrivals
              \/ MeteredArrival /\ born' = [born EXCEPT ![arrivals + 1] = now]
<1>1. CASE MeteredArrival
  BY <1>1 DEF MeteredArrival
<1>2. CASE MeteredAdmit
  BY <1>2 DEF MeteredAdmit, AdmitStep, AdmitAggregate, AdmitReserved
<1>3. CASE UnmeteredStep
  BY <1>3 DEF UnmeteredStep, TickTimer, Reoffer, Degrade, GapEnd, EntryVoid, DecodeToken
<1>4. CASE MeteredSchedule \/ MeteredPreempt
  BY <1>4 DEF MeteredSchedule, Schedule, MeteredPreempt, Preempt
<1>5. CASE \/ \E t \in timers : MeteredEntry(t)
           \/ \E d \in Devices : MeteredIntervalEnd(d)
  BY <1>5 DEF MeteredEntry, EnterDevice, MeteredIntervalEnd, IntervalEnd
<1>6. CASE \E f \in Flows, d \in Devices :
             MeteredStep(f, d) \/ MeteredCompletion(f, d) \/ MeteredAbandonment(f, d)
  BY <1>6 DEF MeteredStep, CompleteIntoGap, CompleteIntoNext, MeteredCompletion,
     CompleteFlow, MeteredAbandonment, AbandonFlow
<1> QED
  BY <1>1, <1>2, <1>3, <1>4, <1>5, <1>6 DEF MeteredEngine

\* The collector of a run that has not begun.
LEMMA MeterInit == ASSUME HistoryInit PROVE MeterInv
<1>1. /\ now = 0 /\ history = <<>> /\ meter = Fresh /\ born = [f \in Flows |-> 0]
      /\ Init /\ Horizon \in Nat /\ Warmup \in Nat /\ Monitored = Devices
  BY WindowAssumption, MonitoredAssumption DEF HistoryInit, RunInit
<1>2. UpTo(meter, now)
  BY <1>1 DEF UpTo, Fresh, Collector, NotBusy
<1>3. Counts
  <2>1. /\ InSystem = {} /\ PinnedFlows = {} /\ occupied = {}
        /\ \A d \in Devices : Resident(d) = {}
    BY <1>1 DEF Init, InSystem, PinnedFlows, Resident, Devices, NoDevice
  <2>2. /\ meter.inSystem = 0 /\ meter.pinned = 0 /\ meter.active = 0
        /\ \A d \in Devices : meter.busySince[d] = NotBusy
    BY <1>1 DEF Fresh
  <2> QED
    BY <2>1, <2>2, FS_EmptySet DEF Counts
<1>4. HistoryKept
  BY <1>1 DEF HistoryKept
<1>5. Integrals
  <2>1. InWindow = {}
    BY <1>1 DEF InWindow
  <2>2. /\ SystemSum = 0 /\ PinnedSum = 0 /\ ActiveSum = 0
        /\ \A d \in Devices : Cardinality(BusyMoments(d)) = 0
    BY <2>1, TotalEmpty, FS_EmptySet DEF SystemSum, PinnedSum, ActiveSum, BusyMoments
  <2>3. Measured(0, 0) = 0
    BY MeasuredIs
  <2>4. /\ SystemAt(meter, now) = 0 /\ PinnedAt(meter, now) = 0
        /\ ActiveAt(meter, now) = 0
        /\ \A d \in Devices : BusyAt(meter, now, d) = 0
    BY <1>1, <2>3 DEF SystemAt, PinnedAt, ActiveAt, BusyAt, Fresh
  <2> QED
    BY <2>2, <2>4 DEF Integrals
<1> QED
  BY <1>1, <1>2, <1>3, <1>4, <1>5 DEF MeterInv

\* Every step of a measured run keeps the integrals exact.
LEMMA MeterKept ==
    ASSUME Known, BooksInv, OccupiedExact, MeterInv,
           [HistoryNext]_<<vars, runVars, history>>
    PROVE  MeterInv'
<1>1. Running /\ EngineTypeOK
  BY DEF Running, MeterInv, Known, ReservationInv, EngineInv
<1>2. CASE ClockStep /\ HistoryNext
  <2>1. now' # now
    BY <1>2 DEF ClockStep, MeterInv
  <2> QED
    BY <1>2, <2>1, ClockIntegrals DEF HistoryNext
<1>3. CASE HistoryNext /\ UNCHANGED now /\ PolicyAnswer /\ UNCHANGED <<born, meter>>
  <2>1. Metered(0, 0)
    BY <1>1, <1>3, QuietMetered
  <2> QED
    BY <1>3, <2>1, MeteredKeeps DEF HistoryNext, MeterInv
<1>4. CASE HistoryNext /\ UNCHANGED now /\ MeteredEngine /\ UNCHANGED policyVars
  <2>1. PICK s, x : Metered(s, x)
    BY <1>1, <1>4, EngineMetered DEF MeterInv
  <2>2. born' \in [Flows -> Nat]
    BY <1>1, <1>4, Births DEF MeterInv
  <2> QED
    BY <1>4, <2>1, <2>2, MeteredKeeps DEF HistoryNext
<1>5. CASE UNCHANGED <<vars, runVars, history>>
  <2>1. Metered(0, 0)
    BY <1>1, <1>5, CountingCalls, QuietCounts
       DEF Running, runVars, vars, engineVars, flowVars, stepVars, deviceVars, timerVars
  <2> QED
    BY <1>5, <2>1, MeteredKeeps DEF runVars, MeterInv
<1> QED
  BY <1>2, <1>3, <1>4, <1>5 DEF HistoryNext, RunNext

\* A measured run is a behaviour of the discipline.
THEOREM RunsDiscipline == HistorySpec => Spec
<1>1. HistoryInit => Init /\ PolicyInit
  BY DEF HistoryInit, RunInit
<1>2. [HistoryNext]_<<vars, runVars, history>> => [Next]_vars
  BY RunSteps DEF HistoryNext
<1> QED
  BY <1>1, <1>2, PTL DEF HistorySpec, Spec

\* The collector follows the run, and its integrals the history.
THEOREM MeterHolds == HistorySpec => []MeterInv
BY MeterInit, MeterKept, RunsDiscipline, KnownAll, BooksInvHolds, OccupiedHolds, PTL
   DEF HistorySpec

\* The lazy integrals of the collector are exact at any moment: of the flows in
\* the system, of the pins held and in use, and of the busy time of each device
\* (MetricsExact).
THEOREM MetricsHold == HistorySpec => []MetricsExact
<1>1. ASSUME MeterInv PROVE MetricsExact
  <2>1. /\ AsOfNow.systemArea = SystemAt(meter, now)
        /\ AsOfNow.pinnedArea = PinnedAt(meter, now)
        /\ AsOfNow.activeArea = ActiveAt(meter, now)
        /\ \A d \in Devices : AsOfNow.busy[d] = BusyAt(meter, now, d)
    BY <1>1, FinalizedIs DEF MeterInv, AsOfNow
  <2>2. /\ SystemSum = OverWindow(LAMBDA h : h.inSystem)
        /\ PinnedSum = OverWindow(LAMBDA h : h.pinned)
        /\ ActiveSum = OverWindow(LAMBDA h : h.active)
    BY DEF SystemSum, PinnedSum, ActiveSum, OverWindow
  <2> QED
    BY <1>1, <2>1, <2>2 DEF MetricsExact, MeterInv, Integrals, BusyMoments
<1> QED
  BY <1>1, MeterHolds, PTL

-----------------------------------------------------------------------------
(* Little's law of what is measured.                                       *)

\* How long each flow has been in the measured window, and all of those that are
\* in the system together.
Ages == [f \in Flows |-> Measured(born[f], now)]
Waiting == Total(InSystem, Ages)
BornInWindow == \A f \in admitted : born[f] >= Warmup

\* A flow is admitted at the instant of its arrival, which is not in the future.
BirthsKept ==
    /\ \A f \in Flows : born[f] \in 0..now
    /\ stack # <<>> /\ Head(stack).op \in EntryOps => born[Head(stack).flow] = now

\* The time in the system is what is recorded of those that completed, and what
\* those that are still there have waited.
Balance ==
    /\ meter.abandonments \in Nat
    /\ meter.abandonments = 0 =>
           /\ SystemAt(meter, now) <= meter.sojourns + Waiting
           /\ BornInWindow => SystemAt(meter, now) = meter.sojourns + Waiting

LittleInv == BirthsKept /\ Balance

\* If each holder has one unit more, they have as many more as there are.
LEMMA TotalGrows ==
    ASSUME NEW S, IsFiniteSet(S), NEW a, NEW b,
           \A x \in S : a[x] \in Nat /\ b[x] = a[x] + 1
    PROVE  Total(S, b) = Total(S, a) + Cardinality(S)
<1> DEFINE N == {<<x, b[x]>> : x \in S}
<1> DEFINE A == Units(S, a)
<1>1. Units(S, b) = A \cup N
  <2>1. ASSUME NEW x \in S PROVE UnitsOf(x, b) = UnitsOf(x, a) \cup {<<x, b[x]>>}
    <3>1. 1..b[x] = 1..a[x] \cup {b[x]}
      OBVIOUS
    <3> QED
      BY <3>1 DEF UnitsOf
  <2> QED
    BY <2>1 DEF Units
<1>2. A \cap N = {}
  <2>1. ASSUME NEW x \in S PROVE b[x] \notin 1..a[x]
    OBVIOUS
  <2> QED
    BY <2>1 DEF Units, UnitsOf
<1>3. IsFiniteSet(N) /\ Cardinality(N) = Cardinality(S)
  <2> DEFINE unit == [x \in S |-> <<x, b[x]>>]
  <2>1. unit \in Bijection(S, N)
    BY DEF Bijection, Injection, Surjection, IsInjective
  <2> HIDE DEF unit, N
  <2> QED
    BY <2>1, FS_Bijection DEF ExistsBijection
<1>4. IsFiniteSet(A)
  BY UnitsFinite
<1> HIDE DEF A, N
<1>5. Cardinality(A \cap N) = 0
  BY <1>2, FS_EmptySet
<1>6. Cardinality(A \cup N) = Cardinality(A) + Cardinality(N) - Cardinality(A \cap N)
      /\ Cardinality(A) \in Nat /\ Cardinality(N) \in Nat
  BY <1>3, <1>4, FS_Union, FS_CardinalityType
<1> QED
  BY <1>1, <1>3, <1>5, <1>6 DEF Total, A

\* Ages are natural numbers, and those in the system are finitely many.
LEMMA AgesType ==
    ASSUME Known, now \in Nat, BirthsKept
    PROVE  /\ InSystem \subseteq Flows /\ IsFiniteSet(InSystem)
           /\ \A f \in Flows : Ages[f] \in Nat /\ Ages[f] = Measured(born[f], now)
           /\ Waiting \in Nat
<1>1. InSystem \in SUBSET Flows
  BY CountedSets
<1>2. IsFiniteSet(InSystem)
  BY <1>1, FlowsCounted
<1>3. ASSUME NEW f \in Flows
      PROVE  Ages[f] \in Nat /\ Ages[f] = Measured(born[f], now)
  <2>1. born[f] \in Nat /\ born[f] <= now
    BY DEF BirthsKept
  <2> QED
    BY <2>1, MeasuredIs DEF Ages
<1>4. Waiting \in Nat
  BY <1>1, <1>2, <1>3, TotalType DEF Waiting
<1> QED
  BY <1>1, <1>2, <1>3, <1>4

\* A step of a handler keeps the balance, if what it records is what the flow
\* that leaves has waited, or more.
LEMMA BalanceBy ==
    ASSUME MeterInv, Balance, NEW s \in Int, NEW x \in Nat, Metered(s, x), now' = now,
           Waiting \in Int, Waiting' \in Int,
           x = 0 => Waiting <= s + Waiting',
           x = 0 /\ BornInWindow' => BornInWindow /\ Waiting = s + Waiting'
    PROVE  Balance'
<1>1. PICK a \in Int, b \in Int, c \in Int : \E B : Called(meter, meter', now, a, b, c, B)
  BY DEF Metered
<1>2. SystemAt(meter', now) = SystemAt(meter, now)
  BY <1>1 DEF Called
<1>3. /\ meter.sojourns \in Int /\ meter.abandonments \in Nat
      /\ SystemAt(meter, now) \in Int
  BY CounterTypes, IntegralTypes DEF MeterInv, UpTo, Balance
<1>4. meter'.sojourns = meter.sojourns + s /\ meter'.abandonments = meter.abandonments + x
  BY DEF Metered, Recorded
<1>5. SystemAt(meter, now)' = SystemAt(meter, now)
  BY <1>2 DEF SystemAt
<1>6. ASSUME meter'.abandonments = 0
      PROVE  /\ x = 0 /\ meter.abandonments = 0 /\ s \in Int
             /\ meter'.sojourns = meter.sojourns + s
  BY <1>3, <1>4, <1>6
<1>7. ASSUME NEW area \in Int, NEW old \in Int, NEW w \in Int, NEW v \in Int
      PROVE  /\ area <= old + w /\ w <= s + v => area <= (old + s) + v
             /\ area = old + w /\ w = s + v => area = (old + s) + v
  BY <1>7
<1>8. PICK area, old, w, v : /\ area = SystemAt(meter, now) /\ old = meter.sojourns
                             /\ w = Waiting /\ v = Waiting'
  OBVIOUS
<1>9. ASSUME meter'.abandonments = 0
      PROVE  /\ area <= (old + s) + v
             /\ BornInWindow' => area = (old + s) + v
  <2>1. area \in Int /\ old \in Int /\ w \in Int /\ v \in Int
    BY <1>3, <1>8
  <2>2. area <= old + w /\ w <= s + v
    BY <1>6, <1>8, <1>9 DEF Balance
  <2>3. BornInWindow' => area = old + w /\ w = s + v
    BY <1>6, <1>8, <1>9 DEF Balance
  <2> QED
    BY <1>7, <2>1, <2>2, <2>3
<1>10. meter'.abandonments \in Nat
  BY <1>3, <1>4
<1> QED
  BY <1>4, <1>5, <1>8, <1>9, <1>10 DEF Balance

\* A step that moves no flow into or out of the system.
LEMMA QuietBalance ==
    ASSUME Known, MeterInv, LittleInv, Metered(0, 0), now' = now,
           InSystem' = InSystem, admitted' = admitted,
           \A f \in admitted : born'[f] = born[f]
    PROVE  Balance'
<1>1. InSystem \subseteq Flows /\ InSystem \subseteq admitted /\ Waiting \in Nat
  BY AgesType DEF InSystem, MeterInv, LittleInv
<1>2. PICK A : A = Ages'
  OBVIOUS
<1>3. \A f \in InSystem : A[f] = Ages[f]
  BY <1>1, <1>2 DEF Ages
<1>4. Total(InSystem, Ages) = Total(InSystem, A)
  BY <1>3, TotalSame
<1>5. Waiting' = Waiting
  BY <1>2, <1>4 DEF Waiting
<1>6. BornInWindow' => BornInWindow
  BY DEF BornInWindow
<1>7. Waiting = 0 + Waiting' /\ Waiting <= 0 + Waiting'
  BY <1>1, <1>5
<1> QED
  BY <1>1, <1>5, <1>6, <1>7, BalanceBy DEF LittleInv

\* An admission adds a flow that has not waited.
LEMMA AdmitBalance ==
    ASSUME Running, MeterInv, LittleInv, MeteredAdmit, now' = now
    PROVE  Balance'
<1> DEFINE f == Head(stack).flow
<1>1. /\ Metered(0, 0) /\ f \in Flows /\ f \notin admitted /\ born' = born
      /\ admitted' = admitted \cup {f} /\ InSystem' = InSystem \cup {f}
      /\ Head(stack).op = "Admit"
  BY AdmitMetered DEF MeteredAdmit
<1>2. stack # <<>>
  BY DEF MeteredAdmit, AdmitStep, AdmitAggregate, AdmitReserved, Pending
<1>3. born[f] = now
  BY <1>1, <1>2 DEF LittleInv, BirthsKept, EntryOps
<1>4. /\ InSystem \subseteq Flows /\ IsFiniteSet(InSystem) /\ Waiting \in Nat
      /\ \A g \in Flows : Ages[g] \in Nat /\ Ages[g] = Measured(born[g], now)
  BY AgesType DEF Running, LittleInv
<1>5. Ages[f] = 0
  BY <1>1, <1>3, <1>4, MeasuredIs DEF Running
<1>6. Ages' = Ages
  BY <1>1 DEF Ages
<1> HIDE DEF f
<1>7. f \notin InSystem
  BY <1>1 DEF InSystem
<1>8. \A g \in InSystem \cup {f} : Ages[g] \in Nat
  BY <1>1, <1>4
<1>9. Total(InSystem \cup {f}, Ages) = Total(InSystem, Ages) + Ages[f]
  BY <1>4, <1>7, <1>8, TotalAdd
<1>10. Waiting' = Waiting
  BY <1>1, <1>4, <1>5, <1>6, <1>9 DEF Waiting
<1>11. BornInWindow' => BornInWindow
  BY <1>1 DEF BornInWindow
<1>12. Waiting = 0 + Waiting' /\ Waiting <= 0 + Waiting'
  BY <1>4, <1>10
<1> QED
  BY <1>1, <1>4, <1>10, <1>11, <1>12, BalanceBy DEF LittleInv

\* A completion records what the flow has waited in the window, or more.
LEMMA CompletionBalance ==
    ASSUME Running, MeterInv, LittleInv, NEW f \in Flows, NEW d \in Devices,
           MeteredCompletion(f, d), UNCHANGED policyVars, now' = now
    PROVE  Balance'
<1> DEFINE r == IF now < Warmup THEN 0 ELSE now - born[f]
<1>1. /\ Metered(r, 0) /\ admitted' = admitted /\ f \in InSystem
      /\ InSystem' = InSystem \ {f} /\ born' = born
  BY CompletionMetered DEF MeterInv, MeteredCompletion
<1>2. /\ InSystem \subseteq Flows /\ IsFiniteSet(InSystem) /\ Waiting \in Nat
      /\ \A g \in Flows : Ages[g] \in Nat /\ Ages[g] = Measured(born[g], now)
  BY AgesType DEF Running, LittleInv
<1>3. /\ born[f] \in Nat /\ born[f] <= now /\ now \in Nat /\ now <= Horizon
      /\ Warmup \in Nat
  BY WindowAssumption DEF LittleInv, BirthsKept, Running, MeterInv
<1>4. /\ now <= Warmup => Ages[f] = 0
      /\ Ages[f] <= now - born[f]
      /\ born[f] >= Warmup => Ages[f] = now - born[f]
  BY <1>2, <1>3, MeasuredIs
<1>5. /\ r \in Int /\ Ages[f] <= r
      /\ born[f] >= Warmup => Ages[f] = r
  BY <1>2, <1>3, <1>4
<1>6. /\ Total(InSystem, Ages) = Total(InSystem \ {f}, Ages) + Ages[f]
      /\ Total(InSystem \ {f}, Ages) \in Nat
  <2>1. \A g \in InSystem : Ages[g] \in Nat
    BY <1>2
  <2> QED
    BY <1>1, <1>2, <2>1, TotalRemove
<1>7. Ages' = Ages
  BY <1>1 DEF Ages
<1>8. Waiting = Waiting' + Ages[f] /\ Waiting' \in Nat /\ Ages[f] \in Nat
  BY <1>1, <1>2, <1>6, <1>7 DEF Waiting
<1>9. BornInWindow' => BornInWindow /\ born[f] >= Warmup
  BY <1>1 DEF BornInWindow, InSystem
<1>10. PICK s \in Int : s = r
  BY <1>5
<1> HIDE DEF r
<1>11. Metered(s, 0)
  BY <1>1, <1>10 DEF Metered
<1>12. /\ Waiting <= s + Waiting'
       /\ BornInWindow' => BornInWindow /\ Waiting = s + Waiting'
  BY <1>5, <1>8, <1>9, <1>10
<1> QED
  BY <1>2, <1>8, <1>11, <1>12, BalanceBy DEF LittleInv

\* Once somebody has been abandoned, the law is not claimed.
LEMMA AbandonmentBalance ==
    ASSUME Running, MeterInv, LittleInv, NEW f \in Flows, NEW d \in Devices,
           MeteredAbandonment(f, d), UNCHANGED policyVars
    PROVE  Balance'
<1>1. Metered(0, 1)
  BY AbandonmentMetered
<1>2. meter'.abandonments = meter.abandonments + 1 /\ meter.abandonments \in Nat
  BY <1>1 DEF Metered, Recorded, LittleInv, Balance
<1> QED
  BY <1>2 DEF Balance

\* Births stay what they are once a flow has been admitted, and are its arrival
\* until then.
LEMMA BirthsStay ==
    ASSUME Known, MeterInv, BirthsKept, now' = now,
           \/ PolicyAnswer /\ born' = born
           \/ MeteredEngine /\ UNCHANGED policyVars
           \/ UNCHANGED <<vars, runVars>>
    PROVE  BirthsKept' /\ \A f \in admitted : born'[f] = born[f]
<1>1. /\ EngineTypeOK /\ ReservationInv /\ ShapeInv /\ arrivals \in Nat
      /\ now \in Nat /\ born \in [Flows -> Nat]
      /\ admitted \subseteq 1..arrivals
  <2>1. EngineTypeOK /\ ReservationInv /\ ShapeInv
    BY DEF Known, ReservationInv, EngineInv
  <2>2. arrivals \in Nat
    BY <2>1, SizesAssumption DEF EngineTypeOK
  <2> QED
    BY <2>1, <2>2 DEF ShapeInv, Entries, MeterInv
<1>2. CASE MeteredArrival /\ born' = [born EXCEPT ![arrivals + 1] = now]
  <2> DEFINE n == arrivals + 1
  <2>1. n \in Flows /\ n \notin admitted
    BY <1>1, <1>2, SizesAssumption DEF MeteredArrival, Arrival, Flows
  <2>2. stack' = <<TaskOf("FlowArrival", n, 0, NoDevice)>>
    BY <1>2 DEF MeteredArrival, Arrival
  <2>3. born' = [born EXCEPT ![n] = now]
    BY <1>2
  <2> HIDE DEF n
  <2>4. Head(stack').flow = n /\ born'[n] = now
    BY <1>1, <2>1, <2>2, <2>3 DEF TaskOf
  <2>5. \A f \in Flows : born'[f] \in 0..now
    BY <1>1, <2>1, <2>3 DEF BirthsKept
  <2>6. \A f \in admitted : born'[f] = born[f]
    BY <1>1, <2>1, <2>3
  <2> QED
    BY <2>4, <2>5, <2>6 DEF BirthsKept
<1>3. CASE /\ born' = born /\ arrivals' = arrivals
           /\ Next \/ UNCHANGED vars
  <2>1. ~Arrival
    BY <1>1, <1>3 DEF Arrival
  <2>2. ASSUME stack' # <<>>, Head(stack').op \in EntryOps
        PROVE  born[Head(stack').flow] = now
    <3>1. CASE stack' = stack
      BY <2>2, <3>1 DEF BirthsKept
    <3>2. CASE /\ stack # <<>> /\ Head(stack).op \in EntryOps
               /\ Head(stack').flow = Head(stack).flow
      BY <3>2 DEF BirthsKept
    <3>3. UNCHANGED vars => stack' = stack
      BY DEF vars, engineVars
    <3> QED
      BY <1>1, <1>3, <2>1, <2>2, <3>1, <3>2, <3>3, EntryHeads
  <2> QED
    BY <1>3, <2>2 DEF BirthsKept
<1>4. CASE PolicyAnswer /\ born' = born
  BY <1>3, <1>4, AnswerFrame DEF Next
<1>5. CASE MeteredEngine /\ UNCHANGED policyVars
  <2>1. EngineStep \/ AdmitStep
    BY <1>5 DEF MeteredEngine, MeteredArrival, MeteredAdmit, MeteredSchedule,
       MeteredPreempt, UnmeteredStep, MeteredEntry, MeteredIntervalEnd, MeteredStep,
       MeteredCompletion, MeteredAbandonment, EngineStep, TriggerStep, HandlingStep
  <2>2. Next
    BY <1>5, <2>1 DEF Next
  <2> QED
    BY <1>1, <1>2, <1>3, <1>5, <2>2, Births
<1>6. CASE UNCHANGED <<vars, runVars>>
  BY <1>3, <1>6 DEF vars, engineVars, runVars
<1> QED
  BY <1>4, <1>5, <1>6

\* Every handler keeps the balance.
LEMMA EngineBalance ==
    ASSUME Known, BooksInv, OccupiedExact, MeterInv, LittleInv, now' = now,
           UNCHANGED policyVars, MeteredEngine
    PROVE  Balance'
<1>1. Running /\ now \in Nat
  BY DEF Running, MeterInv
<1>2. \A f \in admitted : born'[f] = born[f]
  BY BirthsStay DEF LittleInv
<1>3. ASSUME Metered(0, 0), InSystem' = InSystem, admitted' = admitted PROVE Balance'
  BY <1>2, <1>3, QuietBalance
<1>4. CASE \/ MeteredArrival \/ UnmeteredStep
           \/ \E t \in timers : MeteredEntry(t)
           \/ \E d \in Devices : MeteredIntervalEnd(d)
  <2>1. Metered(0, 0) /\ UNCHANGED <<admitted, cursor>>
    BY <1>1, <1>4, QuietMetered
  <2> QED
    BY <1>3, <2>1 DEF InSystem, IsComplete
<1>5. CASE MeteredSchedule
  BY <1>1, <1>3, <1>5, ScheduleMetered DEF InSystem, IsComplete
<1>6. CASE MeteredPreempt
  BY <1>1, <1>3, <1>6, PreemptMetered DEF InSystem, IsComplete
<1>7. CASE \E f \in Flows, d \in Devices : MeteredStep(f, d)
  BY <1>1, <1>3, <1>7, StepMetered
<1> QED
  BY <1>1, <1>4, <1>5, <1>6, <1>7, AdmitBalance, CompletionBalance, AbandonmentBalance
     DEF MeteredEngine

\* The clock: everyone in the system waits one more unit of the window.
LEMMA ClockBalance ==
    ASSUME Known, MeterInv, LittleInv, ClockStep PROVE LittleInv'
<1> DEFINE u == now + 1
<1>1. /\ now \in Nat /\ now < Horizon /\ UpTo(meter, now) /\ now' = u
      /\ meter' = meter /\ born' = born /\ UNCHANGED vars /\ Idle
      /\ meter.inSystem = Cardinality(InSystem)
  BY DEF ClockStep, MeterInv, Counts
<1>2. /\ InSystem \subseteq Flows /\ IsFiniteSet(InSystem) /\ Waiting \in Nat
      /\ \A f \in Flows : Ages[f] \in Nat /\ Ages[f] = Measured(born[f], now)
  BY <1>1, AgesType DEF LittleInv
<1>3. InSystem' = InSystem /\ admitted' = admitted /\ stack' = <<>>
  BY <1>1 DEF vars, engineVars, flowVars, stepVars, InSystem, IsComplete, Idle
<1>4. BirthsKept'
  <2>1. 0..now \subseteq 0..u
    BY <1>1
  <2> QED
    BY <1>1, <1>3, <2>1 DEF LittleInv, BirthsKept
<1>5. SystemAt(meter, u) = SystemAt(meter, now)
                               + (IF now >= Warmup THEN meter.inSystem ELSE 0)
  BY <1>1, TickGrows
<1>6. PICK A : A = Ages'
  OBVIOUS
<1>7. \A f \in InSystem : Ages[f] \in Nat
                          /\ A[f] = Ages[f] + (IF now >= Warmup THEN 1 ELSE 0)
  <2> TAKE f \in InSystem
  <2>1. A[f] = Measured(born[f], u) /\ f \in Flows
    BY <1>1, <1>2, <1>6 DEF Ages
  <2>2. born[f] \in 0..now
    BY <2>1 DEF LittleInv, BirthsKept
  <2>3. Measured(born[f], u) =
            Measured(born[f], now) + (IF now >= Warmup THEN 1 ELSE 0)
    BY <1>1, <2>2, TickGrows
  <2> QED
    BY <1>2, <2>1, <2>3
<1>8. Waiting' = Total(InSystem, A)
  BY <1>3, <1>6 DEF Waiting
<1>9. Total(InSystem, A) =
          Total(InSystem, Ages) + (IF now >= Warmup THEN Cardinality(InSystem) ELSE 0)
  <2> DEFINE a == Ages
  <2>1. \A f \in InSystem : a[f] \in Nat
                            /\ A[f] = a[f] + (IF now >= Warmup THEN 1 ELSE 0)
    BY <1>7
  <2>2. Total(InSystem, a) \in Nat
    BY <1>2 DEF Waiting
  <2> HIDE DEF a
  <2>3. CASE now >= Warmup
    <3>1. \A f \in InSystem : a[f] \in Nat /\ A[f] = a[f] + 1
      BY <2>1, <2>3
    <3>2. Total(InSystem, A) = Total(InSystem, a) + Cardinality(InSystem)
      BY <1>2, <3>1, TotalGrows
    <3> QED
      BY <2>3, <3>2 DEF a
  <2>4. CASE ~(now >= Warmup)
    <3>1. \A f \in InSystem : A[f] = a[f]
      BY <2>1, <2>4
    <3>2. Total(InSystem, a) = Total(InSystem, A)
      BY <3>1, TotalSame
    <3> QED
      BY <2>2, <2>4, <3>2 DEF a
  <2> QED
    BY <2>3, <2>4
<1>10. /\ SystemAt(meter, now)' = SystemAt(meter, u)
       /\ BornInWindow' = BornInWindow
  BY <1>1, <1>3 DEF SystemAt, BornInWindow
<1>11. /\ SystemAt(meter, now) \in Int /\ meter.sojourns \in Int
       /\ meter.inSystem \in Int
  BY <1>1, CounterTypes, IntegralTypes DEF UpTo, Collector
<1>12. ASSUME NEW area \in Int, NEW old \in Int, NEW w \in Int, NEW n \in Int
       PROVE  /\ area <= old + w => area + n <= old + (w + n)
              /\ area = old + w => area + n = old + (w + n)
  BY <1>12
<1>13. PICK n \in Int : n = IF now >= Warmup THEN Cardinality(InSystem) ELSE 0
  BY <1>1, <1>11
<1>14. /\ SystemAt(meter, u) = SystemAt(meter, now) + n
       /\ Waiting' = Waiting + n
  BY <1>1, <1>5, <1>8, <1>9, <1>13 DEF Waiting
<1>15. PICK area, old, w : /\ area = SystemAt(meter, now) /\ old = meter.sojourns
                           /\ w = Waiting
  OBVIOUS
<1> HIDE DEF u
<1>16. Balance'
  <2>1. area \in Int /\ old \in Int /\ w \in Int
    BY <1>2, <1>11, <1>15
  <2>2. /\ meter.abandonments \in Nat
        /\ meter.abandonments = 0 => /\ area <= old + w
                                     /\ BornInWindow => area = old + w
    BY <1>15 DEF LittleInv, Balance
  <2>3. meter.abandonments = 0 =>
            /\ area + n <= old + (w + n)
            /\ BornInWindow => area + n = old + (w + n)
    BY <1>12, <1>13, <2>1, <2>2
  <2> QED
    BY <1>1, <1>10, <1>14, <1>15, <2>2, <2>3 DEF Balance
<1> QED
  BY <1>4, <1>16 DEF LittleInv

\* Every step of a measured run keeps the balance.
LEMMA LittleKept ==
    ASSUME Known, BooksInv, OccupiedExact, MeterInv, LittleInv,
           [HistoryNext]_<<vars, runVars, history>>
    PROVE  LittleInv'
<1>1. Running /\ now \in Nat
  BY DEF Running, MeterInv
<1>2. CASE ClockStep
  BY <1>2, ClockBalance
<1>3. CASE UNCHANGED now /\ PolicyAnswer /\ UNCHANGED <<born, meter>>
  <2>1. Metered(0, 0) /\ UNCHANGED <<admitted, cursor>>
    BY <1>1, <1>3, QuietMetered
  <2>2. InSystem' = InSystem
    BY <2>1 DEF InSystem, IsComplete
  <2> QED
    BY <1>3, <2>1, <2>2, QuietBalance, BirthsStay DEF LittleInv
<1>4. CASE UNCHANGED now /\ MeteredEngine /\ UNCHANGED policyVars
  BY <1>4, EngineBalance, BirthsStay DEF LittleInv
<1>5. CASE UNCHANGED <<vars, runVars, history>>
  <2>1. /\ UNCHANGED <<admitted, cursor, pins, occupied, where>> /\ born' = born
        /\ meter' = meter /\ now' = now
    BY <1>5
       DEF runVars, vars, engineVars, flowVars, stepVars, deviceVars, timerVars
  <2>2. Metered(0, 0)
    BY <1>1, <2>1, CountingCalls, QuietCounts DEF Running
  <2>3. InSystem' = InSystem
    BY <2>1 DEF InSystem, IsComplete
  <2> QED
    BY <1>5, <2>1, <2>2, <2>3, QuietBalance, BirthsStay DEF LittleInv
<1> QED
  BY <1>2, <1>3, <1>4, <1>5 DEF HistoryNext, RunNext

\* A run that has not begun is balanced.
LEMMA LittleInit == ASSUME HistoryInit PROVE LittleInv
<1>1. /\ now = 0 /\ meter = Fresh /\ born = [f \in Flows |-> 0] /\ stack = <<>>
      /\ Init
  BY DEF HistoryInit, RunInit, Init
<1>2. Measured(0, 0) = 0
  BY MeasuredIs
<1>3. SystemAt(meter, now) = 0 /\ meter.sojourns = 0 /\ meter.abandonments = 0
  BY <1>1, <1>2 DEF SystemAt, Fresh
<1>4. Waiting = 0
  <2>1. InSystem = {}
    BY <1>1 DEF Init, InSystem
  <2> QED
    BY <2>1, TotalEmpty DEF Waiting
<1>5. Balance
  BY <1>3, <1>4 DEF Balance
<1> QED
  BY <1>1, <1>5 DEF LittleInv, BirthsKept

\* What flows have waited is recorded or still being waited.
THEOREM BalanceHolds == HistorySpec => []LittleInv
BY LittleInit, LittleKept, MeterHolds, RunsDiscipline, KnownAll, BooksInvHolds,
   OccupiedHolds, PTL DEF HistorySpec

\* Little's law holds of what is measured: once everyone is done and nobody was
\* abandoned, the time flows spent in the system in the measured window is at most
\* the sum of their sojourns, and exactly that if they all arrived after the
\* warm-up (LittlesLaw).
THEOREM LittleHolds == HistorySpec => []LittlesLaw
<1>1. ASSUME MeterInv, LittleInv, InSystem = {}, meter.abandonments = 0
      PROVE  /\ AsOfNow.systemArea <= meter.sojourns
             /\ (\A f \in admitted : born[f] >= Warmup)
                    => AsOfNow.systemArea = meter.sojourns
  <2>1. AsOfNow.systemArea = SystemAt(meter, now)
    BY <1>1, FinalizedIs DEF MeterInv, AsOfNow
  <2>2. Waiting = 0
    BY <1>1, TotalEmpty DEF Waiting
  <2>3. meter.sojourns \in Int /\ meter.sojourns + 0 = meter.sojourns
    BY <1>1, CounterTypes DEF MeterInv, UpTo
  <2> QED
    BY <1>1, <2>1, <2>2, <2>3 DEF LittleInv, Balance, BornInWindow
<1>2. MeterInv /\ LittleInv => LittlesLaw
  BY <1>1 DEF LittlesLaw
<1> QED
  BY <1>2, MeterHolds, BalanceHolds, PTL
=============================================================================
