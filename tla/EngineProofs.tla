---------------------------- MODULE EngineProofs ----------------------------
(***************************************************************************)
(* Proofs about the engine that hold under every policy.  The lemmas speak *)
(* of the engine's own steps; the modules of the policies add the steps    *)
(* that are theirs and conclude about their specifications.                *)
(***************************************************************************)
EXTENDS EngineProperties, FiniteSetTheorems, WellFoundedInduction, TLAPS

-----------------------------------------------------------------------------
(* How totals behave when holders come and go, and that the least and the  *)
(* greatest element of a bounded set of naturals exist.                    *)

\* The units of finitely many holders are finitely many.
LEMMA UnitsFinite ==
    ASSUME NEW S, IsFiniteSet(S), NEW size, \A x \in S : size[x] \in Nat
    PROVE  IsFiniteSet(Units(S, size))
<1>1. \A x \in S : IsFiniteSet(UnitsOf(x, size))
  <2> TAKE x \in S
  <2>1. IsFiniteSet(1..size[x])
    BY FS_Interval
  <2>2. IsFiniteSet({x})
    BY FS_Singleton
  <2> QED
    BY <2>1, <2>2, FS_Product DEF UnitsOf
<1>2. IsFiniteSet({UnitsOf(x, size) : x \in S})
  <2> DEFINE unitsOf == [x \in S |-> UnitsOf(x, size)]
  <2>1. unitsOf \in Surjection(S, {UnitsOf(x, size) : x \in S})
    BY DEF Surjection
  <2> QED
    BY <2>1, FS_Surjection, FS_Image
<1> QED
  BY <1>1, <1>2, FS_UNION DEF Units

\* A total is a natural number.
LEMMA TotalType ==
    ASSUME NEW S, IsFiniteSet(S), NEW size, \A x \in S : size[x] \in Nat
    PROVE  Total(S, size) \in Nat
BY UnitsFinite, FS_CardinalityType DEF Total

\* Nobody holds nothing.
LEMMA TotalEmpty ==
    ASSUME NEW size
    PROVE  Total({}, size) = 0
BY FS_EmptySet DEF Total, Units

\* A new holder adds its size.
LEMMA TotalAdd ==
    ASSUME NEW S, IsFiniteSet(S), NEW size, NEW y, y \notin S,
           \A x \in S \cup {y} : size[x] \in Nat
    PROVE  Total(S \cup {y}, size) = Total(S, size) + size[y]
<1>1. Units(S \cup {y}, size) = Units(S, size) \cup UnitsOf(y, size)
  BY DEF Units
<1>2. Units(S, size) \cap UnitsOf(y, size) = {}
  BY DEF Units, UnitsOf
<1>0. size[y] \in Nat
  OBVIOUS
<1>3. IsFiniteSet(UnitsOf(y, size)) /\ Cardinality(UnitsOf(y, size)) = size[y]
  <2> DEFINE k == size[y]
  <2>0. k \in Nat
    BY <1>0
  <2> HIDE DEF k
  <2>4. IsFiniteSet(1..k) /\ Cardinality(1..k) = IF 1 > k THEN 0 ELSE k - 1 + 1
    BY <2>0, FS_Interval
  <2>5. IsFiniteSet(1..k) /\ Cardinality(1..k) = k
    BY <2>0, <2>4
  <2>1. IsFiniteSet(1..size[y]) /\ Cardinality(1..size[y]) = size[y]
    BY <2>5 DEF k
  <2>2. IsFiniteSet({y}) /\ Cardinality({y}) = 1
    BY FS_Singleton
  <2>3. /\ IsFiniteSet({y} \X (1..size[y]))
        /\ Cardinality({y} \X (1..size[y])) = Cardinality({y}) * Cardinality(1..size[y])
    BY <2>1, <2>2, FS_Product
  <2> QED
    BY <1>0, <2>1, <2>2, <2>3 DEF UnitsOf
<1>4. IsFiniteSet(Units(S, size)) /\ Cardinality(Units(S, size)) \in Nat
  BY UnitsFinite, FS_CardinalityType
<1>5. /\ IsFiniteSet(Units(S, size) \cup UnitsOf(y, size))
      /\ Cardinality(Units(S, size) \cup UnitsOf(y, size)) =
             Cardinality(Units(S, size)) + Cardinality(UnitsOf(y, size))
                 - Cardinality(Units(S, size) \cap UnitsOf(y, size))
  BY <1>3, <1>4, FS_Union
<1>6. Cardinality(Units(S, size) \cap UnitsOf(y, size)) = 0
  BY <1>2, FS_EmptySet
<1>7. Cardinality(Units(S \cup {y}, size)) = Cardinality(Units(S, size)) + size[y]
  <2> DEFINE n == Cardinality(Units(S, size))
  <2>1. Cardinality(Units(S, size) \cup UnitsOf(y, size)) = n + size[y] - 0
    BY <1>3, <1>5, <1>6
  <2>2. n \in Nat /\ size[y] \in Nat
    BY <1>0, <1>4
  <2> HIDE DEF n
  <2>3. n + size[y] - 0 = n + size[y]
    BY <2>2
  <2> QED
    BY <1>1, <2>1, <2>3 DEF n
<1> QED
  BY <1>7 DEF Total

\* Fewer holders hold at most as much.
LEMMA TotalMonotone ==
    ASSUME NEW S, IsFiniteSet(S), NEW R, R \subseteq S, NEW size,
           \A x \in S : size[x] \in Nat
    PROVE  Total(R, size) <= Total(S, size)
<1>1. Units(R, size) \subseteq Units(S, size)
  BY DEF Units
<1>2. IsFiniteSet(Units(S, size))
  BY UnitsFinite
<1>3. Cardinality(Units(R, size)) <= Cardinality(Units(S, size))
  BY <1>1, <1>2, FS_Subset
<1> QED
  BY <1>3 DEF Total

\* A holder that goes takes its size with it.
LEMMA TotalRemove ==
    ASSUME NEW S, IsFiniteSet(S), NEW size, \A x \in S : size[x] \in Nat,
           NEW y \in S
    PROVE  /\ Total(S, size) = Total(S \ {y}, size) + size[y]
           /\ Total(S \ {y}, size) \in Nat /\ size[y] \in Nat
<1>1. IsFiniteSet(S \ {y}) /\ Total(S \ {y}, size) \in Nat
  BY FS_RemoveElement, TotalType
<1>2. (S \ {y}) \cup {y} = S
  OBVIOUS
<1>3. y \notin S \ {y} /\ \A x \in (S \ {y}) \cup {y} : size[x] \in Nat
  OBVIOUS
<1>4. Total((S \ {y}) \cup {y}, size) = Total(S \ {y}, size) + size[y]
  BY <1>1, <1>3, TotalAdd
<1>5. size[y] \in Nat
  OBVIOUS
<1> QED
  BY <1>1, <1>2, <1>4, <1>5

\* Each holder holds at most the total.
LEMMA TotalBounds ==
    ASSUME NEW S, IsFiniteSet(S), NEW size, \A x \in S : size[x] \in Nat,
           NEW y \in S
    PROVE  size[y] <= Total(S, size)
<1>1. /\ Total(S, size) = Total(S \ {y}, size) + size[y]
      /\ Total(S \ {y}, size) \in Nat /\ size[y] \in Nat
  BY TotalRemove
<1> QED
  BY <1>1

\* What a set holds is what a part of it and the rest of it hold.
LEMMA TotalSplit ==
    ASSUME NEW S, IsFiniteSet(S), NEW R, R \subseteq S, NEW size,
           \A x \in S : size[x] \in Nat
    PROVE  /\ Total(S, size) = Total(R, size) + Total(S \ R, size)
           /\ Total(R, size) \in Nat /\ Total(S \ R, size) \in Nat
<1>1. IsFiniteSet(R) /\ IsFiniteSet(S \ R)
  BY FS_Subset
<1>2. IsFiniteSet(Units(R, size)) /\ IsFiniteSet(Units(S \ R, size))
  <2>1. (\A x \in R : size[x] \in Nat) /\ (\A x \in S \ R : size[x] \in Nat)
    OBVIOUS
  <2> QED
    BY <1>1, <2>1, UnitsFinite
<1>3. Units(S, size) = Units(R, size) \cup Units(S \ R, size)
  BY DEF Units
<1>4. Units(R, size) \cap Units(S \ R, size) = {}
  BY DEF Units, UnitsOf
<1> DEFINE A == Units(R, size) B == Units(S \ R, size)
<1>5. /\ Cardinality(A \cup B) = Cardinality(A) + Cardinality(B) - Cardinality(A \cap B)
      /\ Cardinality(A) \in Nat /\ Cardinality(B) \in Nat
  BY <1>2, FS_Union, FS_CardinalityType
<1>6. Cardinality(A \cap B) = 0
  BY <1>4, FS_EmptySet
<1>7. Cardinality(A \cup B) = Cardinality(A) + Cardinality(B)
  <2> HIDE DEF A, B
  <2> QED
    BY <1>5, <1>6
<1> QED
  BY <1>3, <1>5, <1>7 DEF Total

\* A total does not depend on what the holders are called.
LEMMA TotalRenamed ==
    ASSUME NEW S, IsFiniteSet(S), NEW W, NEW size, NEW other,
           NEW name \in [S -> W],
           \A w \in W : \E x \in S : name[x] = w,
           \A x, y \in S : name[x] = name[y] => x = y,
           \A x \in S : size[x] = other[name[x]] /\ size[x] \in Nat
    PROVE  Total(S, size) = Total(W, other)
<1> DEFINE rename == [u \in Units(S, size) |-> <<name[u[1]], u[2]>>]
<1>1. ASSUME NEW u \in Units(S, size)
      PROVE  /\ u[1] \in S /\ u[2] \in 1..size[u[1]] /\ u = <<u[1], u[2]>>
  BY <1>1 DEF Units, UnitsOf
<1>2. rename \in [Units(S, size) -> Units(W, other)]
  <2>1. ASSUME NEW u \in Units(S, size) PROVE <<name[u[1]], u[2]>> \in Units(W, other)
    <3>1. name[u[1]] \in W /\ u[2] \in 1..other[name[u[1]]]
      BY <1>1
    <3> QED
      BY <3>1 DEF Units, UnitsOf
  <2> QED
    BY <2>1
<1>3. ASSUME NEW u \in Units(S, size), NEW v \in Units(S, size), rename[u] = rename[v]
      PROVE  u = v
  <2>1. name[u[1]] = name[v[1]] /\ u[2] = v[2]
    BY <1>3
  <2>2. u[1] = v[1]
    BY <1>1, <2>1
  <2> QED
    BY <1>1, <2>1, <2>2
<1>4. ASSUME NEW r \in Units(W, other) PROVE \E u \in Units(S, size) : rename[u] = r
  <2>1. PICK w \in W : r \in UnitsOf(w, other)
    BY DEF Units
  <2>2. PICK x \in S : name[x] = w
    OBVIOUS
  <2>3. PICK k \in 1..other[w] : r = <<w, k>>
    BY <2>1 DEF UnitsOf
  <2>4. <<x, k>> \in Units(S, size)
    <3>1. k \in 1..size[x]
      BY <2>2
    <3> QED
      BY <3>1 DEF Units, UnitsOf
  <2> QED
    BY <2>2, <2>3, <2>4
<1>5. rename \in Bijection(Units(S, size), Units(W, other))
  <2> HIDE DEF rename
  <2> QED
    BY <1>2, <1>3, <1>4 DEF Bijection, Injection, Surjection, IsInjective
<1> QED
  BY <1>5, UnitsFinite, FS_Bijection DEF Total, ExistsBijection

\* Every non-empty set of naturals has a least element.
LEMMA LeastProperty ==
    ASSUME NEW S \in SUBSET Nat, S # {}
    PROVE  Least(S) \in S /\ \A x \in S : Least(S) <= x
\* A smallest of the intervals 1..n that the elements n of S stand for.
<1> DEFINE T == {1..n : n \in S}
<1>1. T \subseteq FiniteSubsetsOf(Nat) /\ T # {}
  <2>1. ASSUME NEW n \in S PROVE 1..n \in FiniteSubsetsOf(Nat)
    <3>1. IsFiniteSet(1..n)
      BY FS_Interval
    <3>2. 1..n \in SUBSET Nat
      OBVIOUS
    <3> QED
      BY <3>1, <3>2 DEF FiniteSubsetsOf
  <2> QED
    BY <2>1
<1>2. IsWellFoundedOn(StrictSubsetOrdering(Nat), FiniteSubsetsOf(Nat))
  BY FS_StrictSubsetOrderingWellFounded
<1> HIDE DEF T
<1>3. PICK I \in T : \A J \in T : ~(<<J, I>> \in StrictSubsetOrdering(Nat))
  BY <1>1, <1>2, WFMin
<1>4. PICK m \in S : I = 1..m
  BY DEF T
<1>5. ASSUME NEW y \in S PROVE m <= y
  <2> SUFFICES ASSUME y < m PROVE FALSE
    OBVIOUS
  <2>1. m \in Nat /\ y \in Nat
    OBVIOUS
  <2>2. 1..y \in T
    BY DEF T
  <2>3. 1..y \subseteq 1..m /\ m \in 1..m /\ m \notin 1..y
    BY <2>1
  <2>4. 1..y \in SUBSET Nat /\ 1..m \in SUBSET Nat /\ 1..y # 1..m
    BY <2>3
  <2>5. <<1..y, 1..m>> \in StrictSubsetOrdering(Nat)
    BY <2>3, <2>4 DEF StrictSubsetOrdering
  <2> QED
    BY <1>3, <1>4, <2>2, <2>5
<1> QED
  BY <1>5 DEF Least

\* Every non-empty, bounded set of naturals has a greatest element.
LEMMA GreatestProperty ==
    ASSUME NEW S \in SUBSET Nat, S # {}, NEW b \in Nat, \A x \in S : x <= b
    PROVE  Greatest(S) \in S /\ \A x \in S : x <= Greatest(S)
<1> DEFINE Bounds == {u \in Nat : \A x \in S : x <= u}
<1> DEFINE m == Least(Bounds)
<1>1. m \in Bounds /\ \A u \in Bounds : m <= u
  BY LeastProperty
<1> HIDE DEF m
<1>2. m \in S
  <2> SUFFICES ASSUME m \notin S PROVE FALSE
    OBVIOUS
  <2>1. m \in Nat /\ \A x \in S : x \in Nat /\ x <= m /\ x # m
    BY <1>1
  <2>2. \A x \in S : x <= m - 1
    BY <2>1
  <2>3. PICK z \in S : TRUE
    OBVIOUS
  <2>4. m - 1 \in Nat
    BY <2>1, <2>2, <2>3
  <2>5. m - 1 \in Bounds
    BY <2>2, <2>4
  <2> QED
    BY <1>1, <2>1, <2>5
<1> QED
  BY <1>1, <1>2 DEF Greatest

-----------------------------------------------------------------------------
(* The invariant of the engine.                                            *)

\* What types alone do not say: a cursor stays within the flow's work, a flow
\* is COMPLETE exactly when its cursor has reached the end, an invocation has
\* a device exactly while it is entering or decoding, and the stops left over
\* from a device-loop turn are of distinct flows that are not over.
CursorInRange == \A f \in Flows : cursor[f] <= Len(Work[f])
CompleteIsOver ==
    \A f \in Flows : phase[f] = "COMPLETE" <=> cursor[f] = Len(Work[f])
ResidentIsPlaced ==
    \A f \in Flows : phase[f] \in {"PREFILL", "DECODE"} <=> where[f] # NoDevice
StopsOpen ==
    /\ \A r \in finished \cup exhausted : cursor[r.flow] < Len(Work[r.flow])
    /\ \A r, s \in finished \cup exhausted : r.flow = s.flow => r = s
    /\ finished \cap exhausted = {}

EngineInv == /\ EngineTypeOK /\ CursorInRange /\ CompleteIsOver
             /\ ResidentIsPlaced /\ StopsOpen

-----------------------------------------------------------------------------
(* The workload and the tasks on the stack.                                *)

\* The elements of a sequence over S are in S.
LEMMA ElementType ==
    ASSUME NEW S, NEW q \in Seq(S), NEW i \in 1..Len(q)
    PROVE  Len(q) \in Nat /\ q[i] \in S
OBVIOUS

\* So is its head, and its tail is again such a sequence.
LEMMA HeadTailType ==
    ASSUME NEW S, NEW q \in Seq(S), q # <<>>
    PROVE  Head(q) \in S /\ Tail(q) \in Seq(S)
OBVIOUS

\* Every invocation of the workload is well formed, and every flow has one.
LEMMA WorkType ==
    ASSUME NEW f \in Flows
    PROVE  /\ Len(Work[f]) \in Nat /\ Len(Work[f]) > 0
           /\ \A s \in Steps(f) : /\ Kv(f, s) \in Nat
                                  /\ Work[f][s].output \in Nat
                                  /\ Work[f][s].gap \in BOOLEAN
<1>1. Work[f] \in Seq([kv : Nat, output : Nat, gap : BOOLEAN]) /\ Work[f] # <<>>
  BY WorkAssumption
<1>2. \A s \in 1..Len(Work[f]) :
        Work[f][s] \in [kv : Nat, output : Nat, gap : BOOLEAN]
  <2> DEFINE inv == [kv : Nat, output : Nat, gap : BOOLEAN]
  <2>1. Work[f] \in Seq(inv)
    BY <1>1
  <2> HIDE DEF inv
  <2>2. \A s \in 1..Len(Work[f]) : Work[f][s] \in inv
    BY <2>1, ElementType
  <2> QED
    BY <2>2 DEF inv
<1>3. Len(Work[f]) \in Nat /\ Len(Work[f]) > 0
  BY <1>1
<1> QED
  BY <1>2, <1>3 DEF Steps, Kv

\* The pin of a flow holds a natural amount of KV, enough for each invocation.
LEMMA PinSizeType ==
    ASSUME NEW f \in Flows
    PROVE  PinSize[f] \in Nat /\ \A s \in Steps(f) : Kv(f, s) <= PinSize[f]
<1> DEFINE kvs == {Kv(f, s) : s \in Steps(f)}
<1> DEFINE kv == [s \in Steps(f) |-> Kv(f, s)]
<1>1. /\ IsFiniteSet(Steps(f)) /\ 1 \in Steps(f)
      /\ \A s \in Steps(f) : kv[s] \in Nat /\ kv[s] = Kv(f, s)
  BY WorkType, FS_Interval DEF Steps
<1> HIDE DEF kv
<1>2. Total(Steps(f), kv) \in Nat
  BY <1>1, TotalType
<1>3. \A s \in Steps(f) : kv[s] <= Total(Steps(f), kv)
  BY <1>1, TotalBounds
<1>4. /\ kvs \in SUBSET Nat /\ kvs # {}
      /\ \A k \in kvs : k <= Total(Steps(f), kv)
  BY <1>1, <1>3
<1>5. Greatest(kvs) \in kvs /\ \A k \in kvs : k <= Greatest(kvs)
  <2> HIDE DEF kvs
  <2> QED
    BY <1>2, <1>4, GreatestProperty
<1>6. PinSize[f] = Greatest(kvs)
  BY DEF PinSize
<1> QED
  BY <1>4, <1>5, <1>6

\* The flow a pending call is about is one of the workload's.
LEMMA HeadType ==
    ASSUME stack \in Seq(Task), stack # <<>>
    PROVE  /\ Tail(stack) \in Seq(Task)
           /\ Head(stack) \in Task
           /\ Head(stack).op # "Tick" => Head(stack) \in FlowTask
BY DEF Task, FlowTask, TickTask

\* A task about a flow is a task.
LEMMA TaskOfType ==
    ASSUME NEW op \in (EventOps \ {"Tick"}) \cup ActionOps, NEW f \in Flows,
           NEW s \in Nat, NEW d \in 0..NumDevices
    PROVE  TaskOf(op, f, s, d) \in FlowTask /\ TaskOf(op, f, s, d) \in Task
BY DEF TaskOf, FlowTask, Task, EventOps, ActionOps

-----------------------------------------------------------------------------
(* The invariant holds initially and is preserved by each trigger.         *)

\* The engine starts in its invariant.
LEMMA InitInv ==
    ASSUME Init PROVE EngineInv
<1>1. \A f \in Flows : /\ Work[f][1].output \in Nat
                       /\ output[f] \in [Steps(f) -> Nat]
                       /\ 0 < Len(Work[f]) /\ Len(Work[f]) \in Nat
  <2> TAKE f \in Flows
  <2>1. /\ \A s \in Steps(f) : Work[f][s].output \in Nat
        /\ 0 < Len(Work[f]) /\ Len(Work[f]) \in Nat
    BY WorkType
  <2>2. 1 \in Steps(f)
    BY <2>1 DEF Steps
  <2>3. output[f] = [s \in Steps(f) |-> Work[f][s].output]
    BY DEF Init
  <2> QED
    BY <2>1, <2>2, <2>3
<1>2. EngineTypeOK
  <2>1. /\ left \in [Flows -> Int] /\ DOMAIN output = Flows
        /\ \A f \in Flows : output[f] \in [Steps(f) -> Nat]
    BY <1>1 DEF Init
  <2>2. /\ arrivals \in 0..NumFlows
        /\ cursor \in [Flows -> Nat] /\ phase \in [Flows -> Phases]
        /\ where \in [Flows -> 0..NumDevices]
        /\ preemptions \in [Flows -> Nat] /\ budget \in [Flows -> Int]
        /\ pinDev \in [Flows -> 0..NumDevices]
    BY SizesAssumption DEF Init, Phases, Unmetered, NoDevice
  <2>3. /\ pins \in [Devices -> SUBSET Flows]
        /\ beHbm \in [Devices -> Nat] /\ accrued \in [Devices -> Nat]
        /\ reready \in Seq([flow : Flows, step : Nat]) /\ stack \in Seq(Task)
    BY DEF Init
  <2> QED
    BY <2>1, <2>2, <2>3 DEF Init, EngineTypeOK
<1> QED
  BY <1>1, <1>2 DEF Init, EngineInv, CursorInRange, CompleteIsOver,
                    ResidentIsPlaced, StopsOpen, NoDevice

\* Credited service keeps the counters of tokens integers.
LEMMA CreditedType ==
    ASSUME EngineTypeOK, NEW d \in Devices
    PROVE  /\ CreditedLeft(d) \in [Flows -> Int]
           /\ CreditedBudget(d) \in [Flows -> Int]
<1>1. /\ left \in [Flows -> Int] /\ budget \in [Flows -> Int]
      /\ accrued[d] \in Nat
  BY DEF EngineTypeOK
<1>2. CreditedLeft(d) \in [Flows -> Int]
  BY <1>1 DEF CreditedLeft
<1>3. CreditedBudget(d) \in [Flows -> Int]
  BY <1>1 DEF CreditedBudget
<1> QED
  BY <1>2, <1>3

\* An arrival preserves the invariant.
LEMMA ArrivalInv ==
    ASSUME EngineInv, Arrival PROVE EngineInv'
<1>1. arrivals' \in 0..NumFlows /\ arrivals + 1 \in Flows
  BY SizesAssumption DEF EngineInv, EngineTypeOK, Arrival, Flows
<1>2. stack' \in Seq(Task)
  BY <1>1, TaskOfType, SizesAssumption DEF Arrival, EventOps, NoDevice
<1> QED
  BY <1>1, <1>2 DEF EngineInv, EngineTypeOK, CursorInRange, CompleteIsOver,
       ResidentIsPlaced, StopsOpen, Arrival, flowVars, stepVars, deviceVars,
       timerVars, loopVars

\* A tick preserves the invariant.
LEMMA TickTimerInv ==
    ASSUME EngineInv, TickTimer PROVE EngineInv'
<1>1. stack' \in Seq(Task)
  BY DEF TickTimer, TaskOf, Task, TickTask
<1> QED
  BY <1>1 DEF EngineInv, EngineTypeOK, CursorInRange, CompleteIsOver,
       ResidentIsPlaced, StopsOpen, TickTimer, flowVars, stepVars, deviceVars,
       timerVars, loopVars

\* The end of a tool-time gap preserves the invariant.
LEMMA GapEndInv ==
    ASSUME EngineInv, NEW f \in Flows, GapEnd(f) PROVE EngineInv'
<1>1. Step(f) \in Nat
  BY DEF EngineInv, EngineTypeOK, Step
<1>2. stack' \in Seq(Task)
  BY <1>1, TaskOfType, SizesAssumption DEF GapEnd, EventOps, NoDevice
<1> QED
  BY <1>2 DEF EngineInv, EngineTypeOK, CursorInRange, CompleteIsOver,
       ResidentIsPlaced, StopsOpen, GapEnd, flowVars, stepVars, deviceVars,
       timerVars, loopVars

\* The end of an entry latency preserves the invariant.
LEMMA EnterDeviceInv ==
    ASSUME EngineInv, NEW t \in timers, EnterDevice(t) PROVE EngineInv'
<1>1. t.flow \in Flows /\ t.dev \in Devices /\ phase[t.flow] = "PREFILL"
  BY DEF EngineInv, EngineTypeOK, EnterDevice, StillEntering
<1>2. left' \in [Flows -> Int] /\ budget' \in [Flows -> Int]
  BY <1>1, CreditedType DEF EngineInv, EnterDevice
<1> QED
  BY <1>1, <1>2 DEF EngineInv, EngineTypeOK, CursorInRange, CompleteIsOver,
       ResidentIsPlaced, StopsOpen, EnterDevice, flowVars, loopVars, Phases

\* A void entry timer preserves the invariant.
LEMMA EntryVoidInv ==
    ASSUME EngineInv, NEW t \in timers, EntryVoid(t) PROVE EngineInv'
BY DEF EngineInv, EngineTypeOK, CursorInRange, CompleteIsOver,
       ResidentIsPlaced, StopsOpen, EntryVoid, flowVars, stepVars, deviceVars,
       loopVars

\* A token's worth of decode time preserves the invariant.
LEMMA DecodeTokenInv ==
    ASSUME EngineInv, NEW d \in Devices, DecodeToken(d) PROVE EngineInv'
<1>1. accrued' \in [Devices -> Nat]
  BY DEF EngineInv, EngineTypeOK, DecodeToken
<1> QED
  BY <1>1 DEF EngineInv, EngineTypeOK, CursorInRange, CompleteIsOver,
       ResidentIsPlaced, StopsOpen, DecodeToken, flowVars, stepVars, timerVars,
       loopVars

\* The end of a decode interval preserves the invariant: who stops is
\* decoding on the device, hence not over.
LEMMA IntervalEndInv ==
    ASSUME EngineInv, NEW d \in Devices, IntervalEnd(d) PROVE EngineInv'
<1>1. left' \in [Flows -> Int] /\ budget' \in [Flows -> Int]
  BY CreditedType DEF EngineInv, IntervalEnd
<1>2. EngineTypeOK'
  <2>1. \A f \in Decoding(d) : Stop(f, d) \in [flow : Flows, dev : Devices]
    BY DEF Stop, Decoding, Resident
  <2>2. /\ finished' \subseteq [flow : Flows, dev : Devices]
        /\ exhausted' \subseteq [flow : Flows, dev : Devices]
    BY <2>1 DEF IntervalEnd
  <2>3. accrued' \in [Devices -> Nat]
    BY DEF EngineInv, EngineTypeOK, IntervalEnd
  <2> QED
    BY <1>1, <2>2, <2>3 DEF EngineInv, EngineTypeOK, IntervalEnd, flowVars,
         timerVars
<1>3. \A f \in Decoding(d) : f \in Flows /\ cursor[f] < Len(Work[f])
  <2> TAKE f \in Decoding(d)
  <2>1. f \in Flows /\ phase[f] # "COMPLETE"
    BY DEF Decoding, Resident
  <2>2. cursor[f] \in Nat /\ Len(Work[f]) \in Nat
    BY <2>1, WorkType DEF EngineInv, EngineTypeOK
  <2> QED
    BY <2>1, <2>2 DEF EngineInv, CursorInRange, CompleteIsOver
<1>4. StopsOpen'
  BY <1>3 DEF StopsOpen, IntervalEnd, Stop
<1> QED
  BY <1>2, <1>4 DEF EngineInv, CursorInRange, CompleteIsOver,
       ResidentIsPlaced, IntervalEnd

-----------------------------------------------------------------------------
(* Completions, abandonments and re-offers preserve the invariant.         *)

\* A stop that is left over names a flow with work to go.
LEMMA StopType ==
    ASSUME EngineInv, NEW f, NEW d, Stop(f, d) \in finished \cup exhausted
    PROVE  /\ f \in Flows /\ d \in Devices
           /\ cursor[f] \in Nat /\ Len(Work[f]) \in Nat
           /\ cursor[f] < Len(Work[f]) /\ Step(f) \in Steps(f)
           /\ NextKv(f) \in Nat
<1>1. f \in Flows /\ d \in Devices /\ cursor[f] < Len(Work[f])
  BY DEF EngineInv, EngineTypeOK, StopsOpen, Stop
<1>2. cursor[f] \in Nat /\ Len(Work[f]) \in Nat
  BY <1>1, WorkType DEF EngineInv, EngineTypeOK
<1>3. Step(f) \in Steps(f)
  BY <1>1, <1>2 DEF Step, Steps
<1> QED
  BY <1>1, <1>2, <1>3, WorkType DEF NextKv

\* Taking back best-effort KV leaves a natural amount.
LEMMA ReleasedType ==
    ASSUME EngineTypeOK, NEW f \in Flows, NEW d, NextKv(f) \in Nat
    PROVE  Released(f, d) \in [Devices -> Nat]
<1>1. beHbm \in [Devices -> Nat]
  BY DEF EngineTypeOK
<1> DEFINE rest == IF beHbm[d] < NextKv(f) THEN 0 ELSE beHbm[d] - NextKv(f)
<1>2. d \in Devices => rest \in Nat
  BY <1>1
<1>3. Released(f, d) = beHbm \/ Released(f, d) = [beHbm EXCEPT ![d] = rest]
  BY DEF Released
<1> HIDE DEF rest
<1> QED
  BY <1>1, <1>2, <1>3

\* What the stops that are left over share with one that is taken.
LEMMA StopsShrink ==
    ASSUME EngineInv, NEW f, NEW d, Stop(f, d) \in finished \cup exhausted,
           finished' \subseteq finished \ {Stop(f, d)},
           exhausted' \subseteq exhausted \ {Stop(f, d)},
           \A g \in Flows : g # f => cursor'[g] = cursor[g]
    PROVE  /\ StopsOpen'
           /\ finished' \subseteq [flow : Flows, dev : Devices]
           /\ exhausted' \subseteq [flow : Flows, dev : Devices]
<1>1. \A r \in finished' \cup exhausted' : r.flow \in Flows /\ r.flow # f
  BY DEF EngineInv, EngineTypeOK, StopsOpen, Stop
<1> QED
  BY <1>1 DEF EngineInv, EngineTypeOK, StopsOpen

\* The variables Leave changes keep their types, and nobody else is touched.
LEMMA LeaveType ==
    ASSUME EngineInv, NEW f, NEW d, Stop(f, d) \in finished \cup exhausted,
           NEW n \in Nat, Leave(f, d, n)
    PROVE  /\ beHbm' \in [Devices -> Nat] /\ where' \in [Flows -> 0..NumDevices]
           /\ cursor' \in [Flows -> Nat] /\ preemptions' \in [Flows -> Nat]
           /\ occupied' \subseteq Flows
           /\ where'[f] = NoDevice /\ cursor'[f] = cursor[f] + n
           /\ \A g \in Flows : g # f => /\ where'[g] = where[g]
                                        /\ cursor'[g] = cursor[g]
<1>1. f \in Flows /\ NextKv(f) \in Nat
  BY StopType
<1>2. beHbm' \in [Devices -> Nat]
  BY <1>1, ReleasedType DEF EngineInv, Leave
<1>3. where' \in [Flows -> 0..NumDevices] /\ where' = [where EXCEPT ![f] = NoDevice]
  <2>1. where \in [Flows -> 0..NumDevices] /\ where' = [where EXCEPT ![f] = NoDevice]
    BY DEF EngineInv, EngineTypeOK, Leave
  <2>2. NoDevice \in 0..NumDevices
    BY SizesAssumption DEF NoDevice
  <2> QED
    BY <2>1, <2>2
<1>4. cursor' \in [Flows -> Nat] /\ cursor' = [cursor EXCEPT ![f] = @ + n]
  <2>1. cursor \in [Flows -> Nat] /\ cursor' = [cursor EXCEPT ![f] = @ + n]
    BY DEF EngineInv, EngineTypeOK, Leave
  <2>2. cursor[f] + n \in Nat
    BY <1>1, <2>1
  <2> QED
    BY <1>1, <2>1, <2>2
<1>5. preemptions' \in [Flows -> Nat] /\ occupied' \subseteq Flows
  BY DEF EngineInv, EngineTypeOK, Leave, Vacated
<1>6. where \in [Flows -> 0..NumDevices] /\ cursor \in [Flows -> Nat]
  BY DEF EngineInv, EngineTypeOK
<1> QED
  BY <1>1, <1>2, <1>3, <1>4, <1>5, <1>6

\* Releasing a reservation keeps pins sets of flows.
LEMMA ReleasePinType ==
    ASSUME EngineTypeOK, NEW f, ReleasePin(f)
    PROVE  pins' \in [Devices -> SUBSET Flows] /\ spilled' \subseteq Flows
BY DEF EngineTypeOK, ReleasePin

\* The completion of a flow's last invocation preserves the invariant.
LEMMA CompleteFlowInv ==
    ASSUME EngineInv, NEW f \in Flows, NEW d \in Devices, CompleteFlow(f, d)
    PROVE  EngineInv'
<1>1. Stop(f, d) \in finished \cup exhausted
  BY DEF CompleteFlow, Completing
<1>2. /\ cursor[f] \in Nat /\ Len(Work[f]) \in Nat /\ Step(f) \in Nat
      /\ cursor[f] + 1 = Len(Work[f])
  BY <1>1, StopType DEF CompleteFlow, IsLastStep, Step
<1>3. Leave(f, d, 1) /\ 1 \in Nat
  BY DEF CompleteFlow
<1>4. StopsOpen'
      /\ finished' \subseteq [flow : Flows, dev : Devices]
      /\ exhausted' \subseteq [flow : Flows, dev : Devices]
  <2>1. /\ finished' \subseteq finished \ {Stop(f, d)}
        /\ exhausted' \subseteq exhausted \ {Stop(f, d)}
    BY DEF CompleteFlow, Completing, EngineInv, StopsOpen
  <2>2. \A g \in Flows : g # f => cursor'[g] = cursor[g]
    BY <1>1, <1>3, LeaveType
  <2> QED
    BY <1>1, <2>1, <2>2, StopsShrink
<1>5. stack' \in Seq(Task)
  BY <1>2, TaskOfType, SizesAssumption DEF CompleteFlow, EventOps, NoDevice
<1>6. EngineTypeOK'
  <2>1. phase' \in [Flows -> Phases] /\ left' \in [Flows -> Int]
    BY DEF EngineInv, EngineTypeOK, CompleteFlow, Phases
  <2>2. pins' \in [Devices -> SUBSET Flows] /\ spilled' \subseteq Flows
    BY ReleasePinType DEF EngineInv, CompleteFlow
  <2> QED
    BY <1>1, <1>3, <1>4, <1>5, <2>1, <2>2, LeaveType
       DEF EngineInv, EngineTypeOK, CompleteFlow, flowVars
<1>7. CursorInRange' /\ CompleteIsOver' /\ ResidentIsPlaced'
  <2>1. /\ phase'[f] = "COMPLETE"
        /\ \A g \in Flows : g # f => phase'[g] = phase[g]
    BY DEF EngineInv, EngineTypeOK, CompleteFlow
  <2>2. /\ where'[f] = NoDevice /\ cursor'[f] = cursor[f] + 1
        /\ \A g \in Flows : g # f => /\ where'[g] = where[g]
                                     /\ cursor'[g] = cursor[g]
    BY <1>1, <1>2, <1>3, LeaveType
  <2> QED
    BY <1>2, <2>1, <2>2 DEF EngineInv, CursorInRange, CompleteIsOver,
       ResidentIsPlaced
<1> QED
  BY <1>4, <1>6, <1>7 DEF EngineInv

\* An abandonment preserves the invariant.
LEMMA AbandonFlowInv ==
    ASSUME EngineInv, NEW f \in Flows, NEW d \in Devices, AbandonFlow(f, d)
    PROVE  EngineInv'
<1>1. Stop(f, d) \in finished \cup exhausted
  BY DEF AbandonFlow
<1> DEFINE n == Len(Work[f]) - cursor[f]
<1>2. /\ cursor[f] \in Nat /\ Len(Work[f]) \in Nat /\ Step(f) \in Nat
      /\ n \in Nat /\ cursor[f] + n = Len(Work[f])
  BY <1>1, StopType DEF Step
<1>3. Leave(f, d, n)
  BY DEF AbandonFlow
<1>4. StopsOpen'
      /\ finished' \subseteq [flow : Flows, dev : Devices]
      /\ exhausted' \subseteq [flow : Flows, dev : Devices]
  <2>1. /\ finished' \subseteq finished \ {Stop(f, d)}
        /\ exhausted' \subseteq exhausted \ {Stop(f, d)}
    BY DEF AbandonFlow, EngineInv, StopsOpen
  <2>2. \A g \in Flows : g # f => cursor'[g] = cursor[g]
    BY <1>1, <1>2, <1>3, LeaveType
  <2> QED
    BY <1>1, <2>1, <2>2, StopsShrink
<1>5. stack' \in Seq(Task)
  BY <1>2, TaskOfType, SizesAssumption DEF AbandonFlow, EventOps, NoDevice
<1> HIDE DEF n
<1>6. EngineTypeOK'
  <2>1. phase' \in [Flows -> Phases] /\ abandoned' \subseteq Flows
    BY DEF EngineInv, EngineTypeOK, AbandonFlow, Phases
  <2>2. pins' \in [Devices -> SUBSET Flows] /\ spilled' \subseteq Flows
    BY ReleasePinType DEF EngineInv, AbandonFlow
  <2> QED
    BY <1>1, <1>2, <1>3, <1>4, <1>5, <2>1, <2>2, LeaveType
       DEF EngineInv, EngineTypeOK, AbandonFlow
<1>7. CursorInRange' /\ CompleteIsOver' /\ ResidentIsPlaced'
  <2>1. /\ phase'[f] = "COMPLETE"
        /\ \A g \in Flows : g # f => phase'[g] = phase[g]
    BY DEF EngineInv, EngineTypeOK, AbandonFlow
  <2>2. /\ where'[f] = NoDevice /\ cursor'[f] = cursor[f] + n
        /\ \A g \in Flows : g # f => /\ where'[g] = where[g]
                                     /\ cursor'[g] = cursor[g]
    BY <1>1, <1>2, <1>3, LeaveType
  <2> QED
    BY <1>2, <2>1, <2>2 DEF EngineInv, CursorInRange, CompleteIsOver,
       ResidentIsPlaced
<1> QED
  BY <1>4, <1>6, <1>7 DEF EngineInv

\* What moving on to the next invocation does to the invariant, whatever the
\* rest of the step does to pins, gaps and stack.
LEMMA AdvanceInv ==
    ASSUME EngineInv, NEW f \in Flows, NEW d \in Devices, Advance(f, d),
           exhausted' = exhausted
    PROVE  /\ StopsOpen' /\ CursorInRange' /\ CompleteIsOver' /\ ResidentIsPlaced'
           /\ finished' \subseteq [flow : Flows, dev : Devices]
           /\ beHbm' \in [Devices -> Nat] /\ where' \in [Flows -> 0..NumDevices]
           /\ cursor' \in [Flows -> Nat] /\ preemptions' \in [Flows -> Nat]
           /\ occupied' \subseteq Flows
           /\ phase' \in [Flows -> Phases] /\ left' \in [Flows -> Int]
           /\ Step(f) \in Nat
<1>1. Stop(f, d) \in finished \cup exhausted
  BY DEF Advance, Completing
<1>2. /\ cursor[f] \in Nat /\ Len(Work[f]) \in Nat /\ Step(f) \in Nat
      /\ cursor[f] + 1 < Len(Work[f]) /\ Step(f) + 1 \in Steps(f)
  BY <1>1, StopType DEF Advance, IsLastStep, Step, Steps
<1>3. Leave(f, d, 1) /\ 1 \in Nat
  BY DEF Advance
<1>4. StopsOpen' /\ finished' \subseteq [flow : Flows, dev : Devices]
  <2>1. /\ finished' \subseteq finished \ {Stop(f, d)}
        /\ exhausted' \subseteq exhausted \ {Stop(f, d)}
    BY DEF Advance, Completing, EngineInv, StopsOpen
  <2>2. \A g \in Flows : g # f => cursor'[g] = cursor[g]
    BY <1>1, <1>3, LeaveType
  <2> QED
    BY <1>1, <2>1, <2>2, StopsShrink
<1>5. output[f][Step(f) + 1] \in Int
  BY <1>2 DEF EngineInv, EngineTypeOK
<1>6. phase' \in [Flows -> Phases] /\ left' \in [Flows -> Int]
  BY <1>5 DEF EngineInv, EngineTypeOK, Advance, Phases
<1>7. CursorInRange' /\ CompleteIsOver' /\ ResidentIsPlaced'
  <2>1. /\ phase'[f] = "PENDING"
        /\ \A g \in Flows : g # f => phase'[g] = phase[g]
    BY DEF EngineInv, EngineTypeOK, Advance
  <2>2. /\ where'[f] = NoDevice /\ cursor'[f] = cursor[f] + 1
        /\ \A g \in Flows : g # f => /\ where'[g] = where[g]
                                     /\ cursor'[g] = cursor[g]
    BY <1>1, <1>2, <1>3, LeaveType
  <2> QED
    BY <1>2, <2>1, <2>2 DEF EngineInv, CursorInRange, CompleteIsOver,
       ResidentIsPlaced
<1> QED
  BY <1>1, <1>2, <1>3, <1>4, <1>6, <1>7, LeaveType

\* A completion before tool-time preserves the invariant.
LEMMA CompleteIntoGapInv ==
    ASSUME EngineInv, NEW f \in Flows, NEW d \in Devices, CompleteIntoGap(f, d)
    PROVE  EngineInv'
<1>1. Advance(f, d) /\ exhausted' = exhausted
  BY DEF CompleteIntoGap
<1>2. stack' \in Seq(Task)
  BY <1>1, AdvanceInv, TaskOfType, SizesAssumption
     DEF CompleteIntoGap, EventOps, NoDevice
<1>3. spilled' \subseteq Flows /\ gaps' \subseteq Flows
  BY DEF EngineInv, EngineTypeOK, CompleteIntoGap, HoldAcrossGap
<1>4. EngineTypeOK'
  BY <1>1, <1>2, <1>3, AdvanceInv
     DEF EngineInv, EngineTypeOK, CompleteIntoGap, HoldAcrossGap, flowVars
<1> QED
  BY <1>1, <1>4, AdvanceInv DEF EngineInv

\* A completion that offers the next invocation preserves the invariant.
LEMMA CompleteIntoNextInv ==
    ASSUME EngineInv, NEW f \in Flows, NEW d \in Devices, CompleteIntoNext(f, d)
    PROVE  EngineInv'
<1>1. Advance(f, d) /\ exhausted' = exhausted
  BY DEF CompleteIntoNext
<1>2. stack' \in Seq(Task)
  <2>1. Step(f) \in Nat /\ Step(f) + 1 \in Nat /\ NoDevice \in 0..NumDevices
    BY <1>1, AdvanceInv, SizesAssumption DEF NoDevice
  <2>2. /\ TaskOf("InvocationReady", f, Step(f) + 1, NoDevice) \in Task
        /\ TaskOf("InvocationComplete", f, Step(f), NoDevice) \in Task
    BY <2>1, TaskOfType DEF EventOps
  <2> QED
    BY <2>2 DEF CompleteIntoNext
<1>3. EngineTypeOK'
  BY <1>1, <1>2, AdvanceInv
     DEF EngineInv, EngineTypeOK, CompleteIntoNext, flowVars
<1> QED
  BY <1>1, <1>3, AdvanceInv DEF EngineInv

\* A re-offer preserves the invariant.
LEMMA ReofferInv ==
    ASSUME EngineInv, Reoffer PROVE EngineInv'
<1> DEFINE v == Head(reready)
<1>1. /\ v.flow \in Flows /\ v.step \in Nat
      /\ reready' \in Seq([flow : Flows, step : Nat])
  <2>1. reready \in Seq([flow : Flows, step : Nat]) /\ reready # <<>>
    BY DEF EngineInv, EngineTypeOK, Reoffer
  <2>2. v \in [flow : Flows, step : Nat]
    BY <2>1, HeadTailType
  <2> QED
    BY <2>1, <2>2, HeadTailType DEF Reoffer
<1>2. TaskOf("InvocationReady", v.flow, v.step, NoDevice) \in Task
  BY <1>1, TaskOfType, SizesAssumption DEF EventOps, NoDevice
<1>3. stack' \in Seq(Task)
  BY <1>2 DEF Reoffer
<1> QED
  BY <1>1, <1>3 DEF EngineInv, EngineTypeOK, CursorInRange, CompleteIsOver,
       ResidentIsPlaced, StopsOpen, Reoffer, flowVars, stepVars, deviceVars,
       timerVars, loopVars

-----------------------------------------------------------------------------
(* Actions, answers and errors preserve the invariant.                     *)

\* An engine error preserves the invariant.
LEMMA RaiseInv ==
    ASSUME EngineInv, Raise PROVE EngineInv'
BY DEF EngineInv, EngineTypeOK, CursorInRange, CompleteIsOver,
       ResidentIsPlaced, StopsOpen, Raise, flowVars, stepVars, deviceVars,
       timerVars, loopVars

\* What a pending action is about.
LEMMA ActionType ==
    ASSUME EngineInv, NEW op \in ActionOps, Pending(op)
    PROVE  /\ Head(stack).flow \in Flows /\ Head(stack).step \in Nat
           /\ Head(stack).dev \in 0..NumDevices
           /\ Tail(stack) \in Seq(Task)
<1>1. stack \in Seq(Task) /\ stack # <<>> /\ Head(stack).op # "Tick"
  BY DEF EngineInv, EngineTypeOK, Pending, ActionOps
<1>2. Head(stack) \in FlowTask /\ Tail(stack) \in Seq(Task)
  BY <1>1, HeadType
<1> QED
  BY <1>2 DEF FlowTask

\* Putting a task in front of the rest keeps the stack one of tasks.
LEMMA OfferNextType ==
    ASSUME EngineInv, NEW f \in Flows, Tail(stack) \in Seq(Task), OfferNext(f)
    PROVE  stack' \in Seq(Task)
<1>1. Step(f) \in Nat /\ NoDevice \in 0..NumDevices
  BY SizesAssumption DEF EngineInv, EngineTypeOK, Step, NoDevice
<1>2. TaskOf("InvocationReady", f, Step(f), NoDevice) \in Task
  BY <1>1, TaskOfType DEF EventOps
<1> QED
  BY <1>2 DEF OfferNext

\* An admission into the aggregate class preserves the invariant.
LEMMA AdmitAggregateInv ==
    ASSUME EngineInv, NEW b \in Int, AdmitAggregate(b) PROVE EngineInv'
<1> DEFINE f == Head(stack).flow
<1>1. f \in Flows /\ Tail(stack) \in Seq(Task)
  BY ActionType DEF AdmitAggregate, ActionOps
<1>2. stack' \in Seq(Task)
  BY <1>1, OfferNextType DEF AdmitAggregate
<1>3. admitted' \subseteq Flows /\ budget' \in [Flows -> Int]
  BY <1>1 DEF EngineInv, EngineTypeOK, AdmitAggregate
<1> QED
  BY <1>2, <1>3 DEF EngineInv, EngineTypeOK, CursorInRange, CompleteIsOver,
       ResidentIsPlaced, StopsOpen, AdmitAggregate, deviceVars, timerVars,
       loopVars

\* An admission with a reservation preserves the invariant.
LEMMA AdmitReservedInv ==
    ASSUME EngineInv, NEW b \in Int, AdmitReserved(b) PROVE EngineInv'
<1> DEFINE f == Head(stack).flow
<1> DEFINE d == Head(stack).dev
<1>1. f \in Flows /\ d \in 0..NumDevices /\ Tail(stack) \in Seq(Task)
  BY ActionType DEF AdmitReserved, ActionOps
<1>2. stack' \in Seq(Task)
  BY <1>1, OfferNextType DEF AdmitReserved
<1>3. /\ admitted' \subseteq Flows /\ budget' \in [Flows -> Int]
      /\ pins' \in [Devices -> SUBSET Flows]
      /\ pinDev' \in [Flows -> 0..NumDevices]
  BY <1>1 DEF EngineInv, EngineTypeOK, AdmitReserved
<1> QED
  BY <1>2, <1>3 DEF EngineInv, EngineTypeOK, CursorInRange, CompleteIsOver,
       ResidentIsPlaced, StopsOpen, AdmitReserved, timerVars, loopVars

\* A flow that is not over has a next invocation.
LEMMA OpenType ==
    ASSUME EngineInv, NEW f \in Flows, phase[f] # "COMPLETE"
    PROVE  /\ cursor[f] < Len(Work[f]) /\ Step(f) \in Steps(f)
           /\ Step(f) \in Nat /\ NextKv(f) \in Nat
<1>1. cursor[f] \in Nat /\ Len(Work[f]) \in Nat /\ cursor[f] < Len(Work[f])
  BY WorkType DEF EngineInv, EngineTypeOK, CursorInRange, CompleteIsOver
<1>2. Step(f) \in Steps(f) /\ Step(f) \in Nat
  BY <1>1 DEF Step, Steps
<1> QED
  BY <1>1, <1>2, WorkType DEF NextKv

\* A placement preserves the invariant.
LEMMA ScheduleInv ==
    ASSUME EngineInv, Schedule PROVE EngineInv'
<1> DEFINE f == Head(stack).flow
<1> DEFINE d == Head(stack).dev
<1>1. /\ f \in Flows /\ d \in Devices /\ Tail(stack) \in Seq(Task)
      /\ phase[f] \in {"PENDING", "PREEMPTED"}
  BY ActionType DEF Schedule, Schedulable, ActionOps
<1>2. NextKv(f) \in Nat /\ Step(f) \in Nat /\ cursor[f] < Len(Work[f])
  BY <1>1, OpenType
<1> DEFINE t == [flow |-> f, step |-> Step(f), dev |-> d,
                 attempt |-> preemptions[f]]
<1>3. timers' \subseteq [flow : Flows, step : Nat, dev : Devices, attempt : Nat]
  <2>1. preemptions[f] \in Nat
    BY <1>1 DEF EngineInv, EngineTypeOK
  <2>2. t \in [flow : Flows, step : Nat, dev : Devices, attempt : Nat]
    BY <1>1, <1>2, <2>1
  <2>3. timers' = timers \cup {t}
    BY DEF Schedule
  <2> HIDE DEF t
  <2> QED
    BY <2>2, <2>3 DEF EngineInv, EngineTypeOK
<1>4. beHbm' \in [Devices -> Nat]
  <2>1. beHbm \in [Devices -> Nat]
    BY DEF EngineInv, EngineTypeOK
  <2>2. beHbm[d] + NextKv(f) \in Nat
    <3> HIDE DEF d, f
    <3> QED
      BY <1>1, <1>2, <2>1
  <2> QED
    BY <2>1, <2>2 DEF Schedule
<1>5. spilled' \subseteq Flows /\ occupied' \subseteq Flows
  BY <1>1 DEF EngineInv, EngineTypeOK, Schedule, AfterRestore
<1>6. /\ where' = [where EXCEPT ![f] = d] /\ phase' = [phase EXCEPT ![f] = "PREFILL"]
      /\ d \in 0..NumDevices /\ d # NoDevice
  BY <1>1, SizesAssumption DEF Schedule, NoDevice, Devices
<1>7. EngineTypeOK'
  <2>1. where' \in [Flows -> 0..NumDevices] /\ phase' \in [Flows -> Phases]
    BY <1>6 DEF EngineInv, EngineTypeOK, Phases
  <2>2. stack' \in Seq(Task)
    BY <1>1 DEF Schedule
  <2> QED
    BY <1>3, <1>4, <1>5, <2>1, <2>2
       DEF EngineInv, EngineTypeOK, Schedule, flowVars, loopVars
<1>8. CompleteIsOver' /\ ResidentIsPlaced'
  <2>1. /\ phase'[f] = "PREFILL" /\ where'[f] = d /\ cursor' = cursor
        /\ \A g \in Flows : g # f => phase'[g] = phase[g] /\ where'[g] = where[g]
    BY <1>1, <1>6 DEF EngineInv, EngineTypeOK, Schedule
  <2>2. \A g \in Flows : cursor[g] \in Nat /\ Len(Work[g]) \in Nat
    BY WorkType DEF EngineInv, EngineTypeOK
  <2> HIDE DEF f, d
  <2> QED
    BY <1>2, <1>6, <2>1, <2>2 DEF EngineInv, CompleteIsOver, ResidentIsPlaced
<1> QED
  BY <1>7, <1>8 DEF EngineInv, CursorInRange, StopsOpen, Schedule, loopVars

\* A preemption preserves the invariant.
LEMMA PreemptInv ==
    ASSUME EngineInv, Preempt PROVE EngineInv'
<1> DEFINE f == Head(stack).flow
<1> DEFINE d == where[f]
<1>1. /\ f \in Flows /\ Tail(stack) \in Seq(Task)
      /\ phase[f] \in {"PREFILL", "DECODE"}
  BY ActionType DEF Preempt, Preemptible, ActionOps
<1>2. d \in Devices
  BY <1>1, SizesAssumption
     DEF EngineInv, EngineTypeOK, ResidentIsPlaced, NoDevice, Devices
<1>3. NextKv(f) \in Nat /\ Step(f) \in Nat /\ cursor[f] < Len(Work[f])
  BY <1>1, OpenType
<1>4. left' \in [Flows -> Int] /\ budget' \in [Flows -> Int]
  BY <1>2, CreditedType DEF EngineInv, EngineTypeOK, Preempt
<1>5. beHbm' \in [Devices -> Nat] /\ accrued' \in [Devices -> Nat]
  BY <1>1, <1>3, ReleasedType DEF EngineInv, EngineTypeOK, Preempt
<1>6. /\ preemptions' \in [Flows -> Nat] /\ occupied' \subseteq Flows
      /\ stack' \in Seq(Task)
  <2>1. /\ preemptions \in [Flows -> Nat] /\ occupied \subseteq Flows
        /\ preemptions' = [preemptions EXCEPT ![f] = CountedOn(@)]
        /\ occupied' = occupied \ {f} /\ stack' = Tail(stack)
    BY DEF EngineInv, EngineTypeOK, Preempt, Vacated
  <2>2. CountedOn(preemptions[f]) \in Nat
    BY <1>1, <2>1 DEF CountedOn
  <2> HIDE DEF f
  <2> QED
    BY <1>1, <2>1, <2>2
<1>7. reready' \in Seq([flow : Flows, step : Nat])
  <2> DEFINE v == [flow |-> f, step |-> Step(f)]
  <2>1. v \in [flow : Flows, step : Nat]
    BY <1>1, <1>3
  <2>2. reready' = Append(reready, v) /\ reready \in Seq([flow : Flows, step : Nat])
    BY DEF Preempt, EngineInv, EngineTypeOK
  <2> HIDE DEF v
  <2> QED
    BY <2>1, <2>2
<1>8. /\ where' = [where EXCEPT ![f] = NoDevice]
      /\ phase' = [phase EXCEPT ![f] = "PREEMPTED"]
      /\ NoDevice \in 0..NumDevices
  BY SizesAssumption DEF Preempt, NoDevice
<1>9. EngineTypeOK'
  <2>1. where' \in [Flows -> 0..NumDevices] /\ phase' \in [Flows -> Phases]
    BY <1>8 DEF EngineInv, EngineTypeOK, Phases
  <2> QED
    BY <1>4, <1>5, <1>6, <1>7, <2>1
       DEF EngineInv, EngineTypeOK, Preempt, flowVars, loopVars
<1>10. CompleteIsOver' /\ ResidentIsPlaced'
  <2>1. /\ phase'[f] = "PREEMPTED" /\ where'[f] = NoDevice /\ cursor' = cursor
        /\ \A g \in Flows : g # f => phase'[g] = phase[g] /\ where'[g] = where[g]
    BY <1>1, <1>8 DEF EngineInv, EngineTypeOK, Preempt
  <2>2. \A g \in Flows : cursor[g] \in Nat /\ Len(Work[g]) \in Nat
    BY WorkType DEF EngineInv, EngineTypeOK
  <2> HIDE DEF f, d
  <2> QED
    BY <1>3, <2>1, <2>2 DEF EngineInv, CompleteIsOver, ResidentIsPlaced
<1> QED
  BY <1>9, <1>10 DEF EngineInv, CursorInRange, StopsOpen, Preempt, loopVars

\* A shortened output is still a number of tokens.
LEMMA ShortenedType ==
    ASSUME NEW n \in Nat PROVE Shortened(n) \in Nat
<1>1. n * TokenScalePct \in Int
  BY ModeAssumption
<1> DEFINE scaled == (n * TokenScalePct) \div 100
<1>2. scaled \in Int
  BY <1>1
<1>3. Shortened(n) = IF scaled < 1 THEN 1 ELSE scaled
  BY DEF Shortened
<1> HIDE DEF scaled
<1> QED
  BY <1>2, <1>3

\* A degradation preserves the invariant.
LEMMA DegradeInv ==
    ASSUME EngineInv, Degrade PROVE EngineInv'
<1> DEFINE f == Head(stack).flow
<1> DEFINE reshaped == {s \in Steps(f) : s > Step(f)
                             \/ (s = Step(f) /\ phase[f] = "PENDING")}
<1>1. f \in Flows /\ Tail(stack) \in Seq(Task)
  BY ActionType DEF Degrade, ActionOps
<1>2. \A s \in Steps(f) : output[f][s] \in Nat /\ Shortened(output[f][s]) \in Nat
  BY <1>1, ShortenedType DEF EngineInv, EngineTypeOK
<1>3. /\ DOMAIN output' = Flows
      /\ \A g \in Flows : output'[g] \in [Steps(g) -> Nat]
  <2> DEFINE short == [s \in Steps(f) |-> IF s \in reshaped
                                          THEN Shortened(output[f][s])
                                          ELSE output[f][s]]
  <2>1. short \in [Steps(f) -> Nat]
    <3> HIDE DEF reshaped
    <3> QED
      BY <1>2
  <2>2. output' = [output EXCEPT ![f] = short]
    BY DEF Degrade
  <2> HIDE DEF short
  <2> QED
    BY <1>1, <2>1, <2>2 DEF EngineInv, EngineTypeOK
<1>4. left' \in [Flows -> Int]
  <2>1. left' = IF Step(f) \in reshaped
                THEN [left EXCEPT ![f] = Shortened(output[f][Step(f)])]
                ELSE left
    BY DEF Degrade
  <2>2. Step(f) \in reshaped => Shortened(output[f][Step(f)]) \in Int
    BY <1>2
  <2> HIDE DEF reshaped
  <2> QED
    BY <1>1, <2>1, <2>2 DEF EngineInv, EngineTypeOK
<1>5. degraded' \subseteq Flows /\ stack' \in Seq(Task)
  BY <1>1 DEF EngineInv, EngineTypeOK, Degrade
<1> HIDE DEF f, reshaped
<1> QED
  BY <1>3, <1>4, <1>5 DEF EngineInv, EngineTypeOK, CursorInRange,
       CompleteIsOver, ResidentIsPlaced, StopsOpen, Degrade, deviceVars,
       timerVars, loopVars

\* An answer of tasks preserves the invariant.
LEMMA RespondInv ==
    ASSUME EngineInv, stack # <<>>, NEW actions \in Seq(Task), Respond(actions)
    PROVE  EngineInv'
<1>1. stack' \in Seq(Task)
  BY HeadTailType DEF EngineInv, EngineTypeOK, Respond
<1> QED
  BY <1>1 DEF EngineInv, EngineTypeOK, CursorInRange, CompleteIsOver,
       ResidentIsPlaced, StopsOpen, Respond, flowVars, stepVars, deviceVars,
       timerVars, loopVars

\* Every step of the engine's own preserves the invariant.
LEMMA EngineStepInv ==
    ASSUME EngineInv, EngineStep PROVE EngineInv'
<1>1. CASE TriggerStep
  BY <1>1, ArrivalInv, TickTimerInv, GapEndInv, EnterDeviceInv, EntryVoidInv,
     DecodeTokenInv, IntervalEndInv DEF TriggerStep
<1>2. CASE HandlingStep
  <2>1. AdmitRefused \/ ScheduleRefused \/ PreemptRefused => EngineInv'
    BY RaiseInv DEF AdmitRefused, ScheduleRefused, PreemptRefused
  <2> QED
    BY <1>2, <2>1, CompleteFlowInv, CompleteIntoGapInv, CompleteIntoNextInv,
       AbandonFlowInv, ReofferInv, ScheduleInv, PreemptInv, DegradeInv
       DEF HandlingStep
<1> QED
  BY <1>1, <1>2 DEF EngineStep

\* A step that changes nothing of the engine preserves the invariant.
LEMMA StutterInv ==
    ASSUME EngineInv, UNCHANGED engineVars PROVE EngineInv'
BY DEF EngineInv, EngineTypeOK, CursorInRange, CompleteIsOver,
       ResidentIsPlaced, StopsOpen, engineVars, flowVars, stepVars,
       deviceVars, timerVars, loopVars

-----------------------------------------------------------------------------
(* What the engine enforces on every policy, step by step: pins are only    *)
(* given back at the end of a flow, never promise more memory than there is, *)
(* a guaranteed flow is never moved off its device, and no service is        *)
(* credited that was not received.                                           *)

\* The engine by itself never adds a pin, and takes one away only from a flow
\* that is over.
PinsKept ==
    \A d \in Devices :
        /\ pins'[d] \subseteq pins[d]
        /\ \A f \in pins[d] \ pins'[d] : cursor'[f] = Len(Work[f])

\* A flow leaves a device only by finishing a step, or if it is not guaranteed.
LeavesByRight ==
    \A f \in Flows :
        where'[f] # where[f] =>
            \/ where[f] = NoDevice
            \/ cursor'[f] > cursor[f]
            \/ ~(Reserved(f) /\ NonPreemptible)

-----------------------------------------------------------------------------
\* Releasing the reservation of a flow takes only its own pin away.
LEMMA ReleasePinKeeps ==
    ASSUME EngineInv, NEW f \in Flows, ReleasePin(f),
           cursor'[f] = Len(Work[f])
    PROVE  PinsKept
BY DEF EngineInv, EngineTypeOK, ReleasePin, PinsKept

\* No step of the engine adds a pin or drops one early.
LEMMA EngineStepKeepsPins ==
    ASSUME EngineInv, EngineStep PROVE PinsKept
<1>1. ASSUME pins' = pins PROVE PinsKept
  BY <1>1 DEF PinsKept
<1>2. ASSUME NEW f \in Flows, NEW d \in Devices, CompleteFlow(f, d)
      PROVE  PinsKept
  <2>1. Stop(f, d) \in finished \cup exhausted
    BY <1>2 DEF CompleteFlow, Completing
  <2>2. Leave(f, d, 1) /\ 1 \in Nat /\ ReleasePin(f)
    BY <1>2 DEF CompleteFlow
  <2>3. cursor'[f] = cursor[f] + 1
    BY <2>1, <2>2, LeaveType
  <2>4. cursor[f] + 1 = Len(Work[f])
    BY <1>2 DEF CompleteFlow, IsLastStep, Step
  <2> QED
    BY <2>2, <2>3, <2>4, ReleasePinKeeps
<1>3. ASSUME NEW f \in Flows, NEW d \in Devices, AbandonFlow(f, d)
      PROVE  PinsKept
  <2>1. Stop(f, d) \in finished \cup exhausted
    BY <1>3 DEF AbandonFlow
  <2> DEFINE n == Len(Work[f]) - cursor[f]
  <2>2. Leave(f, d, n) /\ ReleasePin(f)
    BY <1>3 DEF AbandonFlow
  <2>3. n \in Nat /\ cursor[f] + n = Len(Work[f])
    BY <2>1, StopType
  <2> HIDE DEF n
  <2>4. cursor'[f] = cursor[f] + n
    BY <2>1, <2>2, <2>3, LeaveType
  <2> QED
    BY <2>2, <2>3, <2>4, ReleasePinKeeps
<1>4. ASSUME NEW f \in Flows, NEW d \in Devices, CompleteIntoGap(f, d)
      PROVE  pins' = pins
  BY <1>4 DEF CompleteIntoGap, HoldAcrossGap
<1>5. ASSUME NEW f \in Flows, NEW d \in Devices, CompleteIntoNext(f, d)
      PROVE  pins' = pins
  BY <1>5 DEF CompleteIntoNext
<1>6. CASE TriggerStep
  <2>1. pins' = pins
    BY <1>6 DEF TriggerStep, Arrival, TickTimer, GapEnd, EnterDevice,
         EntryVoid, DecodeToken, IntervalEnd, deviceVars
  <2> QED
    BY <1>1, <2>1
<1>7. CASE HandlingStep
  <2>1. Reoffer \/ AdmitRefused \/ Schedule \/ ScheduleRefused \/ Preempt
            \/ PreemptRefused \/ Degrade => pins' = pins
    BY DEF Reoffer, AdmitRefused, Schedule, ScheduleRefused, Preempt,
         PreemptRefused, Degrade, Raise, deviceVars
  <2> QED
    BY <1>1, <1>2, <1>3, <1>4, <1>5, <1>7, <2>1 DEF HandlingStep
<1> QED
  BY <1>6, <1>7 DEF EngineStep

-----------------------------------------------------------------------------
(* Memory owed to pins.                                                    *)

\* The pins of a device are finitely many, of natural size.
LEMMA PinsFinite ==
    ASSUME EngineTypeOK, NEW d \in Devices
    PROVE  /\ IsFiniteSet(pins[d]) /\ pins[d] \subseteq Flows
           /\ \A f \in pins[d] : PinSize[f] \in Nat
<1>1. pins[d] \subseteq Flows
  BY DEF EngineTypeOK
<1>2. IsFiniteSet(Flows)
  BY SizesAssumption, FS_Interval DEF Flows
<1> QED
  BY <1>1, <1>2, FS_Subset, PinSizeType

\* Fewer pins are owed no more memory.
LEMMA CommittedShrinks ==
    ASSUME EngineInv, EngineInv', CommittedWithinHbm,
           \A d \in Devices : pins'[d] \subseteq pins[d]
    PROVE  CommittedWithinHbm'
<1> SUFFICES ASSUME NEW d \in Devices PROVE HbmCommitted(d)' <= HbmCap
  BY DEF CommittedWithinHbm
<1>1. Total(pins'[d], PinSize) <= Total(pins[d], PinSize)
  BY PinsFinite, TotalMonotone DEF EngineInv
<1>2. Total(pins'[d], PinSize) \in Nat /\ Total(pins[d], PinSize) \in Nat
  <2>1. IsFiniteSet(pins[d]) /\ \A f \in pins[d] : PinSize[f] \in Nat
    BY PinsFinite DEF EngineInv
  <2>2. IsFiniteSet(pins'[d]) /\ \A f \in pins'[d] : PinSize[f] \in Nat
    BY <2>1, FS_Subset
  <2> QED
    BY <2>1, <2>2, TotalType
<1>3. Total(pins[d], PinSize) <= HbmCap
  BY DEF CommittedWithinHbm, HbmCommitted
<1> QED
  BY <1>1, <1>2, <1>3, SizesAssumption DEF HbmCommitted

\* An admission with a reservation counts on memory nobody else counts on.
LEMMA CommittedAdmits ==
    ASSUME EngineInv, CommittedWithinHbm, NEW b, AdmitReserved(b)
    PROVE  CommittedWithinHbm'
<1> DEFINE f == Head(stack).flow
<1> DEFINE d == Head(stack).dev
<1>1. /\ f \in Flows /\ f \notin pins[d]
      /\ HbmCommitted(d) + PinSize[f] <= HbmCap
      /\ pins' = [pins EXCEPT ![d] = @ \cup {f}]
  BY ActionType DEF AdmitReserved, CanPin, ActionOps
<1> HIDE DEF f, d
<1> SUFFICES ASSUME NEW e \in Devices PROVE HbmCommitted(e)' <= HbmCap
  BY DEF CommittedWithinHbm
<1>2. CASE e = d
  <2>1. pins'[e] = pins[d] \cup {f}
    BY <1>1, <1>2 DEF EngineInv, EngineTypeOK
  <2>2. IsFiniteSet(pins[d]) /\ \A g \in pins[d] \cup {f} : PinSize[g] \in Nat
    BY <1>1, <1>2, PinsFinite, PinSizeType DEF EngineInv
  <2>3. Total(pins[d] \cup {f}, PinSize) = Total(pins[d], PinSize) + PinSize[f]
    BY <1>1, <2>2, TotalAdd
  <2> QED
    BY <1>1, <2>1, <2>3 DEF HbmCommitted
<1>3. CASE e # d
  <2>1. pins'[e] = pins[e]
    BY <1>1, <1>3 DEF EngineInv, EngineTypeOK
  <2> QED
    BY <2>1 DEF HbmCommitted, CommittedWithinHbm
<1> QED
  BY <1>2, <1>3

-----------------------------------------------------------------------------
(* The non-preemption guarantee.                                           *)

\* The end of a step of f is its own right to leave, and moves nobody else.
LEMMA LeaveByRight ==
    ASSUME EngineInv, NEW f, NEW d, Stop(f, d) \in finished \cup exhausted,
           NEW n \in Nat, n > 0, Leave(f, d, n)
    PROVE  LeavesByRight
<1>1. /\ cursor'[f] = cursor[f] + n /\ cursor[f] \in Nat
      /\ \A g \in Flows : g # f => where'[g] = where[g]
  BY LeaveType, StopType
<1> QED
  BY <1>1 DEF LeavesByRight

\* No step of the engine moves a guaranteed flow off its device.
LEMMA EngineStepByRight ==
    ASSUME EngineInv, EngineStep PROVE LeavesByRight
<1>1. ASSUME where' = where PROVE LeavesByRight
  BY <1>1 DEF LeavesByRight
<1>2. ASSUME NEW f \in Flows, NEW d \in Devices,
             CompleteFlow(f, d) \/ CompleteIntoGap(f, d) \/ CompleteIntoNext(f, d)
      PROVE  LeavesByRight
  <2>1. Stop(f, d) \in finished \cup exhausted /\ Leave(f, d, 1)
    BY <1>2 DEF CompleteFlow, CompleteIntoGap, CompleteIntoNext, Advance,
         Completing
  <2> QED
    BY <2>1, LeaveByRight
<1>3. ASSUME NEW f \in Flows, NEW d \in Devices, AbandonFlow(f, d)
      PROVE  LeavesByRight
  <2> DEFINE n == Len(Work[f]) - cursor[f]
  <2>1. Stop(f, d) \in finished \cup exhausted /\ Leave(f, d, n)
    BY <1>3 DEF AbandonFlow
  <2>2. n \in Nat /\ n > 0
    BY <2>1, StopType
  <2> HIDE DEF n
  <2> QED
    BY <2>1, <2>2, LeaveByRight
<1>4. ASSUME Schedule PROVE LeavesByRight
  <2> DEFINE f == Head(stack).flow
  <2>1. f \in Flows /\ phase[f] \in {"PENDING", "PREEMPTED"}
    BY <1>4, ActionType DEF Schedule, Schedulable, ActionOps
  <2>2. where[f] = NoDevice
    BY <2>1 DEF EngineInv, ResidentIsPlaced
  <2>3. where' = [where EXCEPT ![f] = Head(stack).dev]
    BY <1>4 DEF Schedule
  <2> HIDE DEF f
  <2> QED
    BY <2>2, <2>3 DEF LeavesByRight, EngineInv, EngineTypeOK
<1>5. ASSUME Preempt PROVE LeavesByRight
  <2> DEFINE f == Head(stack).flow
  <2>1. /\ ~(Reserved(f) /\ NonPreemptible)
        /\ where' = [where EXCEPT ![f] = NoDevice]
    BY <1>5 DEF Preempt, Preemptible
  <2> HIDE DEF f
  <2> QED
    BY <2>1 DEF LeavesByRight, EngineInv, EngineTypeOK
<1>6. CASE TriggerStep
  <2>1. where' = where
    BY <1>6 DEF TriggerStep, Arrival, TickTimer, GapEnd, EnterDevice,
         EntryVoid, DecodeToken, IntervalEnd, stepVars
  <2> QED
    BY <1>1, <2>1
<1>7. CASE HandlingStep
  <2>1. Reoffer \/ AdmitRefused \/ ScheduleRefused \/ PreemptRefused \/ Degrade
            => where' = where
    BY DEF Reoffer, AdmitRefused, ScheduleRefused, PreemptRefused, Degrade,
         Raise, stepVars
  <2> QED
    BY <1>1, <1>2, <1>3, <1>4, <1>5, <1>7, <2>1 DEF HandlingStep
<1> QED
  BY <1>6, <1>7 DEF EngineStep

-----------------------------------------------------------------------------
(* Slots.                                                                  *)

\* No flow takes a place on a device, or turns best-effort there.
NobodyPlaced ==
    /\ \A f \in Flows : where'[f] \in {where[f], NoDevice}
    /\ \A f \in Flows : Reserved(f) => Reserved(f)'

\* Of the engine's own steps only Schedule places a flow.
LEMMA EngineStepPlacesNobody ==
    ASSUME EngineInv, EngineStep, ~Schedule PROVE NobodyPlaced
<1>1. CASE TriggerStep
  BY <1>1 DEF TriggerStep, Arrival, TickTimer, GapEnd, EnterDevice, EntryVoid,
       DecodeToken, IntervalEnd, stepVars, flowVars, NobodyPlaced, Reserved
<1>2. ASSUME NEW f \in Flows, NEW d \in Devices,
             \/ CompleteFlow(f, d) \/ CompleteIntoGap(f, d)
             \/ CompleteIntoNext(f, d) \/ AbandonFlow(f, d)
      PROVE  NobodyPlaced
  <2>1. where' = [where EXCEPT ![f] = NoDevice] /\ pinDev' = pinDev
    BY <1>2 DEF CompleteFlow, CompleteIntoGap, CompleteIntoNext, AbandonFlow,
         Advance, Leave, flowVars
  <2> QED
    BY <2>1 DEF NobodyPlaced, Reserved, EngineInv, EngineTypeOK
<1>3. ASSUME Preempt PROVE NobodyPlaced
  <2>1. where' = [where EXCEPT ![Head(stack).flow] = NoDevice] /\ pinDev' = pinDev
    BY <1>3 DEF Preempt, flowVars
  <2> QED
    BY <2>1 DEF NobodyPlaced, Reserved, EngineInv, EngineTypeOK
<1>4. Reoffer \/ AdmitRefused \/ ScheduleRefused \/ PreemptRefused \/ Degrade
          => NobodyPlaced
  BY DEF Reoffer, AdmitRefused, ScheduleRefused, PreemptRefused, Degrade,
       Raise, stepVars, flowVars, NobodyPlaced, Reserved
<1> QED
  BY <1>1, <1>2, <1>3, <1>4 DEF EngineStep, HandlingStep

\* The residents of a device are finitely many.
LEMMA ResidentsFinite ==
    ASSUME NEW d PROVE IsFiniteSet(BestEffort(d)) /\ IsFiniteSet(BestEffort(d)')
<1>1. IsFiniteSet(Flows) /\ BestEffort(d) \subseteq Flows /\ BestEffort(d)' \subseteq Flows
  BY SizesAssumption, FS_Interval DEF Flows, BestEffort, Resident
<1> QED
  BY <1>1, FS_Subset

\* Where nobody is placed and no pin added, no slot is taken.
LEMMA SlotsKept ==
    ASSUME EngineInv, EngineInv', SlotsWithinLimit, NobodyPlaced, PinsKept
    PROVE  SlotsWithinLimit'
<1> SUFFICES ASSUME NEW d \in Devices PROVE SlotsUsed(d)' <= MaxSlots
  BY DEF SlotsWithinLimit
<1>1. BestEffort(d)' \subseteq BestEffort(d) /\ pins'[d] \subseteq pins[d]
  BY DEF NobodyPlaced, PinsKept, BestEffort, Resident, NoDevice, Devices
<1>2. IsFiniteSet(pins[d]) /\ IsFiniteSet(pins'[d])
  BY <1>1, PinsFinite, FS_Subset DEF EngineInv
<1>3. /\ Cardinality(BestEffort(d)') <= Cardinality(BestEffort(d))
      /\ Cardinality(pins'[d]) <= Cardinality(pins[d])
  BY <1>1, <1>2, ResidentsFinite, FS_Subset
<1>4. /\ Cardinality(BestEffort(d)') \in Nat /\ Cardinality(BestEffort(d)) \in Nat
      /\ Cardinality(pins'[d]) \in Nat /\ Cardinality(pins[d]) \in Nat
  BY <1>2, ResidentsFinite, FS_CardinalityType
<1>5. SlotsUsed(d) <= MaxSlots
  BY DEF SlotsWithinLimit
<1> QED
  BY <1>3, <1>4, <1>5, SizesAssumption DEF SlotsUsed

\* A placement takes a free slot, or the one of its flow's pin.
LEMMA SlotsSchedule ==
    ASSUME EngineInv, EngineInv', SlotsWithinLimit, Schedule
    PROVE  SlotsWithinLimit'
<1> DEFINE f == Head(stack).flow
<1> DEFINE e == Head(stack).dev
<1>1. /\ f \in Flows /\ where' = [where EXCEPT ![f] = e]
      /\ pins' = pins /\ pinDev' = pinDev
      /\ Reserved(f) \/ HasFreeSlot(e)
  BY ActionType DEF Schedule, Schedulable, CanPlace, ActionOps, flowVars
<1> HIDE DEF f, e
<1> SUFFICES ASSUME NEW d \in Devices PROVE SlotsUsed(d)' <= MaxSlots
  BY DEF SlotsWithinLimit
<1>2. SlotsUsed(d) <= MaxSlots
  BY DEF SlotsWithinLimit
<1>3. /\ Cardinality(BestEffort(d)') \in Nat /\ Cardinality(BestEffort(d)) \in Nat
      /\ Cardinality(pins[d]) \in Nat
  BY PinsFinite, ResidentsFinite, FS_CardinalityType DEF EngineInv
<1>4. CASE Reserved(f) \/ d # e
  <2>1. BestEffort(d)' \subseteq BestEffort(d)
    BY <1>1, <1>4 DEF BestEffort, Resident, Reserved, EngineInv, EngineTypeOK
  <2>2. Cardinality(BestEffort(d)') <= Cardinality(BestEffort(d))
    BY <2>1, ResidentsFinite, FS_Subset
  <2> QED
    BY <1>1, <1>2, <1>3, <2>2, SizesAssumption DEF SlotsUsed
<1>5. where[f] = NoDevice
  BY ActionType DEF Schedule, Schedulable, ActionOps, EngineInv,
     ResidentIsPlaced, f
<1>6. CASE ~Reserved(f) /\ d = e
  <2>1. BestEffort(d)' \subseteq BestEffort(d) \cup {f}
    BY <1>1, <1>6 DEF BestEffort, Resident, Reserved, EngineInv, EngineTypeOK
  <2>2. /\ IsFiniteSet(BestEffort(d) \cup {f})
        /\ Cardinality(BestEffort(d) \cup {f}) <= Cardinality(BestEffort(d)) + 1
        /\ Cardinality(BestEffort(d) \cup {f}) \in Nat
    <3>1. f \notin BestEffort(d)
      BY <1>1, <1>5, <1>6 DEF BestEffort, Resident, NoDevice, Devices
    <3>2. /\ IsFiniteSet(BestEffort(d) \cup {f})
          /\ Cardinality(BestEffort(d) \cup {f}) = Cardinality(BestEffort(d)) + 1
      BY <3>1, ResidentsFinite, FS_AddElement
    <3> QED
      BY <1>3, <3>2
  <2>3. Cardinality(BestEffort(d)') <= Cardinality(BestEffort(d) \cup {f})
    BY <2>1, <2>2, FS_Subset
  <2>4. SlotsUsed(d) < MaxSlots
    BY <1>1, <1>6 DEF HasFreeSlot
  <2> QED
    BY <1>1, <1>3, <2>2, <2>3, <2>4, SizesAssumption DEF SlotsUsed
<1> QED
  BY <1>4, <1>6

\* A new pin takes a free slot.
LEMMA SlotsAdmit ==
    ASSUME EngineInv, EngineInv', SlotsWithinLimit, NEW b, AdmitReserved(b)
    PROVE  SlotsWithinLimit'
<1> DEFINE f == Head(stack).flow
<1> DEFINE e == Head(stack).dev
<1>1. /\ f \in Flows /\ where' = where /\ e # NoDevice
      /\ pins' = [pins EXCEPT ![e] = @ \cup {f}]
      /\ pinDev' = [pinDev EXCEPT ![f] = e]
      /\ HasFreeSlot(e) /\ f \notin pins[e]
  BY ActionType DEF AdmitReserved, CanPin, ActionOps
<1> HIDE DEF f, e
<1> SUFFICES ASSUME NEW d \in Devices PROVE SlotsUsed(d)' <= MaxSlots
  BY DEF SlotsWithinLimit
<1>2. BestEffort(d)' \subseteq BestEffort(d)
  BY <1>1 DEF BestEffort, Resident, Reserved, EngineInv, EngineTypeOK
<1>3. Cardinality(BestEffort(d)') <= Cardinality(BestEffort(d))
  BY <1>2, ResidentsFinite, FS_Subset
<1>4. /\ Cardinality(BestEffort(d)') \in Nat /\ Cardinality(BestEffort(d)) \in Nat
      /\ Cardinality(pins[d]) \in Nat
  BY PinsFinite, ResidentsFinite, FS_CardinalityType DEF EngineInv
<1>5. CASE d = e
  <2>1. pins'[d] = pins[d] \cup {f}
    BY <1>1, <1>5 DEF EngineInv, EngineTypeOK
  <2>2. Cardinality(pins'[d]) = Cardinality(pins[d]) + 1
    <3>1. IsFiniteSet(pins[d]) /\ f \notin pins[d]
      BY <1>1, <1>5, PinsFinite DEF EngineInv
    <3> QED
      BY <2>1, <3>1, FS_AddElement
  <2>3. SlotsUsed(d) < MaxSlots
    BY <1>1, <1>5 DEF HasFreeSlot
  <2> QED
    BY <1>3, <1>4, <2>2, <2>3, SizesAssumption DEF SlotsUsed
<1>6. CASE d # e
  <2>1. pins'[d] = pins[d]
    BY <1>1, <1>6 DEF EngineInv, EngineTypeOK
  <2>2. SlotsUsed(d) <= MaxSlots
    BY DEF SlotsWithinLimit
  <2> QED
    BY <1>3, <1>4, <2>1, <2>2, SizesAssumption DEF SlotsUsed
<1> QED
  BY <1>5, <1>6

-----------------------------------------------------------------------------
(* Memory in use.                                                          *)

\* Every pin is on the device its flow is reserved on.
PinsHome == \A d \in Devices : \A f \in pins[d] : pinDev[f] = d

\* What a device counts as used, pins and besteffort_hbm_gib, is within its limit.
CounterWithinLimit == \A d \in Devices : HbmUsed(d) <= HbmCap

\* No KV comes onto a device.
NothingBroughtIn ==
    \A d \in Devices : /\ pins'[d] \ spilled' \subseteq pins[d] \ spilled
                       /\ beHbm'[d] <= beHbm[d]

\* The amounts HbmUsed adds up are natural numbers.
LEMMA HbmType ==
    ASSUME EngineInv, NEW d \in Devices
    PROVE  /\ IsFiniteSet(pins[d] \ spilled) /\ beHbm[d] \in Nat
           /\ \A f \in pins[d] \ spilled : PinSize[f] \in Nat
           /\ Total(pins[d] \ spilled, PinSize) \in Nat
<1>1. /\ IsFiniteSet(pins[d] \ spilled)
      /\ \A f \in pins[d] \ spilled : PinSize[f] \in Nat
  BY PinsFinite, FS_Subset DEF EngineInv
<1>2. beHbm[d] \in Nat
  BY DEF EngineInv, EngineTypeOK
<1> QED
  BY <1>1, <1>2, TotalType

\* Releasing a pin, spilled or not, brings nothing in.
LEMMA ReleasePinBringsNothing ==
    ASSUME EngineInv, PinsHome, NEW f \in Flows, ReleasePin(f), NEW d \in Devices
    PROVE  pins'[d] \ spilled' \subseteq pins[d] \ spilled
BY DEF ReleasePin, PinsHome, EngineInv, EngineTypeOK

\* Taking best-effort KV back never adds any.
LEMMA ReleasedShrinks ==
    ASSUME EngineInv, NEW f \in Flows, NEW e, NextKv(f) \in Nat,
           NEW d \in Devices
    PROVE  Released(f, e)[d] <= beHbm[d]
<1>1. beHbm \in [Devices -> Nat]
  BY DEF EngineInv, EngineTypeOK
<1> DEFINE rest == IF beHbm[e] < NextKv(f) THEN 0 ELSE beHbm[e] - NextKv(f)
<1>2. e \in Devices => rest <= beHbm[e] /\ rest \in Nat
  BY <1>1
<1>3. Released(f, e) = beHbm \/ Released(f, e) = [beHbm EXCEPT ![e] = rest]
  BY DEF Released
<1> HIDE DEF rest
<1> QED
  BY <1>1, <1>2, <1>3

\* Of the engine's own steps only Schedule brings KV onto a device.
LEMMA EngineStepBringsNothing ==
    ASSUME EngineInv, PinsHome, EngineStep, ~Schedule PROVE NothingBroughtIn
<1>0. beHbm \in [Devices -> Nat]
  BY DEF EngineInv, EngineTypeOK
<1>1. ASSUME pins' = pins, spilled' = spilled, beHbm' = beHbm
      PROVE  NothingBroughtIn
  BY <1>0, <1>1 DEF NothingBroughtIn
<1>2. CASE TriggerStep
  <2>1. pins' = pins /\ spilled' = spilled /\ beHbm' = beHbm
    BY <1>2 DEF TriggerStep, Arrival, TickTimer, GapEnd, EnterDevice, EntryVoid,
         DecodeToken, IntervalEnd, deviceVars
  <2> QED
    BY <1>1, <2>1
<1>3. ASSUME NEW f \in Flows, NEW e \in Devices,
             \/ CompleteFlow(f, e) \/ CompleteIntoGap(f, e)
             \/ CompleteIntoNext(f, e) \/ AbandonFlow(f, e)
      PROVE  NothingBroughtIn
  <2> SUFFICES ASSUME NEW d \in Devices
               PROVE  /\ pins'[d] \ spilled' \subseteq pins[d] \ spilled
                      /\ beHbm'[d] <= beHbm[d]
    BY DEF NothingBroughtIn
  <2>1. Stop(f, e) \in finished \cup exhausted /\ beHbm' = Released(f, e)
    BY <1>3 DEF CompleteFlow, CompleteIntoGap, CompleteIntoNext, AbandonFlow,
         Advance, Completing, Leave
  <2>2. NextKv(f) \in Nat
    BY <2>1, StopType
  <2>3. beHbm'[d] <= beHbm[d]
    BY <2>1, <2>2, ReleasedShrinks
  <2>4. CompleteFlow(f, e) \/ AbandonFlow(f, e) => ReleasePin(f)
    BY DEF CompleteFlow, AbandonFlow
  <2>5. CompleteIntoGap(f, e) \/ CompleteIntoNext(f, e) =>
            pins' = pins /\ spilled \subseteq spilled'
    BY DEF CompleteIntoGap, CompleteIntoNext, HoldAcrossGap
  <2> QED
    BY <1>3, <2>3, <2>4, <2>5, ReleasePinBringsNothing
<1>4. ASSUME Preempt PROVE NothingBroughtIn
  <2> DEFINE f == Head(stack).flow
  <2>1. f \in Flows /\ phase[f] # "COMPLETE"
    BY <1>4, ActionType DEF Preempt, Preemptible, ActionOps
  <2>2. NextKv(f) \in Nat
    BY <2>1, OpenType
  <2>3. beHbm' = Released(f, where[f]) /\ pins' = pins /\ spilled' = spilled
    BY <1>4 DEF Preempt
  <2> HIDE DEF f
  <2> QED
    BY <2>1, <2>2, <2>3, ReleasedShrinks DEF NothingBroughtIn
<1>5. ASSUME Reoffer \/ AdmitRefused \/ ScheduleRefused \/ PreemptRefused \/ Degrade
      PROVE  NothingBroughtIn
  <2>1. pins' = pins /\ spilled' = spilled /\ beHbm' = beHbm
    BY <1>5 DEF Reoffer, AdmitRefused, ScheduleRefused, PreemptRefused, Degrade,
         Raise, deviceVars
  <2> QED
    BY <1>1, <2>1
<1> QED
  BY <1>2, <1>3, <1>4, <1>5 DEF EngineStep, HandlingStep

\* Where nothing is brought in, the limit is kept.
LEMMA HbmKept ==
    ASSUME EngineInv, EngineInv', CounterWithinLimit, NothingBroughtIn
    PROVE  CounterWithinLimit'
<1> SUFFICES ASSUME NEW d \in Devices PROVE HbmUsed(d)' <= HbmCap
  BY DEF CounterWithinLimit
<1>1. /\ IsFiniteSet(pins[d] \ spilled) /\ beHbm[d] \in Nat
      /\ \A f \in pins[d] \ spilled : PinSize[f] \in Nat
      /\ Total(pins[d] \ spilled, PinSize) \in Nat
  BY HbmType
<1>2. /\ pins'[d] \ spilled' \subseteq pins[d] \ spilled
      /\ beHbm'[d] <= beHbm[d] /\ beHbm'[d] \in Nat
  BY DEF NothingBroughtIn, EngineInv, EngineTypeOK
<1>3. Total(pins'[d] \ spilled', PinSize) <= Total(pins[d] \ spilled, PinSize)
  BY <1>1, <1>2, TotalMonotone
<1>4. IsFiniteSet(pins'[d] \ spilled') /\ \A f \in pins'[d] \ spilled' : PinSize[f] \in Nat
  BY <1>1, <1>2, FS_Subset
<1>5. Total(pins'[d] \ spilled', PinSize) \in Nat
  BY <1>4, TotalType
<1>6. HbmUsed(d) <= HbmCap
  BY DEF CounterWithinLimit
<1> QED
  BY <1>1, <1>2, <1>3, <1>5, <1>6, SizesAssumption DEF HbmUsed

\* The memory of a device after a pin of f has joined the resident ones.
LEMMA HbmJoined ==
    ASSUME EngineInv, NEW f \in Flows, NEW d \in Devices, HbmFits(d, PinSize[f]),
           NEW S, S \subseteq (pins[d] \ spilled) \cup {f}
    PROVE  Total(S, PinSize) + beHbm[d] <= HbmCap
<1> DEFINE R == pins[d] \ spilled
<1>1. /\ IsFiniteSet(R) /\ beHbm[d] \in Nat /\ Total(R, PinSize) \in Nat
      /\ \A g \in R : PinSize[g] \in Nat
  BY HbmType
<1>2. Total(R, PinSize) + beHbm[d] + PinSize[f] <= HbmCap /\ PinSize[f] \in Nat
  BY PinSizeType DEF HbmFits, HbmUsed
<1> HIDE DEF R
<1>3. /\ IsFiniteSet(R \cup {f}) /\ \A g \in R \cup {f} : PinSize[g] \in Nat
      /\ Total(R \cup {f}, PinSize) \in Nat
  BY <1>1, <1>2, FS_AddElement, TotalType
<1>4. Total(R \cup {f}, PinSize) <= Total(R, PinSize) + PinSize[f]
  <2>1. CASE f \in R
    <3>1. Total(R \cup {f}, PinSize) = Total(R, PinSize)
      <4>1. R \cup {f} = R
        BY <2>1
      <4> QED
        BY <4>1
    <3> QED
      BY <1>1, <1>2, <3>1
  <2>2. CASE f \notin R
    <3>1. Total(R \cup {f}, PinSize) = Total(R, PinSize) + PinSize[f]
      BY <1>1, <1>3, <2>2, TotalAdd
    <3> QED
      BY <1>1, <1>2, <3>1
  <2> QED
    BY <2>1, <2>2
<1>5. Total(S, PinSize) <= Total(R \cup {f}, PinSize)
  BY <1>3, TotalMonotone DEF R
<1>6. Total(S, PinSize) \in Nat
  <2>1. IsFiniteSet(S) /\ \A g \in S : PinSize[g] \in Nat
    BY <1>3, FS_Subset DEF R
  <2> QED
    BY <2>1, TotalType
<1> QED
  BY <1>1, <1>2, <1>3, <1>4, <1>5, <1>6, SizesAssumption

\* A placement fits: its KV does, or the pin it is restored to.
LEMMA HbmSchedule ==
    ASSUME EngineInv, PinsHome, CounterWithinLimit, Schedule
    PROVE  CounterWithinLimit'
<1> DEFINE f == Head(stack).flow
<1> DEFINE e == Head(stack).dev
<1>1. /\ f \in Flows /\ e \in Devices /\ pins' = pins
      /\ phase[f] # "COMPLETE" /\ spilled' = AfterRestore(f)
  BY ActionType DEF Schedule, Schedulable, ActionOps
<1>2. /\ Reserved(f) => PinUsable(f, e) /\ beHbm' = beHbm
      /\ ~Reserved(f) => /\ CanPlace(f, e)
                         /\ beHbm' = [beHbm EXCEPT ![e] = @ + NextKv(f)]
  BY DEF Schedule, Schedulable
<1> HIDE DEF f, e
<1> SUFFICES ASSUME NEW d \in Devices PROVE HbmUsed(d)' <= HbmCap
  BY DEF CounterWithinLimit
<1>3. HbmUsed(d) <= HbmCap
  BY DEF CounterWithinLimit
<1>4. CASE ~Reserved(f)
  <2>1. spilled' = spilled
    BY <1>1, <1>4 DEF AfterRestore
  <2>2. HbmFits(e, NextKv(f)) /\ NextKv(f) \in Nat /\ beHbm \in [Devices -> Nat]
    BY <1>1, <1>2, <1>4, OpenType DEF CanPlace, EngineInv, EngineTypeOK
  <2>3. Total(pins[d] \ spilled, PinSize) \in Nat
    BY HbmType
  <2>4. CASE d = e
    BY <1>1, <1>2, <1>4, <2>1, <2>2, <2>3, <2>4 DEF HbmFits, HbmUsed
  <2>5. CASE d # e
    BY <1>1, <1>2, <1>3, <1>4, <2>1, <2>2, <2>5 DEF HbmUsed
  <2> QED
    BY <2>4, <2>5
<1>5. CASE Reserved(f) /\ (spilled' = spilled \/ d # e)
  <2>1. pins[d] \ spilled' = pins[d] \ spilled
    BY <1>1, <1>2, <1>5 DEF AfterRestore, PinsHome, PinUsable
  <2> QED
    BY <1>1, <1>2, <1>3, <1>5, <2>1 DEF HbmUsed
<1>6. CASE Reserved(f) /\ spilled' # spilled /\ d = e
  <2>1. HbmFits(d, PinSize[f]) /\ pins[d] \ spilled' \subseteq (pins[d] \ spilled) \cup {f}
    BY <1>1, <1>2, <1>6 DEF AfterRestore, PinUsable
  <2>2. Total(pins[d] \ spilled', PinSize) + beHbm[d] <= HbmCap
    BY <1>1, <2>1, HbmJoined
  <2> QED
    BY <1>1, <1>2, <1>6, <2>2 DEF HbmUsed
<1> QED
  BY <1>4, <1>5, <1>6

\* A new pin fits.
LEMMA HbmAdmit ==
    ASSUME EngineInv, CounterWithinLimit, NEW b, AdmitReserved(b)
    PROVE  CounterWithinLimit'
<1> DEFINE f == Head(stack).flow
<1> DEFINE e == Head(stack).dev
<1>1. /\ f \in Flows /\ pins' = [pins EXCEPT ![e] = @ \cup {f}]
      /\ spilled' = spilled /\ beHbm' = beHbm /\ HbmFits(e, PinSize[f])
  BY ActionType DEF AdmitReserved, CanPin, ActionOps
<1> HIDE DEF f, e
<1> SUFFICES ASSUME NEW d \in Devices PROVE HbmUsed(d)' <= HbmCap
  BY DEF CounterWithinLimit
<1>2. CASE d = e
  <2>1. pins'[d] \ spilled' \subseteq (pins[d] \ spilled) \cup {f}
    BY <1>1, <1>2 DEF EngineInv, EngineTypeOK
  <2>2. Total(pins'[d] \ spilled', PinSize) + beHbm[d] <= HbmCap
    BY <1>1, <1>2, <2>1, HbmJoined
  <2> QED
    BY <1>1, <2>2 DEF HbmUsed
<1>3. CASE d # e
  <2>1. pins'[d] = pins[d]
    BY <1>1, <1>3 DEF EngineInv, EngineTypeOK
  <2> QED
    BY <1>1, <2>1 DEF HbmUsed, CounterWithinLimit
<1> QED
  BY <1>2, <1>3

-----------------------------------------------------------------------------
(* The accounting of the devices.                                          *)

\* The number of members of a set of flows.
LEMMA FlowsCounted ==
    ASSUME NEW S \in SUBSET Flows
    PROVE  IsFiniteSet(S) /\ Cardinality(S) \in Nat
<1>1. IsFiniteSet(Flows)
  BY SizesAssumption, FS_Interval DEF Flows
<1> QED
  BY <1>1, FS_Subset, FS_CardinalityType

\* A sum depends on the sizes of its members only.
LEMMA TotalSame ==
    ASSUME NEW S, NEW size, NEW other, \A x \in S : size[x] = other[x]
    PROVE  Total(S, size) = Total(S, other)
<1>1. Units(S, size) = Units(S, other)
  BY DEF Units, UnitsOf
<1> QED
  BY <1>1 DEF Total

\* The best-effort residents of a device are finitely many, and their KV is known.
LEMMA ResidentKv ==
    ASSUME EngineInv, NEW d \in Devices
    PROVE  /\ IsFiniteSet(BestEffort(d)) /\ BestEffort(d) \subseteq Flows
           /\ \A f \in BestEffort(d) : NextKv(f) \in Nat
<1>1. BestEffort(d) \subseteq Flows
  BY DEF BestEffort, Resident
<1>2. ASSUME NEW f \in BestEffort(d) PROVE NextKv(f) \in Nat
  <2>1. f \in Flows /\ where[f] = d /\ d # NoDevice
    BY <1>1 DEF BestEffort, Resident, Devices, NoDevice
  <2>2. phase[f] # "COMPLETE"
    BY <2>1 DEF EngineInv, ResidentIsPlaced
  <2> QED
    BY <2>1, <2>2, OpenType
<1> QED
  BY <1>1, <1>2, FlowsCounted

\* A device whose best-effort residents stay as they are stays accounted for.
LEMMA AccountedSame ==
    ASSUME NEW d \in Devices, Accounted(d), BestEffort(d)' = BestEffort(d),
           \A f \in BestEffort(d) : cursor'[f] = cursor[f], beHbm'[d] = beHbm[d]
    PROVE  Accounted(d)'
<1> DEFINE B == BestEffort(d)
<1>1. \A f \in B : NextKv(f)' = NextKv(f)
  BY DEF NextKv, Kv, Step
<1>2. Total(B, [f \in B |-> NextKv(f)']) = Total(B, [f \in B |-> NextKv(f)])
  <2> DEFINE new == [f \in B |-> NextKv(f)']
  <2> DEFINE old == [f \in B |-> NextKv(f)]
  <2>1. \A f \in B : new[f] = old[f]
    BY <1>1
  <2> HIDE DEF B, new, old
  <2>2. Total(B, new) = Total(B, old)
    BY <2>1, TotalSame
  <2> QED
    BY <2>2 DEF new, old
<1> QED
  BY <1>2 DEF Accounted, KvOfResidents

\* A device that gets a best-effort resident books its KV.
LEMMA AccountedJoined ==
    ASSUME EngineInv, NEW d \in Devices, Accounted(d), NEW f \in Flows,
           f \notin BestEffort(d), BestEffort(d)' = BestEffort(d) \cup {f},
           NextKv(f) \in Nat, cursor' = cursor, beHbm'[d] = beHbm[d] + NextKv(f)
    PROVE  Accounted(d)'
<1> DEFINE B == BestEffort(d)
<1> DEFINE C == B \cup {f}
<1> DEFINE kv == [g \in C |-> NextKv(g)]
<1> DEFINE old == [g \in B |-> NextKv(g)]
<1>1. IsFiniteSet(B) /\ \A g \in C : kv[g] \in Nat
  BY ResidentKv
<1>2. \A g \in C : NextKv(g)' = NextKv(g)
  BY DEF NextKv, Kv, Step
<1>3. (\A g \in B : kv[g] = old[g]) /\ kv[f] = NextKv(f) /\ f \notin B
  OBVIOUS
<1>4. Total(B, kv) = Total(B, old)
  <2> HIDE DEF kv, old, B
  <2> QED
    BY <1>3, TotalSame
<1>5. Total(C, kv) = Total(B, kv) + kv[f]
  <2> HIDE DEF kv, B
  <2> QED
    BY <1>1, <1>3, TotalAdd
<1>6. BestEffort(d)' = C /\ [g \in C |-> NextKv(g)'] = kv
  BY <1>2
<1> QED
  BY <1>3, <1>4, <1>5, <1>6 DEF Accounted, KvOfResidents

\* A device that loses a best-effort resident gives its KV back, all of it.
LEMMA AccountedLeft ==
    ASSUME EngineInv, NEW d \in Devices, Accounted(d), NEW f \in BestEffort(d),
           BestEffort(d)' = BestEffort(d) \ {f},
           \A g \in BestEffort(d) \ {f} : cursor'[g] = cursor[g],
           beHbm'[d] = IF beHbm[d] < NextKv(f) THEN 0 ELSE beHbm[d] - NextKv(f)
    PROVE  Accounted(d)'
<1> DEFINE B == BestEffort(d)
<1> DEFINE C == B \ {f}
<1> DEFINE old == [g \in B |-> NextKv(g)]
<1> DEFINE new == [g \in C |-> NextKv(g)]
<1>1. IsFiniteSet(B) /\ (\A g \in B : old[g] \in Nat) /\ old[f] = NextKv(f)
  BY ResidentKv
<1>2. f \in B
  OBVIOUS
<1>3. Total(B, old) = Total(C, old) + old[f] /\ Total(C, old) \in Nat
  <2> HIDE DEF old, B
  <2> QED
    BY <1>1, <1>2, TotalRemove
<1>4. Total(C, new) = Total(C, old)
  <2>1. \A g \in C : new[g] = old[g]
    OBVIOUS
  <2> HIDE DEF new, old, C
  <2> QED
    BY <2>1, TotalSame
<1>5. BestEffort(d)' = C /\ [g \in C |-> NextKv(g)'] = new
  BY DEF NextKv, Kv, Step
<1>6. beHbm[d] = Total(B, old)
  BY DEF Accounted, KvOfResidents
<1>7. beHbm'[d] = Total(C, old)
  <2>1. NextKv(f) \in Nat /\ beHbm[d] = Total(C, old) + NextKv(f) /\ Total(C, old) \in Nat
    BY <1>1, <1>3, <1>6
  <2> HIDE DEF old, C
  <2> QED
    BY <2>1
<1> QED
  BY <1>4, <1>5, <1>7 DEF Accounted, KvOfResidents

\* A flow that leaves its device takes its KV with it.
LEMMA AccountingLeft ==
    ASSUME EngineInv, AccountingExact, NEW f \in Flows, NEW d \in Devices,
           where[f] = d, where' = [where EXCEPT ![f] = NoDevice],
           \A g \in Flows \ {f} : cursor'[g] = cursor[g], pinDev' = pinDev,
           beHbm' = Released(f, d)
    PROVE  AccountingExact'
<1>1. /\ where \in [Flows -> 0..NumDevices] /\ beHbm \in [Devices -> Nat]
      /\ d # NoDevice /\ \A e \in Devices : e # NoDevice
      /\ \A e \in Devices : Accounted(e)
  <2>1. where \in [Flows -> 0..NumDevices] /\ beHbm \in [Devices -> Nat]
    BY DEF EngineInv, EngineTypeOK
  <2>2. \A e \in Devices : e # NoDevice
    BY DEF Devices, NoDevice
  <2>3. \A e \in Devices : Accounted(e)
    BY DEF AccountingExact
  <2> QED
    BY <2>1, <2>2, <2>3
<1>2. ASSUME NEW e \in Devices PROVE BestEffort(e)' = BestEffort(e) \ {f}
  <2>1. /\ where'[f] = NoDevice /\ e # NoDevice
        /\ \A g \in Flows \ {f} : where'[g] = where[g]
    BY <1>1, <1>2
  <2>2. \A g \in Flows : Reserved(g)' = Reserved(g)
    BY DEF Reserved
  <2> QED
    BY <2>1, <2>2 DEF BestEffort, Resident
<1>3. \A e \in Devices : BestEffort(e) \subseteq Flows
  BY DEF BestEffort, Resident
<1>4. ASSUME NEW e \in Devices PROVE Accounted(e)'
  <2>1. CASE f \in BestEffort(e)
    <3>1. e = d /\ ~Reserved(f)
      BY <2>1 DEF BestEffort, Resident
    <3>2. beHbm'[e] = IF beHbm[e] < NextKv(f) THEN 0 ELSE beHbm[e] - NextKv(f)
      BY <1>1, <3>1 DEF Released
    <3>3. \A g \in BestEffort(e) \ {f} : cursor'[g] = cursor[g]
      BY <1>3
    <3> QED
      BY <1>1, <1>2, <2>1, <3>2, <3>3, AccountedLeft
  <2>2. CASE f \notin BestEffort(e)
    <3>1. BestEffort(e)' = BestEffort(e)
      BY <1>2, <2>2
    <3>2. \A g \in BestEffort(e) : cursor'[g] = cursor[g]
      BY <1>3, <2>2
    <3>3. beHbm'[e] = beHbm[e]
      BY <1>1, <2>2 DEF Released, BestEffort, Resident
    <3> QED
      BY <1>1, <3>1, <3>2, <3>3, AccountedSame
  <2> QED
    BY <2>1, <2>2
<1> QED
  BY <1>4 DEF AccountingExact

\* A flow that stays off the devices changes nothing of the accounting.
LEMMA AccountingUntouched ==
    ASSUME EngineInv, AccountingExact, UNCHANGED <<where, cursor, beHbm>>,
           \A g \in Flows : where[g] # NoDevice => pinDev'[g] = pinDev[g]
    PROVE  AccountingExact'
<1>1. ASSUME NEW e \in Devices PROVE Accounted(e)'
  <2>1. e # NoDevice
    BY DEF Devices, NoDevice
  <2>2. BestEffort(e)' = BestEffort(e)
    BY <2>1 DEF BestEffort, Resident, Reserved
  <2>3. Accounted(e)
    BY DEF AccountingExact
  <2> QED
    BY <2>2, <2>3, AccountedSame
<1> QED
  BY <1>1 DEF AccountingExact

\* A placement books the KV of a best-effort flow, and nothing for a pinned one.
LEMMA AccountingPlaced ==
    ASSUME EngineInv, AccountingExact, Schedule PROVE AccountingExact'
<1> DEFINE f == Head(stack).flow
<1> DEFINE d == Head(stack).dev
<1>1. /\ f \in Flows /\ d \in Devices
      /\ where \in [Flows -> 0..NumDevices] /\ beHbm \in [Devices -> Nat]
      /\ \A e \in Devices : e # NoDevice
      /\ \A e \in Devices : Accounted(e)
      /\ where' = [where EXCEPT ![f] = d] /\ cursor' = cursor /\ pinDev' = pinDev
      /\ beHbm' = IF Reserved(f) THEN beHbm
                  ELSE [beHbm EXCEPT ![d] = @ + NextKv(f)]
      /\ phase[f] \in {"PENDING", "PREEMPTED"}
  <2>1. f \in Flows
    BY ActionType DEF Schedule, ActionOps
  <2>2. /\ where \in [Flows -> 0..NumDevices] /\ beHbm \in [Devices -> Nat]
        /\ \A e \in Devices : e # NoDevice
        /\ \A e \in Devices : Accounted(e)
    <3>1. where \in [Flows -> 0..NumDevices] /\ beHbm \in [Devices -> Nat]
      BY DEF EngineInv, EngineTypeOK
    <3>2. \A e \in Devices : e # NoDevice
      BY DEF Devices, NoDevice
    <3>3. \A e \in Devices : Accounted(e)
      BY DEF AccountingExact
    <3> QED
      BY <3>1, <3>2, <3>3
  <2>3. /\ where' = [where EXCEPT ![f] = d] /\ cursor' = cursor /\ pinDev' = pinDev
        /\ beHbm' = IF Reserved(f) THEN beHbm
                    ELSE [beHbm EXCEPT ![d] = @ + NextKv(f)]
        /\ Schedulable(f, d)
    BY DEF Schedule, flowVars
  <2>4. d \in Devices /\ phase[f] \in {"PENDING", "PREEMPTED"}
    BY <2>3 DEF Schedulable
  <2> QED
    BY <2>1, <2>2, <2>3, <2>4
<1>2. where[f] = NoDevice /\ NextKv(f) \in Nat
  <2>1. phase[f] # "COMPLETE" /\ where[f] = NoDevice
    BY <1>1 DEF EngineInv, ResidentIsPlaced
  <2> QED
    BY <1>1, <2>1, OpenType
<1> HIDE DEF f, d
<1>3. ASSUME NEW e \in Devices PROVE Accounted(e)'
  <2>1. f \notin BestEffort(e)
    BY <1>1, <1>2 DEF BestEffort, Resident
  <2>2. CASE e = d /\ ~Reserved(f)
    <3>1. BestEffort(e)' = BestEffort(e) \cup {f}
      BY <1>1, <2>2 DEF BestEffort, Resident, Reserved
    <3>2. beHbm'[e] = beHbm[e] + NextKv(f)
      BY <1>1, <2>2
    <3> QED
      BY <1>1, <1>2, <2>1, <3>1, <3>2, AccountedJoined
  <2>3. CASE ~(e = d /\ ~Reserved(f))
    <3>1. BestEffort(e)' = BestEffort(e)
      BY <1>1, <1>2, <2>3 DEF BestEffort, Resident, Reserved
    <3>2. beHbm'[e] = beHbm[e]
      BY <1>1, <2>3
    <3> QED
      BY <1>1, <3>1, <3>2, AccountedSame
  <2> QED
    BY <2>2, <2>3
<1> QED
  BY <1>3 DEF AccountingExact

\* A step of the engine keeps the accounting exact, unless it completes or
\* abandons an invocation that has been evicted since it stopped.
LEMMA EngineStepAccounts ==
    ASSUME EngineInv, AccountingExact, StopsResident, EngineStep
    PROVE  AccountingExact'
<1>1. CASE UNCHANGED <<where, cursor, beHbm, pinDev>>
  BY <1>1, AccountingUntouched
<1>2. ASSUME NEW f \in Flows, NEW d \in Devices,
             \/ CompleteFlow(f, d) \/ CompleteIntoGap(f, d)
             \/ CompleteIntoNext(f, d) \/ AbandonFlow(f, d)
      PROVE  AccountingExact'
  <2>1. /\ Stop(f, d) \in finished \cup exhausted /\ pinDev' = pinDev
        /\ \E n : Leave(f, d, n)
    BY <1>2 DEF CompleteFlow, CompleteIntoGap, CompleteIntoNext, AbandonFlow, Advance,
       Completing, flowVars
  <2>2. where[f] = d
    BY <2>1 DEF StopsResident, Stop
  <2>3. \A g \in Flows \ {f} : cursor'[g] = cursor[g]
    BY <2>1 DEF Leave, EngineInv, EngineTypeOK
  <2> QED
    BY <2>1, <2>2, <2>3, AccountingLeft DEF Leave
<1>3. CASE Schedule
  BY <1>3, AccountingPlaced
<1>4. CASE Preempt
  <2> DEFINE f == Head(stack).flow
  <2> DEFINE d == where[f]
  <2>1. /\ f \in Flows /\ phase[f] \in {"PREFILL", "DECODE"}
        /\ where' = [where EXCEPT ![f] = NoDevice] /\ cursor' = cursor
        /\ pinDev' = pinDev /\ beHbm' = Released(f, d)
    <3>1. f \in Flows
      BY <1>4, ActionType DEF Preempt, ActionOps
    <3>2. /\ Preemptible(f, Head(stack).step)
          /\ where' = [where EXCEPT ![f] = NoDevice] /\ cursor' = cursor
          /\ pinDev' = pinDev /\ beHbm' = Released(f, d)
      BY <1>4 DEF Preempt, flowVars
    <3> QED
      BY <3>1, <3>2 DEF Preemptible
  <2>2. d \in Devices
    BY <2>1 DEF EngineInv, EngineTypeOK, ResidentIsPlaced, Devices, NoDevice
  <2> HIDE DEF f
  <2> QED
    BY <2>1, <2>2, AccountingLeft
<1>5. CASE TriggerStep
  BY <1>1, <1>5 DEF TriggerStep, Arrival, TickTimer, GapEnd, EnterDevice, EntryVoid,
     DecodeToken, IntervalEnd, flowVars, stepVars, deviceVars
<1>6. CASE Reoffer \/ AdmitRefused \/ ScheduleRefused \/ PreemptRefused \/ Degrade
  BY <1>1, <1>6 DEF Reoffer, AdmitRefused, ScheduleRefused, PreemptRefused, Raise,
     Degrade, flowVars, stepVars, deviceVars
<1> QED
  BY <1>2, <1>3, <1>4, <1>5, <1>6 DEF EngineStep, HandlingStep

\* An admission changes no resident, if nothing is resident before its flow is
\* admitted.
LEMMA AdmitAccounts ==
    ASSUME EngineInv, AccountingExact, \A f \in Flows : where[f] # NoDevice => f \in admitted,
           Head(stack).flow \notin admitted,
           NEW b, AdmitAggregate(b) \/ AdmitReserved(b)
    PROVE  AccountingExact'
<1>1. /\ UNCHANGED <<where, cursor, beHbm>>
      /\ \A g \in Flows \ {Head(stack).flow} : pinDev'[g] = pinDev[g]
  BY DEF AdmitAggregate, AdmitReserved, deviceVars, EngineInv, EngineTypeOK
<1> QED
  BY <1>1, AccountingUntouched

\* The devices are accounted for when a run starts.
LEMMA InitAccounts == ASSUME Init PROVE AccountingExact
<1> SUFFICES ASSUME NEW d \in Devices PROVE Accounted(d)
  BY DEF AccountingExact
<1>1. d # NoDevice /\ beHbm[d] = 0 /\ \A f \in Flows : where[f] = NoDevice
  BY DEF Init, Devices, NoDevice
<1>2. BestEffort(d) = {}
  BY <1>1 DEF BestEffort, Resident
<1> QED
  BY <1>1, <1>2, TotalEmpty DEF Accounted, KvOfResidents

\* While the accounting is exact, what a device counts is what it holds.
LEMMA HeldIsCounted ==
    ASSUME AccountingExact, CounterWithinLimit PROVE HbmWithinLimit
<1> SUFFICES ASSUME NEW d \in Devices PROVE HbmHeld(d) <= HbmCap
  BY DEF HbmWithinLimit
<1>1. HbmHeld(d) = HbmUsed(d)
  BY DEF HbmHeld, HbmUsed, AccountingExact, Accounted
<1> QED
  BY <1>1 DEF CounterWithinLimit

-----------------------------------------------------------------------------
(* Pins are where their flows are reserved, if each flow is admitted once. *)

\* The admissions in s are of distinct flows, none of them in A.
AdmitsOnce(s, A) ==
    \A i \in 1..Len(s) : s[i].op = "Admit" =>
        /\ s[i].flow \notin A
        /\ \A j \in 1..Len(s) :
            s[j].op = "Admit" /\ s[j].flow = s[i].flow => j = i

\* Only admitted flows have a reservation.
ReservedAdmitted == \A f \in Flows : Reserved(f) => f \in admitted

PinsInv == PinsHome /\ ReservedAdmitted /\ AdmitsOnce(stack, admitted)

\* Leaving the head away leaves no second admission behind.
LEMMA OnceTail ==
    ASSUME NEW s \in Seq(Task), s # <<>>, NEW A, AdmitsOnce(s, A)
    PROVE  AdmitsOnce(Tail(s), A)
<1>1. /\ Len(Tail(s)) = Len(s) - 1 /\ Len(s) \in Nat
      /\ \A i \in 1..Len(Tail(s)) : Tail(s)[i] = s[i + 1] /\ i + 1 \in 1..Len(s)
  OBVIOUS
<1> QED
  BY <1>1 DEF AdmitsOnce

\* Executing the admission at the head uses up its flow.
LEMMA OnceExecuted ==
    ASSUME NEW s \in Seq(Task), s # <<>>, NEW A, AdmitsOnce(s, A),
           Head(s).op = "Admit", NEW r \in Task, r.op # "Admit"
    PROVE  AdmitsOnce(<<r>> \o Tail(s), A \cup {Head(s).flow})
<1> DEFINE q == <<r>> \o Tail(s)
<1>1. /\ Len(q) = Len(s) /\ q[1] = r /\ Len(s) \in Nat /\ Head(s) = s[1]
      /\ \A i \in 2..Len(s) : q[i] = s[i]
  OBVIOUS
<1>2. \A i \in 1..Len(s) : i = 1 \/ i \in 2..Len(s)
  BY <1>1
<1> HIDE DEF q
<1>3. AdmitsOnce(q, A \cup {Head(s).flow})
  BY <1>1, <1>2 DEF AdmitsOnce
<1> QED
  BY <1>3 DEF q

\* A step of the engine leaves of the pending admissions those it left.
LEMMA EngineStepOnce ==
    ASSUME EngineInv, PinsInv, EngineStep
    PROVE  AdmitsOnce(stack', admitted')
<1>0. stack \in Seq(Task)
  BY DEF EngineInv, EngineTypeOK
<1>1. ASSUME stack' = stack, admitted' = admitted
      PROVE  AdmitsOnce(stack', admitted')
  BY <1>1 DEF PinsInv
<1>2. ASSUME stack # <<>>, stack' = Tail(stack), admitted' = admitted
      PROVE  AdmitsOnce(stack', admitted')
  BY <1>0, <1>2, OnceTail DEF PinsInv
<1>3. ASSUME \A i \in 1..Len(stack') : stack'[i].op # "Admit"
      PROVE  AdmitsOnce(stack', admitted')
  BY <1>3 DEF AdmitsOnce
<1>4. CASE TriggerStep
  <2>1. Arrival \/ TickTimer \/ (\E f \in Flows : GapEnd(f)) =>
            \A i \in 1..Len(stack') : stack'[i].op # "Admit"
    BY DEF Arrival, TickTimer, GapEnd, TaskOf
  <2>2. (\E t \in timers : EnterDevice(t) \/ EntryVoid(t)) =>
            stack' = stack /\ admitted' = admitted
    BY DEF EnterDevice, EntryVoid, flowVars
  <2>3. (\E d \in Devices : DecodeToken(d) \/ IntervalEnd(d)) =>
            stack' = stack /\ admitted' = admitted
    BY DEF DecodeToken, IntervalEnd, flowVars
  <2> QED
    BY <1>1, <1>3, <1>4, <2>1, <2>2, <2>3 DEF TriggerStep
<1>5. CASE HandlingStep
  <2>1. (\E f \in Flows, d \in Devices :
            \/ CompleteFlow(f, d) \/ CompleteIntoGap(f, d)
            \/ CompleteIntoNext(f, d) \/ AbandonFlow(f, d)) =>
            \A i \in 1..Len(stack') : stack'[i].op # "Admit"
    BY DEF CompleteFlow, CompleteIntoGap, CompleteIntoNext, AbandonFlow, TaskOf
  <2>2. Reoffer => \A i \in 1..Len(stack') : stack'[i].op # "Admit"
    BY DEF Reoffer, TaskOf
  <2>3. AdmitRefused \/ ScheduleRefused \/ PreemptRefused =>
            stack' = stack /\ admitted' = admitted
    BY DEF AdmitRefused, ScheduleRefused, PreemptRefused, Raise, flowVars
  <2>4. Schedule \/ Preempt \/ Degrade =>
            stack # <<>> /\ stack' = Tail(stack) /\ admitted' = admitted
    BY DEF Schedule, Preempt, Degrade, Pending, flowVars
  <2> QED
    BY <1>1, <1>2, <1>3, <1>5, <2>1, <2>2, <2>3, <2>4 DEF HandlingStep
<1> QED
  BY <1>4, <1>5 DEF EngineStep

\* No step of the engine changes where a flow is reserved or who is admitted.
LEMMA EngineStepSameReservations ==
    ASSUME EngineStep PROVE pinDev' = pinDev /\ admitted' = admitted
<1>1. CASE TriggerStep
  BY <1>1 DEF TriggerStep, Arrival, TickTimer, GapEnd, EnterDevice, EntryVoid,
       DecodeToken, IntervalEnd, flowVars
<1>2. CASE HandlingStep
  <2>1. (\E f \in Flows, d \in Devices :
            \/ CompleteFlow(f, d) \/ CompleteIntoGap(f, d)
            \/ CompleteIntoNext(f, d) \/ AbandonFlow(f, d)) =>
            pinDev' = pinDev /\ admitted' = admitted
    BY DEF CompleteFlow, CompleteIntoGap, CompleteIntoNext, AbandonFlow, flowVars
  <2>2. Reoffer \/ AdmitRefused \/ Schedule \/ ScheduleRefused \/ Preempt
            \/ PreemptRefused \/ Degrade => pinDev' = pinDev /\ admitted' = admitted
    BY DEF Reoffer, AdmitRefused, Schedule, ScheduleRefused, Preempt,
         PreemptRefused, Degrade, Raise, flowVars
  <2> QED
    BY <1>2, <2>1, <2>2 DEF HandlingStep
<1> QED
  BY <1>1, <1>2 DEF EngineStep

\* Every step of the engine keeps the pins in order.
LEMMA EngineStepPinsInv ==
    ASSUME EngineInv, PinsInv, EngineStep PROVE PinsInv'
<1>1. pinDev' = pinDev /\ admitted' = admitted /\ PinsKept
  BY EngineStepSameReservations, EngineStepKeepsPins
<1>2. PinsHome' /\ ReservedAdmitted'
  BY <1>1 DEF PinsInv, PinsHome, PinsKept, ReservedAdmitted, Reserved
<1> QED
  BY <1>2, EngineStepOnce DEF PinsInv

\* An admission at the head of the stack is of a flow that has no pin, and
\* its flow is offered by a task that is no admission.
LEMMA AdmitPinsInv ==
    ASSUME EngineInv, PinsInv, NEW b, AdmitAggregate(b) \/ AdmitReserved(b)
    PROVE  PinsInv'
<1> DEFINE f == Head(stack).flow
<1> DEFINE e == Head(stack).dev
<1>1. /\ f \in Flows /\ stack \in Seq(Task) /\ stack # <<>>
      /\ Head(stack).op = "Admit" /\ admitted' = admitted \cup {f}
      /\ Tail(stack) \in Seq(Task)
  BY ActionType
     DEF EngineInv, EngineTypeOK, AdmitAggregate, AdmitReserved, Pending, ActionOps
<1>2. f \notin admitted
  BY <1>1 DEF PinsInv, AdmitsOnce
<1>3. AdmitsOnce(stack', admitted')
  <2> DEFINE r == TaskOf("InvocationReady", f, Step(f), NoDevice)
  <2>1. Step(f) \in Nat /\ NoDevice \in 0..NumDevices
    BY <1>1, SizesAssumption DEF EngineInv, EngineTypeOK, Step, NoDevice
  <2>2. r \in Task /\ r.op # "Admit"
    BY <1>1, <2>1, TaskOfType DEF EventOps, TaskOf
  <2>3. stack' = <<r>> \o Tail(stack)
    BY DEF AdmitAggregate, AdmitReserved, OfferNext
  <2> HIDE DEF r
  <2> QED
    BY <1>1, <2>2, <2>3, OnceExecuted DEF PinsInv
<1>4. CASE AdmitAggregate(b)
  <2>1. pins' = pins /\ pinDev' = pinDev
    BY <1>4 DEF AdmitAggregate, deviceVars
  <2> QED
    BY <1>1, <1>3, <2>1 DEF PinsInv, PinsHome, ReservedAdmitted, Reserved
<1>5. CASE AdmitReserved(b)
  <2>1. /\ pins' = [pins EXCEPT ![e] = @ \cup {f}]
        /\ pinDev' = [pinDev EXCEPT ![f] = e]
    BY <1>5 DEF AdmitReserved
  <2>2. \A d \in Devices : f \notin pins[d]
    BY <1>1, <1>2 DEF PinsInv, PinsHome, ReservedAdmitted, Reserved, NoDevice,
         Devices
  <2>3. /\ pinDev'[f] = e /\ \A g \in Flows : g # f => pinDev'[g] = pinDev[g]
        /\ \A d \in Devices : pins[d] \subseteq Flows
        /\ \A d \in Devices : pins'[d] = IF d = e THEN pins[d] \cup {f} ELSE pins[d]
    BY <1>1, <2>1 DEF EngineInv, EngineTypeOK
  <2> HIDE DEF f, e
  <2>4. PinsHome'
    <3> SUFFICES ASSUME NEW d \in Devices, NEW g \in pins'[d]
                 PROVE  pinDev'[g] = d
      BY DEF PinsHome
    <3>1. CASE g \in pins[d]
      <4>1. g \in Flows /\ g # f /\ pinDev[g] = d
        BY <2>2, <2>3, <3>1 DEF PinsInv, PinsHome
      <4> QED
        BY <2>3, <4>1
    <3>2. CASE g \notin pins[d]
      BY <2>3, <3>2
    <3> QED
      BY <3>1, <3>2
  <2>5. ReservedAdmitted'
    BY <1>1, <2>3 DEF PinsInv, ReservedAdmitted, Reserved
  <2> QED
    BY <1>3, <2>4, <2>5 DEF PinsInv
<1> QED
  BY <1>4, <1>5

-----------------------------------------------------------------------------
(* Service: nobody is served beyond what it has to generate or may pay.    *)

\* What a device has served since it was last settled is within what each of
\* its decoders may still generate.
AccruedWithin ==
    \A d \in Devices : \A f \in Decoding(d) : accrued[d] <= TokensUntilStop(f)
ServiceInv == NeverOverserved /\ AccruedWithin

\* What a decoder may still generate is a natural, and within both its limits.
LEMMA StopBounds ==
    ASSUME EngineTypeOK, NeverOverserved, NEW f \in Flows
    PROVE  /\ TokensUntilStop(f) \in Nat /\ TokensUntilStop(f) <= left[f]
           /\ budget[f] # Unmetered => TokensUntilStop(f) <= budget[f]
<1>1. left[f] \in Int /\ budget[f] \in Int /\ left[f] >= 0
      /\ (budget[f] >= 0 \/ budget[f] = Unmetered)
  BY DEF EngineTypeOK, NeverOverserved
<1> QED
  BY <1>1 DEF TokensUntilStop

\* A decode interval ends with the first decoder that must stop.
LEMMA IntervalBounds ==
    ASSUME EngineTypeOK, NeverOverserved, NEW d \in Devices, Decoding(d) # {}
    PROVE  MinStop(d) \in Nat /\ \A f \in Decoding(d) : MinStop(d) <= TokensUntilStop(f)
<1> DEFINE stops == {TokensUntilStop(f) : f \in Decoding(d)}
<1>1. \A f \in Decoding(d) : TokensUntilStop(f) \in Nat
  BY StopBounds DEF Decoding, Resident
<1>2. stops \in SUBSET Nat /\ stops # {}
  BY <1>1
<1>3. Least(stops) \in stops /\ \A n \in stops : Least(stops) <= n
  <2> HIDE DEF stops
  <2> QED
    BY <1>2, LeastProperty
<1>4. MinStop(d) = Least(stops)
  BY DEF MinStop
<1> QED
  BY <1>2, <1>3, <1>4

\* Settling a device charges its decoders at most what they may generate, and
\* starts a new interval.
LEMMA SettlingServes ==
    ASSUME EngineTypeOK, ServiceInv, NEW d \in Devices,
           left' = CreditedLeft(d), budget' = CreditedBudget(d),
           accrued' = [accrued EXCEPT ![d] = 0],
           \A e \in Devices : e # d => Decoding(e)' \subseteq Decoding(e)
    PROVE  ServiceInv'
<1>1. /\ left \in [Flows -> Int] /\ budget \in [Flows -> Int]
      /\ accrued \in [Devices -> Nat]
  BY DEF EngineTypeOK
<1>2. \A f \in Decoding(d) :
        /\ accrued[d] <= left[f]
        /\ budget[f] # Unmetered => accrued[d] <= budget[f]
  <2> TAKE f \in Decoding(d)
  <2>1. f \in Flows
    BY DEF Decoding, Resident
  <2>2. accrued[d] <= TokensUntilStop(f)
    BY DEF ServiceInv, AccruedWithin
  <2> QED
    BY <1>1, <2>1, <2>2, StopBounds DEF ServiceInv
<1>3. ASSUME NEW f \in Flows
      PROVE  /\ left'[f] \in Int /\ budget'[f] \in Int /\ left'[f] >= 0
             /\ budget'[f] >= 0 \/ budget'[f] = Unmetered
             /\ f \notin Decoding(d) => left'[f] = left[f] /\ budget'[f] = budget[f]
  <2>1. left[f] >= 0 /\ (budget[f] >= 0 \/ budget[f] = Unmetered)
    BY DEF ServiceInv, NeverOverserved
  <2>2. left'[f] = IF f \in Decoding(d) THEN left[f] - accrued[d] ELSE left[f]
    BY DEF CreditedLeft
  <2>3. budget'[f] = IF f \in Decoding(d) /\ budget[f] # Unmetered
                     THEN budget[f] - accrued[d] ELSE budget[f]
    BY DEF CreditedBudget
  <2>4. CASE f \in Decoding(d)
    BY <1>1, <1>2, <2>1, <2>2, <2>3, <2>4
  <2>5. CASE f \notin Decoding(d)
    BY <1>1, <2>1, <2>2, <2>3, <2>5
  <2> QED
    BY <2>4, <2>5
<1>4. NeverOverserved'
  BY <1>3 DEF NeverOverserved
<1>5. AccruedWithin'
  <2> SUFFICES ASSUME NEW e \in Devices, NEW f \in Decoding(e)'
               PROVE  accrued'[e] <= TokensUntilStop(f)'
    BY DEF AccruedWithin
  <2>1. f \in Flows
    BY DEF Decoding, Resident
  <2>2. CASE e = d
    <3>1. accrued'[e] = 0
      BY <1>1, <2>2
    <3>2. TokensUntilStop(f)' \in Nat
      BY <1>3, <2>1 DEF TokensUntilStop
    <3> QED
      BY <3>1, <3>2
  <2>3. CASE e # d
    <3>1. f \in Decoding(e) /\ accrued'[e] = accrued[e]
      BY <1>1, <2>3
    <3>2. f \notin Decoding(d)
      BY <2>3, <3>1 DEF Decoding, Resident
    <3>3. TokensUntilStop(f)' = TokensUntilStop(f)
      BY <1>3, <2>1, <3>2 DEF TokensUntilStop
    <3> QED
      BY <3>1, <3>3 DEF ServiceInv, AccruedWithin
  <2> QED
    BY <2>2, <2>3
<1> QED
  BY <1>4, <1>5 DEF ServiceInv

\* A step that brings no decoder and changes nothing for those that stay keeps
\* service within its limits.
LEMMA ServiceUntouched ==
    ASSUME EngineTypeOK, ServiceInv, NeverOverserved',
           \A d \in Devices : accrued'[d] \in Nat /\ accrued'[d] <= accrued[d],
           \A f \in Flows : phase'[f] = "DECODE" /\ where'[f] # NoDevice =>
               /\ phase[f] = "DECODE" /\ where'[f] = where[f]
               /\ left'[f] = left[f] /\ budget'[f] = budget[f]
    PROVE  ServiceInv'
<1> SUFFICES ASSUME NEW d \in Devices, NEW f \in Decoding(d)'
             PROVE  accrued'[d] <= TokensUntilStop(f)'
  BY DEF ServiceInv, AccruedWithin
<1>1. f \in Flows /\ where'[f] = d /\ phase'[f] = "DECODE" /\ d # NoDevice
  BY DEF Decoding, Resident, Devices, NoDevice
<1>2. f \in Decoding(d) /\ left'[f] = left[f] /\ budget'[f] = budget[f]
  BY <1>1 DEF Decoding, Resident
<1>3. TokensUntilStop(f)' = TokensUntilStop(f)
  BY <1>2 DEF TokensUntilStop
<1>4. accrued[d] <= TokensUntilStop(f) /\ TokensUntilStop(f) \in Nat
  BY <1>1, <1>2, StopBounds DEF ServiceInv, AccruedWithin
<1>5. accrued[d] \in Nat /\ accrued'[d] \in Nat /\ accrued'[d] <= accrued[d]
  BY DEF EngineTypeOK
<1> QED
  BY <1>3, <1>4, <1>5

\* What the device loop completes or abandons leaves with a natural number of
\* tokens to go.
LEMMA LeavingServes ==
    ASSUME EngineInv, ServiceInv, NEW f \in Flows, NEW d \in Devices,
           \/ CompleteFlow(f, d) \/ CompleteIntoGap(f, d)
           \/ CompleteIntoNext(f, d) \/ AbandonFlow(f, d)
    PROVE  ServiceInv'
<1>1. /\ where' = [where EXCEPT ![f] = NoDevice]
      /\ \E p : phase' = [phase EXCEPT ![f] = p]
      /\ budget' = budget /\ accrued' = accrued
  BY DEF CompleteFlow, CompleteIntoGap, CompleteIntoNext, AbandonFlow, Advance,
     Leave
<1>2. /\ left \in [Flows -> Int] /\ where \in [Flows -> 0..NumDevices]
      /\ phase \in [Flows -> Phases] /\ accrued \in [Devices -> Nat]
  BY DEF EngineInv, EngineTypeOK
<1>3. \E n \in Nat : left' = [left EXCEPT ![f] = n]
  <2>1. CASE CompleteFlow(f, d)
    BY <2>1 DEF CompleteFlow
  <2>2. CASE CompleteIntoGap(f, d) \/ CompleteIntoNext(f, d)
    <3>1. Advance(f, d)
      BY <2>2 DEF CompleteIntoGap, CompleteIntoNext
    <3>2. Step(f) \in Steps(f) /\ Step(f) # Len(Work[f]) /\ Len(Work[f]) \in Nat
      BY <3>1, StopType DEF Advance, Completing, IsLastStep
    <3>3. Step(f) + 1 \in Steps(f)
      BY <3>2 DEF Steps
    <3>4. output[f][Step(f) + 1] \in Nat
      BY <3>3 DEF EngineInv, EngineTypeOK
    <3> QED
      BY <3>1, <3>4 DEF Advance
  <2>3. CASE AbandonFlow(f, d)
    <3>1. left' = [left EXCEPT ![f] = left[f]] /\ left[f] \in Nat
      BY <1>2, <2>3 DEF AbandonFlow, ServiceInv, NeverOverserved
    <3> QED
      BY <3>1
  <2> QED
    BY <2>1, <2>2, <2>3
<1>4. \A g \in Flows : left'[g] \in Int /\ left'[g] >= 0
                      /\ (g # f => left'[g] = left[g])
  BY <1>2, <1>3 DEF ServiceInv, NeverOverserved
<1>5. NeverOverserved'
  BY <1>1, <1>4 DEF ServiceInv, NeverOverserved
<1>6. \A g \in Flows : phase'[g] = "DECODE" /\ where'[g] # NoDevice =>
        g # f /\ phase[g] = "DECODE" /\ where'[g] = where[g]
  BY <1>1, <1>2
<1>7. \A e \in Devices : accrued'[e] \in Nat /\ accrued'[e] <= accrued[e]
  BY <1>1, <1>2
<1> QED
  BY <1>1, <1>4, <1>5, <1>6, <1>7, ServiceUntouched DEF EngineInv

\* Every trigger keeps service within its limits.
LEMMA TriggerServes ==
    ASSUME EngineInv, ServiceInv, TriggerStep PROVE ServiceInv'
<1>1. /\ where \in [Flows -> 0..NumDevices] /\ phase \in [Flows -> Phases]
      /\ accrued \in [Devices -> Nat]
  BY DEF EngineInv, EngineTypeOK
<1>2. ASSUME left' = left, budget' = budget, accrued' = accrued,
             where' = where, phase' = phase
      PROVE  ServiceInv'
  BY <1>2 DEF ServiceInv, NeverOverserved, AccruedWithin, Decoding, Resident,
       TokensUntilStop
<1>3. Arrival \/ TickTimer \/ (\E f \in Flows : GapEnd(f))
          \/ (\E t \in timers : EntryVoid(t)) => ServiceInv'
  BY <1>2 DEF Arrival, TickTimer, GapEnd, EntryVoid, stepVars, deviceVars
<1>4. ASSUME NEW t \in timers, EnterDevice(t) PROVE ServiceInv'
  <2>1. t.flow \in Flows /\ t.dev \in Devices /\ where[t.flow] = t.dev
    BY <1>4 DEF EngineInv, EngineTypeOK, EnterDevice, StillEntering
  <2>2. /\ left' = CreditedLeft(t.dev) /\ budget' = CreditedBudget(t.dev)
        /\ accrued' = [accrued EXCEPT ![t.dev] = 0] /\ where' = where
        /\ phase' = [phase EXCEPT ![t.flow] = "DECODE"]
    BY <1>4 DEF EnterDevice
  <2>3. \A e \in Devices : e # t.dev => Decoding(e)' \subseteq Decoding(e)
    BY <1>1, <2>1, <2>2 DEF Decoding, Resident
  <2> QED
    BY <2>1, <2>2, <2>3, SettlingServes DEF EngineInv
<1>5. ASSUME NEW d \in Devices, IntervalEnd(d) PROVE ServiceInv'
  <2>1. /\ left' = CreditedLeft(d) /\ budget' = CreditedBudget(d)
        /\ accrued' = [accrued EXCEPT ![d] = 0]
        /\ where' = where /\ phase' = phase
    BY <1>5 DEF IntervalEnd
  <2>2. \A e \in Devices : e # d => Decoding(e)' \subseteq Decoding(e)
    BY <2>1 DEF Decoding, Resident
  <2> QED
    BY <2>1, <2>2, SettlingServes DEF EngineInv
<1>6. ASSUME NEW d \in Devices, DecodeToken(d) PROVE ServiceInv'
  <2>1. /\ Decoding(d) # {} /\ accrued[d] < MinStop(d)
        /\ accrued' = [accrued EXCEPT ![d] = @ + 1]
        /\ left' = left /\ budget' = budget /\ where' = where /\ phase' = phase
    BY <1>6 DEF DecodeToken, stepVars
  <2>2. MinStop(d) \in Nat /\ \A f \in Decoding(d) : MinStop(d) <= TokensUntilStop(f)
    BY <2>1, IntervalBounds DEF EngineInv, ServiceInv
  <2>3. \A f \in Flows : /\ TokensUntilStop(f)' = TokensUntilStop(f)
                         /\ TokensUntilStop(f) \in Nat
    BY <2>1, StopBounds DEF TokensUntilStop, EngineInv, ServiceInv
  <2>4. \A e \in Devices : Decoding(e)' = Decoding(e) /\ Decoding(e) \subseteq Flows
    BY <2>1 DEF Decoding, Resident
  <2>5. AccruedWithin'
    <3> SUFFICES ASSUME NEW e \in Devices, NEW f \in Decoding(e)'
                 PROVE  accrued'[e] <= TokensUntilStop(f)'
      BY DEF AccruedWithin
    <3>1. f \in Decoding(e) /\ f \in Flows
      BY <2>4
    <3>2. CASE e = d
      <4>1. accrued'[e] = accrued[d] + 1 /\ accrued[d] \in Nat
        BY <1>1, <2>1, <3>2
      <4>2. MinStop(d) <= TokensUntilStop(f) /\ TokensUntilStop(f) \in Nat
        BY <2>2, <2>3, <3>1, <3>2
      <4> QED
        BY <2>1, <2>2, <2>3, <3>1, <4>1, <4>2
    <3>3. CASE e # d
      <4>1. accrued'[e] = accrued[e]
        BY <1>1, <2>1, <3>3
      <4> QED
        BY <2>3, <3>1, <4>1 DEF ServiceInv, AccruedWithin
    <3> QED
      BY <3>2, <3>3
  <2> QED
    BY <2>1, <2>5 DEF ServiceInv, NeverOverserved
<1> QED
  BY <1>3, <1>4, <1>5, <1>6 DEF TriggerStep

\* So does every step that handles one.
LEMMA HandlingServes ==
    ASSUME EngineInv, EngineInv', ServiceInv, HandlingStep PROVE ServiceInv'
<1>1. /\ where \in [Flows -> 0..NumDevices] /\ phase \in [Flows -> Phases]
      /\ accrued \in [Devices -> Nat] /\ left \in [Flows -> Int]
      /\ cursor \in [Flows -> Nat]
  BY DEF EngineInv, EngineTypeOK
<1>2. Reoffer \/ AdmitRefused \/ ScheduleRefused \/ PreemptRefused => ServiceInv'
  BY DEF Reoffer, AdmitRefused, ScheduleRefused, PreemptRefused, Raise,
       stepVars, deviceVars, ServiceInv, NeverOverserved, AccruedWithin,
       Decoding, Resident, TokensUntilStop
<1>3. ASSUME Schedule PROVE ServiceInv'
  <2>1. /\ left' = left /\ budget' = budget /\ accrued' = accrued
        /\ where' = [where EXCEPT ![Head(stack).flow] = Head(stack).dev]
        /\ phase' = [phase EXCEPT ![Head(stack).flow] = "PREFILL"]
    BY <1>3 DEF Schedule
  <2>2. NeverOverserved'
    BY <2>1 DEF ServiceInv, NeverOverserved
  <2>3. \A f \in Flows : phase'[f] = "DECODE" =>
            phase[f] = "DECODE" /\ where'[f] = where[f]
    BY <1>1, <2>1
  <2>4. \A d \in Devices : accrued'[d] \in Nat /\ accrued'[d] <= accrued[d]
    BY <1>1, <2>1
  <2> QED
    BY <2>1, <2>2, <2>3, <2>4, ServiceUntouched DEF EngineInv
<1>4. ASSUME Preempt PROVE ServiceInv'
  <2> DEFINE f == Head(stack).flow
  <2>1. PICK d \in 0..NumDevices : d = where[f]
    BY <1>1, <1>4, ActionType DEF Preempt, ActionOps
  <2>2. /\ left' = IF phase[f] = "DECODE" THEN CreditedLeft(d) ELSE left
        /\ budget' = IF phase[f] = "DECODE" THEN CreditedBudget(d) ELSE budget
        /\ accrued' = [accrued EXCEPT ![d] = 0]
        /\ where' = [where EXCEPT ![f] = NoDevice]
        /\ phase' = [phase EXCEPT ![f] = "PREEMPTED"]
        /\ f \in Flows /\ phase[f] \in {"PREFILL", "DECODE"}
    BY <1>4, <2>1, ActionType DEF Preempt, Preemptible, ActionOps
  <2> HIDE DEF f
  <2>3. d \in Devices
    BY <1>1, <2>1, <2>2 DEF EngineInv, ResidentIsPlaced, NoDevice, Devices
  <2>4. \A g \in Flows : phase'[g] = "DECODE" =>
            phase[g] = "DECODE" /\ where'[g] = where[g]
    BY <1>1, <2>2
  <2>5. CASE phase[f] = "DECODE"
    <3>1. \A e \in Devices : e # d => Decoding(e)' \subseteq Decoding(e)
      BY <2>4 DEF Decoding, Resident
    <3> QED
      BY <2>2, <2>3, <2>5, <3>1, SettlingServes DEF EngineInv
  <2>6. CASE phase[f] # "DECODE"
    <3>1. left' = left /\ budget' = budget
      BY <2>2, <2>6
    <3>2. \A e \in Devices : accrued'[e] \in Nat /\ accrued'[e] <= accrued[e]
      BY <1>1, <2>2
    <3>3. NeverOverserved'
      BY <3>1 DEF ServiceInv, NeverOverserved
    <3> QED
      BY <2>4, <3>1, <3>2, <3>3, ServiceUntouched DEF EngineInv
  <2> QED
    BY <2>5, <2>6
<1>5. ASSUME Degrade PROVE ServiceInv'
  <2> DEFINE f == Head(stack).flow
  <2>1. /\ f \in Flows /\ budget' = budget /\ accrued' = accrued
        /\ where' = where /\ phase' = phase
    BY <1>5, ActionType DEF Degrade, ActionOps, deviceVars
  <2>2. \/ left' = left
        \/ /\ phase[f] = "PENDING" /\ Step(f) \in Steps(f)
           /\ left' = [left EXCEPT ![f] = Shortened(output[f][Step(f)])]
    <3> DEFINE reshaped == {s \in Steps(f) : s > Step(f)
                                \/ (s = Step(f) /\ phase[f] = "PENDING")}
    <3>1. Step(f) \in Nat
      BY <1>1, <2>1 DEF Step
    <3>2. Step(f) \in reshaped => phase[f] = "PENDING" /\ Step(f) \in Steps(f)
      BY <3>1
    <3>3. left' = IF Step(f) \in reshaped
                  THEN [left EXCEPT ![f] = Shortened(output[f][Step(f)])]
                  ELSE left
      BY <1>5 DEF Degrade
    <3> HIDE DEF reshaped, f
    <3>4. CASE Step(f) \in reshaped
      BY <3>2, <3>3, <3>4
    <3>5. CASE Step(f) \notin reshaped
      BY <3>3, <3>5
    <3> QED
      BY <3>4, <3>5
  <2> HIDE DEF f
  <2>3. CASE left' = left
    BY <2>1, <2>3 DEF ServiceInv, NeverOverserved, AccruedWithin, Decoding,
         Resident, TokensUntilStop
  <2>4. CASE left' # left
    <3>1. output[f][Step(f)] \in Nat
      BY <2>1, <2>2, <2>4 DEF EngineInv, EngineTypeOK
    <3>2. PICK n \in Nat : left' = [left EXCEPT ![f] = n]
      BY <2>2, <2>4, <3>1, ShortenedType
    <3>3. NeverOverserved'
      BY <1>1, <2>1, <3>2 DEF ServiceInv, NeverOverserved
    <3>4. \A g \in Flows : phase'[g] = "DECODE" => left'[g] = left[g]
      BY <1>1, <2>1, <2>2, <2>4, <3>2
    <3>5. \A e \in Devices : accrued'[e] \in Nat /\ accrued'[e] <= accrued[e]
      BY <1>1, <2>1
    <3> QED
      BY <2>1, <3>3, <3>4, <3>5, ServiceUntouched DEF EngineInv
  <2> QED
    BY <2>3, <2>4
<1> QED
  BY <1>2, <1>3, <1>4, <1>5, LeavingServes DEF HandlingStep

\* An admission opens the budget of a flow that is on no device.
LEMMA AdmitServes ==
    ASSUME EngineInv, ServiceInv, AdmitsOnce(stack, admitted),
           \A f \in Flows : where[f] # NoDevice => f \in admitted,
           NEW b \in Nat \cup {Unmetered}, AdmitAggregate(b) \/ AdmitReserved(b)
    PROVE  ServiceInv'
<1> DEFINE f == Head(stack).flow
<1>1. /\ f \in Flows /\ stack # <<>> /\ stack \in Seq(Task)
      /\ Head(stack).op = "Admit"
      /\ budget' = [budget EXCEPT ![f] = b]
      /\ left' = left /\ accrued' = accrued /\ where' = where /\ phase' = phase
  BY ActionType DEF AdmitAggregate, AdmitReserved, Pending, ActionOps,
     deviceVars, EngineInv, EngineTypeOK
<1>2. f \notin admitted
  BY <1>1 DEF AdmitsOnce
<1> HIDE DEF f
<1>3. where[f] = NoDevice
  BY <1>1, <1>2
<1>4. /\ budget \in [Flows -> Int] /\ accrued \in [Devices -> Nat]
      /\ \A g \in Flows : g # f => budget'[g] = budget[g]
      /\ budget'[f] = b
  BY <1>1 DEF EngineInv, EngineTypeOK
<1>5. NeverOverserved'
  BY <1>1, <1>4 DEF ServiceInv, NeverOverserved, Unmetered
<1>6. \A d \in Devices : accrued'[d] \in Nat /\ accrued'[d] <= accrued[d]
  BY <1>1, <1>4
<1> QED
  BY <1>1, <1>3, <1>4, <1>5, <1>6, ServiceUntouched DEF EngineInv

-----------------------------------------------------------------------------
(* Nothing of a flow is offered, placed or in tool-time before it is       *)
(* admitted, if the policy does not place it earlier.                      *)

ReadyOps == {"InvocationReady", "Schedule"}
\* The tasks of s that run an invocation are of flows in A.
OfferedIn(s, A) ==
    \A i \in 1..Len(s) : s[i].op \in ReadyOps => s[i].flow \in A
KnownAdmitted ==
    /\ \A f \in Flows : where[f] # NoDevice => f \in admitted
    /\ gaps \subseteq admitted
    /\ \A r \in finished \cup exhausted : r.flow \in admitted
    /\ \A i \in 1..Len(reready) : reready[i].flow \in admitted
    /\ OfferedIn(stack, admitted)

\* What is true of the tasks of a sequence is true of those of its tail.
LEMMA OfferedTail ==
    ASSUME NEW s \in Seq(Task), s # <<>>, NEW A, OfferedIn(s, A)
    PROVE  OfferedIn(Tail(s), A)
<1>1. \A i \in 1..Len(Tail(s)) : Tail(s)[i] = s[i + 1] /\ i + 1 \in 1..Len(s)
  OBVIOUS
<1> QED
  BY <1>1 DEF OfferedIn

\* A trigger offers only flows that were admitted.
LEMMA TriggerKnown ==
    ASSUME EngineInv, KnownAdmitted, TriggerStep PROVE KnownAdmitted'
<1>1. Arrival \/ TickTimer => KnownAdmitted'
  BY DEF Arrival, TickTimer, KnownAdmitted, OfferedIn, ReadyOps, TaskOf,
       flowVars, stepVars, timerVars, loopVars
<1>2. ASSUME NEW f \in Flows, GapEnd(f) PROVE KnownAdmitted'
  BY <1>2 DEF GapEnd, KnownAdmitted, OfferedIn, ReadyOps, TaskOf, flowVars,
       stepVars, loopVars
<1>3. ASSUME NEW t \in timers, EnterDevice(t) \/ EntryVoid(t) PROVE KnownAdmitted'
  BY <1>3 DEF EnterDevice, EntryVoid, KnownAdmitted, flowVars, stepVars, loopVars
<1>4. ASSUME NEW d \in Devices, DecodeToken(d) PROVE KnownAdmitted'
  BY <1>4 DEF DecodeToken, KnownAdmitted, flowVars, stepVars, timerVars, loopVars
<1>5. ASSUME NEW d \in Devices, IntervalEnd(d) PROVE KnownAdmitted'
  <2>1. \A r \in finished' \cup exhausted' : r.flow \in Decoding(d)
    BY <1>5 DEF IntervalEnd, Stop
  <2>2. Decoding(d) \subseteq admitted
    BY DEF KnownAdmitted, Decoding, Resident, Devices, NoDevice
  <2> QED
    BY <1>5, <2>1, <2>2 DEF IntervalEnd, KnownAdmitted, flowVars, timerVars
<1> QED
  BY <1>1, <1>2, <1>3, <1>4, <1>5 DEF TriggerStep

\* So does every step that handles one.
LEMMA HandlingKnown ==
    ASSUME EngineInv, KnownAdmitted, HandlingStep PROVE KnownAdmitted'
<1>0. /\ stack \in Seq(Task) /\ where \in [Flows -> 0..NumDevices]
      /\ reready \in Seq([flow : Flows, step : Nat])
  BY DEF EngineInv, EngineTypeOK
<1>1. AdmitRefused \/ ScheduleRefused \/ PreemptRefused => KnownAdmitted'
  BY DEF AdmitRefused, ScheduleRefused, PreemptRefused, Raise, KnownAdmitted,
       flowVars, stepVars, timerVars, loopVars
<1>2. ASSUME stack # <<>>, stack' = Tail(stack) PROVE OfferedIn(stack', admitted)
  BY <1>0, <1>2, OfferedTail DEF KnownAdmitted
<1>3. ASSUME NEW f \in Flows, NEW d \in Devices,
             \/ CompleteFlow(f, d) \/ CompleteIntoGap(f, d)
             \/ CompleteIntoNext(f, d) \/ AbandonFlow(f, d)
      PROVE  KnownAdmitted'
  <2>1. Stop(f, d) \in finished \cup exhausted
    BY <1>3 DEF CompleteFlow, CompleteIntoGap, CompleteIntoNext, AbandonFlow,
         Advance, Completing
  <2>2. f \in admitted
    BY <2>1 DEF KnownAdmitted, Stop
  <2>3. /\ where' = [where EXCEPT ![f] = NoDevice] /\ admitted' = admitted
        /\ gaps' \subseteq gaps \cup {f} /\ reready' = reready
        /\ finished' \cup exhausted' \subseteq finished \cup exhausted
    BY <1>3 DEF CompleteFlow, CompleteIntoGap, CompleteIntoNext, AbandonFlow,
         Advance, Leave, flowVars
  <2>4. OfferedIn(stack', admitted)
    BY <1>3, <2>2 DEF CompleteFlow, CompleteIntoGap, CompleteIntoNext,
         AbandonFlow, OfferedIn, ReadyOps, TaskOf
  <2> QED
    BY <1>0, <2>2, <2>3, <2>4 DEF KnownAdmitted
<1>4. ASSUME Reoffer PROVE KnownAdmitted'
  <2>1. /\ reready # <<>> /\ reready' = Tail(reready)
        /\ stack' = <<>> \/ stack' = <<TaskOf("InvocationReady",
               Head(reready).flow, Head(reready).step, NoDevice)>>
    BY <1>4 DEF Reoffer
  <2>2. Head(reready).flow \in admitted
    BY <1>0, <2>1 DEF KnownAdmitted
  <2>3. OfferedIn(stack', admitted)
    BY <2>1, <2>2 DEF OfferedIn, TaskOf
  <2>4. \A i \in 1..Len(reready') : reready'[i].flow \in admitted
    <3>1. \A i \in 1..Len(Tail(reready)) : /\ Tail(reready)[i] = reready[i + 1]
                                          /\ i + 1 \in 1..Len(reready)
      BY <1>0, <2>1
    <3> QED
      BY <2>1, <3>1 DEF KnownAdmitted
  <2> QED
    BY <1>4, <2>3, <2>4 DEF Reoffer, KnownAdmitted, flowVars, stepVars,
         timerVars, loopVars
<1>5. ASSUME Schedule PROVE KnownAdmitted'
  <2> DEFINE f == Head(stack).flow
  <2>1. /\ f \in Flows /\ stack # <<>> /\ stack' = Tail(stack)
        /\ where' = [where EXCEPT ![f] = Head(stack).dev]
        /\ Head(stack).op = "Schedule"
    BY <1>5, ActionType DEF Schedule, Pending, ActionOps
  <2>2. f \in admitted
    BY <1>0, <2>1 DEF KnownAdmitted, OfferedIn, ReadyOps
  <2> HIDE DEF f
  <2>3. \A g \in Flows : where'[g] # NoDevice => g \in admitted
    BY <1>0, <2>1, <2>2 DEF KnownAdmitted
  <2> QED
    BY <1>2, <1>5, <2>1, <2>3 DEF Schedule, KnownAdmitted, flowVars, loopVars
<1>6. ASSUME Preempt PROVE KnownAdmitted'
  <2> DEFINE f == Head(stack).flow
  <2>1. /\ f \in Flows /\ stack # <<>> /\ stack' = Tail(stack)
        /\ where' = [where EXCEPT ![f] = NoDevice]
        /\ phase[f] \in {"PREFILL", "DECODE"}
        /\ reready' = Append(reready, [flow |-> f, step |-> Step(f)])
    BY <1>6, ActionType DEF Preempt, Preemptible, Pending, ActionOps
  <2> HIDE DEF f
  <2>2. f \in admitted
    BY <2>1 DEF KnownAdmitted, EngineInv, ResidentIsPlaced
  <2>3. \A g \in Flows : where'[g] # NoDevice => g \in admitted
    BY <1>0, <2>1 DEF KnownAdmitted
  <2>4. \A i \in 1..Len(reready') : reready'[i].flow \in admitted
    <3>1. \A i \in 1..Len(reready') :
            \/ i \in 1..Len(reready) /\ reready'[i] = reready[i]
            \/ reready'[i] = [flow |-> f, step |-> Step(f)]
      BY <1>0, <2>1
    <3> QED
      BY <2>2, <3>1 DEF KnownAdmitted
  <2> QED
    BY <1>2, <1>6, <2>1, <2>3, <2>4 DEF Preempt, KnownAdmitted, flowVars, loopVars
<1>7. ASSUME Degrade PROVE KnownAdmitted'
  <2>1. stack # <<>> /\ stack' = Tail(stack)
    BY <1>7 DEF Degrade, Pending
  <2> QED
    BY <1>2, <1>7, <2>1 DEF Degrade, KnownAdmitted, timerVars, loopVars
<1> QED
  BY <1>1, <1>3, <1>4, <1>5, <1>6, <1>7 DEF HandlingStep

\* An admission offers the flow it admits.
LEMMA AdmitKnown ==
    ASSUME EngineInv, KnownAdmitted, NEW b, AdmitAggregate(b) \/ AdmitReserved(b)
    PROVE  KnownAdmitted'
<1> DEFINE f == Head(stack).flow
<1> DEFINE r == TaskOf("InvocationReady", f, Step(f), NoDevice)
<1>1. /\ stack \in Seq(Task) /\ stack # <<>> /\ admitted' = admitted \cup {f}
      /\ stack' = <<r>> \o Tail(stack) /\ r.flow = f
      /\ where' = where /\ gaps' = gaps /\ finished' = finished
      /\ exhausted' = exhausted /\ reready' = reready
  BY DEF AdmitAggregate, AdmitReserved, Pending, OfferNext, TaskOf, EngineInv,
     EngineTypeOK, timerVars, loopVars
<1> HIDE DEF f, r
<1>2. \A i \in 1..Len(stack') :
        stack'[i] = r \/ (stack'[i] = stack[i] /\ i \in 1..Len(stack))
  BY <1>1
<1>3. OfferedIn(stack', admitted')
  BY <1>1, <1>2 DEF KnownAdmitted, OfferedIn
<1> QED
  BY <1>1, <1>3 DEF KnownAdmitted

\* An answer that places no flow before it is admitted offers none either.
LEMMA RespondKnown ==
    ASSUME EngineInv, KnownAdmitted, NEW actions \in Seq(Task), stack # <<>>,
           OfferedIn(actions, admitted), Respond(actions)
    PROVE  KnownAdmitted'
<1>1. /\ stack \in Seq(Task) /\ stack' = actions \o Tail(stack)
      /\ admitted' = admitted
  BY DEF Respond, EngineInv, EngineTypeOK, flowVars
<1>2. OfferedIn(Tail(stack), admitted) /\ Tail(stack) \in Seq(Task)
  BY <1>1, OfferedTail DEF KnownAdmitted
<1>3. OfferedIn(actions \o Tail(stack), admitted)
  <2> DEFINE rest == Tail(stack)
  <2> HIDE DEF rest
  <2>1. rest \in Seq(Task) /\ OfferedIn(rest, admitted)
    BY <1>2 DEF rest
  <2>2. \A i \in 1..Len(actions \o rest) :
          \/ i \in 1..Len(actions) /\ (actions \o rest)[i] = actions[i]
          \/ i - Len(actions) \in 1..Len(rest)
                 /\ (actions \o rest)[i] = rest[i - Len(actions)]
    BY <2>1
  <2> QED
    BY <2>1, <2>2 DEF OfferedIn, rest
<1> QED
  BY <1>1, <1>3 DEF Respond, KnownAdmitted, flowVars, stepVars, timerVars, loopVars

-----------------------------------------------------------------------------
(* What is on a stack or in a queue, whatever its order.                   *)

\* The tasks of a sequence of them.
Tasks(s) == {s[i] : i \in 1..Len(s)}

\* The tasks of a sequence are those of its parts.
LEMMA TasksParts ==
    /\ Tasks(<<>>) = {}
    /\ \A r : Tasks(<<r>>) = {r}
    /\ \A s \in Seq(Task) : s # <<>> =>
           Tasks(s) = {Head(s)} \cup Tasks(Tail(s))
    /\ \A a, b \in Seq(Task) : Tasks(a \o b) = Tasks(a) \cup Tasks(b)
<1>1. Tasks(<<>>) = {}
  BY DEF Tasks
<1>2. \A r : Tasks(<<r>>) = {r}
  BY DEF Tasks
<1>3. ASSUME NEW s \in Seq(Task), s # <<>>
      PROVE  Tasks(s) = {Head(s)} \cup Tasks(Tail(s))
  <2>1. /\ Len(s) \in Nat /\ Len(s) > 0 /\ Len(Tail(s)) = Len(s) - 1
        /\ Head(s) = s[1]
        /\ \A i \in 1..Len(Tail(s)) : Tail(s)[i] = s[i + 1]
    BY <1>3
  <2>2. Tasks(s) \subseteq {Head(s)} \cup Tasks(Tail(s))
    <3> SUFFICES ASSUME NEW i \in 1..Len(s), i # 1
                 PROVE  s[i] \in Tasks(Tail(s))
      BY <2>1 DEF Tasks
    <3> DEFINE j == i - 1
    <3>1. j \in 1..Len(Tail(s)) /\ Tail(s)[j] = s[i]
      BY <2>1
    <3> QED
      BY <3>1 DEF Tasks
  <2>3. {Head(s)} \cup Tasks(Tail(s)) \subseteq Tasks(s)
    <3>1. \A i \in 1..Len(Tail(s)) : i + 1 \in 1..Len(s)
      BY <2>1
    <3>2. 1 \in 1..Len(s)
      BY <2>1
    <3> QED
      BY <2>1, <3>1, <3>2 DEF Tasks
  <2> QED
    BY <2>2, <2>3
<1>4. ASSUME NEW a \in Seq(Task), NEW b \in Seq(Task)
      PROVE  Tasks(a \o b) = Tasks(a) \cup Tasks(b)
  <2> DEFINE q == a \o b
  <2>1. /\ Len(a) \in Nat /\ Len(b) \in Nat /\ Len(q) = Len(a) + Len(b)
        /\ \A i \in 1..Len(a) : q[i] = a[i]
        /\ \A i \in 1..Len(b) : q[Len(a) + i] = b[i]
    OBVIOUS
  <2> HIDE DEF q
  <2>2. Tasks(q) \subseteq Tasks(a) \cup Tasks(b)
    <3>1. ASSUME NEW i \in 1..Len(q) PROVE q[i] \in Tasks(a) \cup Tasks(b)
      <4>1. CASE i \in 1..Len(a)
        <5>1. q[i] = a[i]
          BY <2>1, <4>1
        <5> QED
          BY <4>1, <5>1 DEF Tasks
      <4>2. CASE i \notin 1..Len(a)
        <5> DEFINE j == i - Len(a)
        <5>1. j \in 1..Len(b) /\ Len(a) + j = i
          BY <2>1, <4>2
        <5> HIDE DEF j
        <5>2. q[i] = b[j]
          BY <2>1, <5>1
        <5> QED
          BY <5>1, <5>2 DEF Tasks
      <4> QED
        BY <4>1, <4>2
    <3>2. \A t \in Tasks(q) : \E i \in 1..Len(q) : t = q[i]
      BY DEF Tasks
    <3> QED
      BY <3>1, <3>2
  <2>3. Tasks(a) \cup Tasks(b) \subseteq Tasks(q)
    <3>1. \A i \in 1..Len(a) : i \in 1..Len(q)
      BY <2>1
    <3>2. \A i \in 1..Len(b) : Len(a) + i \in 1..Len(q)
      BY <2>1
    <3> QED
      BY <2>1, <3>1, <3>2 DEF Tasks
  <2> QED
    BY <2>2, <2>3 DEF q
<1> QED
  BY <1>1, <1>2, <1>3, <1>4

\* No flow is in the re-offer queue twice.
FlowsOnce(q) == \A i, j \in 1..Len(q) : q[i].flow = q[j].flow => i = j

\* The entries of the re-offer queue: its head, the rest, and a new one.
LEMMA RereadyParts ==
    ASSUME NEW S, NEW q \in Seq(S)
    PROVE  /\ \A v \in Tasks(q) : v \in S
           /\ q # <<>> /\ FlowsOnce(q) =>
                /\ Tasks(q) = {Head(q)} \cup Tasks(Tail(q))
                /\ FlowsOnce(Tail(q))
                /\ \A v \in Tasks(Tail(q)) : v.flow # Head(q).flow
           /\ \A r \in S : FlowsOnce(q) /\ (\A v \in Tasks(q) : v.flow # r.flow) =>
                /\ Tasks(Append(q, r)) = Tasks(q) \cup {r}
                /\ FlowsOnce(Append(q, r))
<1>1. \A v \in Tasks(q) : v \in S
  BY DEF Tasks
<1>2. ASSUME q # <<>>, FlowsOnce(q)
      PROVE  /\ Tasks(q) = {Head(q)} \cup Tasks(Tail(q))
             /\ FlowsOnce(Tail(q))
             /\ \A v \in Tasks(Tail(q)) : v.flow # Head(q).flow
  <2> DEFINE p == Tail(q)
  <2>1. /\ Len(q) \in Nat /\ Len(q) > 0 /\ Len(p) = Len(q) - 1 /\ Head(q) = q[1]
        /\ \A i \in 1..Len(p) : p[i] = q[i + 1] /\ i + 1 \in 1..Len(q) /\ i + 1 # 1
        /\ 1 \in 1..Len(q)
        /\ \A i, j \in 1..Len(p) : i + 1 = j + 1 => i = j
    BY <1>2
  <2> HIDE DEF p
  <2>2. \A i \in 1..Len(q) : i = 1 \/ (i - 1 \in 1..Len(p) /\ p[i - 1] = q[i])
    <3> SUFFICES ASSUME NEW i \in 1..Len(q), i # 1
                 PROVE  i - 1 \in 1..Len(p) /\ p[i - 1] = q[i]
      OBVIOUS
    <3>1. i - 1 \in 1..Len(p) /\ (i - 1) + 1 = i
      BY <2>1
    <3> QED
      BY <2>1, <3>1
  <2>3. Tasks(q) = {Head(q)} \cup Tasks(p)
    <3>1. Tasks(q) \subseteq {Head(q)} \cup Tasks(p)
      BY <2>1, <2>2 DEF Tasks
    <3>2. {Head(q)} \cup Tasks(p) \subseteq Tasks(q)
      BY <2>1 DEF Tasks
    <3> QED
      BY <3>1, <3>2
  <2>4. FlowsOnce(p)
    BY <1>2, <2>1 DEF FlowsOnce
  <2>5. \A v \in Tasks(p) : v.flow # Head(q).flow
    BY <1>2, <2>1 DEF FlowsOnce, Tasks
  <2> QED
    BY <2>3, <2>4, <2>5 DEF p
<1>3. ASSUME NEW r \in S, FlowsOnce(q), \A v \in Tasks(q) : v.flow # r.flow
      PROVE  Tasks(Append(q, r)) = Tasks(q) \cup {r} /\ FlowsOnce(Append(q, r))
  <2> DEFINE p == Append(q, r)
  <2>1. /\ Len(q) \in Nat /\ Len(p) = Len(q) + 1 /\ p[Len(q) + 1] = r
        /\ \A i \in 1..Len(q) : p[i] = q[i] /\ i \in 1..Len(p)
    OBVIOUS
  <2> HIDE DEF p
  <2>2. /\ \A i \in 1..Len(p) : i \in 1..Len(q) \/ (i = Len(q) + 1 /\ p[i] = r)
        /\ Len(q) + 1 \in 1..Len(p)
    BY <2>1
  <2>3. Tasks(p) = Tasks(q) \cup {r}
    <3>1. Tasks(p) \subseteq Tasks(q) \cup {r}
      BY <2>1, <2>2 DEF Tasks
    <3>2. Tasks(q) \cup {r} \subseteq Tasks(p)
      BY <2>1, <2>2 DEF Tasks
    <3> QED
      BY <3>1, <3>2
  <2>4. \A i \in 1..Len(q) : p[i] \in Tasks(q)
    BY <2>1 DEF Tasks
  <2>5. FlowsOnce(p)
    BY <1>3, <2>1, <2>2, <2>4 DEF FlowsOnce
  <2> QED
    BY <2>3, <2>5 DEF p
<1> QED
  BY <1>1, <1>2, <1>3

\* They are about flows of the workload.
LEMMA RereadyType ==
    ASSUME EngineTypeOK
    PROVE  \A v \in Tasks(reready) : v.flow \in Flows /\ v.step \in Nat
<1> DEFINE S == [flow : Flows, step : Nat]
<1>1. reready \in Seq(S)
  BY DEF EngineTypeOK
<1>2. \A v \in S : v.flow \in Flows /\ v.step \in Nat
  OBVIOUS
<1> HIDE DEF S
<1>3. \A v \in Tasks(reready) : v \in S
  BY <1>1, RereadyParts
<1> QED
  BY <1>2, <1>3

-----------------------------------------------------------------------------
(* Where the flows are.                                                    *)

\* Flows waiting to be re-offered, on a device, and admitted but not over.
Requeued == {f \in Flows : \E v \in Tasks(reready) : v.flow = f}
OnDevices == {f \in Flows : where[f] # NoDevice}
Open == {f \in admitted : cursor[f] < Len(Work[f])}
\* The sets A to E have no member in common and are U together.
Partition(A, B, C, D, E, U) ==
    /\ A \cup B \cup C \cup D \cup E = U
    /\ A \cap B = {} /\ A \cap C = {} /\ A \cap D = {} /\ A \cap E = {}
    /\ B \cap C = {} /\ B \cap D = {} /\ B \cap E = {}
    /\ C \cap D = {} /\ C \cap E = {} /\ D \cap E = {}

-----------------------------------------------------------------------------
(* The order of nested calls.                                              *)
\* Calls about the next invocation of a flow, and those that are actions.
Moves == {"InvocationReady", "Schedule", "Preempt"}
Placings == {"Schedule", "Preempt"}

\* a may wait above b: only actions have something below them, and an offer the
\* completion it was raised by; evictions wait above actions only, and nobody
\* is moved twice.
MayPrecede(a, b) ==
    /\ \/ a.op \in Placings
       \/ a.op = "InvocationReady" /\ b.op = "InvocationComplete"
    /\ a.op = "Preempt" => b.op \in Placings
    /\ a.op \in Moves /\ b.op \in Moves => a.flow # b.flow
InOrder(s) == \A i, j \in 1..Len(s) : i < j => MayPrecede(s[i], s[j])

\* Answers of at most two calls that are in order.
LEMMA OrderNew ==
    /\ InOrder(<<>>)
    /\ \A a : InOrder(<<a>>)
    /\ \A a, b : MayPrecede(a, b) => InOrder(<<a, b>>)
<1>1. InOrder(<<>>)
  BY DEF InOrder
<1>2. ASSUME NEW a PROVE InOrder(<<a>>)
  BY DEF InOrder
<1>3. ASSUME NEW a, NEW b, MayPrecede(a, b) PROVE InOrder(<<a, b>>)
  <2> DEFINE s == <<a, b>>
  <2>1. Len(s) = 2 /\ s[1] = a /\ s[2] = b
    OBVIOUS
  <2> HIDE DEF s
  <2>2. \A i, j \in 1..Len(s) : i < j => i = 1 /\ j = 2
    BY <2>1
  <2>3. InOrder(s)
    BY <1>3, <2>1, <2>2 DEF InOrder
  <2> QED
    BY <2>3 DEF s
<1> QED
  BY <1>1, <1>2, <1>3

\* A call executed leaves an ordered rest.
LEMMA OrderTail ==
    ASSUME NEW s \in Seq(Task), s # <<>>, InOrder(s)
    PROVE  /\ InOrder(Tail(s))
           /\ \A t \in Tasks(Tail(s)) : MayPrecede(Head(s), t)
<1> DEFINE p == Tail(s)
<1>1. /\ Len(s) \in Nat /\ Head(s) = s[1] /\ 1 \in 1..Len(s) /\ Len(p) \in Nat
      /\ \A i \in 1..Len(p) : p[i] = s[i + 1] /\ i + 1 \in 1..Len(s) /\ 1 < i + 1
      /\ \A i, j \in 1..Len(p) : i < j => i + 1 < j + 1
  OBVIOUS
<1> HIDE DEF p
<1>2. InOrder(p)
  <2> SUFFICES ASSUME NEW i \in 1..Len(p), NEW j \in 1..Len(p), i < j
               PROVE  MayPrecede(p[i], p[j])
    BY DEF InOrder
  <2>1. MayPrecede(s[i + 1], s[j + 1])
    BY <1>1 DEF InOrder
  <2> QED
    BY <1>1, <2>1
<1>3. ASSUME NEW t \in Tasks(p) PROVE MayPrecede(s[1], t)
  <2>1. PICK i \in 1..Len(p) : t = p[i]
    BY DEF Tasks
  <2>2. MayPrecede(s[1], s[i + 1])
    BY <1>1 DEF InOrder
  <2> QED
    BY <1>1, <2>1, <2>2
<1> QED
  BY <1>1, <1>2, <1>3 DEF p

\* An ordered answer above an ordered rest.
LEMMA OrderConcat ==
    ASSUME NEW a \in Seq(Task), NEW b \in Seq(Task), InOrder(a), InOrder(b),
           \A x \in Tasks(a), y \in Tasks(b) : MayPrecede(x, y)
    PROVE  InOrder(a \o b)
<1> DEFINE q == a \o b
           n == Len(a)
<1>1. /\ n \in Nat /\ Len(b) \in Nat /\ Len(q) = n + Len(b)
      /\ \A i \in 1..n : q[i] = a[i]
      /\ \A i \in 1..Len(b) : q[n + i] = b[i]
  OBVIOUS
<1> HIDE DEF q, n
<1>2. \A i \in 1..Len(q) : i \notin 1..n =>
          i - n \in 1..Len(b) /\ n + (i - n) = i /\ q[i] = b[i - n]
  <2> SUFFICES ASSUME NEW i \in 1..Len(q), i \notin 1..n
               PROVE  i - n \in 1..Len(b) /\ n + (i - n) = i /\ q[i] = b[i - n]
    OBVIOUS
  <2>1. i - n \in 1..Len(b) /\ n + (i - n) = i
    BY <1>1
  <2> QED
    BY <1>1, <2>1
<1>3. ASSUME NEW i \in 1..Len(q), NEW j \in 1..Len(q), i < j
      PROVE  MayPrecede(q[i], q[j])
  <2>1. CASE i \in 1..n /\ j \in 1..n
    BY <1>1, <1>3, <2>1 DEF InOrder, n
  <2>2. CASE i \in 1..n /\ j \notin 1..n
    <3>1. q[i] \in Tasks(a) /\ q[j] \in Tasks(b)
      BY <1>1, <1>2, <2>2 DEF Tasks, n
    <3> QED
      BY <3>1
  <2>3. CASE i \notin 1..n /\ j \notin 1..n
    <3>1. i - n < j - n
      BY <1>1, <1>3
    <3>2. MayPrecede(b[i - n], b[j - n])
      BY <1>2, <2>3, <3>1 DEF InOrder
    <3> QED
      BY <1>2, <2>3, <3>2
  <2>4. ~(i \notin 1..n /\ j \in 1..n)
    BY <1>1, <1>3
  <2> QED
    BY <2>1, <2>2, <2>3, <2>4
<1>4. InOrder(q)
  BY <1>3 DEF InOrder
<1> QED
  BY <1>4 DEF q

\* One more action at the end of an answer.
LEMMA OrderAppend ==
    ASSUME NEW a \in Seq(Task), NEW t \in Task, InOrder(a),
           \A x \in Tasks(a) : MayPrecede(x, t)
    PROVE  /\ Append(a, t) \in Seq(Task) /\ InOrder(Append(a, t))
           /\ Tasks(Append(a, t)) = Tasks(a) \cup {t}
<1>1. Append(a, t) = a \o <<t>> /\ <<t>> \in Seq(Task)
  OBVIOUS
<1>2. Tasks(<<t>>) = {t} /\ InOrder(<<t>>)
  BY TasksParts, OrderNew
<1>3. InOrder(a \o <<t>>)
  BY <1>1, <1>2, OrderConcat
<1>4. Tasks(a \o <<t>>) = Tasks(a) \cup Tasks(<<t>>)
  BY <1>1, TasksParts
<1> QED
  BY <1>1, <1>2, <1>3, <1>4

-----------------------------------------------------------------------------
(* The engine under a policy that reserves nothing: whatever the policy    *)
(* keeps waiting (Q) and believes to run (B), its answers are about.       *)

\* Flows whose next invocation is offered or being placed, or being evicted.
OnOffer == {f \in Flows : \E t \in Tasks(stack) : t.op \in ReadyOps /\ t.flow = f}
Pausing == {f \in Flows : \E t \in Tasks(stack) : t.op = "Preempt" /\ t.flow = f}

\* Every admitted flow that is not over is in exactly one place.
LocatedIn(Q) == Partition(Q, gaps, OnDevices, OnOffer, Requeued, Open)

\* Nothing is reserved or metered.
NoGuarantees ==
    /\ \A f \in Flows : pinDev[f] = NoDevice /\ budget[f] = Unmetered
    /\ exhausted = {} /\ abandoned = {}

\* A call is about the invocation its flow has come to, a completion about an
\* earlier one, an admission about a flow that has arrived and is not admitted;
\* nobody is degraded.
IsCurrent(t) ==
    /\ t.op \in Moves => t.step = Step(t.flow)
    /\ t.op = "InvocationComplete" => t.step < Step(t.flow)
    /\ t.op \in {"FlowArrival", "Admit"} =>
           t.flow \notin admitted /\ t.flow <= arrivals
    /\ t.op # "Degrade"
StackSound ==
    /\ InOrder(stack)
    /\ \A t \in Tasks(stack) : IsCurrent(t)
    /\ Pausing \subseteq OnDevices

\* A stop is where its flow is, and only completions, offers and placements
\* are handled while a device loop has stops left.
TurnSound ==
    /\ \A r \in finished : where[r.flow] = r.dev
    /\ finished # {} => \A t \in Tasks(stack) :
           t.op \in {"InvocationComplete", "Schedule", "InvocationReady"}

\* What waits to be re-offered was preempted and still waits.
AgainSound ==
    /\ FlowsOnce(reready)
    /\ \A v \in Tasks(reready) : v.step = Step(v.flow) /\ phase[v.flow] = "PREEMPTED"

\* Nothing of a flow is over before its admission, nor is it admitted before
\* it arrives.
Unstarted ==
    /\ \A f \in Flows \ admitted : cursor[f] = 0
    /\ admitted \subseteq 1..arrivals

Sound(Q) == /\ NoGuarantees /\ StackSound /\ TurnSound /\ AgainSound
            /\ LocatedIn(Q) /\ Unstarted

\* What a policy believes to run stands on its device, comes to it, or is over
\* with the completion about to be delivered; and it knows all that stands or
\* comes.
Books == [flow : Flows, step : Nat, dev : Devices]
StandsAt(v) == /\ v.flow \in OnDevices \ Pausing
               /\ v.step = Step(v.flow) /\ v.dev = where[v.flow]
ComesTo(v) == \E t \in Tasks(stack) : /\ t.op = "Schedule" /\ t.flow = v.flow
                                      /\ t.dev = v.dev /\ v.step = Step(v.flow)
IsOver(v) == \E t \in Tasks(stack) : /\ t.op = "InvocationComplete"
                                     /\ t.flow = v.flow /\ t.step = v.step
Tracks(B) ==
    /\ B \subseteq Books
    /\ \A v \in Books : /\ v \in B => StandsAt(v) \/ ComesTo(v) \/ IsOver(v)
                        /\ StandsAt(v) \/ ComesTo(v) => v \in B

\* The flows in flight: open, about to be admitted, or about to be reported
\* over.
Entrants == {f \in Flows : \E t \in Tasks(stack) : t.op = "Admit" /\ t.flow = f}
Leavers == {f \in Flows : /\ cursor[f] = Len(Work[f])
                          /\ \E t \in Tasks(stack) :
                                 t.op = "InvocationComplete" /\ t.flow = f}
Flight == Open \cup Entrants \cup Leavers

-----------------------------------------------------------------------------
(* Helpers.                                                                *)

\* The first call and what is below it.
LEMMA StackParts ==
    ASSUME EngineTypeOK, StackSound, stack # <<>>
    PROVE  /\ Head(stack) \in Task /\ Tail(stack) \in Seq(Task)
           /\ Tasks(stack) = {Head(stack)} \cup Tasks(Tail(stack))
           /\ InOrder(Tail(stack))
           /\ \A t \in Tasks(Tail(stack)) : t \in Task /\ MayPrecede(Head(stack), t)
           /\ Head(stack).op \notin ReadyOps \cup {"Preempt"} => Tasks(Tail(stack)) = {}
<1>1. stack \in Seq(Task) /\ InOrder(stack)
  BY DEF EngineTypeOK, StackSound
<1>2. Head(stack) \in Task /\ Tail(stack) \in Seq(Task)
  BY <1>1, HeadTailType
<1>3. /\ Tasks(stack) = {Head(stack)} \cup Tasks(Tail(stack))
      /\ InOrder(Tail(stack))
      /\ \A t \in Tasks(Tail(stack)) : MayPrecede(Head(stack), t)
  BY <1>1, TasksParts, OrderTail
<1>4. \A t \in Tasks(Tail(stack)) : t \in Task
  BY <1>2, ElementType DEF Tasks
<1>5. Head(stack).op \notin ReadyOps \cup {"Preempt"} => Tasks(Tail(stack)) = {}
  BY <1>3 DEF MayPrecede, Placings, ReadyOps
<1> QED
  BY <1>2, <1>3, <1>4, <1>5

\* The calls on the stack are about flows of the workload.
LEMMA StackTypes ==
    ASSUME EngineTypeOK, NEW t \in Tasks(stack), t.op # "Tick"
    PROVE  t.flow \in Flows /\ t.step \in Nat /\ t.dev \in 0..NumDevices
<1>1. stack \in Seq(Task)
  BY DEF EngineTypeOK
<1>2. t \in Task
  BY <1>1, ElementType DEF Tasks
<1> QED
  BY <1>2 DEF Task, FlowTask, TickTask

\* Arrivals are counted.
LEMMA ArrivalsType ==
    ASSUME EngineTypeOK PROVE arrivals \in Nat
<1>1. arrivals \in 0..NumFlows
  BY DEF EngineTypeOK
<1> QED
  BY <1>1, SizesAssumption

\* A single call.
LEMMA SingleStack ==
    ASSUME NEW r, stack' = <<r>>
    PROVE  Tasks(stack') = {r} /\ InOrder(stack')
BY TasksParts, OrderNew

\* With nothing on the stack, nobody is being offered or evicted.
LEMMA EmptyStack ==
    /\ stack = <<>> => /\ Tasks(stack) = {} /\ OnOffer = {} /\ Pausing = {}
                       /\ Entrants = {} /\ Leavers = {}
    /\ reready = <<>> => Requeued = {}
<1>1. Tasks(<<>>) = {}
  BY TasksParts
<1> QED
  BY <1>1 DEF OnOffer, Pausing, Entrants, Leavers, Requeued

\* If whatever stands or comes did so before, and whatever stood, came or was
\* over still does or is, the beliefs are still right.
SameTracks ==
    \A v \in Books :
        /\ StandsAt(v)' \/ ComesTo(v)' => StandsAt(v) \/ ComesTo(v)
        /\ StandsAt(v) \/ ComesTo(v) \/ IsOver(v) =>
               StandsAt(v)' \/ ComesTo(v)' \/ IsOver(v)'

\* Then what was rightly believed still is.
LEMMA TracksKept ==
    ASSUME SameTracks, NEW B, Tracks(B) PROVE Tracks(B)'
BY DEF SameTracks, Tracks, Books, Devices

-----------------------------------------------------------------------------
(* Triggers.                                                               *)

\* Nothing the books are about changes, unless a device loop begins a turn.
AtRest ==
    /\ UNCHANGED <<arrivals, admitted, cursor, where, pinDev, abandoned, gaps,
                   reready, stack>>
    /\ \A f \in Flows : /\ budget'[f] = Unmetered
                        /\ phase[f] = "PREEMPTED" => phase'[f] = "PREEMPTED"
    /\ exhausted' = {}
    /\ \/ finished' = finished
       \/ stack = <<>> /\ \A r \in finished' : where[r.flow] = r.dev

\* Such a step keeps the books.
LEMMA RestSound ==
    ASSUME NEW Q, EngineTypeOK, Sound(Q), AtRest
    PROVE  /\ Sound(Q)' /\ Flight' = Flight
           /\ \A B : Tracks(B) => Tracks(B)'
<1>1. /\ OnOffer' = OnOffer /\ Pausing' = Pausing /\ Requeued' = Requeued
      /\ OnDevices' = OnDevices /\ Open' = Open
      /\ Entrants' = Entrants /\ Leavers' = Leavers
      /\ \A f \in Flows : Step(f)' = Step(f)
      /\ Tasks(stack') = Tasks(stack)
  BY DEF AtRest, OnOffer, Pausing, Requeued, OnDevices, Open, Entrants, Leavers, Step
<1>2. \A v \in Tasks(reready) : v.flow \in Flows
  BY RereadyType
<1>3. NoGuarantees' /\ Unstarted'
  BY DEF AtRest, Sound, NoGuarantees, Unstarted
<1>4. StackSound'
  <2>1. \A t \in Tasks(stack) : IsCurrent(t)'
    <3> SUFFICES ASSUME NEW t \in Tasks(stack) PROVE IsCurrent(t)'
      OBVIOUS
    <3>1. IsCurrent(t) /\ (t.op # "Tick" => t.flow \in Flows)
      BY StackTypes DEF Sound, StackSound
    <3>2. t.op = "Tick" => t.op \notin Moves
      BY DEF Moves
    <3> QED
      BY <1>1, <3>1, <3>2 DEF IsCurrent, AtRest
  <2> QED
    BY <1>1, <2>1 DEF Sound, StackSound, AtRest
<1>5. TurnSound'
  BY <1>1, EmptyStack DEF AtRest, Sound, TurnSound
<1>6. AgainSound'
  BY <1>1, <1>2 DEF AtRest, Sound, AgainSound
<1>7. LocatedIn(Q)'
  BY <1>1 DEF AtRest, Sound, LocatedIn
<1>8. SameTracks
  <2>1. \A v \in Books : v.flow \in Flows
    BY DEF Books
  <2> QED
    BY <1>1, <2>1 DEF SameTracks, StandsAt, ComesTo, IsOver, AtRest
<1> QED
  BY <1>1, <1>3, <1>4, <1>5, <1>6, <1>7, <1>8, TracksKept DEF Sound, Flight

\* Nobody decodes to the end of a budget.
LEMMA NobodyMetered ==
    ASSUME EngineTypeOK, NoGuarantees, NEW d
    PROVE  CreditedBudget(d) = budget /\ \A f \in Flows : budget[f] # 0
BY DEF NoGuarantees, CreditedBudget, EngineTypeOK, Unmetered

\* Entering, serving, and a call that is refused leave the books alone.
LEMMA RestSteps ==
    ASSUME NEW Q, EngineInv, Sound(Q),
           \/ \E t \in timers : EnterDevice(t) \/ EntryVoid(t)
           \/ \E d \in Devices : DecodeToken(d) \/ IntervalEnd(d)
           \/ AdmitRefused \/ ScheduleRefused \/ PreemptRefused
           \/ UNCHANGED engineVars
    PROVE  AtRest
<1>1. EngineTypeOK /\ NoGuarantees
  BY DEF EngineInv, Sound
<1>2. /\ \A f \in Flows : budget[f] = Unmetered /\ budget[f] # 0
      /\ exhausted = {} /\ phase = phase
  BY <1>1 DEF NoGuarantees, Unmetered
<1>3. ASSUME NEW t \in timers, EnterDevice(t) PROVE AtRest
  <2>1. \A f \in Flows : phase[f] = "PREEMPTED" => phase'[f] = "PREEMPTED"
    BY <1>1, <1>3 DEF EnterDevice, StillEntering, EngineTypeOK
  <2>2. budget' = budget
    BY <1>1, <1>3, NobodyMetered DEF EnterDevice
  <2> QED
    BY <1>2, <1>3, <2>1, <2>2 DEF AtRest, EnterDevice, flowVars, loopVars
<1>4. ASSUME NEW t \in timers, EntryVoid(t) PROVE AtRest
  BY <1>2, <1>4 DEF AtRest, EntryVoid, flowVars, stepVars, loopVars
<1>5. ASSUME NEW d \in Devices, DecodeToken(d) PROVE AtRest
  BY <1>2, <1>5 DEF AtRest, DecodeToken, flowVars, stepVars, loopVars, timerVars
<1>6. ASSUME NEW d \in Devices, IntervalEnd(d) PROVE AtRest
  <2>1. budget' = budget
    BY <1>1, <1>6, NobodyMetered DEF IntervalEnd
  <2>2. exhausted' = {}
    BY <1>2, <1>6, <2>1 DEF IntervalEnd, Decoding, Resident
  <2>3. \A r \in finished' : where[r.flow] = r.dev
    BY <1>6 DEF IntervalEnd, Decoding, Resident, Stop
  <2> QED
    BY <1>2, <1>6, <2>1, <2>2, <2>3 DEF AtRest, IntervalEnd, Idle, flowVars, timerVars
<1>7. CASE AdmitRefused \/ ScheduleRefused \/ PreemptRefused
  BY <1>2, <1>7 DEF AtRest, AdmitRefused, ScheduleRefused, PreemptRefused, Raise,
     flowVars, stepVars, timerVars, loopVars
<1>8. CASE UNCHANGED engineVars
  BY <1>2, <1>8 DEF AtRest, engineVars, flowVars, stepVars, timerVars, loopVars
<1> QED
  BY <1>3, <1>4, <1>5, <1>6, <1>7, <1>8

\* An arrival and a tick are about nobody in the books.
LEMMA KnockSound ==
    ASSUME NEW Q, EngineInv, Sound(Q), Arrival \/ TickTimer
    PROVE  /\ Sound(Q)' /\ Flight' = Flight
           /\ \A B : Tracks(B) => Tracks(B)'
<1>1. /\ EngineTypeOK /\ stack = <<>> /\ finished = {} /\ reready = <<>>
      /\ UNCHANGED <<admitted, cursor, where, phase, pinDev, budget, abandoned, gaps,
                     reready, finished, exhausted>>
      /\ arrivals <= arrivals' /\ arrivals \in Nat /\ arrivals' \in Nat
  <2>1. EngineTypeOK /\ arrivals \in Nat
    BY ArrivalsType DEF EngineInv
  <2>2. arrivals' = arrivals + 1 \/ arrivals' = arrivals
    BY DEF Arrival, TickTimer
  <2>3. arrivals <= arrivals' /\ arrivals' \in Nat
    BY <2>1, <2>2
  <2> QED
    BY <2>1, <2>3 DEF Arrival, TickTimer, Idle, flowVars, stepVars, timerVars, loopVars
<1>2. PICK r : /\ stack' = <<r>> /\ r.op \in {"FlowArrival", "Tick"}
               /\ r.op = "FlowArrival" => r.flow = arrivals + 1 /\ arrivals' = arrivals + 1
  BY DEF Arrival, TickTimer, TaskOf
<1>3. Tasks(stack') = {r} /\ InOrder(stack')
  BY <1>2, SingleStack
<1>4. /\ OnOffer = {} /\ Pausing = {} /\ Entrants = {} /\ Leavers = {} /\ Tasks(stack) = {}
  BY <1>1, EmptyStack
<1>5. /\ OnOffer' = {} /\ Pausing' = {} /\ Requeued' = Requeued
      /\ OnDevices' = OnDevices /\ Open' = Open
      /\ Entrants' = {} /\ Leavers' = {}
      /\ \A f \in Flows : Step(f)' = Step(f)
  BY <1>1, <1>2, <1>3
     DEF OnOffer, Pausing, Requeued, OnDevices, Open, Entrants, Leavers, Step, ReadyOps
<1>6. NoGuarantees' /\ Unstarted'
  <2>1. 1..arrivals \subseteq 1..arrivals'
    BY <1>1
  <2> QED
    BY <1>1, <2>1 DEF Sound, NoGuarantees, Unstarted
<1>7. StackSound'
  <2>1. arrivals + 1 \notin admitted
    BY <1>1 DEF Sound, Unstarted
  <2>2. IsCurrent(r)'
    BY <1>1, <1>2, <2>1 DEF IsCurrent, Moves
  <2> QED
    BY <1>3, <1>5, <2>2 DEF StackSound
<1>8. TurnSound' /\ AgainSound'
  <2>1. \A v \in Tasks(reready) : v.flow \in Flows
    BY <1>1, RereadyType
  <2> QED
    BY <1>1, <1>5, <2>1 DEF Sound, TurnSound, AgainSound
<1>9. LocatedIn(Q)'
  BY <1>1, <1>4, <1>5 DEF Sound, LocatedIn
<1>10. SameTracks
  <2>1. \A v \in Books : v.flow \in Flows
    BY DEF Books
  <2> QED
    BY <1>1, <1>2, <1>3, <1>4, <1>5, <2>1 DEF SameTracks, StandsAt, ComesTo, IsOver
<1> QED
  BY <1>4, <1>5, <1>6, <1>7, <1>8, <1>9, <1>10, TracksKept DEF Sound, Flight

\* With nothing on the stack, a flow that is in tool-time or waits to be offered
\* again is offered.
OffersOne(f) ==
    /\ stack = <<>> /\ finished = {} /\ f \in Flows
    /\ stack' = <<TaskOf("InvocationReady", f, Step(f), NoDevice)>>
    /\ UNCHANGED <<arrivals, admitted, cursor, where, phase, pinDev, budget,
                   abandoned, finished, exhausted>>
    /\ \/ f \in gaps /\ gaps' = gaps \ {f} /\ reready' = reready
       \/ /\ f \in Requeued /\ Requeued' = Requeued \ {f} /\ gaps' = gaps
          /\ FlowsOnce(reready') /\ Tasks(reready') \subseteq Tasks(reready)

\* Offering an invocation keeps its flow in exactly one place.
LEMMA OfferSound ==
    ASSUME NEW Q, EngineTypeOK, Sound(Q), NEW f, OffersOne(f)
    PROVE  /\ Sound(Q)' /\ Flight' = Flight
           /\ \A B : Tracks(B) => Tracks(B)'
<1>1. PICK r : /\ r.op = "InvocationReady" /\ r.flow = f /\ r.step = Step(f)
               /\ stack' = <<r>>
  BY DEF TaskOf, OffersOne
<1>2. Tasks(stack') = {r} /\ InOrder(stack')
  BY <1>1, SingleStack
<1>3. /\ OnOffer = {} /\ Pausing = {} /\ Entrants = {} /\ Leavers = {} /\ Tasks(stack) = {}
  BY EmptyStack DEF OffersOne
<1>4. /\ OnOffer' = {f} /\ Pausing' = {}
      /\ OnDevices' = OnDevices /\ Open' = Open
      /\ Entrants' = {} /\ Leavers' = {}
      /\ \A g \in Flows : Step(g)' = Step(g)
  BY <1>1, <1>2
     DEF OnOffer, Pausing, OnDevices, Open, Entrants, Leavers, Step, ReadyOps, OffersOne
<1>5. NoGuarantees' /\ Unstarted'
  BY DEF Sound, NoGuarantees, Unstarted, OffersOne
<1>6. StackSound'
  <2>1. IsCurrent(r)'
    BY <1>1, <1>4 DEF IsCurrent, OffersOne
  <2> QED
    BY <1>2, <1>4, <2>1 DEF StackSound
<1>7. TurnSound' /\ AgainSound'
  <2>1. \A v \in Tasks(reready) : v.flow \in Flows
    BY RereadyType
  <2>2. FlowsOnce(reready') /\ \A v \in Tasks(reready') : v \in Tasks(reready)
    BY DEF OffersOne, Sound, AgainSound
  <2> QED
    BY <1>4, <2>1, <2>2 DEF Sound, TurnSound, AgainSound, OffersOne
<1>8. LocatedIn(Q)'
  <2>1. CASE f \in gaps /\ gaps' = gaps \ {f} /\ reready' = reready
    <3>1. Requeued' = Requeued
      BY <2>1 DEF Requeued
    <3> QED
      BY <1>3, <1>4, <2>1, <3>1 DEF Sound, LocatedIn, Partition
  <2>2. CASE f \in Requeued /\ Requeued' = Requeued \ {f} /\ gaps' = gaps
    BY <1>3, <1>4, <2>2 DEF Sound, LocatedIn, Partition
  <2> QED
    BY <2>1, <2>2 DEF OffersOne
<1>9. SameTracks
  <2>1. \A v \in Books : v.flow \in Flows
    BY DEF Books
  <2> QED
    BY <1>1, <1>2, <1>3, <1>4, <2>1 DEF SameTracks, StandsAt, ComesTo, IsOver, OffersOne
<1> QED
  BY <1>3, <1>4, <1>5, <1>6, <1>7, <1>8, <1>9, TracksKept DEF Sound, Flight

\* The end of a tool-time offers the next invocation.
LEMMA GapEndSound ==
    ASSUME NEW f \in Flows, GapEnd(f) PROVE OffersOne(f)
BY DEF GapEnd, Idle, OffersOne, flowVars, stepVars, loopVars

\* A re-offer offers the first preempted one: it always still waits.
LEMMA ReofferSound ==
    ASSUME NEW Q, EngineTypeOK, Sound(Q), Reoffer PROVE OffersOne(Head(reready).flow)
<1> DEFINE v == Head(reready)
           rest == Tail(reready)
<1>1. /\ stack = <<>> /\ reready # <<>> /\ finished = {}
      /\ UNCHANGED <<arrivals, admitted, cursor, where, phase, pinDev, budget,
                     abandoned, gaps, finished, exhausted>>
      /\ reready' = rest
  BY DEF Reoffer, flowVars, stepVars, timerVars, loopVars
<1>2. /\ Tasks(reready) = {v} \cup Tasks(rest) /\ FlowsOnce(rest)
      /\ \A w \in Tasks(rest) : w.flow # v.flow
  <2> DEFINE S == [flow : Flows, step : Nat]
  <2>1. reready \in Seq(S)
    BY DEF EngineTypeOK
  <2> HIDE DEF S
  <2> QED
    BY <1>1, <2>1, RereadyParts DEF Sound, AgainSound
<1>3. v.flow \in Flows /\ v.step = Step(v.flow) /\ phase[v.flow] = "PREEMPTED"
  BY <1>2, RereadyType DEF Sound, AgainSound
<1>4. StillPreempted(v)
  BY <1>3 DEF StillPreempted
<1>5. stack' = <<TaskOf("InvocationReady", v.flow, Step(v.flow), NoDevice)>>
  BY <1>3, <1>4 DEF Reoffer
<1> HIDE DEF v, rest
<1>6. v.flow \in Requeued /\ Requeued' = Requeued \ {v.flow}
  BY <1>1, <1>2, <1>3 DEF Requeued
<1> QED
  BY <1>1, <1>2, <1>3, <1>5, <1>6 DEF OffersOne, v

-----------------------------------------------------------------------------
(* Admissions.                                                             *)

\* An admitted flow is open and its first invocation is offered.
LEMMA AdmitSound ==
    ASSUME NEW Q, EngineInv, Sound(Q), AdmitAggregate(Unmetered)
    PROVE  /\ Sound(Q)' /\ Flight' = Flight
           /\ \A B : Tracks(B) => Tracks(B)'
<1>0. PICK f, r : /\ f = Head(stack).flow
                  /\ r = TaskOf("InvocationReady", f, Step(f), NoDevice)
  OBVIOUS
<1>1. /\ EngineTypeOK /\ stack # <<>> /\ Head(stack).op = "Admit"
      /\ stack' = <<r>> \o Tail(stack)
      /\ UNCHANGED <<arrivals, cursor, where, phase, pinDev, gaps, reready,
                     abandoned, finished, exhausted>>
      /\ admitted' = admitted \cup {f} /\ budget' = [budget EXCEPT ![f] = Unmetered]
  BY <1>0 DEF EngineInv, AdmitAggregate, Pending, OfferNext, timerVars, loopVars
<1>2. /\ Tasks(stack) = {Head(stack)} /\ Tasks(Tail(stack)) = {}
      /\ Tail(stack) \in Seq(Task)
  BY <1>1, StackParts DEF Sound, ReadyOps
<1>3. f \in Flows /\ f \notin admitted /\ f <= arrivals
  BY <1>0, <1>1, <1>2, StackTypes DEF Sound, StackSound, IsCurrent
<1>4. r.op = "InvocationReady" /\ r.flow = f /\ r.step = Step(f)
  BY <1>0 DEF TaskOf
<1>5. stack' = <<r>>
  <2> DEFINE rest == Tail(stack)
  <2>1. rest \in Seq(Task) /\ Tasks(rest) = {}
    BY <1>2
  <2> HIDE DEF rest
  <2>2. Len(rest) = 0
    BY <2>1 DEF Tasks
  <2>3. rest = <<>>
    BY <2>1, <2>2
  <2>4. <<r>> \o <<>> = <<r>>
    OBVIOUS
  <2> QED
    BY <1>1, <2>3, <2>4 DEF rest
<1>6. Tasks(stack') = {r} /\ InOrder(stack')
  BY <1>5, SingleStack
<1>7. cursor[f] < Len(Work[f]) /\ f \in 1..arrivals
  <2>1. f \in Nat /\ f > 0 /\ arrivals \in Nat
    BY <1>1, <1>3, ArrivalsType DEF Flows
  <2>2. cursor[f] = 0
    BY <1>3 DEF Sound, Unstarted
  <2> QED
    BY <1>3, <2>1, <2>2, WorkType
<1>8. /\ OnOffer = {} /\ Pausing = {} /\ Entrants = {f} /\ Leavers = {}
      /\ OnOffer' = {f} /\ Pausing' = {} /\ Entrants' = {} /\ Leavers' = {}
      /\ Requeued' = Requeued /\ OnDevices' = OnDevices
      /\ Open' = Open \cup {f} /\ f \notin Open
      /\ \A g \in Flows : Step(g)' = Step(g)
  <2>1. Open' = Open \cup {f} /\ f \notin Open
    BY <1>1, <1>3, <1>7 DEF Open
  <2>2. /\ OnOffer = {} /\ Pausing = {} /\ Leavers = {} /\ Entrants = {f}
    BY <1>0, <1>1, <1>2, <1>3 DEF OnOffer, Pausing, Leavers, Entrants, ReadyOps
  <2> QED
    BY <1>1, <1>3, <1>4, <1>6, <2>1, <2>2
       DEF OnOffer, Pausing, Leavers, Entrants, Requeued, OnDevices, Step, ReadyOps
<1>9. NoGuarantees' /\ Unstarted'
  BY <1>1, <1>3, <1>7 DEF Sound, NoGuarantees, Unstarted, EngineTypeOK
<1>10. StackSound'
  <2>1. IsCurrent(r)'
    BY <1>3, <1>4, <1>8 DEF IsCurrent
  <2> QED
    BY <1>6, <1>8, <2>1 DEF StackSound
<1>11. TurnSound' /\ AgainSound'
  <2>1. \A v \in Tasks(reready) : v.flow \in Flows
    BY <1>1, RereadyType
  <2> QED
    BY <1>1, <1>4, <1>6, <1>8, <2>1 DEF Sound, TurnSound, AgainSound
<1>12. LocatedIn(Q)'
  BY <1>1, <1>8 DEF Sound, LocatedIn, Partition
<1>13. SameTracks
  <2>1. \A v \in Books : v.flow \in Flows
    BY DEF Books
  <2> QED
    BY <1>1, <1>2, <1>4, <1>6, <1>8, <2>1 DEF SameTracks, StandsAt, ComesTo, IsOver
<1>14. Flight' = Flight
  BY <1>8 DEF Flight
<1> QED
  BY <1>9, <1>10, <1>11, <1>12, <1>13, <1>14, TracksKept DEF Sound

-----------------------------------------------------------------------------
(* Completions.                                                            *)

\* The invocation of f ends on device d, with nothing on the stack: the flow is
\* over, goes into tool-time, or is offered its next invocation at once.
DoneWith(f) == TaskOf("InvocationComplete", f, Step(f), NoDevice)
Upcoming(f) == TaskOf("InvocationReady", f, Step(f) + 1, NoDevice)
Finishes(f, d) ==
    /\ stack = <<>> /\ Stop(f, d) \in finished
    /\ UNCHANGED <<arrivals, admitted, pinDev, budget, abandoned, reready, exhausted>>
    /\ where' = [where EXCEPT ![f] = NoDevice]
    /\ cursor' = [cursor EXCEPT ![f] = @ + 1]
    /\ \A g \in Flows \ {f} : phase'[g] = phase[g]
    /\ finished' = finished \ {Stop(f, d)}
    /\ \/ /\ cursor[f] + 1 = Len(Work[f]) /\ gaps' = gaps
          /\ stack' = <<DoneWith(f)>>
       \/ /\ cursor[f] + 1 # Len(Work[f])
          /\ \/ gaps' = gaps \cup {f} /\ stack' = <<DoneWith(f)>>
             \/ gaps' = gaps /\ stack' = <<Upcoming(f), DoneWith(f)>>

\* Each of the ways an invocation ends is one.
LEMMA CompletionFinishes ==
    ASSUME NEW Q, EngineInv, Sound(Q), NEW f \in Flows, NEW d \in Devices,
           \/ CompleteFlow(f, d) \/ CompleteIntoGap(f, d)
           \/ CompleteIntoNext(f, d) \/ AbandonFlow(f, d)
    PROVE  Finishes(f, d)
<1>1. EngineTypeOK /\ exhausted = {} /\ Step(f) = cursor[f] + 1
  BY DEF EngineInv, Sound, NoGuarantees, Step
<1>2. ~AbandonFlow(f, d)
  BY <1>1 DEF AbandonFlow
<1>3. CASE CompleteFlow(f, d)
  <2>1. \A g \in Flows \ {f} : phase'[g] = phase[g]
    BY <1>1, <1>3 DEF CompleteFlow, EngineTypeOK
  <2> QED
    BY <1>1, <1>3, <2>1 DEF CompleteFlow, Completing, IsLastStep, Leave, Finishes, DoneWith,
       flowVars
<1>4. CASE CompleteIntoGap(f, d) \/ CompleteIntoNext(f, d)
  <2>1. \A g \in Flows \ {f} : phase'[g] = phase[g]
    BY <1>1, <1>4 DEF CompleteIntoGap, CompleteIntoNext, Advance, EngineTypeOK
  <2> QED
    BY <1>1, <1>4, <2>1 DEF CompleteIntoGap, CompleteIntoNext, Advance, Completing,
       IsLastStep, Leave, Finishes, DoneWith, Upcoming, flowVars
<1> QED
  BY <1>2, <1>3, <1>4

\* When an invocation ends, its flow leaves its device, and with its last one
\* the open flows.
LEMMA FinishSound ==
    ASSUME NEW Q, EngineInv, Sound(Q), NEW f \in Flows, NEW d \in Devices, Finishes(f, d)
    PROVE  /\ Sound(Q)' /\ Flight' = Flight
           /\ \A B : Tracks(B) => Tracks(B)'
<1>0. PICK t, u, n : t = DoneWith(f) /\ u = Upcoming(f) /\ n = cursor[f]
  OBVIOUS
<1>1. /\ EngineTypeOK /\ Len(Work[f]) \in Nat /\ n \in Nat /\ n < Len(Work[f])
      /\ cursor[f] = n /\ cursor'[f] = n + 1
      /\ \A g \in Flows \ {f} : cursor'[g] = cursor[g] /\ where'[g] = where[g]
      /\ where'[f] = NoDevice /\ where[f] = d /\ d # NoDevice
  <2>1. EngineTypeOK /\ Len(Work[f]) \in Nat
    BY WorkType DEF EngineInv
  <2>2. n \in Nat /\ n < Len(Work[f])
    BY <1>0, <2>1 DEF EngineTypeOK, EngineInv, StopsOpen, Finishes, Stop
  <2>3. where[f] = d /\ d # NoDevice
    BY DEF Sound, TurnSound, Finishes, Stop, Devices, NoDevice
  <2> QED
    BY <1>0, <2>1, <2>2, <2>3 DEF EngineTypeOK, Finishes
<1>2. /\ t.op = "InvocationComplete" /\ t.flow = f /\ t.step = n + 1
      /\ u.op = "InvocationReady" /\ u.flow = f /\ u.step = n + 2
  BY <1>0, <1>1 DEF DoneWith, Upcoming, TaskOf, Step
<1>3. /\ OnOffer = {} /\ Pausing = {} /\ Entrants = {} /\ Leavers = {} /\ Tasks(stack) = {}
  BY EmptyStack DEF Finishes
<1>4. \/ Tasks(stack') = {t} /\ InOrder(stack')
      \/ Tasks(stack') = {u, t} /\ InOrder(stack')
  <2>1. CASE stack' = <<t>>
    BY <2>1, SingleStack
  <2>2. CASE stack' = <<u, t>>
    <3>1. MayPrecede(u, t)
      BY <1>2 DEF MayPrecede, Moves
    <3>2. InOrder(<<u, t>>)
      BY <3>1, OrderNew
    <3>3. Tasks(<<u, t>>) = {u, t}
      <4>1. \A a, b : Tasks(<<a, b>>) = {a, b}
        BY DEF Tasks
      <4> QED
        BY <4>1
    <3> QED
      BY <2>2, <3>2, <3>3
  <2> QED
    BY <1>0, <2>1, <2>2 DEF Finishes
<1>5. t \in Tasks(stack') /\ \A x \in Tasks(stack') : x = t \/ x = u
  BY <1>4
<1>6. /\ f \in OnDevices /\ f \in Open
      /\ f \notin gaps /\ f \notin Q /\ f \notin Requeued
  <2>1. f \in OnDevices
    BY <1>1 DEF OnDevices
  <2> QED
    BY <2>1 DEF Sound, LocatedIn, Partition
<1>7. /\ Pausing' = {} /\ Entrants' = {} /\ Requeued' = Requeued
      /\ \A g \in Flows \ {f} : Step(g)' = Step(g)
      /\ Step(f) = n + 1 /\ Step(f)' = n + 2
      /\ OnDevices' = OnDevices \ {f}
  BY <1>1, <1>2, <1>5 DEF Pausing, Entrants, Requeued, Step, OnDevices, Finishes
<1>8. NoGuarantees' /\ Unstarted'
  <2>1. f \in admitted
    BY <1>6 DEF Open
  <2> QED
    BY <1>1, <2>1 DEF Sound, NoGuarantees, Unstarted, Finishes
<1>9. StackSound'
  <2>1. IsCurrent(t)' /\ IsCurrent(u)'
    BY <1>1, <1>2, <1>7 DEF IsCurrent, Moves
  <2> QED
    BY <1>4, <1>5, <1>7, <2>1 DEF StackSound
<1>10. TurnSound'
  <2>1. \A r \in finished' : r.flow \in Flows \ {f} /\ where[r.flow] = r.dev
    <3> SUFFICES ASSUME NEW r \in finished'
                 PROVE  r.flow \in Flows \ {f} /\ where[r.flow] = r.dev
      OBVIOUS
    <3>1. r \in finished /\ r # Stop(f, d) /\ Stop(f, d) \in finished
      BY DEF Finishes
    <3>2. r.flow # Stop(f, d).flow
      BY <3>1 DEF EngineInv, StopsOpen
    <3> QED
      BY <1>1, <3>1, <3>2 DEF Sound, TurnSound, Stop, EngineTypeOK
  <2> QED
    BY <1>1, <1>2, <1>5, <2>1 DEF TurnSound
<1>11. AgainSound'
  <2>1. \A v \in Tasks(reready) : v.flow \in Flows \ {f}
    BY <1>1, <1>6, RereadyType DEF Requeued
  <2> QED
    BY <1>7, <2>1 DEF Sound, AgainSound, Finishes
<1>12. LocatedIn(Q)' /\ Flight' = Flight
  <2>1. CASE n + 1 = Len(Work[f])
    <3>1. Open' = Open \ {f}
      <4>1. admitted \subseteq Flows /\ ~(cursor'[f] < Len(Work[f]))
        BY <1>1, <2>1 DEF EngineTypeOK
      <4> QED
        BY <1>1, <4>1 DEF Open, Finishes
    <3>2. gaps' = gaps /\ OnOffer' = {}
      <4>1. gaps' = gaps /\ stack' = <<t>>
        BY <1>0, <2>1 DEF Finishes
      <4>2. Tasks(stack') = {t}
        BY <4>1, SingleStack
      <4> QED
        BY <1>2, <4>1, <4>2 DEF OnOffer, ReadyOps
    <3>3. Leavers' = {f}
      BY <1>1, <1>2, <1>5, <2>1 DEF Leavers
    <3> QED
      BY <1>3, <1>6, <1>7, <3>1, <3>2, <3>3 DEF Sound, LocatedIn, Partition, Flight
  <2>2. CASE n + 1 # Len(Work[f])
    <3>1. n + 1 < Len(Work[f])
      BY <1>1, <2>2
    <3>2. Open' = Open
      <4>1. \A g \in Flows : cursor'[g] < Len(Work[g]) <=> cursor[g] < Len(Work[g])
        BY <1>1, <3>1
      <4> QED
        BY <1>1, <4>1 DEF Open, EngineTypeOK, Finishes
    <3>3. \/ gaps' = gaps \cup {f} /\ OnOffer' = {}
          \/ gaps' = gaps /\ OnOffer' = {f}
      <4>1. \/ gaps' = gaps \cup {f} /\ stack' = <<t>>
            \/ gaps' = gaps /\ stack' = <<u, t>>
        BY <1>0, <2>2 DEF Finishes
      <4>2. \A a, b : Tasks(<<a>>) = {a} /\ Tasks(<<a, b>>) = {a, b}
        BY DEF Tasks
      <4>3. \/ gaps' = gaps \cup {f} /\ Tasks(stack') = {t}
            \/ gaps' = gaps /\ Tasks(stack') = {u, t}
        BY <4>1, <4>2
      <4> QED
        BY <1>2, <4>3 DEF OnOffer, ReadyOps
    <3>4. Leavers' = {}
      BY <1>1, <1>2, <1>5, <2>2 DEF Leavers
    <3> QED
      BY <1>3, <1>6, <1>7, <3>2, <3>3, <3>4 DEF Sound, LocatedIn, Partition, Flight
  <2> QED
    BY <2>1, <2>2
<1>13. SameTracks
  <2> SUFFICES ASSUME NEW v \in Books
               PROVE  /\ StandsAt(v)' \/ ComesTo(v)' => StandsAt(v)
                      /\ StandsAt(v) => StandsAt(v)' \/ IsOver(v)'
                      /\ ~ComesTo(v) /\ ~IsOver(v)
    BY DEF SameTracks
  <2>1. v.flow \in Flows /\ ~ComesTo(v) /\ ~IsOver(v)
    BY <1>3 DEF Books, ComesTo, IsOver
  <2>2. ~ComesTo(v)'
    BY <1>2, <1>5 DEF ComesTo
  <2>3. CASE v.flow = f
    BY <1>1, <1>2, <1>5, <1>7, <2>1, <2>2, <2>3 DEF StandsAt, IsOver
  <2>4. CASE v.flow # f
    BY <1>1, <1>3, <1>7, <2>1, <2>2, <2>4 DEF StandsAt
  <2> QED
    BY <2>1, <2>3, <2>4
<1> QED
  BY <1>8, <1>9, <1>10, <1>11, <1>12, <1>13, TracksKept DEF Sound

-----------------------------------------------------------------------------
(* Placements and evictions.                                               *)

\* What is below the first call, and what the books say of the two.
LEMMA BelowMove ==
    ASSUME EngineTypeOK, StackSound, stack # <<>>, NEW r, r = Head(stack),
           r.op \in Moves, stack' = Tail(stack)
    PROVE  /\ r \in Tasks(stack) /\ r.flow \in Flows /\ r.step = Step(r.flow)
           /\ Tasks(stack) = {r} \cup Tasks(stack') /\ InOrder(stack')
           /\ \A t \in Tasks(stack') :
                  /\ t \in Tasks(stack) /\ (t.op # "Tick" => t.flow \in Flows)
                  /\ MayPrecede(r, t) /\ (t.op \in Moves => t.flow # r.flow)
<1>1. /\ Tasks(stack) = {r} \cup Tasks(stack') /\ InOrder(stack')
      /\ \A t \in Tasks(stack') : MayPrecede(r, t)
  BY StackParts
<1>2. r.flow \in Flows
  BY <1>1, StackTypes DEF Moves
<1>3. r.step = Step(r.flow)
  BY <1>1 DEF StackSound, IsCurrent
<1> QED
  BY <1>1, <1>2, <1>3, StackTypes DEF MayPrecede

\* A placed invocation is on its device.
LEMMA ScheduleSound ==
    ASSUME NEW Q, EngineInv, Sound(Q), Schedule
    PROVE  /\ Sound(Q)' /\ Flight' = Flight
           /\ \A B : Tracks(B) => Tracks(B)'
<1>0. PICK r, f, d : r = Head(stack) /\ f = r.flow /\ d = r.dev
  OBVIOUS
<1>1. /\ EngineTypeOK /\ stack # <<>> /\ r.op = "Schedule" /\ stack' = Tail(stack)
      /\ d \in Devices
      /\ where' = [where EXCEPT ![f] = d] /\ phase' = [phase EXCEPT ![f] = "PREFILL"]
      /\ UNCHANGED <<arrivals, admitted, cursor, pinDev, budget, gaps, reready,
                     abandoned, finished, exhausted>>
  BY <1>0 DEF EngineInv, Schedule, Schedulable, Pending, flowVars, loopVars
<1>2. /\ r \in Tasks(stack) /\ f \in Flows /\ r.step = Step(f)
      /\ Tasks(stack) = {r} \cup Tasks(stack') /\ InOrder(stack')
      /\ \A t \in Tasks(stack') :
             /\ t \in Tasks(stack) /\ (t.op # "Tick" => t.flow \in Flows)
             /\ (t.op \in Moves => t.flow # f)
  BY <1>0, <1>1, BelowMove DEF Sound, Moves
<1>3. /\ f \in OnOffer /\ OnOffer' = OnOffer \ {f}
      /\ Pausing' = Pausing /\ f \notin Pausing'
      /\ Entrants' = Entrants /\ Leavers' = Leavers
      /\ Requeued' = Requeued /\ Open' = Open
      /\ \A g \in Flows : Step(g)' = Step(g)
  <2>1. f \in OnOffer /\ OnOffer' = OnOffer \ {f}
    BY <1>0, <1>1, <1>2 DEF OnOffer, ReadyOps, Moves
  <2>2. Pausing' = Pausing /\ f \notin Pausing'
    BY <1>1, <1>2 DEF Pausing, Moves
  <2>3. Entrants' = Entrants /\ Leavers' = Leavers
    BY <1>1, <1>2 DEF Entrants, Leavers
  <2> QED
    BY <1>1, <2>1, <2>2, <2>3 DEF Requeued, Open, Step
<1>4. /\ f \notin OnDevices /\ f \notin Requeued /\ f \notin Q /\ f \notin gaps
      /\ where[f] = NoDevice
  <2>1. /\ f \notin OnDevices /\ f \notin Requeued /\ f \notin Q /\ f \notin gaps
    BY <1>3 DEF Sound, LocatedIn, Partition
  <2> QED
    BY <1>2, <2>1 DEF OnDevices
<1>5. /\ where'[f] = d /\ d # NoDevice
      /\ \A g \in Flows \ {f} : where'[g] = where[g] /\ phase'[g] = phase[g]
      /\ OnDevices' = OnDevices \cup {f}
  <2>1. where'[f] = d /\ d # NoDevice
    BY <1>1, <1>2 DEF Devices, NoDevice, EngineTypeOK
  <2>2. \A g \in Flows \ {f} : where'[g] = where[g] /\ phase'[g] = phase[g]
    BY <1>1 DEF EngineTypeOK
  <2> QED
    BY <1>2, <2>1, <2>2 DEF OnDevices
<1>6. NoGuarantees' /\ Unstarted'
  BY <1>1 DEF Sound, NoGuarantees, Unstarted
<1>7. StackSound'
  <2>1. \A t \in Tasks(stack') : IsCurrent(t)'
    <3> SUFFICES ASSUME NEW t \in Tasks(stack') PROVE IsCurrent(t)'
      OBVIOUS
    <3>1. IsCurrent(t) /\ (t.op # "Tick" => t.flow \in Flows)
      BY <1>2 DEF Sound, StackSound
    <3>2. t.op = "Tick" => t.op \notin Moves
      BY DEF Moves
    <3> QED
      BY <1>1, <1>3, <3>1, <3>2 DEF IsCurrent
  <2> QED
    BY <1>2, <1>3, <1>5, <2>1 DEF Sound, StackSound
<1>8. TurnSound'
  <2>1. \A s \in finished : s.flow \in Flows \ {f} /\ where[s.flow] = s.dev
    <3> SUFFICES ASSUME NEW s \in finished
                 PROVE  s.flow \in Flows \ {f} /\ where[s.flow] = s.dev
      OBVIOUS
    <3>1. s.flow \in Flows /\ s.dev \in Devices
      BY <1>1 DEF EngineTypeOK
    <3>2. s.dev # NoDevice /\ where[s.flow] = s.dev
      BY <3>1 DEF Devices, NoDevice, Sound, TurnSound
    <3> QED
      BY <1>4, <3>1, <3>2
  <2> QED
    BY <1>1, <1>2, <1>5, <2>1 DEF Sound, TurnSound
<1>9. AgainSound'
  <2>1. \A w \in Tasks(reready) : w.flow \in Flows \ {f}
    BY <1>1, <1>2, <1>4, RereadyType DEF Requeued
  <2> QED
    BY <1>1, <1>3, <1>5, <2>1 DEF Sound, AgainSound
<1>10. LocatedIn(Q)'
  BY <1>1, <1>3, <1>4, <1>5 DEF Sound, LocatedIn, Partition
<1>11. SameTracks
  <2> SUFFICES ASSUME NEW v \in Books
               PROVE  /\ StandsAt(v)' \/ ComesTo(v)' => StandsAt(v) \/ ComesTo(v)
                      /\ StandsAt(v) \/ ComesTo(v) \/ IsOver(v) =>
                             StandsAt(v)' \/ ComesTo(v)' \/ IsOver(v)'
    BY DEF SameTracks
  <2>1. v.flow \in Flows
    BY DEF Books
  <2>2. IsOver(v) => IsOver(v)'
    BY <1>1, <1>2 DEF IsOver
  <2>3. CASE v.flow # f
    <3>1. StandsAt(v)' <=> StandsAt(v)
      BY <1>3, <1>5, <2>1, <2>3 DEF StandsAt
    <3>2. ComesTo(v)' <=> ComesTo(v)
      BY <1>0, <1>2, <1>3, <2>1, <2>3 DEF ComesTo
    <3> QED
      BY <2>2, <3>1, <3>2
  <2>4. CASE v.flow = f
    <3>1. ~StandsAt(v) /\ ~ComesTo(v)'
      BY <1>2, <1>4, <2>4 DEF StandsAt, ComesTo, Moves
    <3>2. ComesTo(v) <=> v.dev = d /\ v.step = Step(f)
      BY <1>0, <1>1, <1>2, <2>4 DEF ComesTo, Moves
    <3>3. StandsAt(v)' <=> v.dev = d /\ v.step = Step(f)
      BY <1>2, <1>3, <1>5, <2>4 DEF StandsAt
    <3> QED
      BY <2>2, <3>1, <3>2, <3>3
  <2> QED
    BY <2>3, <2>4
<1>12. Flight' = Flight
  BY <1>3 DEF Flight
<1> QED
  BY <1>6, <1>7, <1>8, <1>9, <1>10, <1>11, <1>12, TracksKept DEF Sound

\* An evicted invocation waits to be offered again.
LEMMA PreemptSound ==
    ASSUME NEW Q, EngineInv, Sound(Q), Preempt
    PROVE  /\ Sound(Q)' /\ Flight' = Flight
           /\ \A B : Tracks(B) => Tracks(B)'
<1>0. PICK r, f, w : /\ r = Head(stack) /\ f = r.flow
                     /\ w = [flow |-> f, step |-> Step(f)]
  OBVIOUS
<1>1. /\ EngineTypeOK /\ stack # <<>> /\ r.op = "Preempt" /\ stack' = Tail(stack)
      /\ where' = [where EXCEPT ![f] = NoDevice]
      /\ phase' = [phase EXCEPT ![f] = "PREEMPTED"]
      /\ reready' = Append(reready, w)
      /\ UNCHANGED <<arrivals, admitted, cursor, pinDev, gaps, abandoned,
                     finished, exhausted>>
  BY <1>0 DEF EngineInv, Preempt, Pending, flowVars, loopVars
<1>2. /\ r \in Tasks(stack) /\ f \in Flows /\ r.step = Step(f)
      /\ Tasks(stack) = {r} \cup Tasks(stack') /\ InOrder(stack')
      /\ \A t \in Tasks(stack') :
             /\ t \in Tasks(stack) /\ (t.op # "Tick" => t.flow \in Flows)
             /\ MayPrecede(r, t) /\ (t.op \in Moves => t.flow # f)
  BY <1>0, <1>1, BelowMove DEF Sound, Moves
<1>3. /\ \A g \in Flows : budget'[g] = Unmetered
      /\ finished = {}
  <2>1. budget' = budget
    BY <1>1, NobodyMetered DEF Preempt, Sound
  <2>2. finished = {}
    BY <1>1, <1>2 DEF Sound, TurnSound
  <2> QED
    BY <2>1, <2>2 DEF Sound, NoGuarantees
<1>4. /\ OnOffer' = OnOffer
      /\ f \in Pausing /\ Pausing' = Pausing \ {f}
      /\ Entrants' = Entrants /\ Leavers' = Leavers /\ Open' = Open
      /\ \A g \in Flows : Step(g)' = Step(g)
  <2>1. f \in Pausing /\ Pausing' = Pausing \ {f}
    BY <1>0, <1>1, <1>2 DEF Pausing, Moves
  <2>2. OnOffer' = OnOffer
    BY <1>1, <1>2 DEF OnOffer, ReadyOps
  <2>3. Entrants' = Entrants /\ Leavers' = Leavers
    BY <1>1, <1>2 DEF Entrants, Leavers
  <2> QED
    BY <1>1, <2>1, <2>2, <2>3 DEF Open, Step
<1>5. f \in OnDevices /\ f \notin Requeued /\ f \notin OnOffer
  BY <1>4 DEF Sound, StackSound, LocatedIn, Partition
<1>6. /\ Tasks(reready') = Tasks(reready) \cup {w} /\ FlowsOnce(reready')
  <2> DEFINE S == [flow : Flows, step : Nat]
  <2>1. reready \in Seq(S) /\ w \in S
    <3>1. Step(f) \in Nat
      BY <1>1, <1>2 DEF EngineTypeOK, Step
    <3> QED
      BY <1>0, <1>1, <1>2, <3>1 DEF EngineTypeOK
  <2>2. \A v \in Tasks(reready) : v.flow # f
    BY <1>2, <1>5 DEF Requeued
  <2>3. w.flow = f /\ FlowsOnce(reready)
    BY <1>0 DEF Sound, AgainSound
  <2> HIDE DEF S
  <2> QED
    BY <1>1, <2>1, <2>2, <2>3, RereadyParts
<1>7. /\ where'[f] = NoDevice /\ phase'[f] = "PREEMPTED"
      /\ \A g \in Flows \ {f} : where'[g] = where[g] /\ phase'[g] = phase[g]
      /\ OnDevices' = OnDevices \ {f} /\ Requeued' = Requeued \cup {f}
      /\ w.flow = f /\ w.step = Step(f)
  <2>1. w.flow = f /\ w.step = Step(f)
    BY <1>0
  <2>2. /\ where'[f] = NoDevice /\ phase'[f] = "PREEMPTED"
        /\ \A g \in Flows \ {f} : where'[g] = where[g] /\ phase'[g] = phase[g]
    BY <1>1, <1>2 DEF EngineTypeOK
  <2>3. Requeued' = Requeued \cup {f}
    BY <1>2, <1>6, <2>1 DEF Requeued
  <2> QED
    BY <2>1, <2>2, <2>3 DEF OnDevices
<1>8. NoGuarantees' /\ Unstarted'
  BY <1>1, <1>3 DEF Sound, NoGuarantees, Unstarted
<1>9. StackSound'
  <2>1. \A t \in Tasks(stack') : IsCurrent(t)'
    <3> SUFFICES ASSUME NEW t \in Tasks(stack') PROVE IsCurrent(t)'
      OBVIOUS
    <3>1. IsCurrent(t) /\ (t.op # "Tick" => t.flow \in Flows)
      BY <1>2 DEF Sound, StackSound
    <3>2. t.op = "Tick" => t.op \notin Moves
      BY DEF Moves
    <3> QED
      BY <1>1, <1>4, <3>1, <3>2 DEF IsCurrent
  <2> QED
    BY <1>2, <1>4, <1>7, <2>1 DEF Sound, StackSound
<1>10. TurnSound'
  BY <1>1, <1>3 DEF TurnSound
<1>11. AgainSound'
  <2>1. \A v \in Tasks(reready) : v.flow \in Flows \ {f}
    BY <1>1, <1>2, <1>5, RereadyType DEF Requeued
  <2>2. \A v \in Tasks(reready) : v.step = Step(v.flow)' /\ phase'[v.flow] = "PREEMPTED"
    BY <1>4, <1>7, <2>1 DEF Sound, AgainSound
  <2> QED
    BY <1>2, <1>4, <1>6, <1>7, <2>2 DEF AgainSound
<1>12. LocatedIn(Q)'
  BY <1>1, <1>4, <1>5, <1>7 DEF Sound, LocatedIn, Partition
<1>13. SameTracks
  <2> SUFFICES ASSUME NEW v \in Books
               PROVE  /\ StandsAt(v)' <=> StandsAt(v)
                      /\ ComesTo(v)' <=> ComesTo(v)
                      /\ IsOver(v) => IsOver(v)'
    BY DEF SameTracks
  <2>1. v.flow \in Flows
    BY DEF Books
  <2>2. IsOver(v) => IsOver(v)'
    BY <1>1, <1>2 DEF IsOver
  <2>3. ComesTo(v)' <=> ComesTo(v)
    BY <1>1, <1>2, <1>4, <2>1 DEF ComesTo
  <2>4. StandsAt(v)' <=> StandsAt(v)
    BY <1>4, <1>7, <2>1 DEF StandsAt
  <2> QED
    BY <2>2, <2>3, <2>4
<1>14. Flight' = Flight
  BY <1>4 DEF Flight
<1> QED
  BY <1>8, <1>9, <1>10, <1>11, <1>12, <1>13, <1>14, TracksKept DEF Sound

-----------------------------------------------------------------------------
(* Answers.                                                                *)

\* The placements and evictions of an answer.
Scheduled(acts) == {t \in Tasks(acts) : t.op = "Schedule"}
Served(acts) == {t.flow : t \in Scheduled(acts)}
IsEvictedBy(acts, r) ==
    \E t \in Tasks(acts) : t.op = "Preempt" /\ t.flow = r.flow /\ t.step = r.step

ToPlace(q, t) == /\ t.op = "Schedule" /\ t.flow \in q
                 /\ t.step = Step(t.flow) /\ t.dev \in Devices
ToEvict(q, run, t) ==
    /\ t.op = "Preempt" /\ t.flow \in Flows \ q
    /\ \E r \in run : r.flow = t.flow /\ r.step = t.step

\* An answer with what waits in q and runs in `run`.
AnswerTo(q, run, acts) ==
    /\ acts \in Seq(Task) /\ InOrder(acts)
    /\ \A t \in Tasks(acts) : ToPlace(q, t) \/ ToEvict(q, run, t)

\* What a placement makes a policy believe.
PlacedBy(t) == [flow |-> t.flow, step |-> Step(t.flow), dev |-> t.dev]

\* What waits and is believed to run once the event is noted.
PassOps == {"InvocationReady", "InvocationComplete", "Tick"}
WaitingOf(Q) == IF Head(stack).op = "InvocationReady"
                THEN Q \cup {Head(stack).flow} ELSE Q
LeftOf(B) ==
    IF Head(stack).op = "InvocationComplete"
    THEN {r \in B : ~(r.flow = Head(stack).flow /\ r.step = Head(stack).step)}
    ELSE B

\* Below an event the policy passes over its queue for there is at most a
\* completion.
LEMMA BelowEvent ==
    ASSUME NEW Q, EngineTypeOK, Sound(Q), stack # <<>>, Head(stack).op \in PassOps
    PROVE  /\ Tasks(stack) = {Head(stack)} \cup Tasks(Tail(stack))
           /\ Tail(stack) \in Seq(Task) /\ InOrder(Tail(stack))
           /\ \A t \in Tasks(Tail(stack)) :
                  t.op = "InvocationComplete" /\ t.flow \in Flows /\ IsCurrent(t)
           /\ WaitingOf(Q) = Q \cup OnOffer /\ WaitingOf(Q) \subseteq Flows
           /\ Pausing = {} /\ Entrants = {}
<1>1. /\ Tasks(stack) = {Head(stack)} \cup Tasks(Tail(stack))
      /\ Tail(stack) \in Seq(Task) /\ InOrder(Tail(stack))
      /\ \A t \in Tasks(Tail(stack)) : MayPrecede(Head(stack), t)
  BY StackParts DEF Sound
<1>2. \A t \in Tasks(Tail(stack)) :
          t.op = "InvocationComplete" /\ t.flow \in Flows /\ IsCurrent(t)
  BY <1>1, StackTypes DEF MayPrecede, Placings, PassOps, Sound, StackSound
<1>3. Head(stack).op = "InvocationReady" => Head(stack).flow \in Flows
  BY <1>1, StackTypes
<1>4. OnOffer = IF Head(stack).op = "InvocationReady" THEN {Head(stack).flow} ELSE {}
  BY <1>1, <1>2, <1>3 DEF OnOffer, ReadyOps, PassOps
<1>5. WaitingOf(Q) = Q \cup OnOffer
  BY <1>4 DEF WaitingOf
<1>6. Q \subseteq Flows /\ OnOffer \subseteq Flows
  BY DEF Sound, LocatedIn, Partition, Open, EngineTypeOK, OnOffer
<1>7. Pausing = {} /\ Entrants = {}
  BY <1>1, <1>2 DEF Pausing, Entrants, PassOps
<1> QED
  BY <1>1, <1>2, <1>5, <1>6, <1>7

\* There, what is believed to run stands on its device, unless its completion
\* is below; and nothing that waits is believed to run.
LEMMA BelievedStands ==
    ASSUME NEW Q, NEW B, EngineTypeOK, Sound(Q), Tracks(B),
           stack # <<>>, Head(stack).op \in PassOps
    PROVE  /\ LeftOf(B) \subseteq Books
           /\ \A r \in LeftOf(B) :
                  \/ StandsAt(r)
                  \/ \E t \in Tasks(Tail(stack)) : /\ t.op = "InvocationComplete"
                                                   /\ t.flow = r.flow /\ t.step = r.step
           /\ \A r \in LeftOf(B), d \in Devices : \A f \in WaitingOf(Q) :
                  ~(r.flow = f /\ r.step = Step(f))
<1>1. LeftOf(B) \subseteq B /\ B \subseteq Books
  BY DEF LeftOf, Tracks
<1>2. \A t \in Tasks(Tail(stack)) : t.op = "InvocationComplete" /\ IsCurrent(t)
  BY BelowEvent
<1>3. Tasks(stack) = {Head(stack)} \cup Tasks(Tail(stack))
  BY BelowEvent
<1>4. ASSUME NEW r \in LeftOf(B)
      PROVE  \/ StandsAt(r)
             \/ \E t \in Tasks(Tail(stack)) : /\ t.op = "InvocationComplete"
                                              /\ t.flow = r.flow /\ t.step = r.step
  <2>1. StandsAt(r) \/ ComesTo(r) \/ IsOver(r)
    BY <1>1 DEF Tracks
  <2>2. ~ComesTo(r)
    BY <1>2, <1>3 DEF ComesTo, PassOps
  <2>3. ASSUME IsOver(r)
        PROVE  \E t \in Tasks(Tail(stack)) : /\ t.op = "InvocationComplete"
                                             /\ t.flow = r.flow /\ t.step = r.step
    <3>1. PICK t \in Tasks(stack) : /\ t.op = "InvocationComplete"
                                    /\ t.flow = r.flow /\ t.step = r.step
      BY <2>3 DEF IsOver
    <3>2. t # Head(stack)
      BY <3>1 DEF LeftOf
    <3> QED
      BY <1>3, <3>1, <3>2
  <2> QED
    BY <2>1, <2>2, <2>3
<1>5. ASSUME NEW r \in LeftOf(B), NEW f \in WaitingOf(Q), r.flow = f, r.step = Step(f)
      PROVE  FALSE
  <2>1. f \notin OnDevices /\ f \in Flows
    BY BelowEvent DEF Sound, LocatedIn, Partition
  <2>2. ~StandsAt(r)
    BY <1>5, <2>1 DEF StandsAt
  <2>3. PICK t \in Tasks(Tail(stack)) : /\ t.op = "InvocationComplete"
                                        /\ t.flow = r.flow /\ t.step = r.step
    BY <1>4, <2>2
  <2>4. t.step < Step(f)
    BY <1>2, <1>5, <2>3 DEF IsCurrent
  <2>5. Step(f) \in Nat
    BY <2>1 DEF EngineTypeOK, Step
  <2> QED
    BY <1>5, <2>3, <2>4, <2>5
<1> QED
  BY <1>1, <1>4, <1>5

\* On a tick nothing is over, so all of it stands.
LEMMA TickStands ==
    ASSUME NEW Q, NEW B, EngineTypeOK, Sound(Q), Tracks(B),
           stack # <<>>, Head(stack).op \in PassOps, Tasks(Tail(stack)) = {}
    PROVE  /\ \A r \in LeftOf(B) : StandsAt(r)
           /\ \A r, v \in LeftOf(B) : r.flow = v.flow => r = v
           /\ \A r \in LeftOf(B) : r.flow \notin WaitingOf(Q)
<1>1. \A r \in LeftOf(B) : StandsAt(r) /\ r \in Books
  BY BelievedStands
<1>2. \A r, v \in LeftOf(B) : r.flow = v.flow => r = v
  BY <1>1 DEF StandsAt, Books
<1>3. WaitingOf(Q) \cap OnDevices = {}
  BY BelowEvent DEF Sound, LocatedIn, Partition
<1> QED
  BY <1>1, <1>2, <1>3 DEF StandsAt

\* An answer evicts only what stands, with nothing else being handled.
MayAnswer(Q, B, acts) ==
    /\ stack # <<>> /\ Head(stack).op \in PassOps
    /\ AnswerTo(WaitingOf(Q), LeftOf(B), acts) /\ Respond(acts)
    /\ \/ \A t \in Tasks(acts) : t.op # "Preempt"
       \/ finished = {} /\ Tasks(Tail(stack)) = {} /\ Tracks(B)

\* What an answer consists of, and what is then on the stack.
LEMMA AnswerParts ==
    ASSUME NEW Q, NEW B, NEW acts, EngineTypeOK, Sound(Q), MayAnswer(Q, B, acts)
    PROVE  /\ Tasks(stack') = Tasks(acts) \cup Tasks(Tail(stack)) /\ InOrder(stack')
           /\ \A t \in Tasks(acts) :
                  /\ t.op \in Placings /\ t.flow \in Flows /\ t.step = Step(t.flow)
                  /\ t.op = "Schedule" => t.flow \in WaitingOf(Q) /\ t.dev \in Devices
                  /\ t.op = "Preempt" => t.flow \in OnDevices
<1>1. /\ acts \in Seq(Task) /\ InOrder(acts)
      /\ \A t \in Tasks(acts) : ToPlace(WaitingOf(Q), t) \/ ToEvict(WaitingOf(Q), LeftOf(B), t)
      /\ stack' = acts \o Tail(stack)
  BY DEF MayAnswer, AnswerTo, Respond
<1>2. /\ Tail(stack) \in Seq(Task) /\ InOrder(Tail(stack))
      /\ \A t \in Tasks(Tail(stack)) : t.op = "InvocationComplete"
      /\ WaitingOf(Q) \subseteq Flows
  BY BelowEvent DEF MayAnswer
<1>3. ASSUME NEW t \in Tasks(acts)
      PROVE  /\ t.op \in Placings /\ t.flow \in Flows /\ t.step = Step(t.flow)
             /\ t.op = "Schedule" => t.flow \in WaitingOf(Q) /\ t.dev \in Devices
             /\ t.op = "Preempt" => t.flow \in OnDevices
  <2>1. CASE ToPlace(WaitingOf(Q), t)
    BY <1>2, <2>1 DEF ToPlace, Placings
  <2>2. CASE ToEvict(WaitingOf(Q), LeftOf(B), t)
    <3>1. PICK r \in LeftOf(B) : r.flow = t.flow /\ r.step = t.step
      BY <2>2 DEF ToEvict
    <3>2. Tasks(Tail(stack)) = {} /\ Tracks(B)
      BY <2>2 DEF MayAnswer, ToEvict
    <3>3. StandsAt(r)
      BY <3>1, <3>2, TickStands DEF MayAnswer
    <3> QED
      BY <2>2, <3>1, <3>3 DEF ToEvict, StandsAt, Placings
  <2> QED
    BY <1>1, <2>1, <2>2
<1>4. Tasks(stack') = Tasks(acts) \cup Tasks(Tail(stack))
  BY <1>1, <1>2, TasksParts
<1>5. ASSUME NEW x \in Tasks(acts), NEW y \in Tasks(Tail(stack)) PROVE MayPrecede(x, y)
  <2>1. x.op \in Placings /\ y.op = "InvocationComplete" /\ x.op # "Preempt"
    BY <1>2, <1>3, <1>5 DEF MayAnswer
  <2> QED
    BY <2>1 DEF MayPrecede, Moves
<1>6. InOrder(stack')
  BY <1>1, <1>2, <1>5, OrderConcat
<1> QED
  BY <1>3, <1>4, <1>6

\* An answer moves the flows it places from the waiting ones to those on offer.
LEMMA AnswerSound ==
    ASSUME NEW Q, NEW B, NEW acts, NEW W, EngineTypeOK, Sound(Q), MayAnswer(Q, B, acts),
           W = WaitingOf(Q) \ Served(acts)
    PROVE  Sound(W)'
<1>1. /\ UNCHANGED <<arrivals, admitted, cursor, where, phase, pinDev, budget, abandoned,
                     gaps, reready, finished, exhausted>>
  BY DEF MayAnswer, Respond, flowVars, stepVars, timerVars, loopVars
<1>2. /\ Tasks(stack') = Tasks(acts) \cup Tasks(Tail(stack)) /\ InOrder(stack')
      /\ \A t \in Tasks(acts) :
             /\ t.op \in Placings /\ t.flow \in Flows /\ t.step = Step(t.flow)
             /\ t.op = "Schedule" => t.flow \in WaitingOf(Q)
             /\ t.op = "Preempt" => t.flow \in OnDevices
  BY AnswerParts
<1>3. /\ \A t \in Tasks(Tail(stack)) :
             t.op = "InvocationComplete" /\ t.flow \in Flows /\ IsCurrent(t)
      /\ WaitingOf(Q) = Q \cup OnOffer /\ WaitingOf(Q) \subseteq Flows
      /\ Tasks(stack) = {Head(stack)} \cup Tasks(Tail(stack))
  BY BelowEvent DEF MayAnswer
<1>4. /\ OnDevices' = OnDevices /\ Requeued' = Requeued /\ Open' = Open
      /\ \A f \in Flows : Step(f)' = Step(f)
  BY <1>1 DEF OnDevices, Requeued, Open, Step
<1>5. OnOffer' = Served(acts) /\ Served(acts) \subseteq WaitingOf(Q)
  <2>1. Served(acts) \subseteq WaitingOf(Q)
    BY <1>2 DEF Served, Scheduled
  <2>2. OnOffer' \subseteq Served(acts)
    BY <1>2, <1>3 DEF OnOffer, Served, Scheduled, ReadyOps, Placings
  <2>3. Served(acts) \subseteq OnOffer'
    BY <1>2 DEF OnOffer, Served, Scheduled, ReadyOps
  <2> QED
    BY <2>1, <2>2, <2>3
<1>6. NoGuarantees' /\ Unstarted'
  BY <1>1 DEF Sound, NoGuarantees, Unstarted
<1>7. StackSound'
  <2>1. \A t \in Tasks(Tail(stack)) : IsCurrent(t)'
    BY <1>1, <1>3, <1>4 DEF IsCurrent, Moves
  <2>2. \A t \in Tasks(acts) : IsCurrent(t)'
    BY <1>1, <1>2, <1>4 DEF IsCurrent, Placings
  <2>3. Pausing' \subseteq OnDevices'
    BY <1>2, <1>3, <1>4 DEF Pausing
  <2> QED
    BY <1>2, <2>1, <2>2, <2>3 DEF StackSound
<1>8. TurnSound'
  <2>1. finished # {} => \A t \in Tasks(acts) : t.op = "Schedule"
    BY <1>2 DEF MayAnswer, Placings
  <2> QED
    BY <1>1, <1>2, <1>3, <2>1 DEF Sound, TurnSound
<1>9. AgainSound'
  <2>1. \A v \in Tasks(reready) : v.flow \in Flows
    BY RereadyType
  <2> QED
    BY <1>1, <1>4, <2>1 DEF Sound, AgainSound
<1>10. LocatedIn(W)'
  BY <1>1, <1>3, <1>4, <1>5 DEF Sound, LocatedIn, Partition
<1> QED
  BY <1>6, <1>7, <1>8, <1>9, <1>10 DEF Sound

\* And the policy believes of what it evicts and places what is then true.
LEMMA AnswerTracks ==
    ASSUME NEW Q, NEW B, NEW acts, NEW R, EngineTypeOK, Sound(Q), MayAnswer(Q, B, acts),
           Tracks(B),
           R = {r \in LeftOf(B) : ~IsEvictedBy(acts, r)}
                   \cup {PlacedBy(t) : t \in Scheduled(acts)}
    PROVE  Tracks(R)'
<1>1. UNCHANGED <<cursor, where>>
  BY DEF MayAnswer, Respond, stepVars
<1>2. /\ Tasks(stack') = Tasks(acts) \cup Tasks(Tail(stack))
      /\ \A t \in Tasks(acts) :
             /\ t.op \in Placings /\ t.flow \in Flows /\ t.step = Step(t.flow)
             /\ t.op = "Schedule" => t.dev \in Devices
  BY AnswerParts
<1>3. /\ \A t \in Tasks(Tail(stack)) : t.op = "InvocationComplete"
      /\ Tasks(stack) = {Head(stack)} \cup Tasks(Tail(stack)) /\ Pausing = {}
  BY BelowEvent DEF MayAnswer
<1>4. /\ LeftOf(B) \subseteq Books
      /\ \A r \in LeftOf(B) :
                  \/ StandsAt(r)
                  \/ \E t \in Tasks(Tail(stack)) : /\ t.op = "InvocationComplete"
                                                   /\ t.flow = r.flow /\ t.step = r.step
  BY BelievedStands DEF MayAnswer
<1>5. OnDevices' = OnDevices /\ \A f \in Flows : Step(f)' = Step(f) /\ Step(f) \in Nat
  BY <1>1 DEF OnDevices, Step, EngineTypeOK
<1>6. R \subseteq Books
  <2>1. \A t \in Scheduled(acts) : PlacedBy(t) \in Books
    BY <1>2, <1>5 DEF Scheduled, PlacedBy, Books
  <2> QED
    BY <1>4, <2>1
<1>7. ASSUME NEW v \in Books, v \in R PROVE StandsAt(v)' \/ ComesTo(v)' \/ IsOver(v)'
  <2>0. v.flow \in Flows
    BY DEF Books
  <2>1. CASE v \in {PlacedBy(t) : t \in Scheduled(acts)}
    <3>1. PICK t \in Tasks(acts) : t.op = "Schedule" /\ v = PlacedBy(t)
      BY <2>1 DEF Scheduled
    <3>2. t \in Tasks(stack') /\ t.flow = v.flow /\ t.dev = v.dev /\ v.step = Step(v.flow)'
      BY <1>2, <1>5, <2>0, <3>1 DEF PlacedBy
    <3> QED
      BY <3>1, <3>2 DEF ComesTo
  <2>2. CASE v \in LeftOf(B) /\ ~IsEvictedBy(acts, v)
    <3>1. CASE StandsAt(v)
      <4>1. v.step = Step(v.flow) /\ v.dev = where[v.flow] /\ v.flow \in OnDevices
        BY <3>1 DEF StandsAt
      <4>2. v.flow \notin Pausing'
        BY <1>2, <1>3, <2>2, <4>1 DEF Pausing, IsEvictedBy
      <4> QED
        BY <1>1, <1>5, <2>0, <4>1, <4>2 DEF StandsAt
    <3>2. CASE \E t \in Tasks(Tail(stack)) : /\ t.op = "InvocationComplete"
                                             /\ t.flow = v.flow /\ t.step = v.step
      BY <1>2, <3>2 DEF IsOver
    <3> QED
      BY <1>4, <2>2, <3>1, <3>2
  <2> QED
    BY <1>7, <2>1, <2>2
<1>8. ASSUME NEW v \in Books, StandsAt(v)' PROVE v \in R
  <2>0. v.flow \in Flows
    BY DEF Books
  <2>1. StandsAt(v) /\ v.flow \notin Pausing' /\ v.step = Step(v.flow)
    BY <1>1, <1>3, <1>5, <1>8, <2>0 DEF StandsAt
  <2>2. v \in B
    BY <2>1 DEF Tracks
  <2>3. v \in LeftOf(B)
    <3>1. CASE Head(stack).op = "InvocationComplete" /\ Head(stack).flow = v.flow
      <4>1. Head(stack).step < Step(v.flow)
        BY <1>3, <3>1 DEF Sound, StackSound, IsCurrent
      <4>2. Head(stack).step # v.step
        BY <1>5, <2>0, <2>1, <4>1
      <4> QED
        BY <2>2, <4>2 DEF LeftOf
    <3>2. CASE ~(Head(stack).op = "InvocationComplete" /\ Head(stack).flow = v.flow)
      BY <2>2, <3>2 DEF LeftOf
    <3> QED
      BY <3>1, <3>2
  <2>4. ~IsEvictedBy(acts, v)
    BY <1>2, <2>0, <2>1 DEF IsEvictedBy, Pausing
  <2> QED
    BY <2>3, <2>4
<1>9. ASSUME NEW v \in Books, ComesTo(v)' PROVE v \in R
  <2>1. PICK t \in Tasks(stack') : /\ t.op = "Schedule" /\ t.flow = v.flow
                                   /\ t.dev = v.dev /\ v.step = Step(v.flow)'
    BY <1>9 DEF ComesTo
  <2>2. t \in Scheduled(acts)
    BY <1>2, <1>3, <2>1 DEF Scheduled
  <2>3. v = PlacedBy(t)
    BY <1>5, <2>1 DEF PlacedBy, Books
  <2> QED
    BY <2>2, <2>3
<1> QED
  BY <1>6, <1>7, <1>8, <1>9 DEF Tracks

\* A completion answered, a flow that is over has left; other answers keep the
\* flight.
LEMMA AnswerFlight ==
    ASSUME NEW Q, NEW B, NEW acts, EngineTypeOK, Sound(Q), MayAnswer(Q, B, acts)
    PROVE  LET h == Head(stack) IN
           IF h.op = "InvocationComplete" /\ cursor[h.flow] = Len(Work[h.flow])
           THEN h.flow \in Flight /\ Flight' = Flight \ {h.flow}
           ELSE Flight' = Flight
<1>1. UNCHANGED <<admitted, cursor>>
  BY DEF MayAnswer, Respond, flowVars, stepVars
<1>2. /\ Tasks(stack') = Tasks(acts) \cup Tasks(Tail(stack))
      /\ \A t \in Tasks(acts) : t.op \in Placings
  BY AnswerParts
<1>3. /\ \A t \in Tasks(Tail(stack)) : t.op = "InvocationComplete"
      /\ Tasks(stack) = {Head(stack)} \cup Tasks(Tail(stack)) /\ Entrants = {}
      /\ Head(stack).op = "InvocationComplete" => Tasks(Tail(stack)) = {}
      /\ Head(stack).op \in PassOps
  BY BelowEvent, StackParts DEF MayAnswer, Sound, ReadyOps
<1>4. Open' = Open /\ Entrants' = {}
  BY <1>1, <1>2, <1>3 DEF Open, Entrants, Placings
<1>5. CASE Head(stack).op = "InvocationComplete"
  <2>1. Leavers' = {}
    BY <1>2, <1>3, <1>5 DEF Leavers, Placings
  <2>2. Head(stack).flow \in Flows
    BY <1>3, <1>5, StackTypes
  <2>3. Leavers = IF cursor[Head(stack).flow] = Len(Work[Head(stack).flow])
                  THEN {Head(stack).flow} ELSE {}
    BY <1>3, <1>5, <2>2 DEF Leavers
  <2>4. cursor[Head(stack).flow] = Len(Work[Head(stack).flow]) => Head(stack).flow \notin Open
    BY <2>2 DEF Open, EngineTypeOK
  <2> QED
    BY <1>3, <1>4, <1>5, <2>1, <2>3, <2>4 DEF Flight
<1>6. CASE Head(stack).op # "InvocationComplete"
  <2>1. Leavers' = Leavers
    BY <1>1, <1>2, <1>3, <1>6 DEF Leavers, Placings
  <2> QED
    BY <1>3, <1>4, <1>6, <2>1 DEF Flight
<1> QED
  BY <1>5, <1>6

\* An arrival answered: the flow is about to be admitted, or it is refused.
ArrivalAnswer(acts) ==
    /\ Pending("FlowArrival") /\ Respond(acts)
    /\ acts \in {<<>>, <<TaskOf("Admit", Head(stack).flow, 0, NoDevice)>>}

\* An arrival that is admitted puts its flow in flight; one that is not, nowhere.
LEMMA ArrivalSound ==
    ASSUME NEW Q, NEW acts, EngineTypeOK, Sound(Q), ArrivalAnswer(acts)
    PROVE  /\ Sound(Q)'
           /\ \A B : Tracks(B) => Tracks(B)'
           /\ Head(stack).flow \in Flows
           /\ acts = <<>> => Flight' = Flight
           /\ acts # <<>> => /\ Flight' = Flight \cup {Head(stack).flow}
                             /\ Head(stack).flow \notin Flight
<1>0. PICK f, r : /\ f = Head(stack).flow /\ r = TaskOf("Admit", f, 0, NoDevice)
  OBVIOUS
<1>1. /\ stack # <<>> /\ Head(stack).op = "FlowArrival"
      /\ UNCHANGED <<arrivals, admitted, cursor, where, phase, pinDev, budget, abandoned,
                     gaps, reready, finished, exhausted>>
      /\ stack' = acts \o Tail(stack) /\ acts \in {<<>>, <<r>>}
  BY <1>0 DEF ArrivalAnswer, Pending, Respond, flowVars, stepVars, timerVars, loopVars
<1>2. Tasks(stack) = {Head(stack)} /\ Tail(stack) \in Seq(Task) /\ Tasks(Tail(stack)) = {}
  BY <1>1, StackParts DEF Sound, ReadyOps
<1>3. f \in Flows /\ f \notin admitted /\ f <= arrivals
  BY <1>0, <1>1, <1>2, StackTypes DEF Sound, StackSound, IsCurrent
<1>4. stack' = acts
  <2> DEFINE rest == Tail(stack)
  <2>1. rest \in Seq(Task) /\ Tasks(rest) = {}
    BY <1>1, <1>2
  <2>2. stack' = acts \o rest
    BY <1>1, <1>2
  <2> HIDE DEF rest
  <2>3. Len(rest) = 0
    BY <2>1 DEF Tasks
  <2>4. rest = <<>>
    BY <2>1, <2>3
  <2>5. <<r>> \o <<>> = <<r>> /\ <<>> \o <<>> = <<>>
    OBVIOUS
  <2> QED
    BY <1>1, <2>2, <2>4, <2>5
<1>5. r.op = "Admit" /\ r.flow = f
  BY <1>0 DEF TaskOf
<1>6. /\ InOrder(stack') /\ \A t \in Tasks(stack') : t = r
      /\ acts = <<>> => Tasks(stack') = {}
      /\ acts # <<>> => Tasks(stack') = {r}
  <2>1. InOrder(<<>>) /\ InOrder(<<r>>) /\ Tasks(<<>>) = {} /\ Tasks(<<r>>) = {r}
        /\ <<r>> # <<>>
    BY OrderNew, TasksParts
  <2> QED
    BY <1>1, <1>4, <2>1
<1>7. /\ OnOffer = {} /\ Pausing = {} /\ Entrants = {} /\ Leavers = {}
      /\ OnOffer' = {} /\ Pausing' = {} /\ Leavers' = {}
      /\ Requeued' = Requeued /\ OnDevices' = OnDevices /\ Open' = Open
      /\ \A g \in Flows : Step(g)' = Step(g)
  <2>1. OnOffer = {} /\ Pausing = {} /\ Entrants = {} /\ Leavers = {}
    BY <1>1, <1>2 DEF OnOffer, Pausing, Entrants, Leavers, ReadyOps
  <2>2. OnOffer' = {} /\ Pausing' = {} /\ Leavers' = {}
    BY <1>5, <1>6 DEF OnOffer, Pausing, Leavers, ReadyOps
  <2> QED
    BY <1>1, <2>1, <2>2 DEF Requeued, OnDevices, Open, Step
<1>8. /\ acts = <<>> => Entrants' = {}
      /\ acts # <<>> => Entrants' = {f}
  BY <1>3, <1>5, <1>6 DEF Entrants
<1>9. f \notin Flight
  BY <1>3, <1>7 DEF Flight, Open
<1>10. NoGuarantees' /\ Unstarted'
  BY <1>1 DEF Sound, NoGuarantees, Unstarted
<1>11. StackSound'
  <2>1. IsCurrent(r)'
    BY <1>1, <1>3, <1>5 DEF IsCurrent, Moves
  <2> QED
    BY <1>6, <1>7, <2>1 DEF StackSound
<1>12. TurnSound'
  BY <1>1, <1>2 DEF Sound, TurnSound
<1>13. AgainSound'
  <2>1. \A v \in Tasks(reready) : v.flow \in Flows
    BY RereadyType
  <2> QED
    BY <1>1, <1>7, <2>1 DEF Sound, AgainSound
<1>14. LocatedIn(Q)'
  BY <1>1, <1>7 DEF Sound, LocatedIn
<1>15. SameTracks
  <2>1. \A v \in Books : v.flow \in Flows
    BY DEF Books
  <2> QED
    BY <1>1, <1>2, <1>5, <1>6, <1>7, <2>1 DEF SameTracks, StandsAt, ComesTo, IsOver
<1> QED
  BY <1>0, <1>3, <1>7, <1>8, <1>9, <1>10, <1>11, <1>12, <1>13, <1>14, <1>15, TracksKept
     DEF Sound, Flight

-----------------------------------------------------------------------------
(* The engine's own steps together, and what they come to.                 *)

\* Under such a policy nobody is degraded.
LEMMA NobodyDegraded ==
    ASSUME NEW Q, EngineTypeOK, Sound(Q) PROVE ~Degrade
<1> SUFFICES ASSUME Degrade PROVE FALSE
  OBVIOUS
<1>1. stack # <<>> /\ Head(stack).op = "Degrade"
  BY DEF Degrade, Pending
<1>2. Head(stack) \in Tasks(stack)
  BY <1>1, StackParts DEF Sound
<1> QED
  BY <1>1, <1>2 DEF Sound, StackSound, IsCurrent

\* What the engine does without asking.
Unasked == TriggerStep \/ HandlingStep \/ AdmitAggregate(Unmetered)

\* Without asking the policy the engine keeps everything where it is for the
\* policy, and what the policy believes stays true.
LEMMA UnaskedSound ==
    ASSUME NEW Q, EngineInv, Sound(Q), Unasked
    PROVE  /\ Sound(Q)' /\ Flight' = Flight
           /\ \A B : Tracks(B) => Tracks(B)'
<1>0. EngineTypeOK
  BY DEF EngineInv
<1>1. CASE Arrival \/ TickTimer
  BY <1>1, KnockSound
<1>2. CASE \E f \in Flows : GapEnd(f)
  <2>1. PICK f \in Flows : GapEnd(f)
    BY <1>2
  <2>2. OffersOne(f)
    BY <2>1, GapEndSound
  <2> QED
    BY <1>0, <2>2, OfferSound
<1>3. CASE Reoffer
  <2>1. PICK f : f = Head(reready).flow
    OBVIOUS
  <2>2. OffersOne(f)
    BY <1>0, <1>3, <2>1, ReofferSound
  <2> QED
    BY <1>0, <2>2, OfferSound
<1>4. CASE \/ \E t \in timers : EnterDevice(t) \/ EntryVoid(t)
           \/ \E d \in Devices : DecodeToken(d) \/ IntervalEnd(d)
           \/ AdmitRefused \/ ScheduleRefused \/ PreemptRefused
  <2>1. AtRest
    BY <1>0, <1>4, RestSteps
  <2> QED
    BY <1>0, <2>1, RestSound
<1>5. ASSUME NEW f \in Flows, NEW d \in Devices,
             \/ CompleteFlow(f, d) \/ CompleteIntoGap(f, d)
             \/ CompleteIntoNext(f, d) \/ AbandonFlow(f, d)
      PROVE  /\ Sound(Q)' /\ Flight' = Flight
             /\ \A B : Tracks(B) => Tracks(B)'
  <2>1. Finishes(f, d)
    BY <1>5, CompletionFinishes
  <2> QED
    BY <2>1, FinishSound
<1>6. CASE Schedule
  BY <1>6, ScheduleSound
<1>7. CASE Preempt
  BY <1>7, PreemptSound
<1>8. CASE AdmitAggregate(Unmetered)
  BY <1>8, AdmitSound
<1>9. ~Degrade
  BY <1>0, NobodyDegraded
<1> QED
  BY <1>1, <1>2, <1>3, <1>4, <1>5, <1>6, <1>7, <1>8, <1>9
     DEF Unasked, TriggerStep, HandlingStep

\* So do the steps in which the engine does nothing.
LEMMA StutterSound ==
    ASSUME NEW Q, EngineInv, Sound(Q), UNCHANGED engineVars
    PROVE  /\ Sound(Q)' /\ Flight' = Flight
           /\ \A B : Tracks(B) => Tracks(B)'
<1>1. AtRest /\ EngineTypeOK
  BY RestSteps DEF EngineInv
<1> QED
  BY <1>1, RestSound

\* At first nothing waits, runs or is in flight.
LEMMA InitSound ==
    ASSUME Init PROVE Sound({}) /\ Tracks({}) /\ Flight = {}
<1>1. /\ arrivals = 0 /\ admitted = {} /\ gaps = {} /\ finished = {} /\ exhausted = {}
      /\ abandoned = {} /\ stack = <<>> /\ reready = <<>>
      /\ \A f \in Flows : /\ cursor[f] = 0 /\ where[f] = NoDevice
                          /\ pinDev[f] = NoDevice /\ budget[f] = Unmetered
  BY DEF Init
<1>2. /\ Tasks(<<>>) = {} /\ InOrder(<<>>)
      /\ OnOffer = {} /\ Pausing = {} /\ Entrants = {} /\ Leavers = {} /\ Requeued = {}
  BY <1>1, EmptyStack, TasksParts, OrderNew
<1>3. OnDevices = {} /\ Open = {}
  BY <1>1 DEF OnDevices, Open
<1>4. NoGuarantees /\ Unstarted
  BY <1>1 DEF NoGuarantees, Unstarted
<1>5. StackSound
  BY <1>1, <1>2 DEF StackSound
<1>6. TurnSound
  BY <1>1 DEF TurnSound
<1>7. AgainSound
  <2>1. FlowsOnce(<<>>)
    BY DEF FlowsOnce
  <2> QED
    BY <1>1, <1>2, <2>1 DEF AgainSound
<1>8. LocatedIn({})
  BY <1>1, <1>2, <1>3 DEF LocatedIn, Partition
<1>9. Tracks({})
  BY <1>1, <1>2, <1>3 DEF Tracks, StandsAt, ComesTo, Books
<1> QED
  BY <1>2, <1>3, <1>4, <1>5, <1>6, <1>7, <1>8, <1>9 DEF Sound, Flight

-----------------------------------------------------------------------------
(* Whatever is entering has its timer.                                     *)

Entering ==
    \A f \in Flows : phase[f] = "PREFILL" =>
        \E t \in timers : t.flow = f /\ StillEntering(t)

\* A step that keeps a flow where it is keeps its timer.
LEMMA EnteringKept ==
    ASSUME EngineInv, Entering, NEW b,
           \/ EngineStep \/ AdmitAggregate(b) \/ AdmitReserved(b)
           \/ UNCHANGED <<phase, cursor, where, timers>>
    PROVE  Entering'
<1>0. EngineTypeOK
  BY DEF EngineInv
<1>1. \A f \in Flows :
        phase'[f] = "PREFILL" /\ phase[f] = "PREFILL" /\ cursor'[f] = cursor[f]
          /\ where'[f] = where[f]
          /\ (\A t \in timers : t.flow = f /\ StillEntering(t) => t \in timers')
        => \E t \in timers' : t.flow = f /\ StillEntering(t)'
  BY DEF Entering, StillEntering, Step
<1>2. CASE UNCHANGED <<phase, cursor, where, timers>>
  BY <1>1, <1>2 DEF Entering
<1>3. ASSUME NEW t \in timers, EnterDevice(t) PROVE Entering'
  <2> SUFFICES ASSUME NEW f \in Flows, phase'[f] = "PREFILL"
               PROVE  \E s \in timers' : s.flow = f /\ StillEntering(s)'
    BY DEF Entering
  <2>1. /\ timers' = timers \ {t} /\ cursor' = cursor /\ where' = where
        /\ phase' = [phase EXCEPT ![t.flow] = "DECODE"]
    BY <1>3 DEF EnterDevice
  <2>2. f # t.flow /\ phase[f] = "PREFILL"
    BY <1>0, <2>1 DEF EngineTypeOK
  <2> QED
    BY <1>1, <2>1, <2>2
<1>4. ASSUME NEW t \in timers, EntryVoid(t) PROVE Entering'
  <2>1. /\ timers' = timers \ {t} /\ ~StillEntering(t)
        /\ UNCHANGED <<phase, cursor, where>>
    BY <1>4 DEF EntryVoid, stepVars
  <2> QED
    BY <1>1, <2>1 DEF Entering
<1>5. ASSUME NEW f \in Flows, NEW d \in Devices,
             \/ CompleteFlow(f, d) \/ CompleteIntoGap(f, d)
             \/ CompleteIntoNext(f, d) \/ AbandonFlow(f, d)
      PROVE  Entering'
  <2>1. /\ timers' = timers /\ phase'[f] # "PREFILL"
        /\ \A g \in Flows \ {f} : /\ phase'[g] = phase[g] /\ cursor'[g] = cursor[g]
                                  /\ where'[g] = where[g]
    BY <1>0, <1>5 DEF CompleteFlow, CompleteIntoGap, CompleteIntoNext, AbandonFlow,
       Advance, Leave, EngineTypeOK
  <2> QED
    BY <1>1, <2>1 DEF Entering
<1>6. CASE Schedule
  <2> DEFINE f == Head(stack).flow
  <2> DEFINE t0 == [flow |-> f, step |-> Step(f), dev |-> Head(stack).dev,
                    attempt |-> preemptions[f]]
  <2>1. f \in Flows
    BY <1>6, ActionType DEF Schedule, ActionOps
  <2>2. /\ timers' = timers \cup {t0} /\ cursor' = cursor
        /\ phase'[f] = "PREFILL" /\ where'[f] = Head(stack).dev
        /\ \A g \in Flows \ {f} : phase'[g] = phase[g] /\ where'[g] = where[g]
    BY <1>0, <1>6, <2>1 DEF Schedule, EngineTypeOK
  <2>3. t0.flow = f /\ t0.step = Step(f) /\ t0.dev = Head(stack).dev
    OBVIOUS
  <2> HIDE DEF f, t0
  <2>4. PICK u \in timers' : /\ u.flow = f /\ u.step = Step(f)
                             /\ u.dev = Head(stack).dev
    BY <2>2, <2>3
  <2>5. \E t \in timers' : t.flow = f /\ StillEntering(t)'
    BY <2>2, <2>4 DEF StillEntering, Step
  <2>6. \A g \in Flows \ {f} : phase'[g] = "PREFILL" =>
          \E t \in timers' : t.flow = g /\ StillEntering(t)'
    BY <1>1, <2>2 DEF Entering
  <2>7. \A g \in Flows : phase'[g] = "PREFILL" =>
          \E t \in timers' : t.flow = g /\ StillEntering(t)'
    BY <2>5, <2>6
  <2> QED
    BY <2>7 DEF Entering
<1>7. CASE Preempt
  <2> DEFINE f == Head(stack).flow
  <2>1. f \in Flows
    BY <1>7, ActionType DEF Preempt, ActionOps
  <2>2. /\ timers' = timers /\ cursor' = cursor /\ phase'[f] # "PREFILL"
        /\ \A g \in Flows \ {f} : phase'[g] = phase[g] /\ where'[g] = where[g]
    BY <1>0, <1>7, <2>1 DEF Preempt, EngineTypeOK
  <2> HIDE DEF f
  <2> QED
    BY <1>1, <2>2 DEF Entering
<1>8. CASE \/ Arrival \/ TickTimer \/ (\E f \in Flows : GapEnd(f))
           \/ (\E d \in Devices : DecodeToken(d) \/ IntervalEnd(d))
           \/ Reoffer \/ AdmitRefused \/ ScheduleRefused \/ PreemptRefused
           \/ Degrade
  BY <1>2, <1>8 DEF Arrival, TickTimer, GapEnd, DecodeToken, IntervalEnd, Reoffer,
     AdmitRefused, ScheduleRefused, PreemptRefused, Raise, Degrade, stepVars, timerVars
<1>9. CASE AdmitAggregate(b) \/ AdmitReserved(b)
  <2>1. UNCHANGED <<phase, cursor, where, timers>>
    BY <1>9 DEF AdmitAggregate, AdmitReserved, timerVars
  <2> QED
    BY <1>2, <2>1
<1> QED
  BY <1>2, <1>3, <1>4, <1>5, <1>6, <1>7, <1>8, <1>9
     DEF EngineStep, TriggerStep, HandlingStep

-----------------------------------------------------------------------------
(* Between two triggers.                                                   *)

\* A flow that is in the queue, in tool-time or on a device is in one place, and
\* a flow that is over or not admitted in none.
LEMMA OnePlaceEach ==
    ASSUME EngineInv, Entering, NEW Q, Q \cup gaps \cup OnDevices = Open,
           Q \cap gaps = {}, Q \cap OnDevices = {}, gaps \cap OnDevices = {}
    PROVE  InOnePlace(Q)
<1> SUFFICES ASSUME Idle, NEW f \in Flows
             PROVE  Cardinality(PlacesOf(f, Q)) =
                      IF f \in admitted /\ ~IsComplete(f) THEN 1 ELSE 0
  BY DEF InOnePlace
<1>1. /\ EngineTypeOK /\ ResidentIsPlaced
      /\ cursor[f] \in Nat /\ Len(Work[f]) \in Nat
  BY WorkType DEF EngineInv, EngineTypeOK
<1>2. f \in admitted /\ ~IsComplete(f) <=> f \in Open
  BY <1>1 DEF Open, IsComplete
<1>3. /\ Q \cup gaps \cup OnDevices = Open
      /\ Q \cap gaps = {} /\ Q \cap OnDevices = {}
      /\ gaps \cap OnDevices = {}
  OBVIOUS
<1>4. f \in OnDevices <=> phase[f] \in {"PREFILL", "DECODE"}
  BY <1>1 DEF ResidentIsPlaced, OnDevices
<1>5. (\E t \in timers : t.flow = f /\ StillEntering(t)) <=> phase[f] = "PREFILL"
  BY DEF Entering, StillEntering
<1>6. PlacesOf(f, Q) = {p \in {"queued", "in gap", "entering", "decoding"} :
          \/ p = "queued" /\ f \in Q
          \/ p = "in gap" /\ f \in gaps
          \/ p = "entering" /\ phase[f] = "PREFILL"
          \/ p = "decoding" /\ phase[f] = "DECODE"}
  BY <1>1, <1>5 DEF PlacesOf, ResidentIsPlaced
<1>7. CASE f \notin Open
  <2>1. PlacesOf(f, Q) = {}
    BY <1>3, <1>4, <1>6, <1>7
  <2> QED
    BY <1>2, <1>7, <2>1, FS_EmptySet
<1>8. CASE f \in Open
  <2>1. \E p : PlacesOf(f, Q) = {p}
    <3>1. CASE f \in Q
      <4>1. PlacesOf(f, Q) = {"queued"}
        BY <1>3, <1>4, <1>6, <3>1
      <4> QED
        BY <4>1
    <3>2. CASE f \in gaps
      <4>1. PlacesOf(f, Q) = {"in gap"}
        BY <1>3, <1>4, <1>6, <3>2
      <4> QED
        BY <4>1
    <3>3. CASE f \in OnDevices /\ phase[f] = "PREFILL"
      <4>1. PlacesOf(f, Q) = {"entering"}
        BY <1>3, <1>4, <1>6, <3>3
      <4> QED
        BY <4>1
    <3>4. CASE f \in OnDevices /\ phase[f] = "DECODE"
      <4>1. PlacesOf(f, Q) = {"decoding"}
        BY <1>3, <1>4, <1>6, <3>4
      <4> QED
        BY <4>1
    <3> QED
      BY <1>3, <1>4, <1>8, <3>1, <3>2, <3>3, <3>4
  <2>2. Cardinality(PlacesOf(f, Q)) = 1
    BY <2>1, FS_Singleton
  <2> QED
    BY <1>2, <1>8, <2>2
<1> QED
  BY <1>7, <1>8

\* Between two triggers all that is open waits, has tool-time or runs.
LEMMA IdleParts ==
    ASSUME NEW Q, Sound(Q), Idle
    PROVE  /\ Q \cup gaps \cup OnDevices = Open
           /\ Q \cap gaps = {} /\ Q \cap OnDevices = {} /\ gaps \cap OnDevices = {}
           /\ Tasks(stack) = {} /\ Pausing = {} /\ Flight = Open
<1>1. /\ Tasks(stack) = {} /\ OnOffer = {} /\ Pausing = {} /\ Entrants = {} /\ Leavers = {}
      /\ Requeued = {}
  BY EmptyStack DEF Idle
<1> QED
  BY <1>1 DEF Sound, LocatedIn, Partition, Flight

\* Then no work is lost,
LEMMA IdleWork ==
    ASSUME NEW Q, EngineInv, Entering, Sound(Q) PROVE InOnePlace(Q)
<1>1. CASE Idle
  <2>1. /\ Q \cup gaps \cup OnDevices = Open
        /\ Q \cap gaps = {} /\ Q \cap OnDevices = {} /\ gaps \cap OnDevices = {}
    BY <1>1, IdleParts
  <2> QED
    BY <2>1, OnePlaceEach
<1> QED
  BY <1>1 DEF InOnePlace

\* what is believed to run runs,
LEMMA IdleTracks ==
    ASSUME NEW Q, EngineTypeOK, Sound(Q), NEW B, Tracks(B) PROVE BooksMatch(B)
<1> SUFFICES ASSUME Idle
             PROVE  B = {[flow |-> f, step |-> Step(f), dev |-> where[f]] :
                              f \in UNION {BestEffort(d) : d \in Devices}}
  BY DEF BooksMatch
<1>1. Tasks(stack) = {} /\ Pausing = {}
  BY IdleParts
<1>2. UNION {BestEffort(d) : d \in Devices} = OnDevices
  <2>1. \A f \in Flows : where[f] \in 0..NumDevices /\ ~Reserved(f)
    BY DEF EngineTypeOK, Sound, NoGuarantees, Reserved
  <2> QED
    BY <2>1, SizesAssumption DEF BestEffort, Resident, OnDevices, Devices, NoDevice
<1>3. \A v \in Books : v \in B <=> StandsAt(v)
  BY <1>1 DEF Tracks, ComesTo, IsOver
<1>4. ASSUME NEW f \in OnDevices
      PROVE  [flow |-> f, step |-> Step(f), dev |-> where[f]] \in Books
  <2>1. f \in Flows /\ Step(f) \in Nat /\ where[f] \in Devices
    BY SizesAssumption DEF OnDevices, EngineTypeOK, Step, Devices, NoDevice
  <2> QED
    BY <2>1 DEF Books
<1>5. ASSUME NEW v \in B
      PROVE  v \in {[flow |-> f, step |-> Step(f), dev |-> where[f]] : f \in OnDevices}
  <2>1. v \in Books
    BY DEF Tracks
  <2>2. v.flow \in OnDevices /\ v.step = Step(v.flow) /\ v.dev = where[v.flow]
    BY <1>3, <2>1 DEF StandsAt
  <2>3. v = [flow |-> v.flow, step |-> Step(v.flow), dev |-> where[v.flow]]
    BY <2>1, <2>2 DEF Books
  <2> QED
    BY <2>2, <2>3
<1>6. ASSUME NEW f \in OnDevices
      PROVE  [flow |-> f, step |-> Step(f), dev |-> where[f]] \in B
  <2> DEFINE v == [flow |-> f, step |-> Step(f), dev |-> where[f]]
  <2>1. v \in Books /\ v.flow = f /\ v.step = Step(f) /\ v.dev = where[f]
    BY <1>4
  <2> HIDE DEF v
  <2>2. StandsAt(v)
    BY <1>1, <2>1 DEF StandsAt
  <2> QED
    BY <1>3, <2>1, <2>2 DEF v
<1>7. B = {[flow |-> f, step |-> Step(f), dev |-> where[f]] : f \in OnDevices}
  BY <1>5, <1>6
<1> QED
  BY <1>2, <1>7

\* and the flight is what is admitted and not over.
LEMMA IdleFlight ==
    ASSUME NEW Q, EngineTypeOK, Sound(Q), Idle
    PROVE  Flight = {f \in admitted : ~IsComplete(f)}
<1>1. Flight = Open
  BY IdleParts
<1>2. \A f \in admitted : cursor[f] \in Nat /\ Len(Work[f]) \in Nat
  BY WorkType DEF EngineTypeOK
<1> QED
  BY <1>1, <1>2 DEF Open, IsComplete
=============================================================================
