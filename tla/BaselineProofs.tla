---------------------------- MODULE BaselineProofs ----------------------------
(***************************************************************************)
(* A baseline that leaves no eviction unanswered keeps the engine's books: *)
(* under first come first served, a single class, FastServe and MARS every *)
(* admitted flow is in exactly one place and what the policy believes is   *)
(* on its device.  A pass of a policy is a fold over what waits, so what   *)
(* its answer is follows from what each of its steps does (FoldFacts).     *)
(***************************************************************************)
EXTENDS Baselines, EngineProofs

-----------------------------------------------------------------------------
(* Sorting a finite set.                                                   *)

\* `ahead` stands for a strict total order of S.
StrictOrder(S, ahead) ==
    /\ \A x \in S : x \notin ahead[x]
    /\ \A x, y \in S : x = y \/ x \in ahead[y] \/ y \in ahead[x]
    /\ \A x, y, z \in S : x \in ahead[y] /\ y \in ahead[z] => x \in ahead[z]

Ahead(S, ahead, x) == S \cap ahead[x]

\* The rank of an element: every rank is taken once.
LEMMA RankFacts ==
    ASSUME NEW S, IsFiniteSet(S), NEW ahead, StrictOrder(S, ahead)
    PROVE  /\ Cardinality(S) \in Nat
           /\ \A x \in S : Cardinality(Ahead(S, ahead, x)) \in 0..(Cardinality(S) - 1)
           /\ \A x, y \in S : Cardinality(Ahead(S, ahead, x)) =
                              Cardinality(Ahead(S, ahead, y)) => x = y
           /\ \A k \in 0..(Cardinality(S) - 1) :
                  \E x \in S : Cardinality(Ahead(S, ahead, x)) = k
<1> DEFINE n == Cardinality(S)
           rank == [x \in S |-> Cardinality(Ahead(S, ahead, x))]
<1>1. n \in Nat
  BY FS_CardinalityType
<1>2. ASSUME NEW x \in S
      PROVE  IsFiniteSet(Ahead(S, ahead, x)) /\ rank[x] \in Nat
  <2>1. Ahead(S, ahead, x) \in SUBSET S
    BY DEF Ahead
  <2>2. IsFiniteSet(Ahead(S, ahead, x))
    BY <2>1, FS_Subset
  <2> QED
    BY <2>2, FS_CardinalityType
<1>3. ASSUME NEW x \in S PROVE rank[x] \in 0..(n - 1)
  <2>1. Ahead(S, ahead, x) \in SUBSET (S \ {x})
    BY DEF Ahead, StrictOrder
  <2>2. IsFiniteSet(S \ {x}) /\ Cardinality(S \ {x}) = n - 1
    BY FS_RemoveElement
  <2>3. Cardinality(Ahead(S, ahead, x)) <= Cardinality(S \ {x})
    BY <2>1, <2>2, FS_Subset
  <2> QED
    BY <1>1, <1>2, <2>2, <2>3
<1>4. ASSUME NEW x \in S, NEW y \in S, x \in ahead[y] PROVE rank[x] < rank[y]
  <2> DEFINE A == Ahead(S, ahead, x)
             B == Ahead(S, ahead, y)
  <2>1. A \in SUBSET B /\ x \in B /\ x \notin A
    BY <1>4 DEF Ahead, StrictOrder
  <2>2. IsFiniteSet(A) /\ IsFiniteSet(B)
    BY <1>2
  <2> HIDE DEF A, B
  <2>3. Cardinality(A) <= Cardinality(B) /\ Cardinality(A) # Cardinality(B)
    BY <2>1, <2>2, FS_Subset
  <2>4. rank[x] = Cardinality(A) /\ rank[y] = Cardinality(B)
    BY DEF A, B
  <2> QED
    BY <1>2, <2>3, <2>4
<1>5. ASSUME NEW x \in S, NEW y \in S, rank[x] = rank[y] PROVE x = y
  <2>1. x \in ahead[y] => rank[x] < rank[y]
    BY <1>4
  <2>2. y \in ahead[x] => rank[y] < rank[x]
    BY <1>4
  <2>3. rank[x] \in Nat
    BY <1>2
  <2> QED
    BY <1>5, <2>1, <2>2, <2>3 DEF StrictOrder
<1>6. \A k \in 0..(n - 1) : \E x \in S : rank[x] = k
  <2>1. IsFiniteSet(0..(n - 1)) /\ Cardinality(0..(n - 1)) = n
    <3>1. /\ IsFiniteSet(0..(n - 1))
          /\ Cardinality(0..(n - 1)) = IF 0 > n - 1 THEN 0 ELSE (n - 1) - 0 + 1
      BY <1>1, FS_Interval
    <3> QED
      BY <1>1, <3>1
  <2>2. rank \in [S -> 0..(n - 1)]
    BY <1>3
  <2> HIDE DEF rank
  <2>3. rank \in Injection(S, 0..(n - 1))
    BY <1>5, <2>2 DEF Injection, IsInjective
  <2>4. rank \in Surjection(S, 0..(n - 1))
    BY <2>1, <2>3, FS_Injection
  <2> QED
    BY <2>4 DEF Surjection
<1> QED
  BY <1>1, <1>3, <1>5, <1>6

\* Sorted lists every element once.
LEMMA SortedFacts ==
    ASSUME NEW S, IsFiniteSet(S), NEW ahead, StrictOrder(S, ahead)
    PROVE  LET s == Sorted(S, ahead)
           IN  /\ Cardinality(S) \in Nat
               /\ s \in Seq(S) /\ Len(s) = Cardinality(S) /\ DOMAIN s = 1..Len(s)
               /\ \A i, j \in 1..Len(s) : s[i] = s[j] => i = j
               /\ \A x \in S : \E i \in 1..Len(s) : s[i] = x
<1> DEFINE n == Cardinality(S)
           s == Sorted(S, ahead)
           R(x) == Cardinality(Ahead(S, ahead, x))
<1>0. /\ n \in Nat /\ \A x \in S : R(x) \in 0..(n - 1)
      /\ \A x, y \in S : R(x) = R(y) => x = y
      /\ \A k \in 0..(n - 1) : \E x \in S : R(x) = k
  BY RankFacts
<1>1. s = [i \in 1..n |-> CHOOSE x \in S : R(x) = i - 1]
  BY DEF Sorted, Ahead
<1> HIDE DEF R, s
<1>2. ASSUME NEW i \in 1..n PROVE s[i] \in S /\ R(s[i]) = i - 1
  <2>1. i - 1 \in 0..(n - 1)
    BY <1>0
  <2>2. \E x \in S : R(x) = i - 1
    BY <1>0, <2>1
  <2> QED
    BY <1>1, <2>2
<1>3. s \in [1..n -> S]
  BY <1>1, <1>2
<1>4. s \in Seq(S) /\ Len(s) = n /\ DOMAIN s = 1..n
  BY <1>0, <1>3
<1>5. ASSUME NEW i \in 1..n, NEW j \in 1..n, s[i] = s[j] PROVE i = j
  BY <1>0, <1>2, <1>5
<1>6. ASSUME NEW x \in S PROVE \E i \in 1..n : s[i] = x
  <2>1. R(x) + 1 \in 1..n /\ (R(x) + 1) - 1 = R(x)
    BY <1>0
  <2>2. s[R(x) + 1] = x
    BY <1>0, <1>2, <2>1
  <2> QED
    BY <2>1, <2>2
<1> QED
  BY <1>0, <1>4, <1>5, <1>6 DEF s

-----------------------------------------------------------------------------
(* What a pass answers.                                                    *)

\* What a policy believes is running once an answer is given.
RunAfter(run, acts) ==
    {r \in run : ~IsEvictedBy(acts, r)}
        \cup {Placement(t.flow, t.dev) : t \in Scheduled(acts)}

MirrorFields == {"slots", "hbm", "running", "waiting", "aside", "actions", "stopped"}
IsMirror(m) == DOMAIN m = MirrorFields

\* A pass so far: its books agree with its answer.
PassOK(q, run, m) ==
    /\ IsMirror(m)
    /\ AnswerTo(q, run, m.actions)
    /\ m.waiting = q \ Served(m.actions)
    /\ m.running = RunAfter(run, m.actions)

\* What the steps of a pass do to a mirror.
LEMMA BookedFields ==
    ASSUME NEW m, IsMirror(m), NEW f, NEW d
    PROVE  /\ IsMirror(Booked(m, f, d))
           /\ Booked(m, f, d).running = m.running \cup {Placement(f, d)}
           /\ Booked(m, f, d).waiting = m.waiting \ {f}
           /\ Booked(m, f, d).actions =
                  Append(m.actions, TaskOf("Schedule", f, Step(f), d))
BY DEF IsMirror, MirrorFields, Booked

\* An eviction takes one record off the mirror, and says so.
LEMMA EvictedFields ==
    ASSUME NEW m, IsMirror(m), NEW r
    PROVE  /\ IsMirror(Evicted(m, r))
           /\ Evicted(m, r).running = m.running \ {r}
           /\ Evicted(m, r).waiting = m.waiting
           /\ Evicted(m, r).actions =
                  Append(m.actions, TaskOf("Preempt", r.flow, r.step, NoDevice))
BY DEF IsMirror, MirrorFields, Evicted

\* To decline a flow, or to stop, changes none of the books.
LEMMA SameFields ==
    ASSUME NEW m, IsMirror(m), NEW f,
           NEW n, n = [m EXCEPT !.stopped = TRUE] \/ n = Declined(m, f)
    PROVE  /\ IsMirror(n) /\ n.running = m.running
           /\ n.waiting = m.waiting /\ n.actions = m.actions
BY DEF IsMirror, MirrorFields, Declined

\* To decline, or to stop, is to answer as before.
LEMMA SamePass ==
    ASSUME NEW q, NEW run, NEW m, PassOK(q, run, m), NEW f,
           NEW n, n = [m EXCEPT !.stopped = TRUE] \/ n = Declined(m, f)
    PROVE  PassOK(q, run, n) /\ n.actions = m.actions
<1>1. /\ IsMirror(m) /\ AnswerTo(q, run, m.actions)
      /\ m.waiting = q \ Served(m.actions) /\ m.running = RunAfter(run, m.actions)
  BY DEF PassOK
<1>2. IsMirror(n) /\ n.running = m.running /\ n.waiting = m.waiting /\ n.actions = m.actions
  BY <1>1, SameFields
<1>3. /\ AnswerTo(q, run, n.actions)
      /\ n.waiting = q \ Served(n.actions) /\ n.running = RunAfter(run, n.actions)
  BY ONLY <1>1, <1>2
<1> QED
  BY ONLY <1>2, <1>3 DEF PassOK

\* An answer of moves so far, none of which is about f.
NotYet(acts, f) ==
    /\ acts \in Seq(Task) /\ InOrder(acts)
    /\ \A x \in Tasks(acts) : x.op \in Placings /\ x.flow # f

\* One more placement.
LEMMA BookedTasks ==
    ASSUME NEW m, IsMirror(m), NEW f \in Flows, NotYet(m.actions, f),
           Step(f) \in Nat, NEW d \in Devices
    PROVE  LET t == TaskOf("Schedule", f, Step(f), d)
               n == Booked(m, f, d)
           IN  /\ n.actions \in Seq(Task) /\ InOrder(n.actions)
               /\ Tasks(n.actions) = Tasks(m.actions) \cup {t}
               /\ Scheduled(n.actions) = Scheduled(m.actions) \cup {t}
               /\ Served(n.actions) = Served(m.actions) \cup {f}
               /\ t.op = "Schedule" /\ t.flow = f /\ t.step = Step(f) /\ t.dev = d
<1> DEFINE t == TaskOf("Schedule", f, Step(f), d)
           n == Booked(m, f, d)
<1>1. /\ t \in Task /\ t.op = "Schedule" /\ t.flow = f /\ t.step = Step(f) /\ t.dev = d
  <2>1. d \in 0..NumDevices
    BY SizesAssumption DEF Devices
  <2>2. "Schedule" \in (EventOps \ {"Tick"}) \cup ActionOps
    BY DEF EventOps, ActionOps
  <2>3. t \in Task
    BY <2>1, <2>2, TaskOfType
  <2> QED
    BY <2>3 DEF TaskOf
<1>2. n.actions = Append(m.actions, t)
  BY BookedFields
<1> HIDE DEF n, t
<1>3. \A x \in Tasks(m.actions) : MayPrecede(x, t)
  BY <1>1 DEF MayPrecede, Placings, NotYet
<1>4. /\ n.actions \in Seq(Task) /\ InOrder(n.actions)
      /\ Tasks(n.actions) = Tasks(m.actions) \cup {t}
  BY <1>1, <1>2, <1>3, OrderAppend DEF NotYet
<1>5. Scheduled(n.actions) = Scheduled(m.actions) \cup {t}
  BY <1>1, <1>4 DEF Scheduled
<1>6. Served(n.actions) = Served(m.actions) \cup {f}
  BY <1>1, <1>5 DEF Served
<1> QED
  BY <1>1, <1>4, <1>5, <1>6 DEF n, t

\* What an answer so far consists of.
LEMMA AnswerTasks ==
    ASSUME NEW q, NEW run, NEW acts, AnswerTo(q, run, acts), NEW f \in q,
           f \notin Served(acts)
    PROVE  NotYet(acts, f)
BY DEF NotYet, AnswerTo, ToPlace, ToEvict, Placings, Served, Scheduled

\* A mirror with one more placement still agrees with its answer.
LEMMA BookedPass ==
    ASSUME NEW q, q \subseteq Flows, NEW run, NEW m, PassOK(q, run, m),
           \A g \in q : Step(g) \in Nat,
           NEW f \in q, f \notin Served(m.actions), NEW d \in Devices
    PROVE  PassOK(q, run, Booked(m, f, d))
<1> DEFINE t == TaskOf("Schedule", f, Step(f), d)
           n == Booked(m, f, d)
<1>1. /\ IsMirror(n) /\ n.running = m.running \cup {Placement(f, d)}
      /\ n.waiting = m.waiting \ {f}
  BY BookedFields DEF PassOK
<1>2. /\ n.actions \in Seq(Task) /\ InOrder(n.actions)
      /\ Tasks(n.actions) = Tasks(m.actions) \cup {t}
      /\ Scheduled(n.actions) = Scheduled(m.actions) \cup {t}
      /\ Served(n.actions) = Served(m.actions) \cup {f}
      /\ t.op = "Schedule" /\ t.flow = f /\ t.step = Step(f) /\ t.dev = d
  <2>1. NotYet(m.actions, f)
    BY AnswerTasks DEF PassOK
  <2>2. IsMirror(m) /\ f \in Flows /\ Step(f) \in Nat
    BY DEF PassOK
  <2> QED
    BY ONLY <2>1, <2>2, d \in Devices, BookedTasks, SMTT(30)
<1> HIDE DEF n, t
<1>3. \A r : IsEvictedBy(n.actions, r) <=> IsEvictedBy(m.actions, r)
  BY <1>2 DEF IsEvictedBy
<1>4. n.running = RunAfter(run, n.actions)
  BY <1>1, <1>2, <1>3 DEF PassOK, RunAfter
<1>5. ToPlace(q, t)
  BY <1>2 DEF ToPlace
<1>6. AnswerTo(q, run, n.actions)
  BY <1>2, <1>5 DEF AnswerTo, PassOK
<1>7. n.waiting = q \ Served(n.actions)
  BY <1>1, <1>2 DEF PassOK
<1> QED
  BY <1>1, <1>4, <1>6, <1>7 DEF PassOK, n

\* One more eviction, before any placement.
Evictable(q, run, m, r) ==
    /\ q \subseteq Flows /\ run \subseteq Books
    /\ \A g, v \in run : g.flow = v.flow => g = v
    /\ PassOK(q, run, m) /\ Scheduled(m.actions) = {}
    /\ r \in run /\ r.flow \notin q
    /\ \A t \in Tasks(m.actions) : t.flow # r.flow

\* So does one with one more eviction.
LEMMA EvictedPass ==
    ASSUME NEW q, NEW run, NEW m, NEW r, Evictable(q, run, m, r)
    PROVE  /\ PassOK(q, run, Evicted(m, r))
           /\ Scheduled(Evicted(m, r).actions) = {}
           /\ \A t \in Tasks(Evicted(m, r).actions) :
                  t \in Tasks(m.actions) \/ t.flow = r.flow
           /\ Evicted(m, r).running = m.running \ {r}
<1> USE DEF Evictable
<1> DEFINE t == TaskOf("Preempt", r.flow, r.step, NoDevice)
           n == Evicted(m, r)
<1>0. r.flow \in Flows /\ r.step \in Nat
  BY DEF Books
<1>1. /\ t \in Task /\ t.op = "Preempt" /\ t.flow = r.flow /\ t.step = r.step
  <2>1. NoDevice \in 0..NumDevices
    BY SizesAssumption DEF NoDevice
  <2>2. "Preempt" \in (EventOps \ {"Tick"}) \cup ActionOps
    BY DEF EventOps, ActionOps
  <2>3. t \in Task
    BY <1>0, <2>1, <2>2, TaskOfType
  <2> QED
    BY <2>3 DEF TaskOf
<1>2. /\ IsMirror(n) /\ n.running = m.running \ {r}
      /\ n.waiting = m.waiting /\ n.actions = Append(m.actions, t)
  BY EvictedFields DEF PassOK
<1> HIDE DEF n, t
<1>3. \A x \in Tasks(m.actions) : MayPrecede(x, t)
  BY <1>1 DEF PassOK, AnswerTo, ToPlace, ToEvict, MayPrecede, Placings
<1>4. /\ n.actions \in Seq(Task) /\ InOrder(n.actions)
      /\ Tasks(n.actions) = Tasks(m.actions) \cup {t}
  BY <1>1, <1>2, <1>3, OrderAppend DEF PassOK, AnswerTo
<1>5. Scheduled(n.actions) = {}
  BY <1>1, <1>4 DEF Scheduled
<1>6. Served(n.actions) = Served(m.actions)
  BY <1>5 DEF Served
<1>7. \A v \in run : IsEvictedBy(n.actions, v) <=> IsEvictedBy(m.actions, v) \/ v = r
  BY <1>1, <1>4 DEF IsEvictedBy
<1>8. n.running = RunAfter(run, n.actions)
  BY <1>2, <1>5, <1>7 DEF PassOK, RunAfter
<1>9. ToEvict(q, run, t)
  BY <1>0, <1>1 DEF ToEvict
<1>10. AnswerTo(q, run, n.actions)
  BY <1>4, <1>9 DEF AnswerTo, PassOK
<1> QED
  BY <1>1, <1>2, <1>4, <1>5, <1>6, <1>8, <1>10 DEF PassOK, n

\* The first device that has room is one.
LEMMA FoundDevice ==
    ASSUME NEW m, NEW f PROVE FindDevice(m, f) \in Devices \cup {NoDevice}
<1> DEFINE fits == {d \in Devices : m.slots[d] > 0 /\ m.hbm[d] >= NextKv(f)}
<1>1. fits # {} => Least(fits) \in fits
  <2>1. fits \in SUBSET Nat
    BY DEF Devices
  <2> QED
    BY <2>1, LeastProperty
<1> QED
  BY <1>1 DEF FindDevice

-----------------------------------------------------------------------------
(* Passes as folds.                                                        *)

\* The step of a pass that places where there is room, while there is a free
\* slot; of one below a window; of one among equals; and of evictions.
PlaceFirst(m, f) == LET d == FindDevice(m, f)
                    IN IF d = NoDevice THEN Declined(m, f) ELSE Booked(m, f, d)
SlotStep(p, x, f) ==
    {IF r.stopped \/ ~AnySlot(r) THEN [r EXCEPT !.stopped = TRUE]
                                 ELSE PlaceFirst(r, f) : r \in x}
EqualsStep(p, x, f) ==
    {IF r.stopped \/ ~OneClass!HasCapacity(r, f)
     THEN [r EXCEPT !.stopped = TRUE] ELSE OneClass!TryPlace(r, f) : r \in x}
EvictStep(p, x, r) == Evicted(x, r)

\* After the first i flows of p.order: only they were placed, from mirrors that
\* agree with their answers.
FillGood(p, x, i) ==
    \A m \in x : /\ PassOK(p.waiting, p.running, m)
                 /\ \A f \in Served(m.actions) : \E j \in 1..i : p.order[j] = f
                 /\ p.quiet => \A t \in Tasks(m.actions) : t.op # "Preempt"
\* After the first i victims of p.order: only they were evicted.
EvictGood(p, x, i) ==
    /\ PassOK(p.waiting, p.running, x)
    /\ Scheduled(x.actions) = {}
    /\ \A t \in Tasks(x.actions) : \E j \in 1..i : p.order[j].flow = t.flow
    /\ x.running = p.running \ {p.order[j] : j \in 1..i}

SlotPass == INSTANCE FoldFacts WITH Op <- SlotStep, Good <- FillGood
EqualsPass == INSTANCE FoldFacts WITH Op <- EqualsStep, Good <- FillGood
Eviction == INSTANCE FoldFacts WITH Op <- EvictStep, Good <- EvictGood

\* A pass is given the flows of the queue, each once.
FillOrder(p) ==
    /\ p.waiting \subseteq Flows
    /\ \A f \in p.waiting : Step(f) \in Nat
    /\ Len(p.order) \in Nat /\ DOMAIN p.order = 1..Len(p.order)
    /\ \A i \in 1..Len(p.order) : p.order[i] \in p.waiting
    /\ \A i, j \in 1..Len(p.order) : p.order[i] = p.order[j] => i = j

\* One step of a pass that places at most the flow it examines.
LEMMA FillStep ==
    ASSUME NEW p, FillOrder(p), NEW i \in 1..Len(p.order), NEW x,
           FillGood(p, x, i - 1), NEW y,
           \A n \in y : \E m \in x :
               \/ n = [m EXCEPT !.stopped = TRUE] \/ n = Declined(m, p.order[i])
               \/ \E d \in Devices : n = Booked(m, p.order[i], d)
    PROVE  FillGood(p, y, i)
<1> SUFFICES ASSUME NEW n \in y
             PROVE  /\ PassOK(p.waiting, p.running, n)
                    /\ \A f \in Served(n.actions) : \E j \in 1..i : p.order[j] = f
                    /\ p.quiet => \A t \in Tasks(n.actions) : t.op # "Preempt"
  BY DEF FillGood
<1> DEFINE f == p.order[i]
<1>1. PICK m \in x : \/ n = [m EXCEPT !.stopped = TRUE] \/ n = Declined(m, f)
                     \/ \E d \in Devices : n = Booked(m, f, d)
  OBVIOUS
<1>2. /\ PassOK(p.waiting, p.running, m)
      /\ \A g \in Served(m.actions) : \E j \in 1..(i - 1) : p.order[j] = g
      /\ p.quiet => \A t \in Tasks(m.actions) : t.op # "Preempt"
  BY DEF FillGood
<1>3. /\ f \in p.waiting /\ p.waiting \subseteq Flows /\ i \in Nat
      /\ \A g \in p.waiting : Step(g) \in Nat
      /\ \A j \in 1..(i - 1) : j \in 1..i /\ j # i /\ j \in 1..Len(p.order)
      /\ i \in 1..i
  BY DEF FillOrder
<1>4. f \notin Served(m.actions)
  BY <1>2, <1>3 DEF FillOrder
<1>5. CASE n = [m EXCEPT !.stopped = TRUE] \/ n = Declined(m, f)
  <2>1. PassOK(p.waiting, p.running, n) /\ n.actions = m.actions
    <3> HIDE DEF f
    <3> QED
      BY ONLY <1>2, <1>5, SamePass
  <2> QED
    BY <1>2, <1>3, <2>1
<1>6. CASE \E d \in Devices : n = Booked(m, f, d)
  <2>1. PICK d \in Devices : n = Booked(m, f, d)
    BY <1>6
  <2>2. PassOK(p.waiting, p.running, Booked(m, f, d))
    BY <1>2, <1>3, <1>4, BookedPass
  <2>3. Served(n.actions) = Served(m.actions) \cup {f}
        /\ Tasks(n.actions) = Tasks(m.actions) \cup {TaskOf("Schedule", f, Step(f), d)}
    <3>1. NotYet(m.actions, f)
      BY <1>2, <1>3, <1>4, AnswerTasks DEF PassOK
    <3>2. IsMirror(m) /\ f \in Flows /\ Step(f) \in Nat
      BY <1>2, <1>3 DEF PassOK
    <3> HIDE DEF f
    <3>3. /\ Served(Booked(m, f, d).actions) = Served(m.actions) \cup {f}
          /\ Tasks(Booked(m, f, d).actions) =
                 Tasks(m.actions) \cup {TaskOf("Schedule", f, Step(f), d)}
      BY ONLY <3>1, <3>2, d \in Devices, BookedTasks, SMTT(30)
    <3> QED
      BY ONLY <2>1, <3>3, Zenon
  <2>4. p.quiet => \A t \in Tasks(n.actions) : t.op # "Preempt"
    BY <1>2, <2>3 DEF TaskOf
  <2>5. PassOK(p.waiting, p.running, n)
    BY <2>1, <2>2, Zenon
  <2> QED
    BY <1>2, <1>3, <2>3, <2>4, <2>5
<1> QED
  BY <1>1, <1>5, <1>6

\* What PlaceFirst may do.
LEMMA PlacedSomewhere ==
    ASSUME NEW m, NEW f
    PROVE  \/ PlaceFirst(m, f) = Declined(m, f)
           \/ \E d \in Devices : PlaceFirst(m, f) = Booked(m, f, d)
BY FoundDevice DEF PlaceFirst

\* Among equals nobody can be evicted, so a step is one of first come first
\* served.
LEMMA EqualsAsSlot ==
    ASSUME NEW m, NEW f \in Flows, \A r \in m.running : r.flow \in Flows
    PROVE  /\ OneClass!TryPlace(m, f) = PlaceFirst(m, f)
           /\ OneClass!HasCapacity(m, f) <=> AnySlot(m)
<1>1. OneClass!Candidates(m, f) = {}
  BY DEF OneClass!Candidates
<1>2. OneClass!FindDevice(m, f) = FindDevice(m, f) /\ OneClass!NoDevice = NoDevice
  BY DEF OneClass!FindDevice, FindDevice, OneClass!Devices, Devices,
     OneClass!NextKv, NextKv, OneClass!NoDevice, NoDevice, OneClass!Least,
     Least, OneClass!Kv, Kv, OneClass!Step, Step
<1>3. \A e : OneClass!Booked(m, f, e) = Booked(m, f, e)
  BY DEF OneClass!Booked, Booked, OneClass!NextKv, NextKv, OneClass!Kv, Kv,
     OneClass!Step, Step, OneClass!Placement, Placement, OneClass!TaskOf,
     TaskOf
<1>4. OneClass!Declined(m, f) = Declined(m, f)
  BY DEF OneClass!Declined, Declined
<1>5. OneClass!TryPlace(m, f) = PlaceFirst(m, f)
  BY <1>1, <1>2, <1>3, <1>4 DEF OneClass!TryPlace, PlaceFirst
<1>6. OneClass!HasCapacity(m, f) <=> AnySlot(m)
  BY <1>1 DEF OneClass!HasCapacity, OneClass!AnySlot, AnySlot, OneClass!Devices, Devices
<1> QED
  BY <1>5, <1>6

\* A pass while there is a free slot.
LEMMA SlotFill ==
    ASSUME NEW p, FillOrder(p), NEW x, FillGood(p, x, 0)
    PROVE  FillGood(p, SlotPass!Fold(p, x, p.order), Len(p.order))
<1>1. ASSUME NEW i \in 1..Len(p.order), NEW y, FillGood(p, y, i - 1)
      PROVE  FillGood(p, SlotStep(p, y, p.order[i]), i)
  <2>1. \A n \in SlotStep(p, y, p.order[i]) : \E m \in y :
            \/ n = [m EXCEPT !.stopped = TRUE] \/ n = Declined(m, p.order[i])
            \/ \E d \in Devices : n = Booked(m, p.order[i], d)
    BY PlacedSomewhere DEF SlotStep
  <2> QED
    BY <1>1, <2>1, FillStep
<1> QED
  BY <1>1, SlotPass!FoldKeeps DEF FillOrder

\* What runs in a mirror of a pass are flows.
LEMMA RunningFlows ==
    ASSUME NEW p, FillOrder(p), \A r \in p.running : r.flow \in Flows,
           NEW m, PassOK(p.waiting, p.running, m)
    PROVE  \A r \in m.running : r.flow \in Flows
<1>1. m.running = RunAfter(p.running, m.actions) /\ AnswerTo(p.waiting, p.running, m.actions)
  BY DEF PassOK
<1> SUFFICES ASSUME NEW r \in m.running, r \notin p.running PROVE r.flow \in Flows
  OBVIOUS
<1>2. PICK t \in Tasks(m.actions) : t.op = "Schedule" /\ r = Placement(t.flow, t.dev)
  BY <1>1 DEF RunAfter, Scheduled
<1>3. t.flow \in p.waiting
  BY <1>1, <1>2 DEF AnswerTo, ToPlace, ToEvict
<1> QED
  BY <1>2, <1>3 DEF Placement, FillOrder

\* A step of a pass among equals,
LEMMA EqualsGood ==
    ASSUME NEW p, FillOrder(p), \A r \in p.running : r.flow \in Flows,
           NEW i \in 1..Len(p.order), NEW y, FillGood(p, y, i - 1)
    PROVE  FillGood(p, EqualsStep(p, y, p.order[i]), i)
<1> DEFINE f == p.order[i]
<1>1. f \in Flows
  BY DEF FillOrder
<1>2. ASSUME NEW m \in y
      PROVE  \/ OneClass!TryPlace(m, f) = Declined(m, f)
             \/ \E d \in Devices : OneClass!TryPlace(m, f) = Booked(m, f, d)
  <2>1. PassOK(p.waiting, p.running, m)
    BY DEF FillGood
  <2>2. \A r \in m.running : r.flow \in Flows
    BY <2>1, RunningFlows
  <2> HIDE DEF f
  <2> QED
    BY <1>1, <2>2, EqualsAsSlot, PlacedSomewhere
<1> HIDE DEF f
<1>3. \A n \in EqualsStep(p, y, f) : \E m \in y :
          \/ n = [m EXCEPT !.stopped = TRUE] \/ n = Declined(m, f)
          \/ \E d \in Devices : n = Booked(m, f, d)
  BY <1>2 DEF EqualsStep
<1>4. \A n \in EqualsStep(p, y, p.order[i]) : \E m \in y :
          \/ n = [m EXCEPT !.stopped = TRUE] \/ n = Declined(m, p.order[i])
          \/ \E d \in Devices : n = Booked(m, p.order[i], d)
  BY <1>3 DEF f
<1> QED
  BY <1>4, FillStep

\* and the pass.
LEMMA EqualsFill ==
    ASSUME NEW p, FillOrder(p), \A r \in p.running : r.flow \in Flows,
           NEW x, FillGood(p, x, 0)
    PROVE  FillGood(p, EqualsPass!Fold(p, x, p.order), Len(p.order))
<1>1. ASSUME NEW i \in 1..Len(p.order), NEW y, FillGood(p, y, i - 1)
      PROVE  FillGood(p, EqualsStep(p, y, p.order[i]), i)
  BY <1>1, EqualsGood
<1> QED
  BY <1>1, EqualsPass!FoldKeeps DEF FillOrder

\* One more element, counted.
LEMMA OneMore ==
    ASSUME NEW S, IsFiniteSet(S), NEW e
    PROVE  /\ IsFiniteSet(S \cup {e}) /\ Cardinality(S) \in Nat
           /\ Cardinality(S \cup {e}) \in Nat
           /\ Cardinality(S \cup {e}) <= Cardinality(S) + 1
<1>1. IsFiniteSet(S \cup {e}) /\ Cardinality(S \cup {e}) =
          IF e \in S THEN Cardinality(S) ELSE Cardinality(S) + 1
  BY FS_AddElement
<1>2. Cardinality(S) \in Nat
  BY FS_CardinalityType
<1> QED
  BY <1>1, <1>2

\* A pass evicts residents of the books, each once.
EvictOrder(p) ==
    /\ p.waiting \subseteq Flows /\ p.running \subseteq Books
    /\ \A r, v \in p.running : r.flow = v.flow => r = v
    /\ \A r \in p.running : r.flow \notin p.waiting
    /\ Len(p.order) \in Nat /\ DOMAIN p.order = 1..Len(p.order)
    /\ \A i \in 1..Len(p.order) : p.order[i] \in p.running
    /\ \A i, j \in 1..Len(p.order) : p.order[i] = p.order[j] => i = j

\* After a fold of evictions exactly the victims are gone.
LEMMA EvictAll ==
    ASSUME NEW p, EvictOrder(p), NEW x, EvictGood(p, x, 0)
    PROVE  EvictGood(p, Eviction!Fold(p, x, p.order), Len(p.order))
<1>1. ASSUME NEW i \in 1..Len(p.order), NEW m, EvictGood(p, m, i - 1)
      PROVE  EvictGood(p, EvictStep(p, m, p.order[i]), i)
  <2> DEFINE r == p.order[i]
  <2>1. /\ r \in p.running /\ i \in Nat /\ i \in 1..i
        /\ \A j \in 1..(i - 1) : j \in 1..i /\ j \in 1..Len(p.order) /\ j # i
        /\ \A j \in 1..i : j \in 1..(i - 1) \/ j = i
    BY DEF EvictOrder
  <2>2. \A t \in Tasks(m.actions) : t.flow # r.flow
    <3> SUFFICES ASSUME NEW t \in Tasks(m.actions), t.flow = r.flow PROVE FALSE
      OBVIOUS
    <3>1. PICK j \in 1..(i - 1) : p.order[j].flow = t.flow
      BY <1>1 DEF EvictGood
    <3>2. p.order[j] \in p.running /\ p.order[j] = r
      BY <2>1, <3>1 DEF EvictOrder
    <3> QED
      BY <2>1, <3>2 DEF EvictOrder
  <2> DEFINE q == p.waiting
             run == p.running
  <2>3. Evictable(q, run, m, r)
    BY <1>1, <2>1, <2>2 DEF Evictable, EvictGood, EvictOrder
  <2> HIDE DEF r, q, run
  <2>4. /\ PassOK(q, run, Evicted(m, r))
        /\ Scheduled(Evicted(m, r).actions) = {}
        /\ \A t \in Tasks(Evicted(m, r).actions) :
               t \in Tasks(m.actions) \/ t.flow = r.flow
        /\ Evicted(m, r).running = m.running \ {r}
    BY ONLY <2>3, EvictedPass
  <2>5. ASSUME NEW t \in Tasks(Evicted(m, r).actions)
        PROVE  \E j \in 1..i : p.order[j].flow = t.flow
    BY <1>1, <2>1, <2>4 DEF EvictGood, r
  <2>6. Evicted(m, r).running = p.running \ {p.order[j] : j \in 1..i}
    <3>1. m.running = p.running \ {p.order[j] : j \in 1..(i - 1)}
      BY <1>1 DEF EvictGood
    <3>2. {p.order[j] : j \in 1..i} = {p.order[j] : j \in 1..(i - 1)} \cup {r}
      BY <2>1 DEF r
    <3> QED
      BY <2>4, <3>1, <3>2
  <2> QED
    BY <2>4, <2>5, <2>6 DEF EvictGood, EvictStep, r, q, run
<1> QED
  BY <1>1, Eviction!FoldKeeps DEF EvictOrder

-----------------------------------------------------------------------------
(* Books kept as a sequence.                                               *)

Distinct(s) == \A i, j \in 1..Len(s) : s[i] = s[j] => i = j
\* A list of the members of S, each once.
ListOf(s, S) ==
    /\ s \in Seq(S) /\ DOMAIN s = 1..Len(s) /\ Len(s) \in Nat
    /\ Tasks(s) = S /\ Distinct(s)

\* Nothing is listed by the empty sequence.
LEMMA ListEmpty == ListOf(<<>>, {})
BY DEF ListOf, Tasks, Distinct

\* A list grows by what it did not contain.
LEMMA ListAppend ==
    ASSUME NEW S, NEW s, ListOf(s, S), NEW e, e \notin S
    PROVE  ListOf(Append(s, e), S \cup {e})
<1> DEFINE t == Append(s, e)
           n == Len(s)
<1>1. /\ n \in Nat /\ s \in Seq(S \cup {e}) /\ t \in Seq(S \cup {e})
      /\ Len(t) = n + 1 /\ DOMAIN t = 1..(n + 1)
      /\ t[n + 1] = e /\ \A i \in 1..n : t[i] = s[i]
  BY DEF ListOf
<1> HIDE DEF t, n
<1>2. \A i \in 1..(n + 1) : i \in 1..n \/ i = n + 1
  BY <1>1
<1>3. n + 1 \in 1..(n + 1) /\ \A i \in 1..n : i \in 1..(n + 1)
  BY <1>1
<1>4. \A i \in 1..n : s[i] \in S
  BY DEF ListOf, n
<1>5. Tasks(t) = S \cup {e}
  BY <1>1, <1>2, <1>3 DEF Tasks, ListOf, n
<1>6. Distinct(t)
  BY <1>1, <1>2, <1>4 DEF Distinct, ListOf, n
<1>7. Len(t) \in Nat
  BY <1>1
<1> QED
  BY <1>1, <1>5, <1>6, <1>7 DEF ListOf, t

KeepStep(p, x, e) == IF e \in p.set THEN Append(x, e) ELSE x
KeepGood(p, x, i) == ListOf(x, {p.order[j] : j \in 1..i} \cap p.set)
Keeping == INSTANCE FoldFacts WITH Op <- KeepStep, Good <- KeepGood

\* To filter a list by a set lists what of it is in the set.
LEMMA KeepAll ==
    ASSUME NEW p, NEW S, ListOf(p.order, S)
    PROVE  ListOf(Keeping!Fold(p, <<>>, p.order), S \cap p.set)
<1> DEFINE n == Len(p.order)
<1>0. DOMAIN p.order = 1..n /\ n \in Nat
  BY DEF ListOf
<1>1. KeepGood(p, <<>>, 0)
  <2>1. {p.order[j] : j \in 1..0} \cap p.set = {}
    OBVIOUS
  <2> QED
    BY <2>1, ListEmpty DEF KeepGood
<1>2. ASSUME NEW i \in 1..n, NEW x, KeepGood(p, x, i - 1)
      PROVE  KeepGood(p, KeepStep(p, x, p.order[i]), i)
  <2> DEFINE e == p.order[i]
             K == {p.order[j] : j \in 1..(i - 1)} \cap p.set
  <2>1. {p.order[j] : j \in 1..i} = {p.order[j] : j \in 1..(i - 1)} \cup {e}
    <3>1. \A j \in 1..i : j \in 1..(i - 1) \/ j = i
      OBVIOUS
    <3>2. i \in 1..i /\ \A j \in 1..(i - 1) : j \in 1..i
      OBVIOUS
    <3> QED
      BY <3>1, <3>2
  <2>2. e \notin {p.order[j] : j \in 1..(i - 1)}
    BY <1>0 DEF ListOf, Distinct
  <2>3. ListOf(x, K)
    BY <1>2 DEF KeepGood
  <2>4. CASE e \in p.set
    <3>1. ListOf(Append(x, e), K \cup {e})
      BY <2>2, <2>3, ListAppend
    <3>2. K \cup {e} = {p.order[j] : j \in 1..i} \cap p.set
      BY <2>1, <2>4
    <3> QED
      BY <2>4, <3>1, <3>2 DEF KeepGood, KeepStep
  <2>5. CASE e \notin p.set
    <3>1. K = {p.order[j] : j \in 1..i} \cap p.set
      BY <2>1, <2>5
    <3> QED
      BY <2>3, <2>5, <3>1 DEF KeepGood, KeepStep
  <2> QED
    BY <2>4, <2>5
<1> HIDE DEF n
<1>3. KeepGood(p, Keeping!Fold(p, <<>>, p.order), n)
  BY <1>0, <1>1, <1>2, Keeping!FoldKeeps
<1>4. {p.order[j] : j \in 1..n} = S
  BY DEF ListOf, Tasks, n
<1> QED
  BY <1>3, <1>4 DEF KeepGood

\* The members of S listed by s, each once.
Listing(s, S) ==
    /\ Len(s) \in Nat /\ DOMAIN s = 1..Len(s)
    /\ \A i \in 1..Len(s) : s[i] \in S
    /\ \A i, j \in 1..Len(s) : s[i] = s[j] => i = j

\* Sorting a finite set lists each of its elements once.
LEMMA SortedListing ==
    ASSUME NEW S, IsFiniteSet(S), NEW ahead, StrictOrder(S, ahead)
    PROVE  Listing(Sorted(S, ahead), S)
<1> DEFINE s == Sorted(S, ahead)
<1>1. /\ Cardinality(S) \in Nat
      /\ s \in Seq(S) /\ Len(s) = Cardinality(S) /\ DOMAIN s = 1..Len(s)
      /\ \A i, j \in 1..Len(s) : s[i] = s[j] => i = j
  BY SortedFacts
<1> HIDE DEF s
<1>2. \A i \in 1..Len(s) : s[i] \in S
  BY <1>1
<1>3. Listing(s, S)
  BY <1>1, <1>2 DEF Listing
<1> QED
  BY <1>3 DEF s

\* What is examined of a listing is one.
LEMMA ExaminedListing ==
    ASSUME NEW S, NEW s, Listing(s, S), s \in Seq(S)
    PROVE  Listing(Examined(s), S)
<1> DEFINE n == IF Len(s) < ScanBudget THEN Len(s) ELSE ScanBudget
           e == SubSeq(s, 1, n)
<1>1. n \in Nat /\ n <= Len(s) /\ Len(s) \in Nat
  BY ScanAssumption DEF Listing
<1> HIDE DEF n
<1>2. Len(e) = n /\ DOMAIN e = 1..n /\ \A i \in 1..n : e[i] = s[i]
  BY <1>1
<1> HIDE DEF e
<1>3. Listing(e, S)
  BY <1>1, <1>2 DEF Listing
<1>4. Examined(s) = e
  BY DEF Examined, e, n
<1> QED
  BY <1>3, <1>4

\* So does a pass, which examines what is sorted in its order.
LEMMA SortedExamined ==
    ASSUME NEW S, IsFiniteSet(S), NEW ahead, StrictOrder(S, ahead)
    PROVE  Listing(Examined(Sorted(S, ahead)), S)
<1>1. Sorted(S, ahead) \in Seq(S)
  BY SortedFacts
<1> QED
  BY <1>1, SortedListing, ExaminedListing

\* A set of flows is finite, and the order of flows is one.
LEMMA FlowsFinite == ASSUME NEW S \in SUBSET Flows PROVE IsFiniteSet(S)
<1>1. IsFiniteSet(1..NumFlows)
  BY FS_Interval, SizesAssumption
<1>2. S \in SUBSET (1..NumFlows)
  BY DEF Flows
<1> QED
  BY <1>1, <1>2, FS_Subset

\* The order of arrival is a strict order of any flows.
LEMMA FlowOrder ==
    ASSUME NEW q \in SUBSET Flows PROVE StrictOrder(q, EarlierFlows)
<1>1. \A f \in q : f \in Nat /\ f >= 1 /\ EarlierFlows[f] = 1..(f - 1)
  BY DEF Flows, EarlierFlows
<1>2. \A f, g \in q : f \in EarlierFlows[g] <=> f < g
  BY <1>1
<1> QED
  BY <1>1, <1>2 DEF StrictOrder

\* An order by rank, and by flow among equals.
LEMMA RankedOrder ==
    ASSUME NEW q \in SUBSET Flows, NEW rank \in [Flows -> Nat]
    PROVE  StrictOrder(q, [f \in q |-> {g \in q :
               rank[g] < rank[f] \/ (rank[g] = rank[f] /\ g < f)}])
<1> DEFINE ahead == [f \in q |-> {g \in q :
               rank[g] < rank[f] \/ (rank[g] = rank[f] /\ g < f)}]
<1>1. \A f \in q : f \in Nat /\ rank[f] \in Nat
  BY DEF Flows
<1>2. \A f, g \in q : g \in ahead[f] <=>
           rank[g] < rank[f] \/ (rank[g] = rank[f] /\ g < f)
  OBVIOUS
<1> HIDE DEF ahead
<1>3. StrictOrder(q, ahead)
  BY <1>1, <1>2 DEF StrictOrder
<1> QED
  BY <1>3 DEF ahead

\* A pass is given a listing of the flows that wait.
LEMMA ListedFill ==
    ASSUME NEW p, p.waiting \subseteq Flows, \A f \in Flows : Step(f) \in Nat,
           Listing(p.order, p.waiting)
    PROVE  FillOrder(p)
BY DEF FillOrder, Listing

-----------------------------------------------------------------------------
(* Books after a pass, kept as a sequence.                                 *)

\* The placements among the first i actions.
NotedBy(acts, i) ==
    {Placement(acts[j].flow, acts[j].dev) :
        j \in {k \in 1..i : acts[k].op = "Schedule"}}
NoteStep(p, x, a) ==
    IF a.op = "Schedule" THEN Append(x, Placement(a.flow, a.dev)) ELSE x
NoteGood(p, x, i) == ListOf(x, p.kept \cup NotedBy(p.order, i))
Noting == INSTANCE FoldFacts WITH Op <- NoteStep, Good <- NoteGood

\* Nothing that is kept is placed, and no flow is placed twice.
NoteOrder(p) ==
    /\ p.order \in Seq(Task) /\ InOrder(p.order)
    /\ \A i \in 1..Len(p.order) : p.order[i].op = "Schedule" =>
           Placement(p.order[i].flow, p.order[i].dev) \notin p.kept

\* To note the placements of an answer lists what it placed, after what was kept.
LEMMA NoteAll ==
    ASSUME NEW p, NoteOrder(p), NEW s, ListOf(s, p.kept)
    PROVE  ListOf(Noting!Fold(p, s, p.order),
                  p.kept \cup {Placement(t.flow, t.dev) : t \in Scheduled(p.order)})
<1> DEFINE n == Len(p.order)
<1>0. n \in Nat /\ DOMAIN p.order = 1..n
  BY DEF NoteOrder
<1>1. NoteGood(p, s, 0)
  <2>1. NotedBy(p.order, 0) = {}
    BY DEF NotedBy
  <2>2. p.kept \cup {} = p.kept
    OBVIOUS
  <2> QED
    BY <2>1, <2>2 DEF NoteGood
<1>2. ASSUME NEW i \in 1..n, NEW x, NoteGood(p, x, i - 1)
      PROVE  NoteGood(p, NoteStep(p, x, p.order[i]), i)
  <2> DEFINE a == p.order[i]
             e == Placement(a.flow, a.dev)
             K == p.kept \cup NotedBy(p.order, i - 1)
  <2>0. i \in 1..i /\ (\A j \in 1..(i - 1) : j \in 1..i /\ j \in 1..n /\ j < i)
        /\ \A j \in 1..i : j \in 1..(i - 1) \/ j = i
    BY <1>0
  <2>1. ListOf(x, K)
    BY <1>2 DEF NoteGood
  <2>2. CASE a.op = "Schedule"
    <3>1. NotedBy(p.order, i) = NotedBy(p.order, i - 1) \cup {e}
      BY <2>0, <2>2 DEF NotedBy
    <3>2. e \notin NotedBy(p.order, i - 1)
      <4> SUFFICES ASSUME NEW j \in 1..(i - 1), p.order[j].op = "Schedule",
                          e = Placement(p.order[j].flow, p.order[j].dev)
                   PROVE  FALSE
        BY DEF NotedBy
      <4>1. MayPrecede(p.order[j], p.order[i])
        BY <2>0 DEF NoteOrder, InOrder
      <4>2. p.order[j].flow # a.flow
        BY <2>2, <4>1 DEF MayPrecede, Moves
      <4> QED
        BY <4>2 DEF Placement
    <3>3. e \notin K
      BY <2>2, <3>2 DEF NoteOrder
    <3> HIDE DEF e, K
    <3>4. ListOf(Append(x, e), K \cup {e})
      BY <2>1, <3>3, ListAppend
    <3>5. K \cup {e} = p.kept \cup NotedBy(p.order, i)
      BY <3>1 DEF K
    <3>6. NoteStep(p, x, a) = Append(x, e)
      BY <2>2 DEF NoteStep, e
    <3> QED
      BY <3>4, <3>5, <3>6 DEF NoteGood
  <2>3. CASE a.op # "Schedule"
    <3>1. NotedBy(p.order, i) = NotedBy(p.order, i - 1)
      BY <2>0, <2>3 DEF NotedBy
    <3> QED
      BY <1>2, <2>3, <3>1 DEF NoteGood, NoteStep
  <2> QED
    BY <2>2, <2>3
<1> HIDE DEF n
<1>3. NoteGood(p, Noting!Fold(p, s, p.order), n)
  BY <1>0, <1>1, <1>2, Noting!FoldKeeps DEF n
<1>4. NotedBy(p.order, n) = {Placement(t.flow, t.dev) : t \in Scheduled(p.order)}
  BY DEF NotedBy, Scheduled, Tasks, n
<1> QED
  BY <1>3, <1>4 DEF NoteGood

\* Nothing has been answered yet.
PassStart(q, run, m) ==
    /\ IsMirror(m) /\ m.running = run /\ m.waiting = q /\ m.actions = <<>>
\* Placements are to come; there are only placements if `quiet`.
BeforeFill(p, m) ==
    /\ PassOK(p.waiting, p.running, m) /\ Scheduled(m.actions) = {}
    /\ p.quiet => \A t \in Tasks(m.actions) : t.op # "Preempt"
AfterFill(p, m) ==
    /\ PassOK(p.waiting, p.running, m)
    /\ p.quiet => \A t \in Tasks(m.actions) : t.op # "Preempt"

\* A mirror of the books is fit for a pass,
LEMMA StartBefore ==
    ASSUME NEW p, NEW m, PassStart(p.waiting, p.running, m) PROVE BeforeFill(p, m)
<1>1. Tasks(<<>>) = {} /\ InOrder(<<>>) /\ <<>> \in Seq(Task)
  BY TasksParts, OrderNew
<1>2. Scheduled(<<>>) = {} /\ Served(<<>>) = {} /\ RunAfter(p.running, <<>>) = p.running
  BY <1>1 DEF Served, Scheduled, RunAfter, IsEvictedBy
<1> QED
  BY <1>1, <1>2 DEF PassStart, BeforeFill, PassOK, AnswerTo

\* which is then good before its first step,
LEMMA BeforeGood ==
    ASSUME NEW p, NEW m, BeforeFill(p, m) PROVE FillGood(p, {m}, 0)
BY DEF FillGood, BeforeFill, Served

\* and what a pass ends with is an answer.
LEMMA GoodAfter ==
    ASSUME NEW p, NEW x, NEW n, FillGood(p, x, n), NEW m \in x
    PROVE  AfterFill(p, m)
BY DEF FillGood, AfterFill

\* The passes of the policies, from mirrors to an answer.
LEMMA SlotPassed ==
    ASSUME NEW p, FillOrder(p), NEW b, BeforeFill(p, b),
           NEW m \in SlotPass!Fold(p, {b}, p.order)
    PROVE  AfterFill(p, m)
<1>1. FillGood(p, {b}, 0)
  BY BeforeGood
<1>2. FillGood(p, SlotPass!Fold(p, {b}, p.order), Len(p.order))
  BY <1>1, SlotFill
<1> QED
  BY <1>2, GoodAfter

\* A pass among equals ends with an answer.
LEMMA EqualsPassed ==
    ASSUME NEW p, FillOrder(p), \A r \in p.running : r.flow \in Flows,
           NEW b, BeforeFill(p, b), NEW m \in EqualsPass!Fold(p, {b}, p.order)
    PROVE  AfterFill(p, m)
<1>1. FillGood(p, {b}, 0)
  BY BeforeGood
<1>2. FillGood(p, EqualsPass!Fold(p, {b}, p.order), Len(p.order))
  BY <1>1, EqualsFill
<1> QED
  BY <1>2, GoodAfter

\* Evictions before the placements.
LEMMA Evictions ==
    ASSUME NEW p, EvictOrder(p), NEW m, PassStart(p.waiting, p.running, m)
    PROVE  LET e == Eviction!Fold(p, m, p.order)
           IN  /\ PassOK(p.waiting, p.running, e) /\ Scheduled(e.actions) = {}
               /\ e.running = p.running \ {p.order[j] : j \in 1..Len(p.order)}
               /\ e.waiting = p.waiting
<1>1. BeforeFill([waiting |-> p.waiting, running |-> p.running, quiet |-> FALSE], m)
  BY StartBefore
<1>2. PassOK(p.waiting, p.running, m) /\ Scheduled(m.actions) = {}
  BY <1>1 DEF BeforeFill
<1>3. Tasks(m.actions) = {} /\ m.running = p.running
  BY TasksParts DEF PassStart
<1>4. {p.order[j] : j \in 1..0} = {}
  OBVIOUS
<1>5. EvictGood(p, m, 0)
  BY <1>2, <1>3, <1>4 DEF EvictGood
<1> DEFINE e == Eviction!Fold(p, m, p.order)
<1>6. EvictGood(p, e, Len(p.order))
  BY <1>5, EvictAll
<1> HIDE DEF e
<1>7. /\ PassOK(p.waiting, p.running, e) /\ Scheduled(e.actions) = {}
      /\ e.running = p.running \ {p.order[j] : j \in 1..Len(p.order)}
  BY <1>6 DEF EvictGood
<1>8. e.waiting = p.waiting
  BY <1>7 DEF PassOK, Served
<1> QED
  BY <1>7, <1>8 DEF e

-----------------------------------------------------------------------------
(* What the policies share of a pass, in each of them.                     *)

\* The helpers of FcfsPolicy are those of this module.
LEMMA FcfsCopies ==
    /\ \A S, a : Fcfs!Sorted(S, a) = Sorted(S, a)
    /\ \A s : Fcfs!Examined(s) = Examined(s)
    /\ Fcfs!EarlierFlows = EarlierFlows
    /\ \A q, run : PassStart(q, run, Fcfs!Mirror(run, q))
    /\ \A a : Fcfs!Respond(a) <=> Respond(a)
    /\ \A op : Fcfs!Pending(op) <=> Pending(op)
<1>1. \A S, a : Fcfs!Sorted(S, a) = Sorted(S, a)
  BY DEF Fcfs!Sorted, Sorted, Fcfs!Cardinality, Cardinality
<1>2. \A s : Fcfs!Examined(s) = Examined(s)
  BY DEF Fcfs!Examined, Examined
<1>3. Fcfs!EarlierFlows = EarlierFlows
  BY DEF Fcfs!EarlierFlows, EarlierFlows, Fcfs!Flows, Flows
<1>4. \A q, run : PassStart(q, run, Fcfs!Mirror(run, q))
  BY DEF PassStart, IsMirror, MirrorFields, Fcfs!Mirror
<1>5. \A a : Fcfs!Respond(a) <=> Respond(a)
  BY DEF Fcfs!Respond, Respond, Fcfs!flowVars, flowVars, Fcfs!stepVars, stepVars,
     Fcfs!deviceVars, deviceVars, Fcfs!timerVars, timerVars, Fcfs!loopVars, loopVars
<1>6. \A op : Fcfs!Pending(op) <=> Pending(op)
  BY DEF Fcfs!Pending, Pending
<1> QED
  BY <1>1, <1>2, <1>3, <1>4, <1>5, <1>6

\* The helpers of VllmPolicy are those of this module.
LEMMA OneClassCopies ==
    /\ \A S, a : OneClass!Sorted(S, a) = Sorted(S, a)
    /\ \A s : OneClass!Examined(s) = Examined(s)
    /\ \A q, run : PassStart(q, run, OneClass!PassMirror(q, run))
    /\ \A a : OneClass!Respond(a) <=> Respond(a)
    /\ \A op : OneClass!Pending(op) <=> Pending(op)
    /\ \A run : OneClass!Forget(run) = Forget(run)
<1>1. \A S, a : OneClass!Sorted(S, a) = Sorted(S, a)
  BY DEF OneClass!Sorted, Sorted, OneClass!Cardinality, Cardinality
<1>2. \A s : OneClass!Examined(s) = Examined(s)
  BY DEF OneClass!Examined, Examined
<1>3. \A q, run : PassStart(q, run, OneClass!PassMirror(q, run))
  BY DEF PassStart, IsMirror, MirrorFields, OneClass!PassMirror, OneClass!Mirror
<1>4. \A a : OneClass!Respond(a) <=> Respond(a)
  BY DEF OneClass!Respond, Respond, OneClass!flowVars, flowVars, OneClass!stepVars,
     stepVars, OneClass!deviceVars, deviceVars, OneClass!timerVars, timerVars,
     OneClass!loopVars, loopVars
<1>5. \A op : OneClass!Pending(op) <=> Pending(op)
  BY DEF OneClass!Pending, Pending
<1>6. \A run : OneClass!Forget(run) = Forget(run)
  BY DEF OneClass!Forget, Forget
<1> QED
  BY <1>1, <1>2, <1>3, <1>4, <1>5, <1>6

\* The helpers of MarsPolicy are those of this module.
LEMMA MarsCopies ==
    /\ \A S, a : Mars!Sorted(S, a) = Sorted(S, a)
    /\ \A s : Mars!Examined(s) = Examined(s)
    /\ \A q, run : PassStart(q, run, Mars!Mirror(run, q))
    /\ \A a : Mars!Respond(a) <=> Respond(a)
    /\ \A op : Mars!Pending(op) <=> Pending(op)
    /\ \A run : Mars!Forget(run) = Forget(run)
    /\ \A s : Mars!ToSet(s) = ToSet(s)
<1>1. \A S, a : Mars!Sorted(S, a) = Sorted(S, a)
  BY DEF Mars!Sorted, Sorted, Mars!Cardinality, Cardinality
<1>2. \A s : Mars!Examined(s) = Examined(s)
  BY DEF Mars!Examined, Examined
<1>3. \A q, run : PassStart(q, run, Mars!Mirror(run, q))
  BY DEF PassStart, IsMirror, MirrorFields, Mars!Mirror
<1>4. \A a : Mars!Respond(a) <=> Respond(a)
  BY DEF Mars!Respond, Respond, Mars!flowVars, flowVars, Mars!stepVars, stepVars,
     Mars!deviceVars, deviceVars, Mars!timerVars, timerVars, Mars!loopVars, loopVars
<1>5. \A op : Mars!Pending(op) <=> Pending(op)
  BY DEF Mars!Pending, Pending
<1>6. \A run : Mars!Forget(run) = Forget(run)
  BY DEF Mars!Forget, Forget
<1>7. \A s : Mars!ToSet(s) = ToSet(s)
  BY DEF Mars!ToSet, ToSet
<1> QED
  BY <1>1, <1>2, <1>3, <1>4, <1>5, <1>6, <1>7

\* The helpers of MlfqPolicy are those of this module.
LEMMA MlfqCopies ==
    /\ \A S, a : Mlfq!Sorted(S, a) = Sorted(S, a)
    /\ \A s : Mlfq!Examined(s) = Examined(s)
    /\ \A q, run : PassStart(q, run, Mlfq!Mirror(run, q))
    /\ \A a : Mlfq!Respond(a) <=> Respond(a)
    /\ \A op : Mlfq!Pending(op) <=> Pending(op)
    /\ \A run : Mlfq!Forget(run) = Forget(run)
    /\ \A s : Mlfq!ToSet(s) = ToSet(s)
<1>1. \A S, a : Mlfq!Sorted(S, a) = Sorted(S, a)
  BY DEF Mlfq!Sorted, Sorted, Mlfq!Cardinality, Cardinality
<1>2. \A s : Mlfq!Examined(s) = Examined(s)
  BY DEF Mlfq!Examined, Examined
<1>3. \A q, run : PassStart(q, run, Mlfq!Mirror(run, q))
  BY DEF PassStart, IsMirror, MirrorFields, Mlfq!Mirror
<1>4. \A a : Mlfq!Respond(a) <=> Respond(a)
  BY DEF Mlfq!Respond, Respond, Mlfq!flowVars, flowVars, Mlfq!stepVars, stepVars,
     Mlfq!deviceVars, deviceVars, Mlfq!timerVars, timerVars, Mlfq!loopVars, loopVars
<1>5. \A op : Mlfq!Pending(op) <=> Pending(op)
  BY DEF Mlfq!Pending, Pending
<1>6. \A run : Mlfq!Forget(run) = Forget(run)
  BY DEF Mlfq!Forget, Forget
<1>7. \A s : Mlfq!ToSet(s) = ToSet(s)
  BY DEF Mlfq!ToSet, ToSet
<1> QED
  BY <1>1, <1>2, <1>3, <1>4, <1>5, <1>6, <1>7

-----------------------------------------------------------------------------
(* What a policy answers to an event other than an arrival.                *)

\* What waits and what is believed to run once the event is noted, and whether
\* the policy may evict.
Waiting == IF Head(stack).op = "InvocationReady"
           THEN queue \cup {Head(stack).flow} ELSE queue
LeftRunning == IF Head(stack).op = "InvocationComplete" THEN Forget(Believed)
                                                       ELSE Believed
MayEvict == \/ Head(stack).op = "Tick"
            \/ policy = "concur" /\ Head(stack).op = "InvocationReady"

AnsweredBy(acts) ==
    /\ AnswerTo(Waiting, LeftRunning, acts)
    /\ Respond(acts)
    /\ queue' = Waiting \ Served(acts)
    /\ policy # "fcfs" => Believed' = RunAfter(LeftRunning, acts)
    /\ policy = "fcfs" => running' = running
    /\ (\A t \in Tasks(acts) : t.op # "Preempt") \/ MayEvict

\* What a pass finds: flows that wait and are not believed to run.
PassReady ==
    /\ Head(stack).op \in {"InvocationReady", "InvocationComplete", "Tick"}
    /\ Waiting \subseteq Flows /\ \A f \in Flows : Step(f) \in Nat
    /\ LeftRunning \subseteq Books
    /\ \A r \in LeftRunning, d \in Devices : \A f \in Waiting : r # Placement(f, d)
    /\ MayEvict \/ policy = "concur" =>
        /\ \A r, v \in LeftRunning : r.flow = v.flow => r = v
        /\ \A r \in LeftRunning : r.flow \notin Waiting

\* A pass with placements only, or with evictions when it may.
LEMMA Passed ==
    ASSUME NEW p, p.waiting = Waiting, p.running = LeftRunning,
           p.quiet = ~MayEvict, NEW m, AfterFill(p, m)
    PROVE  /\ AnswerTo(Waiting, LeftRunning, m.actions)
           /\ m.waiting = Waiting \ Served(m.actions)
           /\ m.running = RunAfter(LeftRunning, m.actions)
           /\ (\A t \in Tasks(m.actions) : t.op # "Preempt") \/ MayEvict
BY DEF AfterFill, PassOK

\* A drain of FcfsPolicy is a fold of slot-by-slot placements.
LEMMA FcfsDrain ==
    \A p, q : Fcfs!Drain(q) <=>
        \E m \in SlotPass!Fold(p, {Fcfs!Mirror({}, q)},
                     Fcfs!Examined(Fcfs!Sorted(q, Fcfs!EarlierFlows))) :
            queue' = m.waiting /\ Fcfs!Respond(m.actions)
BY SMTT(60) DEF Fcfs!Drain, Fcfs!Drained, Fcfs!PassOver, Fcfs!TryPlace,
   SlotPass!Fold, SlotStep, PlaceFirst, Fcfs!FoldLeft, Fcfs!MapThenFoldSet,
   Fcfs!Greatest, SlotPass!MapThenFoldSet, SlotPass!Greatest, Fcfs!FindDevice,
   FindDevice, Fcfs!Devices, Devices, Fcfs!NextKv, NextKv, Fcfs!NoDevice, NoDevice,
   Fcfs!Least, Least, Fcfs!Kv, Kv, Fcfs!Step, Step, Fcfs!Booked, Booked,
   Fcfs!Placement, Placement, Fcfs!TaskOf, TaskOf, Fcfs!Declined, Declined,
   Fcfs!AnySlot, AnySlot

\* First come first served: nothing is evicted, nobody is kept in mind.
LEMMA FcfsAnswers ==
    ASSUME policy = "fcfs", PassReady, AsFcfs PROVE \E acts : AnsweredBy(acts)
<1> DEFINE q == Waiting
           order == Examined(Sorted(q, EarlierFlows))
           p == [waiting |-> q, running |-> {}, order |-> order, quiet |-> TRUE]
           b == Fcfs!Mirror({}, q)
<1>1. Fcfs!Drain(q)
  BY FcfsCopies DEF AsFcfs, Fcfs!PolicyAnswer, Fcfs!AdmitArrival, Fcfs!EnqueueReady,
     Fcfs!DrainOnPoke, Pending, PassReady, Waiting
<1>2. q \in SUBSET Flows
  BY DEF PassReady
<1>3. Listing(order, q)
  <2>1. IsFiniteSet(q) /\ StrictOrder(q, EarlierFlows)
    BY <1>2, FlowsFinite, FlowOrder
  <2> QED
    BY <2>1, SortedExamined
<1>4. PassStart(q, {}, b)
  BY FcfsCopies
<1>5. PICK m \in SlotPass!Fold(p, {b}, order) : queue' = m.waiting /\ Respond(m.actions)
  <2> HIDE DEF p, b, q
  <2>1. \E m \in SlotPass!Fold(p, {Fcfs!Mirror({}, q)},
                     Fcfs!Examined(Fcfs!Sorted(q, Fcfs!EarlierFlows))) :
            queue' = m.waiting /\ Fcfs!Respond(m.actions)
    BY <1>1, FcfsDrain
  <2>2. Fcfs!Examined(Fcfs!Sorted(q, Fcfs!EarlierFlows)) = order
    BY FcfsCopies
  <2>3. \A a : Fcfs!Respond(a) <=> Respond(a)
    BY FcfsCopies
  <2> HIDE DEF order
  <2> QED
    BY <2>1, <2>2, <2>3 DEF b
<1>6. p.waiting = q /\ p.running = {} /\ p.order = order /\ p.quiet = TRUE
  OBVIOUS
<1> HIDE DEF p, b, order, q
<1>7. AfterFill(p, m)
  <2>1. FillOrder(p)
    BY <1>2, <1>3, <1>6, ListedFill DEF PassReady
  <2>2. BeforeFill(p, b)
    BY <1>4, <1>6, StartBefore
  <2> QED
    BY <1>5, <1>6, <2>1, <2>2, SlotPassed
<1>8. /\ AnswerTo(q, {}, m.actions) /\ m.waiting = q \ Served(m.actions)
      /\ \A t \in Tasks(m.actions) : t.op # "Preempt"
  BY <1>6, <1>7 DEF AfterFill, PassOK
<1>9. AnswerTo(q, LeftRunning, m.actions)
  BY <1>8 DEF AnswerTo, ToEvict
<1>10. running' = running
  BY DEF AsFcfs
<1>11. AnsweredBy(m.actions)
  BY <1>5, <1>8, <1>9, <1>10 DEF AnsweredBy, q
<1> QED
  BY <1>11

\* With a single class a pass of VllmPolicy is a fold of steps among equals.
LEMMA EqualsDrain ==
    \A p, q, run : OneClass!SchedulePass(q, run) <=>
        \E m \in EqualsPass!Fold(p, {OneClass!PassMirror(q, run)},
                     OneClass!Examined(OneClass!Sorted(q, [f \in q |->
                         {g \in q : OneClass!OrderedBefore(g, f)}]))) :
            queue' = m.waiting /\ running' = m.running /\ OneClass!Respond(m.actions)
BY SMTT(60) DEF OneClass!SchedulePass, OneClass!Drained, OneClass!PassOver,
   EqualsPass!Fold, EqualsStep, OneClass!FoldLeft, OneClass!MapThenFoldSet,
   OneClass!Greatest, EqualsPass!MapThenFoldSet, EqualsPass!Greatest

\* With a single class the order of priority is a strict order of any flows.
LEMMA EqualsOrder ==
    ASSUME NEW q \in SUBSET Flows
    PROVE  StrictOrder(q, [f \in q |-> {g \in q : OneClass!OrderedBefore(g, f)}])
<1> DEFINE rank == [f \in Flows |-> 0]
<1>1. rank \in [Flows -> Nat]
  OBVIOUS
<1>2. StrictOrder(q, [f \in q |-> {g \in q :
               rank[g] < rank[f] \/ (rank[g] = rank[f] /\ g < f)}])
  BY <1>1, RankedOrder
<1>3. \A f, g : OneClass!OrderedBefore(g, f) <=>
               rank[g] < rank[f] \/ (rank[g] = rank[f] /\ g < f)
  BY DEF OneClass!OrderedBefore
<1> HIDE DEF rank
<1> QED
  BY <1>2, <1>3

\* Among equals nothing is evicted.
LEMMA OneClassAnswers ==
    ASSUME policy = "one class", PassReady, AsOneClass
    PROVE  \E acts : AnsweredBy(acts)
<1> DEFINE q == Waiting
           run == LeftRunning
           ahead == [f \in q |-> {g \in q : OneClass!OrderedBefore(g, f)}]
           order == Examined(Sorted(q, ahead))
           p == [waiting |-> q, running |-> run, order |-> order, quiet |-> TRUE]
           b == OneClass!PassMirror(q, run)
<1>0. Believed = running /\ Believed' = running' /\ policy' = policy
  BY DEF Believed, Levelled, AsOneClass
<1>1. OneClass!SchedulePass(q, run)
  <2>0. \A op : OneClass!Pending(op) => Head(stack).op = op
    BY OneClassCopies DEF Pending
  <2>1. \A x : OneClass!Forget(x) = Forget(x)
    BY OneClassCopies
  <2>2. CASE OneClass!AdmitArrival
    BY <2>0, <2>2 DEF OneClass!AdmitArrival, PassReady
  <2>3. CASE OneClass!EnqueueReady
    <3>1. OneClass!SchedulePass(queue \cup {Head(stack).flow}, running)
          /\ Head(stack).op = "InvocationReady"
      BY <2>0, <2>3 DEF OneClass!EnqueueReady
    <3>2. Waiting = queue \cup {Head(stack).flow} /\ LeftRunning = running
      BY <1>0, <3>1 DEF Waiting, LeftRunning
    <3> QED
      BY <3>1, <3>2, Zenon
  <2>4. CASE OneClass!NoteComplete
    <3>1. OneClass!SchedulePass(queue, OneClass!Forget(running))
          /\ Head(stack).op = "InvocationComplete"
      BY <2>0, <2>4 DEF OneClass!NoteComplete
    <3>2. Waiting = queue /\ LeftRunning = OneClass!Forget(running)
      BY <1>0, <2>1, <3>1 DEF Waiting, LeftRunning
    <3> QED
      BY <3>1, <3>2, Zenon
  <2>5. CASE OneClass!OnTick
    <3>1. OneClass!SchedulePass(queue, running) /\ Head(stack).op = "Tick"
      BY <2>0, <2>5 DEF OneClass!OnTick
    <3>2. Waiting = queue /\ LeftRunning = running
      BY <1>0, <3>1 DEF Waiting, LeftRunning
    <3> QED
      BY <3>1, <3>2, Zenon
  <2> QED
    BY <2>2, <2>3, <2>4, <2>5 DEF AsOneClass, OneClass!PolicyAnswer
<1>2. q \in SUBSET Flows
  BY DEF PassReady
<1>3. Listing(order, q)
  <2>1. IsFiniteSet(q) /\ StrictOrder(q, ahead)
    BY <1>2, FlowsFinite, EqualsOrder
  <2> HIDE DEF ahead, q
  <2> QED
    BY <2>1, SortedExamined
<1>4. PassStart(q, run, b)
  BY OneClassCopies
<1>5. PICK m \in EqualsPass!Fold(p, {b}, order) :
          queue' = m.waiting /\ running' = m.running /\ Respond(m.actions)
  <2> HIDE DEF p, q, run
  <2>1. \E m \in EqualsPass!Fold(p, {OneClass!PassMirror(q, run)},
                     OneClass!Examined(OneClass!Sorted(q, ahead))) :
            queue' = m.waiting /\ running' = m.running /\ OneClass!Respond(m.actions)
    BY <1>1, EqualsDrain
  <2> HIDE DEF ahead
  <2>2. OneClass!Examined(OneClass!Sorted(q, ahead)) = order
    BY OneClassCopies
  <2>3. \A a : OneClass!Respond(a) <=> Respond(a)
    BY OneClassCopies
  <2> HIDE DEF order
  <2> QED
    BY <2>1, <2>2, <2>3 DEF b
<1>6. p.waiting = q /\ p.running = run /\ p.order = order /\ p.quiet = TRUE
  OBVIOUS
<1>7. \A r \in run : r.flow \in Flows
  BY DEF PassReady, Books
<1> HIDE DEF p, b, order, q, run, ahead
<1>8. AfterFill(p, m)
  <2>1. FillOrder(p)
    BY <1>2, <1>3, <1>6, ListedFill DEF PassReady
  <2>2. BeforeFill(p, b)
    BY <1>4, <1>6, StartBefore
  <2>3. \A r \in p.running : r.flow \in Flows
    BY <1>6, <1>7
  <2>4. m \in EqualsPass!Fold(p, {b}, p.order)
    BY <1>5, <1>6
  <2> QED
    BY <2>1, <2>2, <2>3, <2>4, EqualsPassed
<1>9. /\ AnswerTo(q, run, m.actions) /\ m.waiting = q \ Served(m.actions)
      /\ m.running = RunAfter(run, m.actions)
      /\ \A t \in Tasks(m.actions) : t.op # "Preempt"
  BY <1>6, <1>8 DEF AfterFill, PassOK
<1>10. AnsweredBy(m.actions)
  BY <1>0, <1>5, <1>9 DEF AnsweredBy, q, run
<1> QED
  BY <1>10

\* FastServe and MARS keep what they believe to run in a sequence, each once.
Listed == Levelled => ListOf(running, Believed)

\* The elements of a list of a set are the set.
LEMMA ListedSet ==
    ASSUME NEW s, NEW S, ListOf(s, S) PROVE ToSet(s) = S
BY DEF ListOf, Tasks, ToSet

\* A pass by levels, from a mirror without placements.
LEMMA LevelPass ==
    ASSUME PassReady, Levelled, policy' = policy, NEW p, NEW ahead,
           StrictOrder(Waiting, ahead),
           p.waiting = Waiting, p.running = LeftRunning, p.quiet = ~MayEvict,
           p.order = Examined(Sorted(Waiting, ahead)),
           NEW b, BeforeFill(p, b), NEW m \in SlotPass!Fold(p, {b}, p.order),
           NEW run, ListOf(run, LeftRunning), NEW kept, NEW v, NEW w,
           v.set = m.running, v.order = run, kept = Keeping!Fold(v, <<>>, run),
           w.order = m.actions, w.kept = LeftRunning \cap m.running,
           running' = Noting!Fold(w, kept, m.actions),
           queue' = m.waiting, Respond(m.actions)
    PROVE  AnsweredBy(m.actions) /\ Listed'
<1> DEFINE q == Waiting
           L == LeftRunning
           acts == m.actions
           P == {Placement(t.flow, t.dev) : t \in Scheduled(acts)}
<1>1. q \in SUBSET Flows
  BY DEF PassReady
<1>2. FillOrder(p)
  <2>1. IsFiniteSet(q)
    BY <1>1, FlowsFinite
  <2>2. Listing(p.order, p.waiting)
    BY <2>1, SortedExamined
  <2> QED
    BY <2>2, ListedFill DEF PassReady
<1>3. AfterFill(p, m)
  BY <1>2, SlotPassed
<1>4. /\ AnswerTo(q, L, acts) /\ m.waiting = q \ Served(acts)
      /\ m.running = RunAfter(L, acts)
      /\ (\A t \in Tasks(acts) : t.op # "Preempt") \/ MayEvict
  BY <1>3, Passed
<1>5. (L \cap m.running) \cup P = m.running
  BY <1>4 DEF RunAfter
<1>6. ListOf(kept, L \cap m.running)
  BY KeepAll
<1>7. NoteOrder(w)
  <2> SUFFICES ASSUME NEW i \in 1..Len(acts), acts[i].op = "Schedule"
               PROVE  Placement(acts[i].flow, acts[i].dev) \notin L \cap m.running
    BY <1>4 DEF NoteOrder, AnswerTo
  <2>1. acts[i] \in Tasks(acts)
    BY DEF Tasks
  <2>2. ToPlace(q, acts[i])
    BY <1>4, <2>1 DEF AnswerTo, ToEvict
  <2> QED
    BY <2>2 DEF ToPlace, PassReady
<1>8. ListOf(running', (L \cap m.running) \cup P)
  <2> HIDE DEF P, acts, L
  <2>1. ListOf(Noting!Fold(w, kept, w.order),
               w.kept \cup {Placement(t.flow, t.dev) : t \in Scheduled(w.order)})
    BY <1>6, <1>7, NoteAll DEF L
  <2>2. w.order = acts /\ w.kept = L \cap m.running
    BY DEF acts, L
  <2> QED
    BY <2>1, <2>2 DEF P, acts
<1>9. ListOf(running', m.running)
  BY <1>5, <1>8
<1>10. Levelled' /\ Believed' = ToSet(running)'
  BY DEF Levelled, Believed
<1>11. Believed' = m.running
  BY <1>9, <1>10, ListedSet
<1>12. Listed'
  BY <1>9, <1>11 DEF Listed
<1>13. policy # "fcfs"
  BY DEF Levelled
<1> HIDE DEF q, L, acts
<1>14. AnsweredBy(acts)
  BY <1>4, <1>11, <1>13 DEF AnsweredBy, q, L, acts
<1> QED
  BY <1>12, <1>14 DEF acts

-----------------------------------------------------------------------------
(* The passes of the levels as folds, in both policies.                    *)

\* The parts of a pass of MlfqPolicy are folds.
LEMMA MlfqFolds ==
    /\ \A p, m : Mlfq!FilledFrom(m) =
           SlotPass!Fold(p, {m}, Mlfq!Examined(Mlfq!Sorted(m.waiting, [f \in m.waiting |->
               {g \in m.waiting : Mlfq!RankedBefore(g, f)}])))
    /\ \A p, m, s : Mlfq!FoldLeft(Mlfq!Evicted, m, s) = Eviction!Fold(p, m, s)
    /\ \A p, s : Mlfq!Filtered(s, p.set) = Keeping!Fold(p, <<>>, s)
    /\ \A p, run, m : Mlfq!RunningAfter(run, m) =
           Noting!Fold(p, Mlfq!Filtered(run, m.running), m.actions)
<1>1. \A p, m : Mlfq!FilledFrom(m) =
           SlotPass!Fold(p, {m}, Mlfq!Examined(Mlfq!Sorted(m.waiting, [f \in m.waiting |->
               {g \in m.waiting : Mlfq!RankedBefore(g, f)}])))
  BY SMTT(60) DEF Mlfq!FilledFrom, Mlfq!Drained, Mlfq!PassOver, Mlfq!TryPlace,
     SlotPass!Fold, SlotStep, PlaceFirst, Mlfq!FoldLeft, Mlfq!MapThenFoldSet,
     Mlfq!Greatest, SlotPass!MapThenFoldSet, SlotPass!Greatest, Mlfq!FindDevice,
     FindDevice, Mlfq!Devices, Devices, Mlfq!NextKv, NextKv, Mlfq!NoDevice, NoDevice,
     Mlfq!Least, Least, Mlfq!Kv, Kv, Mlfq!Step, Step, Mlfq!Booked, Booked,
     Mlfq!Placement, Placement, Mlfq!TaskOf, TaskOf, Mlfq!Declined, Declined,
     Mlfq!AnySlot, AnySlot
<1>2. \A p, m, s : Mlfq!FoldLeft(Mlfq!Evicted, m, s) = Eviction!Fold(p, m, s)
  BY SMTT(60) DEF Eviction!Fold, EvictStep, Mlfq!FoldLeft, Mlfq!MapThenFoldSet,
     Mlfq!Greatest, Eviction!MapThenFoldSet, Eviction!Greatest, Mlfq!Evicted,
     Evicted, Mlfq!Kv, Kv, Mlfq!TaskOf, TaskOf, Mlfq!NoDevice, NoDevice
<1>3. \A p, s : Mlfq!Filtered(s, p.set) = Keeping!Fold(p, <<>>, s)
  BY SMTT(60) DEF Mlfq!Filtered, Keeping!Fold, KeepStep, Mlfq!FoldLeft,
     Mlfq!MapThenFoldSet, Mlfq!Greatest, Keeping!MapThenFoldSet, Keeping!Greatest
<1>4. \A p, run, m : Mlfq!RunningAfter(run, m) =
           Noting!Fold(p, Mlfq!Filtered(run, m.running), m.actions)
  BY SMTT(60) DEF Mlfq!RunningAfter, Noting!Fold, NoteStep, Mlfq!FoldLeft,
     Mlfq!MapThenFoldSet, Mlfq!Greatest, Noting!MapThenFoldSet, Noting!Greatest,
     Mlfq!Placement, Placement, Mlfq!Step, Step
<1> QED
  BY <1>1, <1>2, <1>3, <1>4

\* The parts of a pass of MarsPolicy are folds.
LEMMA MarsFolds ==
    /\ \A p, m : Mars!FilledFrom(m) =
           SlotPass!Fold(p, {m}, Mars!Examined(Mars!Sorted(m.waiting, [f \in m.waiting |->
               {g \in m.waiting : Mars!RankedBefore(g, f)}])))
    /\ \A p, m, s : Mars!FoldLeft(Mars!Evicted, m, s) = Eviction!Fold(p, m, s)
    /\ \A p, s : Mars!Filtered(s, p.set) = Keeping!Fold(p, <<>>, s)
    /\ \A p, run, m : Mars!RunningAfter(run, m) =
           Noting!Fold(p, Mars!Filtered(run, m.running), m.actions)
<1>1. \A p, m : Mars!FilledFrom(m) =
           SlotPass!Fold(p, {m}, Mars!Examined(Mars!Sorted(m.waiting, [f \in m.waiting |->
               {g \in m.waiting : Mars!RankedBefore(g, f)}])))
  BY SMTT(60) DEF Mars!FilledFrom, Mars!Drained, Mars!PassOver, Mars!TryPlace,
     SlotPass!Fold, SlotStep, PlaceFirst, Mars!FoldLeft, Mars!MapThenFoldSet,
     Mars!Greatest, SlotPass!MapThenFoldSet, SlotPass!Greatest, Mars!FindDevice,
     FindDevice, Mars!Devices, Devices, Mars!NextKv, NextKv, Mars!NoDevice, NoDevice,
     Mars!Least, Least, Mars!Kv, Kv, Mars!Step, Step, Mars!Booked, Booked,
     Mars!Placement, Placement, Mars!TaskOf, TaskOf, Mars!Declined, Declined,
     Mars!AnySlot, AnySlot
<1>2. \A p, m, s : Mars!FoldLeft(Mars!Evicted, m, s) = Eviction!Fold(p, m, s)
  BY SMTT(60) DEF Eviction!Fold, EvictStep, Mars!FoldLeft, Mars!MapThenFoldSet,
     Mars!Greatest, Eviction!MapThenFoldSet, Eviction!Greatest, Mars!Evicted,
     Evicted, Mars!Kv, Kv, Mars!TaskOf, TaskOf, Mars!NoDevice, NoDevice
<1>3. \A p, s : Mars!Filtered(s, p.set) = Keeping!Fold(p, <<>>, s)
  BY SMTT(60) DEF Mars!Filtered, Keeping!Fold, KeepStep, Mars!FoldLeft,
     Mars!MapThenFoldSet, Mars!Greatest, Keeping!MapThenFoldSet, Keeping!Greatest
<1>4. \A p, run, m : Mars!RunningAfter(run, m) =
           Noting!Fold(p, Mars!Filtered(run, m.running), m.actions)
  BY SMTT(60) DEF Mars!RunningAfter, Noting!Fold, NoteStep, Mars!FoldLeft,
     Mars!MapThenFoldSet, Mars!Greatest, Noting!MapThenFoldSet, Noting!Greatest,
     Mars!Placement, Placement, Mars!Step, Step
<1> QED
  BY <1>1, <1>2, <1>3, <1>4

\* To fill what is free, from a fit mirror, answers the event (MlfqPolicy).
LEMMA MlfqFill ==
    ASSUME PassReady, policy = "mlfq", policy' = policy, level' \in [Flows -> Nat],
           NEW run, ListOf(run, LeftRunning), NEW p,
           p.waiting = Waiting, p.running = LeftRunning, p.quiet = ~MayEvict,
           NEW b, BeforeFill(p, b), NEW m \in Mlfq!FilledFrom(b), Mlfq!AnswerPass(run, m)
    PROVE  AnsweredBy(m.actions) /\ Listed'
<1> DEFINE q == Waiting
           ahead == [f \in q |-> {g \in q : Mlfq!RankedBefore(g, f)}]
           order == Examined(Sorted(q, ahead))
           o == [waiting |-> q, running |-> LeftRunning, quiet |-> ~MayEvict,
                 order |-> order]
           v == [set |-> m.running, order |-> run]
           kept == Keeping!Fold(v, <<>>, run)
           w == [order |-> m.actions, kept |-> LeftRunning \cap m.running]
<1>1. StrictOrder(q, ahead)
  <2> DEFINE rank == level'
             byRank == [f \in q |-> {g \in q :
                            rank[g] < rank[f] \/ (rank[g] = rank[f] /\ g < f)}]
  <2>1. rank \in [Flows -> Nat] /\ q \in SUBSET Flows
    BY DEF PassReady
  <2>2. StrictOrder(q, byRank)
    <3> HIDE DEF rank, q
    <3> QED
      BY <2>1, RankedOrder
  <2>3. \A f, g : Mlfq!RankedBefore(g, f) <=>
               rank[g] < rank[f] \/ (rank[g] = rank[f] /\ g < f)
    BY DEF Mlfq!RankedBefore
  <2> HIDE DEF rank
  <2>4. ahead = byRank
    BY <2>3
  <2> QED
    BY <2>2, <2>4
<1>2. b.waiting = q
  BY DEF BeforeFill, PassOK, Served
<1>3. BeforeFill(o, b)
  <2>1. o.waiting = p.waiting /\ o.running = p.running /\ o.quiet = p.quiet
    OBVIOUS
  <2> HIDE DEF o
  <2> QED
    BY <2>1 DEF BeforeFill
<1>4. m \in SlotPass!Fold(o, {b}, order)
  <2> HIDE DEF o
  <2> DEFINE there == Mlfq!Examined(Mlfq!Sorted(b.waiting, [f \in b.waiting |->
                         {g \in b.waiting : Mlfq!RankedBefore(g, f)}]))
  <2>1. Mlfq!FilledFrom(b) = SlotPass!Fold(o, {b}, there)
    BY MlfqFolds
  <2>2. there = order
    <3>1. there = Mlfq!Examined(Mlfq!Sorted(q, ahead))
      BY <1>2
    <3> HIDE DEF there, ahead, q
    <3> QED
      BY <3>1, MlfqCopies
  <2> HIDE DEF there, order
  <2> QED
    BY <2>1, <2>2
<1>5. queue' = m.waiting /\ Respond(m.actions)
  BY MlfqCopies DEF Mlfq!AnswerPass
<1>6. running' = Noting!Fold(w, kept, m.actions)
  <2> HIDE DEF w, v
  <2>1. running' = Mlfq!RunningAfter(run, m)
    BY DEF Mlfq!AnswerPass
  <2>2. Mlfq!RunningAfter(run, m) = Noting!Fold(w, Mlfq!Filtered(run, m.running), m.actions)
    BY MlfqFolds
  <2>3. Mlfq!Filtered(run, v.set) = kept
    BY MlfqFolds
  <2>4. v.set = m.running
    BY DEF v
  <2> HIDE DEF kept
  <2> QED
    BY <2>1, <2>2, <2>3, <2>4
<1>7. /\ o.waiting = q /\ o.running = LeftRunning /\ o.quiet = ~MayEvict
      /\ o.order = order /\ v.set = m.running /\ v.order = run
      /\ w.order = m.actions /\ w.kept = LeftRunning \cap m.running
  OBVIOUS
<1>8. Levelled
  BY DEF Levelled
<1>9. m \in SlotPass!Fold(o, {b}, o.order) /\ kept = Keeping!Fold(v, <<>>, run)
  BY <1>4
<1> HIDE DEF o, w, v, kept, ahead
<1> QED
  BY <1>1, <1>3, <1>5, <1>6, <1>7, <1>8, <1>9, LevelPass

\* A tick evicts who is not in the keep-set before it fills.
LEMMA MlfqTick ==
    ASSUME PassReady, policy = "mlfq", Listed, Head(stack).op = "Tick",
           NEW p, p.waiting = Waiting, p.running = LeftRunning, p.quiet = ~MayEvict,
           NEW out \in Mlfq!Outranked(running)
    PROVE  BeforeFill(p, out)
<1>1. /\ Waiting = queue /\ LeftRunning = Believed /\ MayEvict
      /\ Believed = ToSet(running) /\ ListOf(running, Believed)
  BY DEF Waiting, LeftRunning, MayEvict, Believed, Listed, Levelled
<1> DEFINE run == ToSet(running)
<1>2. PICK kept : out = Mlfq!FoldLeft(Mlfq!Evicted, Mlfq!Mirror(Mlfq!ToSet(running), queue),
             Mlfq!Filtered(running, {r \in Mlfq!ToSet(running) : r.flow \notin kept}))
  BY Zenon DEF Mlfq!Outranked
<1> DEFINE gone == {r \in run : r.flow \notin kept}
           v == [set |-> gone, order |-> running]
           order == Keeping!Fold(v, <<>>, running)
           e == [waiting |-> queue, running |-> run, order |-> order]
           b == Mlfq!Mirror(run, queue)
<1>3. out = Eviction!Fold(e, b, order)
  <2> HIDE DEF e
  <2>1. Mlfq!ToSet(running) = run
    BY MlfqCopies
  <2>2. Mlfq!Filtered(running, gone) = order
    <3>1. Mlfq!Filtered(running, v.set) = Keeping!Fold(v, <<>>, running)
      <4> HIDE DEF v
      <4> QED
        BY MlfqFolds
    <3>2. v.set = gone
      OBVIOUS
    <3> QED
      BY <3>1, <3>2
  <2>3. \A x, s : Mlfq!FoldLeft(Mlfq!Evicted, x, s) = Eviction!Fold(e, x, s)
    BY MlfqFolds
  <2> HIDE DEF run
  <2>4. out = Mlfq!FoldLeft(Mlfq!Evicted, b, Mlfq!Filtered(running, gone))
    BY <1>2, <2>1
  <2> HIDE DEF b, order, gone
  <2> QED
    BY <2>2, <2>3, <2>4
<1>4. PassStart(queue, run, b)
  BY MlfqCopies
<1>5. ListOf(order, run \cap gone)
  <2>1. v.order = running /\ v.set = gone
    OBVIOUS
  <2> HIDE DEF v, gone
  <2>2. ListOf(v.order, run)
    BY <1>1, <2>1
  <2>3. ListOf(Keeping!Fold(v, <<>>, v.order), run \cap v.set)
    BY <2>2, KeepAll
  <2> QED
    BY <2>1, <2>3
<1>6. EvictOrder(e)
  <2>1. e.waiting = Waiting /\ e.running = LeftRunning /\ e.order = order
    BY <1>1
  <2>2. run = LeftRunning
    BY <1>1
  <2> HIDE DEF e, order, run
  <2>3. /\ Len(order) \in Nat /\ DOMAIN order = 1..Len(order)
        /\ \A i \in 1..Len(order) : order[i] \in run
        /\ \A i, j \in 1..Len(order) : order[i] = order[j] => i = j
    BY <1>5 DEF ListOf, Distinct
  <2>4. /\ LeftRunning \subseteq Books /\ Waiting \subseteq Flows
        /\ \A r, x \in LeftRunning : r.flow = x.flow => r = x
        /\ \A r \in LeftRunning : r.flow \notin Waiting
    BY <1>1 DEF PassReady
  <2> QED
    BY <2>1, <2>2, <2>3, <2>4 DEF EvictOrder
<1>7. e.waiting = queue /\ e.running = run /\ e.order = order
  OBVIOUS
<1> HIDE DEF e, order, b, run
<1>8. PassOK(queue, run, out) /\ Scheduled(out.actions) = {}
  <2>1. PassStart(e.waiting, e.running, b)
    BY <1>4, <1>7
  <2>2. PassOK(e.waiting, e.running, Eviction!Fold(e, b, e.order))
        /\ Scheduled(Eviction!Fold(e, b, e.order).actions) = {}
    BY <1>6, <2>1, Evictions
  <2> QED
    BY <1>3, <1>7, <2>2
<1> QED
  BY <1>1, <1>8 DEF BeforeFill, run

\* Levels stay natural numbers (MlfqPolicy).
LEMMA MlfqLevels ==
    ASSUME level \in [Flows -> Nat], AsMlfq, ~Mlfq!AdmitArrival
    PROVE  level' \in [Flows -> Nat]
<1>1. \A f : Mlfq!Track(f) => level' \in [Flows -> Nat]
  BY DEF Mlfq!Track
<1>2. Mlfq!ForgetLevel => level' \in [Flows -> Nat]
  BY DEF Mlfq!ForgetLevel
<1>3. \A S : Mlfq!Demote(S) => level' \in [Flows -> Nat]
  BY DEF Mlfq!Demote, Mlfq!Flows, Flows
<1>4. Mlfq!EnqueueReady => \E f : Mlfq!Track(f)
  BY DEF Mlfq!EnqueueReady
<1>5. Mlfq!NoteComplete => Mlfq!ForgetLevel
  BY DEF Mlfq!NoteComplete
<1>6. Mlfq!OnTick => \E S : Mlfq!Demote(S)
  BY DEF Mlfq!OnTick
<1> QED
  BY <1>1, <1>2, <1>3, <1>4, <1>5, <1>6 DEF AsMlfq, Mlfq!PolicyAnswer

\* Every pass of MlfqPolicy is an answer the engine can perform.
LEMMA MlfqAnswers ==
    ASSUME policy = "mlfq", PassReady, Listed, level \in [Flows -> Nat], AsMlfq
    PROVE  (\E acts : AnsweredBy(acts)) /\ Listed' /\ level' \in [Flows -> Nat]
<1> DEFINE p == [waiting |-> Waiting, running |-> LeftRunning, quiet |-> ~MayEvict]
<1>0. \A op : Mlfq!Pending(op) => Head(stack).op = op
  BY MlfqCopies DEF Pending
<1>1. ~Mlfq!AdmitArrival
  BY <1>0 DEF Mlfq!AdmitArrival, PassReady
<1>2. level' \in [Flows -> Nat]
  BY <1>1, MlfqLevels
<1>3. /\ policy' = policy /\ Levelled /\ Believed = ToSet(running)
      /\ ListOf(running, Believed) /\ Mlfq!ToSet(running) = ToSet(running)
      /\ \A r : Mlfq!Forget(r) = Forget(r)
  BY MlfqCopies DEF AsMlfq, Levelled, Believed, Listed
<1>4. p.waiting = Waiting /\ p.running = LeftRunning /\ p.quiet = ~MayEvict
  OBVIOUS
<1> HIDE DEF p
<1>5. \E run, b : \E m \in Mlfq!FilledFrom(b) :
          ListOf(run, LeftRunning) /\ BeforeFill(p, b) /\ Mlfq!AnswerPass(run, m)
  <2>0. ASSUME NEW q, NEW run, q = Waiting, ListOf(run, LeftRunning), Mlfq!Fill(q, run)
        PROVE  \E b : \E m \in Mlfq!FilledFrom(b) :
                   BeforeFill(p, b) /\ Mlfq!AnswerPass(run, m)
    <3> DEFINE b == Mlfq!Mirror(Mlfq!ToSet(run), q)
    <3>1. PICK m \in Mlfq!FilledFrom(b) : Mlfq!AnswerPass(run, m)
      BY <2>0 DEF Mlfq!Fill
    <3>2. Mlfq!ToSet(run) = LeftRunning
      BY <2>0, ListedSet, MlfqCopies
    <3>3. PassStart(q, LeftRunning, b)
      BY <3>2, MlfqCopies
    <3> HIDE DEF b
    <3>4. BeforeFill(p, b)
      BY <1>4, <2>0, <3>3, StartBefore
    <3> QED
      BY <3>1, <3>4
  <2>1. CASE Mlfq!EnqueueReady
    <3>1. Mlfq!Fill(queue \cup {Head(stack).flow}, running) /\ Head(stack).op = "InvocationReady"
      BY <1>0, <2>1, Zenon DEF Mlfq!EnqueueReady
    <3>2. Waiting = queue \cup {Head(stack).flow} /\ LeftRunning = Believed
      BY <3>1 DEF Waiting, LeftRunning
    <3>3. ListOf(running, LeftRunning)
      BY <1>3, <3>2
    <3> QED
      BY <2>0, <3>1, <3>2, <3>3
  <2>2. CASE Mlfq!NoteComplete
    <3>1. Mlfq!Fill(queue, Mlfq!StillRunning) /\ Head(stack).op = "InvocationComplete"
      BY <1>0, <2>2, Zenon DEF Mlfq!NoteComplete
    <3>2. Waiting = queue /\ LeftRunning = Forget(Believed)
      BY <3>1 DEF Waiting, LeftRunning
    <3>3. ListOf(Mlfq!StillRunning, LeftRunning)
      <4> DEFINE v == [set |-> Forget(Believed), order |-> running]
      <4>1. v.set = Forget(Believed) /\ v.order = running
        OBVIOUS
      <4> HIDE DEF v
      <4>2. Mlfq!StillRunning = Mlfq!Filtered(running, v.set)
        BY <1>3, <4>1 DEF Mlfq!StillRunning
      <4>3. Mlfq!StillRunning = Keeping!Fold(v, <<>>, v.order)
        BY <4>1, <4>2, MlfqFolds
      <4>4. ListOf(Keeping!Fold(v, <<>>, v.order), Believed \cap v.set)
        BY <1>3, <4>1, KeepAll
      <4>5. Believed \cap v.set = LeftRunning
        BY <3>2, <4>1 DEF Forget
      <4> QED
        BY <4>3, <4>4, <4>5
    <3> QED
      BY <2>0, <3>1, <3>2, <3>3
  <2>3. CASE Mlfq!OnTick
    <3>1. Head(stack).op = "Tick"
      BY <1>0, <2>3 DEF Mlfq!OnTick
    <3>2. PICK b \in Mlfq!Outranked(running) : \E m \in Mlfq!FilledFrom(b) : Mlfq!AnswerPass(running, m)
      BY <2>3, Zenon DEF Mlfq!OnTick, Mlfq!Reconcile
    <3>3. BeforeFill(p, b)
      BY <1>4, <3>1, MlfqTick
    <3>4. ListOf(running, LeftRunning)
      BY <1>3, <3>1 DEF LeftRunning
    <3> QED
      BY <3>2, <3>3, <3>4
  <2> QED
    BY <1>1, <2>1, <2>2, <2>3 DEF AsMlfq, Mlfq!PolicyAnswer
<1>6. PICK run, b : \E m \in Mlfq!FilledFrom(b) :
          ListOf(run, LeftRunning) /\ BeforeFill(p, b) /\ Mlfq!AnswerPass(run, m)
  BY <1>5
<1>7. PICK m \in Mlfq!FilledFrom(b) :
          ListOf(run, LeftRunning) /\ BeforeFill(p, b) /\ Mlfq!AnswerPass(run, m)
  BY <1>6
<1>8. AnsweredBy(m.actions) /\ Listed'
  BY <1>2, <1>3, <1>4, <1>7, MlfqFill
<1> QED
  BY <1>2, <1>8

\* To fill what is free, from a fit mirror, answers the event (MarsPolicy).
LEMMA MarsFill ==
    ASSUME PassReady, policy = "mars", policy' = policy, level' \in [Flows -> Nat],
           NEW run, ListOf(run, LeftRunning), NEW p,
           p.waiting = Waiting, p.running = LeftRunning, p.quiet = ~MayEvict,
           NEW b, BeforeFill(p, b), NEW m \in Mars!FilledFrom(b), Mars!AnswerPass(run, m)
    PROVE  AnsweredBy(m.actions) /\ Listed'
<1> DEFINE q == Waiting
           ahead == [f \in q |-> {g \in q : Mars!RankedBefore(g, f)}]
           order == Examined(Sorted(q, ahead))
           o == [waiting |-> q, running |-> LeftRunning, quiet |-> ~MayEvict,
                 order |-> order]
           v == [set |-> m.running, order |-> run]
           kept == Keeping!Fold(v, <<>>, run)
           w == [order |-> m.actions, kept |-> LeftRunning \cap m.running]
<1>1. StrictOrder(q, ahead)
  <2> DEFINE rank == level'
             byRank == [f \in q |-> {g \in q :
                            rank[g] < rank[f] \/ (rank[g] = rank[f] /\ g < f)}]
  <2>1. rank \in [Flows -> Nat] /\ q \in SUBSET Flows
    BY DEF PassReady
  <2>2. StrictOrder(q, byRank)
    <3> HIDE DEF rank, q
    <3> QED
      BY <2>1, RankedOrder
  <2>3. \A f, g : Mars!RankedBefore(g, f) <=>
               rank[g] < rank[f] \/ (rank[g] = rank[f] /\ g < f)
    BY DEF Mars!RankedBefore
  <2> HIDE DEF rank
  <2>4. ahead = byRank
    BY <2>3
  <2> QED
    BY <2>2, <2>4
<1>2. b.waiting = q
  BY DEF BeforeFill, PassOK, Served
<1>3. BeforeFill(o, b)
  <2>1. o.waiting = p.waiting /\ o.running = p.running /\ o.quiet = p.quiet
    OBVIOUS
  <2> HIDE DEF o
  <2> QED
    BY <2>1 DEF BeforeFill
<1>4. m \in SlotPass!Fold(o, {b}, order)
  <2> HIDE DEF o
  <2> DEFINE there == Mars!Examined(Mars!Sorted(b.waiting, [f \in b.waiting |->
                         {g \in b.waiting : Mars!RankedBefore(g, f)}]))
  <2>1. Mars!FilledFrom(b) = SlotPass!Fold(o, {b}, there)
    BY MarsFolds
  <2>2. there = order
    <3>1. there = Mars!Examined(Mars!Sorted(q, ahead))
      BY <1>2
    <3> HIDE DEF there, ahead, q
    <3> QED
      BY <3>1, MarsCopies
  <2> HIDE DEF there, order
  <2> QED
    BY <2>1, <2>2
<1>5. queue' = m.waiting /\ Respond(m.actions)
  BY MarsCopies DEF Mars!AnswerPass
<1>6. running' = Noting!Fold(w, kept, m.actions)
  <2> HIDE DEF w, v
  <2>1. running' = Mars!RunningAfter(run, m)
    BY DEF Mars!AnswerPass
  <2>2. Mars!RunningAfter(run, m) = Noting!Fold(w, Mars!Filtered(run, m.running), m.actions)
    BY MarsFolds
  <2>3. Mars!Filtered(run, v.set) = kept
    BY MarsFolds
  <2>4. v.set = m.running
    BY DEF v
  <2> HIDE DEF kept
  <2> QED
    BY <2>1, <2>2, <2>3, <2>4
<1>7. /\ o.waiting = q /\ o.running = LeftRunning /\ o.quiet = ~MayEvict
      /\ o.order = order /\ v.set = m.running /\ v.order = run
      /\ w.order = m.actions /\ w.kept = LeftRunning \cap m.running
  OBVIOUS
<1>8. Levelled
  BY DEF Levelled
<1>9. m \in SlotPass!Fold(o, {b}, o.order) /\ kept = Keeping!Fold(v, <<>>, run)
  BY <1>4
<1> HIDE DEF o, w, v, kept, ahead
<1> QED
  BY <1>1, <1>3, <1>5, <1>6, <1>7, <1>8, <1>9, LevelPass

\* A tick evicts who is not in the keep-set before it fills.
LEMMA MarsTick ==
    ASSUME PassReady, policy = "mars", Listed, Head(stack).op = "Tick",
           NEW p, p.waiting = Waiting, p.running = LeftRunning, p.quiet = ~MayEvict,
           NEW out \in Mars!Outranked(running)
    PROVE  BeforeFill(p, out)
<1>1. /\ Waiting = queue /\ LeftRunning = Believed /\ MayEvict
      /\ Believed = ToSet(running) /\ ListOf(running, Believed)
  BY DEF Waiting, LeftRunning, MayEvict, Believed, Listed, Levelled
<1> DEFINE run == ToSet(running)
<1>2. PICK kept : out = Mars!FoldLeft(Mars!Evicted, Mars!Mirror(Mars!ToSet(running), queue),
             Mars!Filtered(running, {r \in Mars!ToSet(running) : r.flow \notin kept}))
  BY Zenon DEF Mars!Outranked
<1> DEFINE gone == {r \in run : r.flow \notin kept}
           v == [set |-> gone, order |-> running]
           order == Keeping!Fold(v, <<>>, running)
           e == [waiting |-> queue, running |-> run, order |-> order]
           b == Mars!Mirror(run, queue)
<1>3. out = Eviction!Fold(e, b, order)
  <2> HIDE DEF e
  <2>1. Mars!ToSet(running) = run
    BY MarsCopies
  <2>2. Mars!Filtered(running, gone) = order
    <3>1. Mars!Filtered(running, v.set) = Keeping!Fold(v, <<>>, running)
      <4> HIDE DEF v
      <4> QED
        BY MarsFolds
    <3>2. v.set = gone
      OBVIOUS
    <3> QED
      BY <3>1, <3>2
  <2>3. \A x, s : Mars!FoldLeft(Mars!Evicted, x, s) = Eviction!Fold(e, x, s)
    BY MarsFolds
  <2> HIDE DEF run
  <2>4. out = Mars!FoldLeft(Mars!Evicted, b, Mars!Filtered(running, gone))
    BY <1>2, <2>1
  <2> HIDE DEF b, order, gone
  <2> QED
    BY <2>2, <2>3, <2>4
<1>4. PassStart(queue, run, b)
  BY MarsCopies
<1>5. ListOf(order, run \cap gone)
  <2>1. v.order = running /\ v.set = gone
    OBVIOUS
  <2> HIDE DEF v, gone
  <2>2. ListOf(v.order, run)
    BY <1>1, <2>1
  <2>3. ListOf(Keeping!Fold(v, <<>>, v.order), run \cap v.set)
    BY <2>2, KeepAll
  <2> QED
    BY <2>1, <2>3
<1>6. EvictOrder(e)
  <2>1. e.waiting = Waiting /\ e.running = LeftRunning /\ e.order = order
    BY <1>1
  <2>2. run = LeftRunning
    BY <1>1
  <2> HIDE DEF e, order, run
  <2>3. /\ Len(order) \in Nat /\ DOMAIN order = 1..Len(order)
        /\ \A i \in 1..Len(order) : order[i] \in run
        /\ \A i, j \in 1..Len(order) : order[i] = order[j] => i = j
    BY <1>5 DEF ListOf, Distinct
  <2>4. /\ LeftRunning \subseteq Books /\ Waiting \subseteq Flows
        /\ \A r, x \in LeftRunning : r.flow = x.flow => r = x
        /\ \A r \in LeftRunning : r.flow \notin Waiting
    BY <1>1 DEF PassReady
  <2> QED
    BY <2>1, <2>2, <2>3, <2>4 DEF EvictOrder
<1>7. e.waiting = queue /\ e.running = run /\ e.order = order
  OBVIOUS
<1> HIDE DEF e, order, b, run
<1>8. PassOK(queue, run, out) /\ Scheduled(out.actions) = {}
  <2>1. PassStart(e.waiting, e.running, b)
    BY <1>4, <1>7
  <2>2. PassOK(e.waiting, e.running, Eviction!Fold(e, b, e.order))
        /\ Scheduled(Eviction!Fold(e, b, e.order).actions) = {}
    BY <1>6, <2>1, Evictions
  <2> QED
    BY <1>3, <1>7, <2>2
<1> QED
  BY <1>1, <1>8 DEF BeforeFill, run

\* Levels stay natural numbers (MarsPolicy).
LEMMA MarsLevels ==
    ASSUME level \in [Flows -> Nat], AsMars, ~Mars!AdmitArrival
    PROVE  level' \in [Flows -> Nat]
<1>1. \A f : Mars!Track(f) => level' \in [Flows -> Nat]
  BY DEF Mars!Track
<1>2. Mars!ForgetLevel => level' \in [Flows -> Nat]
  BY DEF Mars!ForgetLevel
<1>3. \A S : Mars!Demote(S) => level' \in [Flows -> Nat]
  BY DEF Mars!Demote, Mars!Flows, Flows
<1>4. Mars!EnqueueReady => \E f : Mars!Track(f)
  BY DEF Mars!EnqueueReady
<1>5. Mars!NoteComplete => Mars!ForgetLevel
  BY DEF Mars!NoteComplete
<1>6. Mars!OnTick => \E S : Mars!Demote(S)
  BY DEF Mars!OnTick, Mars!DemoteRunning
<1> QED
  BY <1>1, <1>2, <1>3, <1>4, <1>5, <1>6 DEF AsMars, Mars!PolicyAnswer

\* Every pass of MarsPolicy is an answer the engine can perform.
LEMMA MarsAnswers ==
    ASSUME policy = "mars", PassReady, Listed, level \in [Flows -> Nat], AsMars
    PROVE  (\E acts : AnsweredBy(acts)) /\ Listed' /\ level' \in [Flows -> Nat]
<1> DEFINE p == [waiting |-> Waiting, running |-> LeftRunning, quiet |-> ~MayEvict]
<1>0. \A op : Mars!Pending(op) => Head(stack).op = op
  BY MarsCopies DEF Pending
<1>1. ~Mars!AdmitArrival
  BY <1>0 DEF Mars!AdmitArrival, PassReady, Mars!GateArrival
<1>2. level' \in [Flows -> Nat]
  BY <1>1, MarsLevels
<1>3. /\ policy' = policy /\ Levelled /\ Believed = ToSet(running)
      /\ ListOf(running, Believed) /\ Mars!ToSet(running) = ToSet(running)
      /\ \A r : Mars!Forget(r) = Forget(r)
  BY MarsCopies DEF AsMars, Levelled, Believed, Listed
<1>4. p.waiting = Waiting /\ p.running = LeftRunning /\ p.quiet = ~MayEvict
  OBVIOUS
<1> HIDE DEF p
<1>5. \E run, b : \E m \in Mars!FilledFrom(b) :
          ListOf(run, LeftRunning) /\ BeforeFill(p, b) /\ Mars!AnswerPass(run, m)
  <2>0. ASSUME NEW q, NEW run, q = Waiting, ListOf(run, LeftRunning), Mars!Fill(q, run)
        PROVE  \E b : \E m \in Mars!FilledFrom(b) :
                   BeforeFill(p, b) /\ Mars!AnswerPass(run, m)
    <3> DEFINE b == Mars!Mirror(Mars!ToSet(run), q)
    <3>1. PICK m \in Mars!FilledFrom(b) : Mars!AnswerPass(run, m)
      BY <2>0 DEF Mars!Fill
    <3>2. Mars!ToSet(run) = LeftRunning
      BY <2>0, ListedSet, MarsCopies
    <3>3. PassStart(q, LeftRunning, b)
      BY <3>2, MarsCopies
    <3> HIDE DEF b
    <3>4. BeforeFill(p, b)
      BY <1>4, <2>0, <3>3, StartBefore
    <3> QED
      BY <3>1, <3>4
  <2>1. CASE Mars!EnqueueReady
    <3>1. Mars!Fill(queue \cup {Head(stack).flow}, running) /\ Head(stack).op = "InvocationReady"
      BY <1>0, <2>1, Zenon DEF Mars!EnqueueReady
    <3>2. Waiting = queue \cup {Head(stack).flow} /\ LeftRunning = Believed
      BY <3>1 DEF Waiting, LeftRunning
    <3>3. ListOf(running, LeftRunning)
      BY <1>3, <3>2
    <3> QED
      BY <2>0, <3>1, <3>2, <3>3
  <2>2. CASE Mars!NoteComplete
    <3>1. Mars!Fill(queue, Mars!StillRunning) /\ Head(stack).op = "InvocationComplete"
      BY <1>0, <2>2, Zenon DEF Mars!NoteComplete
    <3>2. Waiting = queue /\ LeftRunning = Forget(Believed)
      BY <3>1 DEF Waiting, LeftRunning
    <3>3. ListOf(Mars!StillRunning, LeftRunning)
      <4> DEFINE v == [set |-> Forget(Believed), order |-> running]
      <4>1. v.set = Forget(Believed) /\ v.order = running
        OBVIOUS
      <4> HIDE DEF v
      <4>2. Mars!StillRunning = Mars!Filtered(running, v.set)
        BY <1>3, <4>1 DEF Mars!StillRunning
      <4>3. Mars!StillRunning = Keeping!Fold(v, <<>>, v.order)
        BY <4>1, <4>2, MarsFolds
      <4>4. ListOf(Keeping!Fold(v, <<>>, v.order), Believed \cap v.set)
        BY <1>3, <4>1, KeepAll
      <4>5. Believed \cap v.set = LeftRunning
        BY <3>2, <4>1 DEF Forget
      <4> QED
        BY <4>3, <4>4, <4>5
    <3> QED
      BY <2>0, <3>1, <3>2, <3>3
  <2>3. CASE Mars!OnTick
    <3>1. Head(stack).op = "Tick"
      BY <1>0, <2>3 DEF Mars!OnTick
    <3>2. PICK b \in Mars!Outranked(running) : \E m \in Mars!FilledFrom(b) : Mars!AnswerPass(running, m)
      BY <2>3, Zenon DEF Mars!OnTick, Mars!Reconcile
    <3>3. BeforeFill(p, b)
      BY <1>4, <3>1, MarsTick
    <3>4. ListOf(running, LeftRunning)
      BY <1>3, <3>1 DEF LeftRunning
    <3> QED
      BY <3>2, <3>3, <3>4
  <2> QED
    BY <1>1, <2>1, <2>2, <2>3 DEF AsMars, Mars!PolicyAnswer
<1>6. PICK run, b : \E m \in Mars!FilledFrom(b) :
          ListOf(run, LeftRunning) /\ BeforeFill(p, b) /\ Mars!AnswerPass(run, m)
  BY <1>5
<1>7. PICK m \in Mars!FilledFrom(b) :
          ListOf(run, LeftRunning) /\ BeforeFill(p, b) /\ Mars!AnswerPass(run, m)
  BY <1>6
<1>8. AnsweredBy(m.actions) /\ Listed'
  BY <1>2, <1>3, <1>4, <1>7, MarsFill
<1> QED
  BY <1>2, <1>8

-----------------------------------------------------------------------------
(* The policies whose books are proved exact.                              *)

\* What is true at any time of a run that such a policy drives.
BaselineInv ==
    /\ EngineInv /\ Entering /\ Sound(queue)
    /\ policy # "fcfs" => Tracks(Believed)
    /\ policy = "fcfs" => running = {}
    /\ Listed
    /\ Levelled => level \in [Flows -> Nat]
    /\ policy = "mars" => inFlight = Cardinality(Flight)

\* A policy answers one of the four events, and stays the policy of the run.
LEMMA AnswerEvents ==
    ASSUME policy \in Faithful, Answer
    PROVE  /\ stack # <<>> /\ ~failed /\ policy' = policy
           /\ Head(stack).op \in PassOps \cup {"FlowArrival"}
<1>1. \A op : Fcfs!Pending(op) \/ OneClass!Pending(op) \/ Mars!Pending(op) \/ Mlfq!Pending(op)
          => Pending(op)
  BY FcfsCopies, OneClassCopies, MarsCopies, MlfqCopies
<1>2. \A op : Pending(op) => stack # <<>> /\ ~failed /\ Head(stack).op = op
  BY DEF Pending
<1>3. CASE AsFcfs
  BY <1>1, <1>2, <1>3 DEF AsFcfs, Fcfs!PolicyAnswer, Fcfs!AdmitArrival,
     Fcfs!EnqueueReady, Fcfs!DrainOnPoke, PassOps
<1>4. CASE AsOneClass
  BY <1>1, <1>2, <1>4 DEF AsOneClass, OneClass!PolicyAnswer, OneClass!AdmitArrival,
     OneClass!EnqueueReady, OneClass!NoteComplete, OneClass!OnTick, PassOps
<1>5. CASE AsMars
  BY <1>1, <1>2, <1>5 DEF AsMars, Mars!PolicyAnswer, Mars!AdmitArrival, Mars!GateArrival,
     Mars!EnqueueReady, Mars!NoteComplete, Mars!OnTick, PassOps
<1>6. CASE AsMlfq
  BY <1>1, <1>2, <1>6 DEF AsMlfq, Mlfq!PolicyAnswer, Mlfq!AdmitArrival,
     Mlfq!EnqueueReady, Mlfq!NoteComplete, Mlfq!OnTick, PassOps
<1>7. ~AsVllm /\ ~AsNiyama /\ ~AsConcur
  BY DEF AsVllm, AsNiyama, AsConcur, Faithful
<1> QED
  BY <1>3, <1>4, <1>5, <1>6, <1>7 DEF Answer

\* When a pass is due the books are ready for it.
LEMMA ReadyForPass ==
    ASSUME policy \in Faithful, BaselineInv, stack # <<>>, Head(stack).op \in PassOps
    PROVE  PassReady
<1> PICK Q, B : Q = queue /\ B = Believed
  OBVIOUS
<1>0. EngineTypeOK
  BY DEF BaselineInv, EngineInv
<1>1. EngineTypeOK /\ Sound(Q) /\ \A f \in Flows : Step(f) \in Nat
  <2>1. Sound(Q)
    BY DEF BaselineInv
  <2>2. cursor \in [Flows -> Nat]
    BY <1>0 DEF EngineTypeOK
  <2> QED
    BY <1>0, <2>1, <2>2 DEF Step
<1>2. WaitingOf(Q) = Waiting /\ LeftOf(B) = LeftRunning
  BY DEF WaitingOf, Waiting, LeftOf, LeftRunning, Forget
<1>3. Waiting \subseteq Flows
  BY <1>1, <1>2, BelowEvent
<1>4. CASE policy = "fcfs"
  <2>1. LeftRunning = {}
    BY <1>4 DEF BaselineInv, LeftRunning, Believed, Levelled, Forget
  <2> QED
    BY <1>1, <1>3, <2>1 DEF PassReady, PassOps
<1>5. CASE policy # "fcfs"
  <2>1. Tracks(B)
    BY <1>5 DEF BaselineInv
  <2>2. /\ LeftRunning \subseteq Books
        /\ \A r \in LeftRunning, d \in Devices : \A f \in Waiting :
               ~(r.flow = f /\ r.step = Step(f))
    BY <1>1, <1>2, <2>1, BelievedStands
  <2>3. \A r \in LeftRunning, d \in Devices : \A f \in Waiting : r # Placement(f, d)
    BY <2>2 DEF Placement
  <2>4. CASE Head(stack).op = "Tick"
    <3>1. Tasks(Tail(stack)) = {}
      BY <1>1, <2>4, StackParts DEF Sound, ReadyOps
    <3>2. /\ \A r, v \in LeftRunning : r.flow = v.flow => r = v
          /\ \A r \in LeftRunning : r.flow \notin Waiting
      BY <1>1, <1>2, <2>1, <3>1, TickStands
    <3> QED
      BY <1>1, <1>3, <2>2, <2>3, <3>2 DEF PassReady, PassOps
  <2>5. CASE Head(stack).op # "Tick"
    <3>1. ~MayEvict /\ policy # "concur"
      BY <2>5 DEF MayEvict, Faithful
    <3> QED
      BY <1>1, <1>3, <2>2, <2>3, <3>1 DEF PassReady, PassOps
  <2> QED
    BY <2>4, <2>5
<1> QED
  BY <1>4, <1>5

\* Whichever of them passes over its queue, it answers from its books.
LEMMA PassAnswered ==
    ASSUME policy \in Faithful, BaselineInv, Answer, Head(stack).op \in PassOps
    PROVE  /\ \E acts : AnsweredBy(acts)
           /\ Listed' /\ (Levelled' => level' \in [Flows -> Nat])
           /\ policy' = policy
<1>1. PassReady /\ policy' = policy /\ Listed /\ (Levelled => level \in [Flows -> Nat])
  BY AnswerEvents, ReadyForPass DEF BaselineInv
<1>2. CASE AsFcfs
  <2>1. policy = "fcfs"
    BY <1>2 DEF AsFcfs
  <2> QED
    BY <1>1, <1>2, <2>1, FcfsAnswers DEF Listed, Levelled
<1>3. CASE AsOneClass
  <2>1. policy = "one class"
    BY <1>3 DEF AsOneClass
  <2> QED
    BY <1>1, <1>3, <2>1, OneClassAnswers DEF Listed, Levelled
<1>4. CASE AsMars
  <2>1. policy = "mars"
    BY <1>4 DEF AsMars
  <2> QED
    BY <1>1, <1>4, <2>1, MarsAnswers DEF Levelled
<1>5. CASE AsMlfq
  <2>1. policy = "mlfq"
    BY <1>5 DEF AsMlfq
  <2> QED
    BY <1>1, <1>5, <2>1, MlfqAnswers DEF Levelled
<1>6. ~AsVllm /\ ~AsNiyama /\ ~AsConcur
  BY DEF AsVllm, AsNiyama, AsConcur, Faithful
<1> QED
  BY <1>2, <1>3, <1>4, <1>5, <1>6 DEF Answer

\* The queue and the books of the next state, by their values.
LEMMA QueueNext ==
    ASSUME NEW W, Sound(W)', W = queue' PROVE Sound(queue)'
BY DEF Sound, LocatedIn

\* What tracks R tracks what is equal to it.
LEMMA BooksNext ==
    ASSUME NEW R, Tracks(R)', R = Believed' PROVE Tracks(Believed)'
BY DEF Tracks

\* A pass is answered by what the books allow.
LEMMA PassAllowed ==
    ASSUME policy \in Faithful, BaselineInv, stack # <<>>, Head(stack).op \in PassOps,
           NEW acts, AnsweredBy(acts), NEW Q, Q = queue, NEW B, B = Believed
    PROVE  /\ MayAnswer(Q, B, acts)
           /\ queue' = WaitingOf(Q) \ Served(acts)
           /\ policy # "fcfs" =>
                  Believed' = {r \in LeftOf(B) : ~IsEvictedBy(acts, r)}
                                  \cup {PlacedBy(t) : t \in Scheduled(acts)}
<1>0. EngineTypeOK /\ Sound(Q)
  BY DEF BaselineInv, EngineInv
<1>1. WaitingOf(Q) = Waiting /\ LeftOf(B) = LeftRunning
  BY DEF WaitingOf, Waiting, LeftOf, LeftRunning, Forget
<1>2. /\ AnswerTo(WaitingOf(Q), LeftOf(B), acts) /\ Respond(acts)
      /\ queue' = WaitingOf(Q) \ Served(acts)
      /\ policy # "fcfs" => Believed' = RunAfter(LeftOf(B), acts)
      /\ (\A t \in Tasks(acts) : t.op # "Preempt") \/ MayEvict
  BY <1>1 DEF AnsweredBy
<1>3. \A t : PlacedBy(t) = Placement(t.flow, t.dev)
  BY DEF PlacedBy, Placement
<1>4. policy # "fcfs" =>
          Believed' = {r \in LeftOf(B) : ~IsEvictedBy(acts, r)}
                          \cup {PlacedBy(t) : t \in Scheduled(acts)}
  BY <1>2, <1>3 DEF RunAfter
<1>5. \/ \A t \in Tasks(acts) : t.op # "Preempt"
      \/ finished = {} /\ Tasks(Tail(stack)) = {} /\ Tracks(B)
  <2>1. CASE policy = "fcfs"
    <3>1. LeftOf(B) = {}
      BY <2>1 DEF BaselineInv, LeftOf, Believed, Levelled
    <3> QED
      BY <1>2, <3>1 DEF AnswerTo, ToPlace, ToEvict
  <2>2. CASE policy # "fcfs" /\ MayEvict
    <3>1. Head(stack).op = "Tick" /\ Tracks(B)
      BY <2>2 DEF MayEvict, Faithful, BaselineInv
    <3>2. Tasks(Tail(stack)) = {} /\ Head(stack) \in Tasks(stack)
      BY <1>0, <3>1, StackParts DEF Sound, ReadyOps
    <3>3. finished = {}
      BY <1>0, <3>1, <3>2 DEF Sound, TurnSound
    <3> QED
      BY <3>1, <3>2, <3>3
  <2> QED
    BY <1>2, <2>1, <2>2
<1> QED
  BY <1>2, <1>4, <1>5 DEF MayAnswer

-----------------------------------------------------------------------------
(* The flows in flight, counted.                                           *)

\* A set of flows is counted one by one.
LEMMA CountedByOne ==
    ASSUME NEW S \in SUBSET Flows
    PROVE  /\ IsFiniteSet(S) /\ Cardinality(S) \in Nat
           /\ \A f \in S : /\ Cardinality(S \ {f}) = Cardinality(S) - 1
                           /\ Cardinality(S) >= 1
           /\ \A f : f \notin S => Cardinality(S \cup {f}) = Cardinality(S) + 1
<1>1. IsFiniteSet(S) /\ Cardinality(S) \in Nat
  BY FlowsFinite, FS_CardinalityType
<1>2. ASSUME NEW f \in S
      PROVE  Cardinality(S \ {f}) = Cardinality(S) - 1 /\ Cardinality(S) >= 1
  <2>1. Cardinality(S \ {f}) = IF f \in S THEN Cardinality(S) - 1 ELSE Cardinality(S)
    BY <1>1, FS_RemoveElement
  <2>2. IsFiniteSet(S \ {f})
    BY <1>1, FS_RemoveElement
  <2>3. Cardinality(S \ {f}) \in Nat
    BY <2>2, FS_CardinalityType
  <2> QED
    BY <1>1, <2>1, <2>3
<1>3. ASSUME NEW f, f \notin S PROVE Cardinality(S \cup {f}) = Cardinality(S) + 1
  <2>1. Cardinality(S \cup {f}) = IF f \in S THEN Cardinality(S) ELSE Cardinality(S) + 1
    BY <1>1, FS_AddElement
  <2> QED
    BY <1>3, <2>1
<1> QED
  BY <1>1, <1>2, <1>3

\* Flows are in flight.
LEMMA FlightOfFlows == ASSUME EngineTypeOK PROVE Flight \in SUBSET Flows
<1>1. admitted \subseteq Flows
  BY DEF EngineTypeOK
<1> QED
  BY <1>1 DEF Flight, Open, Entrants, Leavers

\* One less, but never less than none.
LEMMA OneLess ==
    ASSUME NEW n \in Nat, n >= 1 PROVE Mars!Greatest({0, n - 1}) = n - 1
<1>1. \E m \in {0, n - 1} : \A x \in {0, n - 1} : x <= m
  OBVIOUS
<1>2. /\ Mars!Greatest({0, n - 1}) \in {0, n - 1}
      /\ \A x \in {0, n - 1} : x <= Mars!Greatest({0, n - 1})
  BY <1>1 DEF Mars!Greatest
<1> QED
  BY <1>2

\* MARS counts the flows it lets in and those that leave.
LEMMA MarsCounts ==
    ASSUME AsMars, abandoned = {}
    PROVE  /\ Head(stack).op = "InvocationComplete" =>
                  inFlight' = IF IsComplete(Head(stack).flow)
                              THEN Mars!Greatest({0, inFlight - 1}) ELSE inFlight
           /\ Head(stack).op \in {"InvocationReady", "Tick"} => inFlight' = inFlight
           /\ Head(stack).op = "FlowArrival" =>
                  \E acts : /\ ArrivalAnswer(acts) /\ UNCHANGED <<queue, running, level>>
                            /\ inFlight' = IF acts = <<>> THEN inFlight ELSE inFlight + 1
<1>1. \A op : Mars!Pending(op) => Pending(op) /\ Head(stack).op = op
  BY MarsCopies DEF Pending
<1>2. CASE Mars!AdmitArrival
  <2> DEFINE one == <<TaskOf("Admit", Head(stack).flow, 0, NoDevice)>>
  <2>1. /\ Pending("FlowArrival") /\ Head(stack).op = "FlowArrival"
        /\ UNCHANGED <<queue, running, level>>
    BY <1>1, <1>2 DEF Mars!AdmitArrival, Mars!GateArrival, Mars!levelVars
  <2>2. Mars!TaskOf("Admit", Head(stack).flow, 0, Mars!NoDevice) =
            TaskOf("Admit", Head(stack).flow, 0, NoDevice)
    BY DEF Mars!TaskOf, TaskOf, Mars!NoDevice, NoDevice
  <2>3. \/ inFlight' = inFlight + 1 /\ Respond(one)
        \/ inFlight' = inFlight /\ Respond(<<>>)
    BY <1>2, <2>2, MarsCopies DEF Mars!AdmitArrival, Mars!GateArrival
  <2>4. one # <<>>
    OBVIOUS
  <2>5. one \in {<<>>, <<TaskOf("Admit", Head(stack).flow, 0, NoDevice)>>}
    OBVIOUS
  <2>6. \E acts : /\ ArrivalAnswer(acts)
                  /\ inFlight' = IF acts = <<>> THEN inFlight ELSE inFlight + 1
    <3> HIDE DEF one
    <3>1. CASE inFlight' = inFlight + 1 /\ Respond(one)
      <4>1. ArrivalAnswer(one)
        BY <2>1, <2>5, <3>1 DEF ArrivalAnswer
      <4> QED
        BY <2>4, <3>1, <4>1
    <3>2. CASE inFlight' = inFlight /\ Respond(<<>>)
      <4>1. ArrivalAnswer(<<>>)
        BY <2>1, <3>2 DEF ArrivalAnswer
      <4> QED
        BY <3>2, <4>1
    <3> QED
      BY <2>3, <3>1, <3>2
  <2> QED
    BY <2>1, <2>6
<1>3. CASE Mars!EnqueueReady
  BY <1>1, <1>3 DEF Mars!EnqueueReady
<1>4. CASE Mars!NoteComplete
  <2>1. Head(stack).op = "InvocationComplete" /\ inFlight' = Mars!InFlightAfter
    BY <1>1, <1>4 DEF Mars!NoteComplete
  <2> QED
    BY <2>1 DEF Mars!InFlightAfter, Mars!FlowOver, Mars!IsComplete, IsComplete
<1>5. CASE Mars!OnTick
  BY <1>1, <1>5 DEF Mars!OnTick
<1> QED
  BY <1>2, <1>3, <1>4, <1>5 DEF AsMars, Mars!PolicyAnswer

\* A pass is made of a flow in flight.
LEMMA PassKeeps ==
    ASSUME policy \in Faithful, BaselineInv, Answer, Head(stack).op \in PassOps
    PROVE  BaselineInv'
<1>0. EngineInv /\ EngineTypeOK /\ stack # <<>> /\ Entering
  BY AnswerEvents DEF BaselineInv, EngineInv
<1>1. PICK acts : AnsweredBy(acts)
  BY PassAnswered
<1>2. /\ Listed' /\ (Levelled' => level' \in [Flows -> Nat]) /\ policy' = policy
  BY PassAnswered
<1> PICK Q, B, W, R : /\ Q = queue /\ B = Believed /\ W = WaitingOf(Q) \ Served(acts)
                      /\ R = {r \in LeftOf(B) : ~IsEvictedBy(acts, r)}
                                  \cup {PlacedBy(t) : t \in Scheduled(acts)}
  OBVIOUS
<1>3. /\ MayAnswer(Q, B, acts) /\ queue' = W /\ (policy # "fcfs" => Believed' = R)
      /\ Sound(Q) /\ (policy # "fcfs" => Tracks(B))
  BY <1>0, <1>1, PassAllowed DEF BaselineInv
<1>4. Sound(queue)'
  <2>1. Sound(W)'
    BY <1>0, <1>3, AnswerSound
  <2> QED
    BY <1>3, <2>1, QueueNext
<1>5. policy' # "fcfs" => Tracks(Believed)'
  <2> SUFFICES ASSUME policy # "fcfs" PROVE Tracks(Believed)'
    BY <1>2
  <2>1. Tracks(R)'
    BY <1>0, <1>3, AnswerTracks
  <2> QED
    BY <1>3, <2>1, BooksNext
<1>6. policy' = "fcfs" => running' = {}
  BY <1>1, <1>2 DEF AnsweredBy, BaselineInv
<1>7. EngineInv' /\ Entering'
  <2>1. Respond(acts) /\ acts \in Seq(Task)
    BY <1>3 DEF MayAnswer, AnswerTo
  <2>2. EngineInv'
    BY <1>0, <2>1, RespondInv
  <2>3. UNCHANGED <<phase, cursor, where, timers>>
    BY <2>1 DEF Respond, stepVars, timerVars
  <2> QED
    BY <1>0, <2>2, <2>3, EnteringKept
<1>8. policy' = "mars" => inFlight' = Cardinality(Flight)'
  <2> SUFFICES ASSUME policy = "mars" PROVE inFlight' = Cardinality(Flight')
    BY <1>2
  <2> PICK f, S, T : f = Head(stack).flow /\ S = Flight /\ T = Flight'
    OBVIOUS
  <2>1. AsMars
    BY DEF Answer, AsFcfs, AsVllm, AsOneClass, AsNiyama, AsConcur, AsMlfq
  <2>2. abandoned = {} /\ inFlight = Cardinality(S) /\ S \in SUBSET Flows
    <3>1. abandoned = {}
      BY DEF BaselineInv, Sound, NoGuarantees
    <3>2. inFlight = Cardinality(S)
      BY DEF BaselineInv
    <3>3. Flight \in SUBSET Flows
      BY <1>0, FlightOfFlows
    <3> QED
      BY <3>1, <3>2, <3>3
  <2>3. CASE Head(stack).op = "InvocationComplete"
    <3>1. f \in Flows
      BY <1>0, <1>3, <2>3, BelowEvent, StackTypes
    <3>2. IsComplete(f) <=> cursor[f] = Len(Work[f])
      <4>1. cursor[f] \in Nat /\ Len(Work[f]) \in Nat /\ cursor[f] <= Len(Work[f])
        BY <1>0, <3>1, WorkType DEF EngineInv, EngineTypeOK, CursorInRange
      <4> QED
        BY <4>1 DEF IsComplete
    <3>3. IF cursor[f] = Len(Work[f]) THEN f \in S /\ T = S \ {f} ELSE T = S
      BY <1>0, <1>3, <2>3, AnswerFlight
    <3>4. inFlight' = IF IsComplete(f) THEN Mars!Greatest({0, inFlight - 1}) ELSE inFlight
      BY <2>1, <2>2, <2>3, MarsCounts
    <3>5. CASE IsComplete(f)
      <4>1. f \in S /\ T = S \ {f}
        BY <3>2, <3>3, <3>5
      <4>2. /\ Cardinality(T) = Cardinality(S) - 1 /\ Cardinality(S) >= 1
            /\ Cardinality(S) \in Nat
        BY <2>2, <4>1, CountedByOne
      <4>3. Mars!Greatest({0, inFlight - 1}) = inFlight - 1
        BY <2>2, <4>2, OneLess
      <4> QED
        BY <2>2, <3>4, <3>5, <4>2, <4>3
    <3> QED
      BY <2>2, <3>2, <3>3, <3>4, <3>5
  <2>4. CASE Head(stack).op # "InvocationComplete"
    <3>1. T = S
      BY <1>0, <1>3, <2>4, AnswerFlight
    <3>2. inFlight' = inFlight
      BY <2>1, <2>2, <2>4, MarsCounts DEF PassOps
    <3> QED
      BY <2>2, <3>1, <3>2
  <2> QED
    BY <2>3, <2>4
<1> QED
  BY <1>2, <1>4, <1>5, <1>6, <1>7, <1>8 DEF BaselineInv

\* Everybody but MARS admits whoever arrives.
LEMMA ArrivalAnswered ==
    ASSUME policy \in Faithful, abandoned = {}, Answer, Head(stack).op = "FlowArrival"
    PROVE  \E acts : /\ ArrivalAnswer(acts) /\ UNCHANGED <<policy, queue, running, level>>
                     /\ policy = "mars" =>
                         inFlight' = IF acts = <<>> THEN inFlight ELSE inFlight + 1
<1>1. \A op : Fcfs!Pending(op) \/ OneClass!Pending(op) \/ Mlfq!Pending(op)
          => Pending(op) /\ Head(stack).op = op
  BY FcfsCopies, OneClassCopies, MlfqCopies DEF Pending
<1> DEFINE one == <<TaskOf("Admit", Head(stack).flow, 0, NoDevice)>>
<1>2. ASSUME Pending("FlowArrival"), Respond(one) PROVE ArrivalAnswer(one)
  <2>1. one \in {<<>>, <<TaskOf("Admit", Head(stack).flow, 0, NoDevice)>>}
    OBVIOUS
  <2> HIDE DEF one
  <2> QED
    BY <1>2, <2>1 DEF ArrivalAnswer
<1>3. CASE AsFcfs
  <2>1. Fcfs!AdmitArrival /\ policy = "fcfs" /\ UNCHANGED <<policy, running, level>>
    BY <1>1, <1>3 DEF AsFcfs, Fcfs!PolicyAnswer, Fcfs!EnqueueReady, Fcfs!DrainOnPoke,
       levelVars
  <2>2. Pending("FlowArrival") /\ queue' = queue
    BY <1>1, <2>1 DEF Fcfs!AdmitArrival
  <2>3. Fcfs!TaskOf("Admit", Head(stack).flow, 0, Fcfs!NoDevice) =
            TaskOf("Admit", Head(stack).flow, 0, NoDevice)
    BY DEF Fcfs!TaskOf, TaskOf, Fcfs!NoDevice, NoDevice
  <2>4. Respond(one)
    BY <2>1, <2>3, FcfsCopies DEF Fcfs!AdmitArrival
  <2> HIDE DEF one
  <2> QED
    BY <1>2, <2>1, <2>2, <2>4
<1>4. CASE AsOneClass
  <2>1. OneClass!AdmitArrival /\ policy = "one class" /\ UNCHANGED <<policy, level>>
    <3>1. OneClass!PolicyAnswer /\ policy = "one class" /\ UNCHANGED <<policy, levelVars>>
      BY <1>4 DEF AsOneClass
    <3>2. \A op : OneClass!Pending(op) => Head(stack).op = op
      BY <1>1
    <3>3. ~OneClass!EnqueueReady
      BY <3>2 DEF OneClass!EnqueueReady
    <3>4. ~OneClass!NoteComplete
      BY <3>2 DEF OneClass!NoteComplete
    <3>5. ~OneClass!OnTick
      BY <3>2 DEF OneClass!OnTick
    <3> QED
      BY <3>1, <3>3, <3>4, <3>5 DEF OneClass!PolicyAnswer, levelVars
  <2>2. Pending("FlowArrival") /\ UNCHANGED <<queue, running>>
    BY <1>1, <2>1 DEF OneClass!AdmitArrival, OneClass!policyVars
  <2>3. OneClass!TaskOf("Admit", Head(stack).flow, 0, OneClass!NoDevice) =
            TaskOf("Admit", Head(stack).flow, 0, NoDevice)
    BY DEF OneClass!TaskOf, TaskOf, OneClass!NoDevice, NoDevice
  <2>4. Respond(one)
    BY <2>1, <2>3, OneClassCopies DEF OneClass!AdmitArrival
  <2> HIDE DEF one
  <2> QED
    BY <1>2, <2>1, <2>2, <2>4
<1>5. CASE AsMlfq
  <2>1. Mlfq!AdmitArrival /\ policy = "mlfq" /\ policy' = policy
    BY <1>1, <1>5 DEF AsMlfq, Mlfq!PolicyAnswer, Mlfq!EnqueueReady, Mlfq!NoteComplete,
       Mlfq!OnTick
  <2>2. Pending("FlowArrival") /\ UNCHANGED <<queue, running, level>>
    BY <1>1, <2>1 DEF Mlfq!AdmitArrival, Mlfq!policyVars, Mlfq!levelVars
  <2>3. Mlfq!TaskOf("Admit", Head(stack).flow, 0, Mlfq!NoDevice) =
            TaskOf("Admit", Head(stack).flow, 0, NoDevice)
    BY DEF Mlfq!TaskOf, TaskOf, Mlfq!NoDevice, NoDevice
  <2>4. Respond(one)
    BY <2>1, <2>3, MlfqCopies DEF Mlfq!AdmitArrival
  <2> HIDE DEF one
  <2> QED
    BY <1>2, <2>1, <2>2, <2>4
<1>6. CASE AsMars
  BY <1>6, MarsCounts DEF AsMars
<1>7. ~AsVllm /\ ~AsNiyama /\ ~AsConcur
  BY DEF AsVllm, AsNiyama, AsConcur, Faithful
<1> QED
  BY <1>3, <1>4, <1>5, <1>6, <1>7 DEF Answer

\* What is believed is a matter of what is kept.
LEMMA SameBooks ==
    ASSUME UNCHANGED <<policy, running>>
    PROVE  Believed' = Believed /\ (Listed => Listed') /\ Levelled' = Levelled
BY DEF Believed, Levelled, Listed

\* Admitting or refusing who arrives preserves the invariant.
LEMMA ArrivalKeeps ==
    ASSUME policy \in Faithful, BaselineInv, Answer, Head(stack).op = "FlowArrival"
    PROVE  BaselineInv'
<1>0. EngineInv /\ EngineTypeOK /\ stack # <<>> /\ Entering /\ abandoned = {}
  BY AnswerEvents DEF BaselineInv, EngineInv, Sound, NoGuarantees
<1>1. PICK acts : /\ ArrivalAnswer(acts) /\ UNCHANGED <<policy, queue, running, level>>
                  /\ policy = "mars" =>
                         inFlight' = IF acts = <<>> THEN inFlight ELSE inFlight + 1
  BY <1>0, ArrivalAnswered
<1> PICK Q, B, f, S, T : /\ Q = queue /\ B = Believed /\ f = Head(stack).flow
                         /\ S = Flight /\ T = Flight'
  OBVIOUS
<1>2. Sound(Q) /\ (policy # "fcfs" => Tracks(B))
  BY DEF BaselineInv
<1>3. /\ Sound(Q)' /\ \A X : Tracks(X) => Tracks(X)'
      /\ f \in Flows
      /\ acts = <<>> => T = S
      /\ acts # <<>> => T = S \cup {f} /\ f \notin S
  BY <1>0, <1>1, <1>2, ArrivalSound
<1>4. Believed' = B /\ Listed' /\ Levelled' = Levelled /\ queue' = Q
  BY <1>1, SameBooks DEF BaselineInv
<1>5. Sound(queue)' /\ (policy' # "fcfs" => Tracks(Believed)')
  BY <1>1, <1>2, <1>3, <1>4, QueueNext, BooksNext
<1>6. /\ policy' = "fcfs" => running' = {}
      /\ Levelled' => level' \in [Flows -> Nat]
  BY <1>1, <1>4 DEF BaselineInv
<1>7. EngineInv' /\ Entering'
  <2>1. Respond(acts) /\ acts \in Seq(Task)
    <3> PICK r : r = TaskOf("Admit", f, 0, NoDevice)
      OBVIOUS
    <3>1. r \in Task
      <4>1. 0 \in Nat /\ NoDevice \in 0..NumDevices
        BY SizesAssumption DEF NoDevice
      <4>2. "Admit" \in (EventOps \ {"Tick"}) \cup ActionOps
        BY DEF ActionOps, EventOps
      <4> QED
        BY <1>3, <4>1, <4>2, TaskOfType
    <3>2. Respond(acts) /\ (acts = <<>> \/ acts = <<r>>)
      BY <1>1 DEF ArrivalAnswer
    <3>3. <<>> \in Seq(Task) /\ <<r>> \in Seq(Task)
      BY <3>1
    <3> QED
      BY <3>2, <3>3
  <2>2. EngineInv'
    BY <1>0, <2>1, RespondInv
  <2>3. UNCHANGED <<phase, cursor, where, timers>>
    BY <2>1 DEF Respond, stepVars, timerVars
  <2> QED
    BY <1>0, <2>2, <2>3, EnteringKept
<1>8. policy' = "mars" => inFlight' = Cardinality(Flight)'
  <2> SUFFICES ASSUME policy = "mars" PROVE inFlight' = Cardinality(Flight')
    BY <1>1
  <2>1. S \in SUBSET Flows
    BY <1>0, FlightOfFlows
  <2>2. inFlight = Cardinality(S)
    BY DEF BaselineInv
  <2> QED
    BY <1>1, <1>3, <2>1, <2>2, CountedByOne
<1> QED
  BY <1>4, <1>5, <1>6, <1>7, <1>8 DEF BaselineInv

\* The engine's own steps, with the policy's state as it was.
LEMMA AloneKeeps ==
    ASSUME policy \in Faithful, BaselineInv, Unasked \/ UNCHANGED engineVars,
           UNCHANGED <<policy, policyVars>>
    PROVE  BaselineInv'
<1>0. EngineInv /\ EngineTypeOK /\ Entering
  BY DEF BaselineInv, EngineInv
<1>1. UNCHANGED <<queue, running, level, inFlight>>
  BY DEF policyVars, levelVars, windowVars
<1> PICK Q, B : Q = queue /\ B = Believed
  OBVIOUS
<1>2. Sound(Q) /\ (policy # "fcfs" => Tracks(B))
  BY DEF BaselineInv
<1>3. Sound(Q)' /\ Flight' = Flight /\ \A X : Tracks(X) => Tracks(X)'
  BY <1>0, <1>2, UnaskedSound, StutterSound
<1>4. Believed' = B /\ Listed' /\ Levelled' = Levelled /\ queue' = Q
  BY <1>1, SameBooks DEF BaselineInv
<1>5. Sound(queue)' /\ (policy' # "fcfs" => Tracks(Believed)')
  BY <1>2, <1>3, <1>4, QueueNext, BooksNext
<1>6. EngineInv' /\ Entering'
  <2>1. CASE TriggerStep \/ HandlingStep
    BY <1>0, <2>1, EngineStepInv, EnteringKept DEF EngineStep
  <2>2. CASE AdmitAggregate(Unmetered)
    <3>1. Unmetered \in Int
      BY DEF Unmetered
    <3> QED
      BY <1>0, <2>2, <3>1, AdmitAggregateInv, EnteringKept
  <2>3. CASE UNCHANGED engineVars
    <3>1. UNCHANGED <<phase, cursor, where, timers>>
      BY <2>3 DEF engineVars, stepVars, timerVars
    <3> QED
      BY <1>0, <2>3, <3>1, StutterInv, EnteringKept
  <2> QED
    BY <2>1, <2>2, <2>3 DEF Unasked
<1>7. policy' = "mars" => inFlight' = Cardinality(Flight)'
  BY <1>1, <1>3 DEF BaselineInv
<1> QED
  BY <1>1, <1>4, <1>5, <1>6, <1>7 DEF BaselineInv

\* At first the books are empty.
LEMMA StartBooks ==
    ASSUME StartWith, policy \in Faithful PROVE BaselineInv
<1>1. Init /\ queue = {} /\ running = (IF Levelled THEN <<>> ELSE {})
      /\ inFlight = 0 /\ level = [f \in Flows |-> 0]
  BY DEF StartWith
<1>2. Sound({}) /\ Tracks({}) /\ Flight = {} /\ EngineInv
  BY <1>1, InitSound, InitInv
<1>3. Believed = {}
  BY <1>1 DEF Believed, ToSet
<1>4. Listed
  BY <1>1, <1>3, ListEmpty DEF Listed
<1>5. Entering
  BY <1>1 DEF Init, Entering
<1>6. Cardinality({}) = 0
  BY FS_EmptySet
<1> QED
  BY <1>1, <1>2, <1>3, <1>4, <1>5, <1>6 DEF BaselineInv, Levelled

\* Whatever a policy does, it stays the policy of the run.
LEMMA SamePolicy ==
    ASSUME [Next]_vars PROVE policy' = policy
BY DEF Next, Handling, Answer, EngineAlone, AsFcfs, AsVllm, AsOneClass, AsNiyama,
   AsConcur, AsMars, AsMlfq, vars

\* At any time the books of such a policy agree with the engine.
THEOREM BaselineInvHolds == Spec => [](policy \in Faithful => BaselineInv)
<1>1. StartWith => (policy \in Faithful => BaselineInv)
  BY StartBooks
<1>2. ASSUME policy \in Faithful => BaselineInv, [Next]_vars
      PROVE  (policy \in Faithful => BaselineInv)'
  <2> SUFFICES ASSUME policy \in Faithful PROVE BaselineInv'
    BY <1>2, SamePolicy
  <2>1. CASE Answer
    <3>1. Head(stack).op \in PassOps \cup {"FlowArrival"}
      BY <2>1, AnswerEvents
    <3> QED
      BY <1>2, <2>1, <3>1, PassKeeps, ArrivalKeeps
  <2>2. CASE \/ EngineAlone(HandlingStep \/ AdmitAggregate(Unmetered))
             \/ EngineAlone(TriggerStep)
    BY <1>2, <2>2, AloneKeeps DEF EngineAlone, Unasked
  <2>3. CASE UNCHANGED vars
    BY <1>2, <2>3, AloneKeeps DEF vars
  <2> QED
    BY <1>2, <2>1, <2>2, <2>3 DEF Next, Handling
<1> QED
  BY <1>1, <1>2, PTL DEF Spec

\* Between two triggers they are exact (BooksExact).
THEOREM BaselineBooksHold == Spec => [](policy \in Faithful => BooksExact)
<1>1. ASSUME policy \in Faithful, BaselineInv PROVE BooksExact
  <2> PICK Q, B : Q = queue /\ B = Believed
    OBVIOUS
  <2>1. EngineTypeOK /\ Sound(Q) /\ (policy # "fcfs" => Tracks(B))
    BY <1>1 DEF BaselineInv, EngineInv
  <2>2. policy # "fcfs" => BooksMatch(Believed)
    BY <2>1, IdleTracks
  <2>3. Windowed /\ Idle => inFlight = Cardinality({f \in admitted : ~IsComplete(f)})
    <3> SUFFICES ASSUME Windowed, Idle
                 PROVE  inFlight = Cardinality({f \in admitted : ~IsComplete(f)})
      OBVIOUS
    <3>1. policy = "mars"
      BY <1>1 DEF Windowed, Faithful
    <3>2. Flight = {f \in admitted : ~IsComplete(f)}
      BY <2>1, IdleFlight
    <3> QED
      BY <1>1, <3>1, <3>2 DEF BaselineInv
  <2>4. policy # "niyama"
    BY <1>1 DEF Faithful
  <2> QED
    BY <2>2, <2>3, <2>4 DEF BooksExact
<1> QED
  BY <1>1, BaselineInvHolds, PTL

\* Whatever they decline, evict or demote on the way, no work is lost
\* (NoWorkLost).
THEOREM BaselineWorkHolds == Spec => [](policy \in Faithful => NoWorkLost)
<1>1. ASSUME policy \in Faithful, BaselineInv PROVE NoWorkLost
  <2> PICK Q : Q = queue
    OBVIOUS
  <2>1. EngineInv /\ Entering /\ Sound(Q)
    BY <1>1 DEF BaselineInv
  <2>2. InOnePlace(Q)
    BY <2>1, IdleWork
  <2> QED
    BY <2>2 DEF NoWorkLost
<1> QED
  BY <1>1, BaselineInvHolds, PTL

-----------------------------------------------------------------------------
(* The memory that such a policy fills.                                    *)

\* No memory is pinned, and what a device counts is what its residents hold.
MemoryInv == /\ \A d \in Devices : pins[d] = {}
             /\ AccountingExact /\ CounterWithinLimit

\* An answer of the policy leaves the devices to the engine.
LEMMA AnswerLeavesMemory ==
    ASSUME policy \in Faithful, BaselineInv, Answer
    PROVE  UNCHANGED <<where, cursor, pinDev, pins, spilled, beHbm>>
<1>1. \E acts : Respond(acts)
  <2>1. CASE Head(stack).op \in PassOps
    <3>1. PICK acts : AnsweredBy(acts)
      BY <2>1, PassAnswered
    <3> QED
      BY <3>1 DEF AnsweredBy
  <2>2. CASE Head(stack).op = "FlowArrival"
    <3>1. abandoned = {}
      BY DEF BaselineInv, Sound, NoGuarantees
    <3>2. PICK acts : ArrivalAnswer(acts)
      BY <2>2, <3>1, ArrivalAnswered
    <3> QED
      BY <3>2 DEF ArrivalAnswer
  <2> QED
    BY <2>1, <2>2, AnswerEvents
<1> QED
  BY <1>1 DEF Respond, flowVars, stepVars, deviceVars

\* Every step of a run that such a policy drives keeps the accounting exact and
\* the count within the limit.
LEMMA MemoryKept ==
    ASSUME policy \in Faithful, BaselineInv, BaselineInv', MemoryInv, [Next]_vars
    PROVE  MemoryInv'
<1>0. EngineInv /\ EngineInv' /\ PinsHome
  BY DEF BaselineInv, MemoryInv, PinsHome
<1>1. CASE EngineStep
  <2>1. StopsResident
    BY DEF StopsResident, BaselineInv, Sound, TurnSound, NoGuarantees
  <2>2. AccountingExact'
    BY <1>0, <1>1, <2>1, EngineStepAccounts DEF MemoryInv
  <2>3. \A d \in Devices : pins'[d] = {}
    BY <1>0, <1>1, EngineStepKeepsPins DEF PinsKept, MemoryInv, Sound, BaselineInv
  <2>4. CounterWithinLimit'
    BY <1>0, <1>1, HbmSchedule, EngineStepBringsNothing, HbmKept DEF MemoryInv
  <2> QED
    BY <2>2, <2>3, <2>4 DEF MemoryInv
<1>2. CASE UNCHANGED <<where, cursor, beHbm, pins, spilled>> /\ pinDev' = pinDev
  BY <1>0, <1>2, AccountingUntouched DEF MemoryInv, CounterWithinLimit, HbmUsed
<1>3. CASE AdmitAggregate(Unmetered)
  <2>1. UNCHANGED <<where, cursor, beHbm, pins, spilled>>
    BY <1>3 DEF AdmitAggregate, deviceVars
  <2>2. pinDev' = pinDev
    BY <1>3 DEF AdmitAggregate, flowVars
  <2> QED
    BY <1>2, <2>1, <2>2
<1>4. CASE Answer
  BY <1>2, <1>4, AnswerLeavesMemory
<1>5. CASE UNCHANGED vars
  BY <1>2, <1>5 DEF vars, engineVars, flowVars, stepVars, deviceVars
<1> QED
  BY <1>1, <1>3, <1>4, <1>5 DEF Next, Handling, EngineAlone, EngineStep

\* Under these policies no device ever holds more KV than it has, its residents
\* counted one by one (HbmWithinLimit): whoever stops is completed where it
\* stopped, so that no memory is taken back twice.
THEOREM BaselineMemoryHolds == Spec => [](policy \in Faithful => HbmWithinLimit)
<1>1. ASSUME StartWith PROVE MemoryInv
  <2>1. Init
    BY <1>1 DEF StartWith
  <2>2. ASSUME NEW d \in Devices PROVE pins[d] = {} /\ HbmUsed(d) <= HbmCap
    <3>1. pins[d] = {} /\ pins[d] \ spilled = {} /\ beHbm[d] = 0
      BY <2>1 DEF Init
    <3> QED
      BY <3>1, TotalEmpty, SizesAssumption DEF HbmUsed
  <2> QED
    BY <2>1, <2>2, InitAccounts DEF MemoryInv, CounterWithinLimit
<1>2. ASSUME policy \in Faithful => BaselineInv, (policy \in Faithful => BaselineInv)',
             policy \in Faithful => MemoryInv, [Next]_vars
      PROVE  (policy \in Faithful => MemoryInv)'
  BY <1>2, SamePolicy, MemoryKept
<1>3. MemoryInv => HbmWithinLimit
  BY HeldIsCounted DEF MemoryInv
<1> QED
  BY <1>1, <1>2, <1>3, BaselineInvHolds, PTL DEF Spec

-----------------------------------------------------------------------------
(* The admission window.                                                   *)

\* The window and the gate, with the type that the count needs.
WindowInv == Windowed => WithinCeiling /\ inFlight \in Nat

\* A cluster has a slot, and the window of MARS a ceiling of all slots at least.
HasRoom == NumDevices >= 1 /\ MaxSlots >= 1 /\ OversubscribedPct >= 100

\* The ceiling, in hundredths of a flow.
Envelope == Ceiling * TotalSlots

\* There is a slot, so the ceiling is one flow at least.
LEMMA CeilingAbove ==
    ASSUME HasRoom
    PROVE  /\ TotalSlots \in Nat /\ Envelope \in Nat /\ 100 <= Envelope
           /\ 100 * TotalSlots <= Envelope
<1>1. NumDevices \in Nat /\ MaxSlots \in Nat /\ OversubscribedPct \in Nat
  BY SizesAssumption, WindowAssumption
<1>2. TotalSlots \in Nat /\ TotalSlots >= 1
  <2> PICK n, k : n = NumDevices /\ k = MaxSlots
    OBVIOUS
  <2>1. n \in Nat /\ k \in Nat /\ n >= 1 /\ k >= 1
    BY <1>1 DEF HasRoom
  <2>2. n * k \in Nat /\ n * k >= 1
    BY <2>1
  <2> QED
    BY <2>2 DEF TotalSlots
<1>3. Ceiling \in Nat /\ Ceiling >= 100
  BY <1>1 DEF Ceiling, HasRoom
<1> PICK c, t : c = Ceiling /\ t = TotalSlots
  OBVIOUS
<1>4. c \in Nat /\ t \in Nat /\ c >= 100 /\ t >= 1
  BY <1>2, <1>3
<1>5. c * t \in Nat /\ 100 * t <= c * t
  BY <1>4
<1> QED
  BY <1>4, <1>5 DEF Envelope

\* The least and the greatest of two.
LEMMA OfTwo ==
    ASSUME NEW a \in Int, NEW b \in Int
    PROVE  /\ Least({a, b}) = IF a <= b THEN a ELSE b
           /\ Greatest({a, b}) = IF a <= b THEN b ELSE a
<1>1. \E m \in {a, b} : \A x \in {a, b} : m <= x
  OBVIOUS
<1>2. Least({a, b}) \in {a, b} /\ \A x \in {a, b} : Least({a, b}) <= x
  BY <1>1 DEF Least
<1>3. \E m \in {a, b} : \A x \in {a, b} : x <= m
  OBVIOUS
<1>4. Greatest({a, b}) \in {a, b} /\ \A x \in {a, b} : x <= Greatest({a, b})
  BY <1>3 DEF Greatest
<1> QED
  BY <1>2, <1>4

\* Whatever it is clamped from, the window is within the envelope.
LEMMA ClampedWithin ==
    ASSUME HasRoom, NEW w \in Int
    PROVE  /\ policy = "mars" => Mars!Clamped(w) \in 100..Envelope
           /\ policy = "concur" => Concur!Clamped(w) \in 100..Envelope
<1> PICK c : c = Envelope
  OBVIOUS
<1>1. c \in Nat /\ 100 <= c
  BY CeilingAbove
<1>2. Greatest({w, 100}) \in Int /\ Greatest({w, 100}) >= 100
  BY OfTwo
<1> PICK g : g = Greatest({w, 100})
  OBVIOUS
<1>3. Least({g, c}) \in 100..c
  <2>1. g \in Int /\ g >= 100
    BY <1>2
  <2> QED
    BY <1>1, <2>1, OfTwo
<1>4. policy = "mars" => Mars!Clamped(w) = Least({g, c})
  BY DEF Mars!Clamped, Mars!Least, Least, Mars!Greatest, Greatest, Mars!OneFlow,
     Mars!TotalSlots, TotalSlots, Envelope, Ceiling
<1>5. policy = "concur" => Concur!Clamped(w) = Least({g, c})
  BY DEF Concur!Clamped, Concur!Least, Least, Concur!Greatest, Greatest, Concur!OneFlow,
     Concur!TotalSlots, TotalSlots, Envelope, Ceiling
<1> QED
  BY <1>3, <1>4, <1>5

\* What a step may do to the window: nothing, or clamp it; and to the count of
\* flows: let one in below the window, or one less, but never less than none.
WindowMoves(Clamp(_)) ==
    /\ window' = window \/ \E w \in Int : window' = Clamp(w)
    /\ \/ inFlight' = inFlight
       \/ inFlight' = inFlight + 1 /\ 100 * inFlight < window
       \/ inFlight' = Greatest({0, inFlight - 1})

\* The moves of MARS.
LEMMA MarsWindow ==
    ASSUME AsMars, window \in Int PROVE WindowMoves(Mars!Clamped)
<1>1. /\ Increment \in Int /\ DecreasePct \in Int
      /\ window + Increment * Mars!OneFlow \in Int
  BY WindowAssumption DEF Mars!OneFlow
<1>2. (window * DecreasePct) \div 100 \in Int
  <2>1. window * DecreasePct \in Int
    BY <1>1
  <2> QED
    BY <2>1
<1>3. \A q : window' = Mars!Decreased(window, q) =>
          window' = window \/ \E w \in Int : window' = Mars!Clamped(w)
  BY <1>2 DEF Mars!Decreased
<1>4. window' = Mars!Increased(window) => \E w \in Int : window' = Mars!Clamped(w)
  BY <1>1 DEF Mars!Increased
<1>5. Mars!Greatest({0, inFlight - 1}) = Greatest({0, inFlight - 1})
  BY DEF Mars!Greatest, Greatest
<1>6. CASE Mars!AdmitArrival
  BY <1>6 DEF Mars!AdmitArrival, Mars!GateArrival, Mars!AdmitsAnother, Mars!OneFlow,
     WindowMoves
<1>7. CASE Mars!EnqueueReady
  BY <1>3, <1>7 DEF Mars!EnqueueReady, Mars!MaybeDecrease, WindowMoves
<1>8. CASE Mars!NoteComplete
  BY <1>4, <1>5, <1>8 DEF Mars!NoteComplete, Mars!Increase, Mars!InFlightAfter, WindowMoves
<1>9. CASE Mars!OnTick
  BY <1>3, <1>9 DEF Mars!OnTick, Mars!MaybeDecrease, WindowMoves
<1> QED
  BY <1>6, <1>7, <1>8, <1>9 DEF AsMars, Mars!PolicyAnswer

\* The moves of CONCUR.
LEMMA ConcurWindow ==
    ASSUME AsConcur, window \in Int PROVE WindowMoves(Concur!Clamped)
<1>1. /\ Increment \in Int /\ DecreasePct \in Int
      /\ window + Increment * Concur!OneFlow \in Int
  BY WindowAssumption DEF Concur!OneFlow
<1>2. (window * DecreasePct) \div 100 \in Int
  <2>1. window * DecreasePct \in Int
    BY <1>1
  <2> QED
    BY <2>1
<1>3. \A q : window' = Concur!Decreased(window, q) =>
          window' = window \/ \E w \in Int : window' = Concur!Clamped(w)
  BY <1>2 DEF Concur!Decreased
<1>4. window' = Concur!Increased(window) => \E w \in Int : window' = Concur!Clamped(w)
  BY <1>1 DEF Concur!Increased
<1>5. Concur!Greatest({0, inFlight - 1}) = Greatest({0, inFlight - 1})
  BY DEF Concur!Greatest, Greatest
<1>6. CASE Concur!AdmitArrival
  BY <1>6 DEF Concur!AdmitArrival, Concur!GateArrival, Concur!AdmitsAnother,
     Concur!OneFlow, WindowMoves
<1>7. CASE Concur!EnqueueReady
  BY <1>3, <1>7 DEF Concur!EnqueueReady, WindowMoves
<1>8. CASE Concur!NoteComplete
  BY <1>4, <1>5, <1>8 DEF Concur!NoteComplete, Concur!Leaves, WindowMoves
<1>9. CASE Concur!OnTick
  BY <1>3, <1>9 DEF Concur!OnTick, WindowMoves
<1> QED
  BY <1>6, <1>7, <1>8, <1>9 DEF AsConcur, Concur!PolicyAnswer

\* A run starts with the window within its ceiling.
LEMMA StartWindow == ASSUME HasRoom, StartWith PROVE WindowInv
<1> SUFFICES ASSUME Windowed PROVE WithinCeiling /\ inFlight \in Nat
  BY DEF WindowInv
<1> PICK t, c, i : t = TotalSlots /\ c = Envelope /\ i = InitialPct
  OBVIOUS
<1>1. t \in Nat /\ c \in Nat /\ 100 <= c /\ 100 * t <= c /\ i \in 0..100
  BY CeilingAbove, WindowAssumption
<1>2. i * t \in Nat /\ i * t <= 100 * t
  BY <1>1
<1>3. Greatest({100, i * t}) \in 100..c
  <2> PICK k : k = i * t
    OBVIOUS
  <2>1. k \in Int /\ k <= c
    BY <1>1, <1>2
  <2>2. Greatest({100, k}) = IF 100 <= k THEN k ELSE 100
    BY <2>1, OfTwo
  <2> QED
    BY <1>1, <2>1, <2>2
<1>4. Mars!InitialWindow = Greatest({100, i * t})
  BY DEF Mars!InitialWindow, Mars!Greatest, Greatest, Mars!OneFlow, Mars!TotalSlots,
     TotalSlots
<1>5. window \in 100..c /\ inFlight = 0
  BY <1>3, <1>4 DEF StartWith
<1> QED
  BY <1>1, <1>5 DEF WithinCeiling, Envelope

\* A move of the window stays within the envelope.
LEMMA MoveWithin ==
    ASSUME HasRoom, window \in 100..Envelope, inFlight \in Nat,
           inFlight * 100 < Envelope + 100,
           \/ policy = "mars" /\ WindowMoves(Mars!Clamped)
           \/ policy = "concur" /\ WindowMoves(Concur!Clamped)
    PROVE  /\ window' \in 100..Envelope /\ inFlight' \in Nat
           /\ inFlight' * 100 < Envelope + 100
<1> PICK c, n, w : c = Envelope /\ n = inFlight /\ w = window
  OBVIOUS
<1>1. c \in Nat /\ n \in Nat /\ w \in 100..c /\ n * 100 < c + 100
  BY CeilingAbove
<1>2. window' \in 100..c
  BY <1>1, ClampedWithin DEF WindowMoves
<1>3. \/ inFlight' = n
      \/ inFlight' = n + 1 /\ 100 * n < w
      \/ inFlight' = Greatest({0, n - 1})
  BY DEF WindowMoves
<1>4. Greatest({0, n - 1}) = IF 0 <= n - 1 THEN n - 1 ELSE 0
  <2> PICK k, z : k = n - 1 /\ z = 0
    OBVIOUS
  <2>1. k \in Int /\ z \in Int
    BY <1>1
  <2>2. Greatest({z, k}) = IF z <= k THEN k ELSE z
    BY <2>1, OfTwo
  <2> QED
    BY <2>2
<1>5. inFlight' \in Nat /\ inFlight' * 100 < c + 100
  BY <1>1, <1>3, <1>4
<1> QED
  BY <1>2, <1>5

\* Every step keeps the window.
LEMMA WindowStays ==
    ASSUME HasRoom, WindowInv, [Next]_vars PROVE WindowInv'
<1>0. policy' = policy /\ (Windowed' <=> Windowed)
  <2>1. policy' = policy
    BY DEF Next, Handling, EngineAlone, Answer, AsFcfs, AsVllm, AsOneClass, AsNiyama,
       AsConcur, AsMars, AsMlfq, vars
  <2> QED
    BY <2>1 DEF Windowed
<1> SUFFICES ASSUME Windowed PROVE WithinCeiling' /\ inFlight' \in Nat
  BY <1>0 DEF WindowInv
<1>1. /\ window \in 100..Envelope /\ inFlight \in Nat
      /\ inFlight * 100 < Envelope + 100
  BY DEF WindowInv, WithinCeiling, Envelope
<1>2. Envelope \in Nat
  BY CeilingAbove
<1>3. /\ window' \in 100..Envelope /\ inFlight' \in Nat
      /\ inFlight' * 100 < Envelope + 100
  <2>1. CASE AsMars
    <3>1. policy = "mars" /\ window \in Int
      BY <1>1, <1>2, <2>1 DEF AsMars
    <3> QED
      BY <1>1, <2>1, <3>1, MarsWindow, MoveWithin
  <2>2. CASE AsConcur
    <3>1. policy = "concur" /\ window \in Int
      BY <1>1, <1>2, <2>2 DEF AsConcur
    <3> QED
      BY <1>1, <2>2, <3>1, ConcurWindow, MoveWithin
  <2>3. CASE UNCHANGED <<window, inFlight>>
    BY <1>1, <2>3
  <2>4. ~AsFcfs /\ ~AsVllm /\ ~AsOneClass /\ ~AsNiyama /\ ~AsMlfq
    BY DEF Windowed, AsFcfs, AsVllm, AsOneClass, AsNiyama, AsMlfq
  <2>5. ~Answer => UNCHANGED <<window, inFlight>>
    BY DEF Next, Handling, EngineAlone, vars, policyVars, windowVars
  <2> QED
    BY <2>1, <2>2, <2>3, <2>4, <2>5 DEF Answer
<1>4. Envelope' = Envelope
  BY <1>0 DEF Envelope, Ceiling
<1> QED
  BY <1>3, <1>4 DEF WithinCeiling, Envelope

\* Under CONCUR and MARS the window stays between one flow and its ceiling, and
\* no more flows are in flight than that (_clamp, and the gate of FlowArrival).
THEOREM WindowHolds ==
    ASSUME HasRoom PROVE Spec => [](Windowed => WithinCeiling)
<1>1. StartWith => WindowInv
  BY StartWindow
<1>2. ASSUME WindowInv, [Next]_vars PROVE WindowInv'
  BY <1>2, WindowStays
<1>3. WindowInv => (Windowed => WithinCeiling)
  BY DEF WindowInv
<1> QED
  BY <1>1, <1>2, <1>3, PTL DEF Spec

\* What waits and what runs are flows in flight, each once.
LEMMA FlightCounted ==
    ASSUME EngineTypeOK, NEW Q, Sound(Q), NEW B, Tracks(B), Idle
    PROVE  Cardinality(Q) + Cardinality(B) <= Cardinality(Flight)
<1> DEFINE booked(f) == [flow |-> f, step |-> Step(f), dev |-> where[f]]
<1>1. /\ Q \cup gaps \cup OnDevices = Flight /\ Q \cap OnDevices = {}
  BY IdleParts
<1>2. Flight \in SUBSET Flows
  BY FlightOfFlows
<1>3. UNION {BestEffort(d) : d \in Devices} \subseteq OnDevices
  <2>1. \A f \in Flows : where[f] \in 0..NumDevices
    BY DEF EngineTypeOK
  <2> QED
    BY <2>1, SizesAssumption DEF BestEffort, Resident, OnDevices, Devices, NoDevice
<1>4. B = {booked(f) : f \in UNION {BestEffort(d) : d \in Devices}}
  BY IdleTracks DEF BooksMatch
<1> PICK D, R, S : /\ D = OnDevices /\ S = Flight
                   /\ R = UNION {BestEffort(d) : d \in Devices}
  OBVIOUS
<1>5. /\ Q \subseteq S /\ D \subseteq S /\ R \subseteq D /\ Q \cap R = {}
      /\ B = {booked(f) : f \in R}
  BY <1>1, <1>3, <1>4
<1>6. /\ IsFiniteSet(S) /\ IsFiniteSet(Q) /\ IsFiniteSet(R) /\ IsFiniteSet(Q \cup R)
      /\ Cardinality(Q \cup R) <= Cardinality(S) /\ Cardinality(S) \in Nat
  <2>1. IsFiniteSet(S) /\ Cardinality(S) \in Nat
    BY <1>2, FlowsFinite, FS_CardinalityType
  <2>2. Q \in SUBSET S /\ R \in SUBSET S /\ Q \cup R \in SUBSET S
    BY <1>5
  <2> QED
    BY <2>1, <2>2, FS_Subset
<1>7. IsFiniteSet(B) /\ Cardinality(B) <= Cardinality(R)
  <2> DEFINE h == [f \in R |-> booked(f)]
  <2>1. h \in Surjection(R, B)
    BY <1>5 DEF Surjection
  <2> HIDE DEF h
  <2> QED
    BY <1>6, <2>1, FS_Surjection
<1>8. Cardinality(Q \cup R) = Cardinality(Q) + Cardinality(R)
  <2>1. Cardinality(Q \cup R) = Cardinality(Q) + Cardinality(R) - Cardinality(Q \cap R)
    BY <1>6, FS_Union
  <2>2. Cardinality(Q \cap R) = 0
    BY <1>5, FS_EmptySet
  <2>3. Cardinality(Q) \in Nat /\ Cardinality(R) \in Nat
    BY <1>6, FS_CardinalityType
  <2> QED
    BY <2>1, <2>2, <2>3
<1>9. Cardinality(Q) \in Nat /\ Cardinality(R) \in Nat /\ Cardinality(B) \in Nat
  BY <1>6, <1>7, FS_CardinalityType
<1> QED
  BY <1>6, <1>7, <1>8, <1>9

\* MARS keeps the cluster inside the envelope of its window, and no more flows
\* wait or run than it counts as in flight.
THEOREM MarsWindowHolds ==
    ASSUME HasRoom PROVE Spec => [](policy = "mars" => WindowKept)
<1>1. ASSUME policy = "mars", BaselineInv, Windowed => WithinCeiling PROVE WindowKept
  <2> PICK Q, B : Q = queue /\ B = Believed
    OBVIOUS
  <2>1. EngineTypeOK /\ Sound(Q) /\ Tracks(B) /\ inFlight = Cardinality(Flight)
    BY <1>1 DEF BaselineInv, EngineInv
  <2>2. Idle => Cardinality(Q) + Cardinality(B) <= Cardinality(Flight)
    BY <2>1, FlightCounted
  <2> QED
    BY <1>1, <2>1, <2>2 DEF WindowKept
<1>2. "mars" \in Faithful
  BY DEF Faithful
<1>3. (policy \in Faithful => BaselineInv) /\ (Windowed => WithinCeiling)
          => (policy = "mars" => WindowKept)
  BY <1>1, <1>2
<1> QED
  BY <1>3, BaselineInvHolds, WindowHolds, PTL

-----------------------------------------------------------------------------
(* One class, step by step as first come first served.                     *)

\* Two mirrors alike in all but the books of what runs.
Twin(m, k) ==
    /\ IsMirror(m) /\ IsMirror(k)
    /\ m.slots = k.slots /\ m.hbm = k.hbm /\ m.waiting = k.waiting
    /\ m.aside = k.aside /\ m.actions = k.actions /\ m.stopped = k.stopped

\* Steps alike keep them so.
LEMMA TwinSteps ==
    ASSUME NEW m, NEW k, Twin(m, k), NEW f, NEW d
    PROVE  /\ Twin(Booked(m, f, d), Booked(k, f, d))
           /\ Twin(Declined(m, f), Declined(k, f))
           /\ Twin([m EXCEPT !.stopped = TRUE], [k EXCEPT !.stopped = TRUE])
<1>1. Twin(Booked(m, f, d), Booked(k, f, d))
  BY DEF Twin, IsMirror, MirrorFields, Booked
<1>2. Twin(Declined(m, f), Declined(k, f))
  BY DEF Twin, IsMirror, MirrorFields, Declined
<1>3. Twin([m EXCEPT !.stopped = TRUE], [k EXCEPT !.stopped = TRUE])
  BY DEF Twin, IsMirror, MirrorFields
<1> QED
  BY <1>1, <1>2, <1>3

\* So the first device that has room is the same, and what is done with it.
LEMMA TwinPlace ==
    ASSUME NEW m, NEW k, Twin(m, k), NEW f
    PROVE  /\ Twin(PlaceFirst(m, f), PlaceFirst(k, f))
           /\ AnySlot(m) <=> AnySlot(k)
<1>1. FindDevice(m, f) = FindDevice(k, f)
  BY DEF FindDevice, Twin
<1> PICK d : d = FindDevice(m, f)
  OBVIOUS
<1>2. PlaceFirst(m, f) = IF d = NoDevice THEN Declined(m, f) ELSE Booked(m, f, d)
  BY DEF PlaceFirst
<1>3. PlaceFirst(k, f) = IF d = NoDevice THEN Declined(k, f) ELSE Booked(k, f, d)
  BY <1>1 DEF PlaceFirst
<1>4. Twin(PlaceFirst(m, f), PlaceFirst(k, f))
  <2>1. /\ Twin(Declined(m, f), Declined(k, f))
        /\ Twin(Booked(m, f, d), Booked(k, f, d))
    BY TwinSteps
  <2> QED
    BY ONLY <1>2, <1>3, <2>1
<1>5. AnySlot(m) <=> AnySlot(k)
  BY DEF AnySlot, Twin
<1> QED
  BY <1>4, <1>5

\* Each mirror of the one fold has its twin in the other.
TwinsIn(x, y) == \A m \in x : \E k \in y : Twin(m, k)
LikeSlots(p, x, i) ==
    FillGood(p, x, i) /\ TwinsIn(x, SlotPass!After(p, {p.base}, p.order, i))
AsSlots == INSTANCE FoldFacts WITH Op <- EqualsStep, Good <- LikeSlots

\* One step of both.
LEMMA LockStep ==
    ASSUME NEW p, FillOrder(p), \A r \in p.running : r.flow \in Flows,
           NEW f \in Flows, NEW x, \A m \in x : PassOK(p.waiting, p.running, m),
           NEW y, TwinsIn(x, y)
    PROVE  TwinsIn(EqualsStep(p, x, f), SlotStep(p, y, f))
<1> SUFFICES ASSUME NEW n \in EqualsStep(p, x, f)
             PROVE  \E k \in SlotStep(p, y, f) : Twin(n, k)
  BY DEF TwinsIn
<1>1. PICK m \in x : n = IF m.stopped \/ ~OneClass!HasCapacity(m, f)
                         THEN [m EXCEPT !.stopped = TRUE] ELSE OneClass!TryPlace(m, f)
  BY DEF EqualsStep
<1>2. \A r \in m.running : r.flow \in Flows
  BY RunningFlows
<1>3. /\ OneClass!TryPlace(m, f) = PlaceFirst(m, f)
      /\ OneClass!HasCapacity(m, f) <=> AnySlot(m)
  BY <1>2, EqualsAsSlot
<1>4. PICK k \in y : Twin(m, k)
  BY DEF TwinsIn
<1> DEFINE next(r) == IF r.stopped \/ ~AnySlot(r) THEN [r EXCEPT !.stopped = TRUE]
                                                ELSE PlaceFirst(r, f)
<1>5. next(k) \in SlotStep(p, y, f)
  BY DEF SlotStep
<1>6. n = next(m)
  BY <1>1, <1>3
<1>7. Twin(next(m), next(k))
  <2>1. (m.stopped <=> k.stopped) /\ (AnySlot(m) <=> AnySlot(k))
    BY <1>4, TwinPlace DEF Twin
  <2>2. /\ Twin(PlaceFirst(m, f), PlaceFirst(k, f))
        /\ Twin([m EXCEPT !.stopped = TRUE], [k EXCEPT !.stopped = TRUE])
    BY <1>4, TwinSteps, TwinPlace
  <2> QED
    BY <2>1, <2>2
<1> QED
  BY <1>5, <1>6, <1>7

\* Both passes come to the same answer.
LEMMA PassAlike ==
    ASSUME NEW p, FillOrder(p), \A r \in p.running : r.flow \in Flows,
           NEW b, BeforeFill(p, b), Twin(b, p.base)
    PROVE  TwinsIn(EqualsPass!Fold(p, {b}, p.order), SlotPass!Fold(p, {p.base}, p.order))
<1> DEFINE n == Len(p.order)
<1>0. n \in Nat /\ DOMAIN p.order = 1..n /\ \A i \in 1..n : p.order[i] \in Flows
  BY DEF FillOrder
<1>1. SlotPass!Stepwise(p, {p.base}, p.order, n)
  BY <1>0, SlotPass!AfterSteps
<1>2. LikeSlots(p, {b}, 0)
  <2>1. SlotPass!After(p, {p.base}, p.order, 0) = {p.base}
    BY <1>1 DEF SlotPass!Stepwise
  <2>2. FillGood(p, {b}, 0)
    BY BeforeGood
  <2> QED
    BY <2>1, <2>2 DEF LikeSlots, TwinsIn
<1>3. ASSUME NEW i \in 1..n, NEW x, LikeSlots(p, x, i - 1)
      PROVE  LikeSlots(p, EqualsStep(p, x, p.order[i]), i)
  <2> DEFINE y == SlotPass!After(p, {p.base}, p.order, i - 1)
             f == p.order[i]
  <2>1. SlotPass!After(p, {p.base}, p.order, i) = SlotStep(p, y, f)
    BY <1>1 DEF SlotPass!Stepwise
  <2>2. FillGood(p, x, i - 1) /\ TwinsIn(x, y) /\ f \in Flows
    BY <1>0, <1>3 DEF LikeSlots
  <2>3. FillGood(p, EqualsStep(p, x, f), i)
    BY <2>2, EqualsGood
  <2> HIDE DEF y, f
  <2>4. TwinsIn(EqualsStep(p, x, f), SlotStep(p, y, f))
    BY <2>2, LockStep DEF FillGood
  <2> QED
    BY <2>1, <2>3, <2>4 DEF LikeSlots, f
<1> HIDE DEF n
<1>4. LikeSlots(p, AsSlots!Fold(p, {b}, p.order), n)
  BY <1>0, <1>2, <1>3, AsSlots!FoldKeeps
<1>5. AsSlots!Fold(p, {b}, p.order) = EqualsPass!Fold(p, {b}, p.order)
  BY DEF AsSlots!Fold, EqualsPass!Fold, AsSlots!MapThenFoldSet, EqualsPass!MapThenFoldSet,
     AsSlots!Greatest, EqualsPass!Greatest
<1>6. SlotPass!After(p, {p.base}, p.order, n) = SlotPass!Fold(p, {p.base}, p.order)
  BY <1>1 DEF SlotPass!Stepwise
<1> QED
  BY <1>4, <1>5, <1>6 DEF LikeSlots

\* With a full batch vLLM sees the slots there are.
LEMMA SameStart ==
    ASSUME EngineTypeOK, BatchPct = 100, NEW q, NEW run
    PROVE  Twin(OneClass!PassMirror(q, run), Fcfs!Mirror({}, q))
<1>1. ASSUME NEW d \in Devices
      PROVE  Least({OneClass!FreeSlots(d), OneClass!BatchRoom(d)}) = Fcfs!FreeSlots(d)
  <2>1. OneClass!SlotsUsed(d) = SlotsUsed(d) /\ Fcfs!SlotsUsed(d) = SlotsUsed(d)
    BY DEF OneClass!SlotsUsed, Fcfs!SlotsUsed, SlotsUsed, OneClass!BestEffort,
       Fcfs!BestEffort, BestEffort, OneClass!Resident, Fcfs!Resident, Resident,
       OneClass!Cardinality, Fcfs!Cardinality, Cardinality, OneClass!Flows, Fcfs!Flows,
       Flows, OneClass!Reserved, Fcfs!Reserved, Reserved, OneClass!NoDevice,
       Fcfs!NoDevice, NoDevice
  <2>2. SlotsUsed(d) \in Int
    <3>1. pins[d] \in SUBSET Flows /\ BestEffort(d) \in SUBSET Flows
      BY DEF EngineTypeOK, BestEffort, Resident
    <3>2. IsFiniteSet(pins[d]) /\ IsFiniteSet(BestEffort(d))
      BY <3>1, FlowsFinite
    <3>3. Cardinality(pins[d]) \in Nat /\ Cardinality(BestEffort(d)) \in Nat
      BY <3>2, FS_CardinalityType
    <3> QED
      BY <3>3 DEF SlotsUsed
  <2> PICK u, n : u = SlotsUsed(d) /\ n = MaxSlots
    OBVIOUS
  <2>3. u \in Int /\ n \in Nat
    BY <2>2, SizesAssumption
  <2>4. (100 * n) \div 100 = n
    BY <2>3
  <2>5. OneClass!FreeSlots(d) = n - u /\ Fcfs!FreeSlots(d) = n - u
    BY <2>1 DEF OneClass!FreeSlots, Fcfs!FreeSlots
  <2>6. OneClass!BatchRoom(d) = n - u
    BY <2>1, <2>4 DEF OneClass!BatchRoom
  <2> PICK k : k = n - u
    OBVIOUS
  <2>7. Least({k, k}) = k
    BY <2>3, OfTwo
  <2> QED
    BY <2>5, <2>6, <2>7
<1>2. ASSUME NEW d \in Devices PROVE OneClass!FreeHbm(d) = Fcfs!FreeHbm(d)
  <2>1. \A S, z : OneClass!Total(S, z) = Fcfs!Total(S, z)
    BY DEF OneClass!Total, Fcfs!Total, OneClass!Units, Fcfs!Units, OneClass!UnitsOf,
       Fcfs!UnitsOf, OneClass!Cardinality, Fcfs!Cardinality
  <2>2. OneClass!PinSize = Fcfs!PinSize
    BY DEF OneClass!PinSize, Fcfs!PinSize, OneClass!Greatest, Fcfs!Greatest,
       OneClass!Kv, Fcfs!Kv, OneClass!Steps, Fcfs!Steps, OneClass!Flows, Fcfs!Flows
  <2> QED
    BY <2>1, <2>2 DEF OneClass!FreeHbm, Fcfs!FreeHbm, OneClass!HbmUsed, Fcfs!HbmUsed
<1>3. OneClass!Devices = Devices /\ Fcfs!Devices = Devices
  BY DEF OneClass!Devices, Fcfs!Devices, Devices
<1>4. \A d : OneClass!Least({OneClass!FreeSlots(d), OneClass!BatchRoom(d)})
               = Least({OneClass!FreeSlots(d), OneClass!BatchRoom(d)})
  BY DEF OneClass!Least, Least
<1>5. OneClass!Mirror(run, q).hbm = Fcfs!Mirror({}, q).hbm
  BY <1>2, <1>3 DEF OneClass!Mirror, Fcfs!Mirror
<1>6. OneClass!PassMirror(q, run).slots = Fcfs!Mirror({}, q).slots
  BY <1>1, <1>3, <1>4 DEF OneClass!PassMirror, OneClass!Mirror, Fcfs!Mirror
<1> QED
  BY <1>5, <1>6 DEF Twin, IsMirror, MirrorFields, OneClass!PassMirror,
     OneClass!Mirror, Fcfs!Mirror

\* Both examine the same flows in the same order.
LEMMA SameOrder ==
    ASSUME NEW q \in SUBSET Flows
    PROVE  Sorted(q, [f \in q |-> {g \in q : OneClass!OrderedBefore(g, f)}])
               = Sorted(q, EarlierFlows)
<1> DEFINE ahead == [f \in q |-> {g \in q : OneClass!OrderedBefore(g, f)}]
<1>1. ASSUME NEW x \in q PROVE q \cap ahead[x] = q \cap EarlierFlows[x]
  <2>1. \A f \in q : f \in Nat /\ f >= 1 /\ EarlierFlows[f] = 1..(f - 1)
    BY DEF Flows, EarlierFlows
  <2>2. \A f, g \in q : OneClass!OrderedBefore(g, f) <=> g < f
    BY <2>1 DEF OneClass!OrderedBefore
  <2> QED
    BY <2>1, <2>2
<1> HIDE DEF ahead
<1> DEFINE one(i) == CHOOSE x \in q : Cardinality(q \cap ahead[x]) = i - 1
           two(i) == CHOOSE x \in q : Cardinality(q \cap EarlierFlows[x]) = i - 1
<1>2. ASSUME NEW i PROVE one(i) = two(i)
  BY <1>1
<1>3. Sorted(q, ahead) = Sorted(q, EarlierFlows)
  <2>1. /\ Sorted(q, ahead) = [i \in 1..Cardinality(q) |-> one(i)]
        /\ Sorted(q, EarlierFlows) = [i \in 1..Cardinality(q) |-> two(i)]
    BY DEF Sorted
  <2> HIDE DEF one, two
  <2> QED
    BY <1>2, <2>1
<1> QED
  BY <1>3 DEF ahead

\* So a pass of vLLM with one class is a drain of first come first served.
LEMMA PassAsDrain ==
    ASSUME EngineTypeOK, BatchPct = 100, PassReady,
           OneClass!SchedulePass(Waiting, LeftRunning)
    PROVE  Fcfs!Drain(Waiting)
<1> DEFINE q == Waiting
           run == LeftRunning
           ahead == [f \in q |-> {g \in q : OneClass!OrderedBefore(g, f)}]
           order == Examined(Sorted(q, EarlierFlows))
           start == Fcfs!Mirror({}, q)
           b == OneClass!PassMirror(q, run)
           p == [waiting |-> q, running |-> run, order |-> order, quiet |-> TRUE,
                 base |-> start]
<1>1. q \in SUBSET Flows /\ \A r \in run : r.flow \in Flows
  BY DEF PassReady, Books
<1>2. Listing(order, q)
  <2>1. IsFiniteSet(q) /\ StrictOrder(q, EarlierFlows)
    BY <1>1, FlowsFinite, FlowOrder
  <2> QED
    BY <2>1, SortedExamined
<1>3. PassStart(q, run, b)
  BY OneClassCopies
<1>4. Twin(b, start)
  BY SameStart
<1>5. /\ p.waiting = q /\ p.running = run /\ p.order = order /\ p.quiet = TRUE
      /\ p.base = start
  OBVIOUS
<1>6. OneClass!Examined(OneClass!Sorted(q, ahead)) = order
  <2>1. Sorted(q, ahead) = Sorted(q, EarlierFlows)
    BY <1>1, SameOrder
  <2> HIDE DEF ahead, q
  <2> QED
    BY <2>1, OneClassCopies
<1>7. Fcfs!Examined(Fcfs!Sorted(q, Fcfs!EarlierFlows)) = order
  BY FcfsCopies
<1> HIDE DEF p
<1>8. PICK m \in EqualsPass!Fold(p, {b}, order) :
          queue' = m.waiting /\ OneClass!Respond(m.actions)
  <2> HIDE DEF q, run, order
  <2> QED
    BY <1>6, EqualsDrain DEF q, run
<1> HIDE DEF b, start, order, ahead, q, run
<1>9. PICK k \in SlotPass!Fold(p, {start}, order) : Twin(m, k)
  <2>1. FillOrder(p)
    BY <1>1, <1>2, <1>5, ListedFill DEF PassReady
  <2>2. BeforeFill(p, b)
    BY <1>3, <1>5, StartBefore
  <2>3. TwinsIn(EqualsPass!Fold(p, {b}, p.order), SlotPass!Fold(p, {p.base}, p.order))
    BY <1>1, <1>4, <1>5, <2>1, <2>2, PassAlike
  <2> QED
    BY <1>5, <1>8, <2>3 DEF TwinsIn
<1>10. queue' = k.waiting /\ Fcfs!Respond(k.actions)
  BY <1>8, <1>9, OneClassCopies, FcfsCopies DEF Twin
<1>11. Fcfs!Drain(q)
  BY <1>7, <1>9, <1>10, FcfsDrain DEF start
<1> QED
  BY <1>11 DEF q

\* Its answers are answers of first come first served.
LEMMA AnswerAsFcfs ==
    ASSUME policy = "one class", BaselineInv, BatchPct = 100, AsOneClass
    PROVE  Fcfs!PolicyAnswer
<1>1. \A op : (OneClass!Pending(op) <=> Pending(op)) /\ (Fcfs!Pending(op) <=> Pending(op))
  BY OneClassCopies, FcfsCopies
<1>2. EngineTypeOK /\ Believed = running
  BY DEF BaselineInv, EngineInv, Believed, Levelled
<1>3. ASSUME NEW op \in PassOps, OneClass!Pending(op) PROVE PassReady /\ Head(stack).op = op
  <2>1. stack # <<>> /\ Head(stack).op = op
    BY <1>1, <1>3 DEF Pending
  <2> QED
    BY <2>1, ReadyForPass DEF Faithful
<1>4. CASE OneClass!AdmitArrival
  <2>1. OneClass!TaskOf("Admit", Head(stack).flow, 0, OneClass!NoDevice) =
            Fcfs!TaskOf("Admit", Head(stack).flow, 0, Fcfs!NoDevice)
    BY DEF OneClass!TaskOf, Fcfs!TaskOf, OneClass!NoDevice, Fcfs!NoDevice
  <2> QED
    BY <1>1, <1>4, <2>1, OneClassCopies, FcfsCopies DEF OneClass!AdmitArrival,
       Fcfs!AdmitArrival, Fcfs!PolicyAnswer, OneClass!policyVars
<1>5. CASE OneClass!EnqueueReady
  <2>1. PassReady /\ Head(stack).op = "InvocationReady"
    BY <1>3, <1>5 DEF OneClass!EnqueueReady, PassOps
  <2>2. Waiting = queue \cup {Head(stack).flow} /\ LeftRunning = running
    BY <1>2, <2>1 DEF Waiting, LeftRunning
  <2>3. OneClass!SchedulePass(Waiting, LeftRunning)
    BY <1>5, <2>2 DEF OneClass!EnqueueReady
  <2>4. Fcfs!Drain(Waiting)
    BY <1>2, <2>1, <2>3, PassAsDrain
  <2> QED
    BY <1>1, <1>5, <2>2, <2>4 DEF OneClass!EnqueueReady, Fcfs!EnqueueReady, Fcfs!PolicyAnswer
<1>6. CASE OneClass!NoteComplete
  <2>1. PassReady /\ Head(stack).op = "InvocationComplete"
    BY <1>3, <1>6 DEF OneClass!NoteComplete, PassOps
  <2>2. Waiting = queue /\ LeftRunning = OneClass!Forget(running)
    BY <1>2, <2>1, OneClassCopies DEF Waiting, LeftRunning
  <2>3. OneClass!SchedulePass(Waiting, LeftRunning)
    BY <1>6, <2>2 DEF OneClass!NoteComplete
  <2>4. Fcfs!Drain(Waiting)
    BY <1>2, <2>1, <2>3, PassAsDrain
  <2> QED
    BY <1>1, <1>6, <2>2, <2>4 DEF OneClass!NoteComplete, Fcfs!DrainOnPoke, Fcfs!PolicyAnswer
<1>7. CASE OneClass!OnTick
  <2>1. PassReady /\ Head(stack).op = "Tick"
    BY <1>3, <1>7 DEF OneClass!OnTick, PassOps
  <2>2. Waiting = queue /\ LeftRunning = running
    BY <1>2, <2>1 DEF Waiting, LeftRunning
  <2>3. OneClass!SchedulePass(Waiting, LeftRunning)
    BY <1>7, <2>2 DEF OneClass!OnTick
  <2>4. Fcfs!Drain(Waiting)
    BY <1>2, <2>1, <2>3, PassAsDrain
  <2> QED
    BY <1>1, <1>7, <2>2, <2>4 DEF OneClass!OnTick, Fcfs!DrainOnPoke, Fcfs!PolicyAnswer
<1> QED
  BY <1>4, <1>5, <1>6, <1>7 DEF AsOneClass, OneClass!PolicyAnswer

\* The engine of FcfsPolicy is that of this module.
LEMMA FcfsEngine ==
    EngineStep \/ AdmitAggregate(Unmetered) =>
        Fcfs!EngineStep \/ Fcfs!AdmitAggregate(Fcfs!Unmetered)
<1>1. TriggerStep <=> Fcfs!TriggerStep
  BY DEF Fcfs!TriggerStep, TriggerStep, Fcfs!IntervalEnd, IntervalEnd,
     Fcfs!timerVars, timerVars, Fcfs!flowVars, flowVars, Fcfs!Decoding, Decoding,
     Fcfs!Resident, Resident, Fcfs!Flows, Flows, Fcfs!Stop, Stop,
     Fcfs!CreditedBudget, CreditedBudget, Fcfs!Unmetered, Unmetered,
     Fcfs!CreditedLeft, CreditedLeft, Fcfs!MinStop, MinStop, Fcfs!TokensUntilStop,
     TokensUntilStop, Fcfs!Least, Least, Fcfs!Idle, Idle, Fcfs!DecodeToken,
     DecodeToken, Fcfs!loopVars, loopVars, Fcfs!stepVars, stepVars, Fcfs!Devices,
     Devices, Fcfs!EntryVoid, EntryVoid, Fcfs!deviceVars, deviceVars,
     Fcfs!StillEntering, StillEntering, Fcfs!Step, Step, Fcfs!EnterDevice,
     EnterDevice, Fcfs!GapEnd, GapEnd, Fcfs!NoDevice, NoDevice, Fcfs!TaskOf, TaskOf,
     Fcfs!TickTimer, TickTimer, Fcfs!Arrival, Arrival
<1>2. HandlingStep <=> Fcfs!HandlingStep
  BY DEF Fcfs!HandlingStep, HandlingStep, Fcfs!Degrade, Degrade, Fcfs!loopVars,
     loopVars, Fcfs!timerVars, timerVars, Fcfs!deviceVars, deviceVars, Fcfs!Step,
     Step, Fcfs!Shortened, Shortened, Fcfs!Steps, Steps, Fcfs!Pending, Pending,
     Fcfs!PreemptRefused, PreemptRefused, Fcfs!Raise, Raise, Fcfs!stepVars,
     stepVars, Fcfs!flowVars, flowVars, Fcfs!Preemptible, Preemptible,
     Fcfs!Reserved, Reserved, Fcfs!NoDevice, NoDevice, Fcfs!Preempt, Preempt,
     Fcfs!Vacated, Vacated, Fcfs!CountedOn, CountedOn, Fcfs!Released, Released,
     Fcfs!NextKv, NextKv, Fcfs!Kv, Kv, Fcfs!CreditedBudget, CreditedBudget,
     Fcfs!Unmetered, Unmetered, Fcfs!Decoding, Decoding, Fcfs!Resident, Resident,
     Fcfs!Flows, Flows, Fcfs!CreditedLeft, CreditedLeft, Fcfs!ScheduleRefused,
     ScheduleRefused, Fcfs!Schedulable, Schedulable, Fcfs!CanPlace, CanPlace,
     Fcfs!HbmFits, HbmFits, Fcfs!HbmUsed, HbmUsed, Fcfs!PinSize, PinSize,
     Fcfs!Greatest, Greatest, Fcfs!Total, Total, Fcfs!Units, Units, Fcfs!UnitsOf,
     UnitsOf, Fcfs!HasFreeSlot, HasFreeSlot, Fcfs!SlotsUsed, SlotsUsed,
     Fcfs!BestEffort, BestEffort, Fcfs!PinUsable, PinUsable, Fcfs!Devices, Devices,
     Fcfs!Schedule, Schedule, Fcfs!AfterRestore, AfterRestore, Fcfs!AdmitRefused,
     AdmitRefused, Fcfs!CanPin, CanPin, Fcfs!HbmCommitted, HbmCommitted,
     Fcfs!Reoffer, Reoffer, Fcfs!TaskOf, TaskOf, Fcfs!StillPreempted,
     StillPreempted, Fcfs!AbandonFlow, AbandonFlow, Fcfs!ReleasePin, ReleasePin,
     Fcfs!Leave, Leave, Fcfs!Stop, Stop, Fcfs!CompleteIntoNext, CompleteIntoNext,
     Fcfs!Advance, Advance, Fcfs!IsLastStep, IsLastStep, Fcfs!Completing,
     Completing, Fcfs!CompleteIntoGap, CompleteIntoGap, Fcfs!HoldAcrossGap,
     HoldAcrossGap, Fcfs!CompleteFlow, CompleteFlow, Fcfs!Cardinality, Cardinality
<1>3. AdmitAggregate(Unmetered) <=> Fcfs!AdmitAggregate(Fcfs!Unmetered)
  BY DEF Fcfs!AdmitAggregate, AdmitAggregate, Fcfs!loopVars, loopVars,
     Fcfs!timerVars, timerVars, Fcfs!deviceVars, deviceVars, Fcfs!OfferNext,
     OfferNext, Fcfs!NoDevice, NoDevice, Fcfs!Step, Step, Fcfs!TaskOf, TaskOf,
     Fcfs!Pending, Pending, Fcfs!Unmetered, Unmetered
<1> QED
  BY <1>1, <1>2, <1>3 DEF EngineStep, Fcfs!EngineStep

\* With one class and a full batch vLLM is first come first served, step by
\* step: a pass evicts nobody and gives the same work to the same devices, for
\* every workload, cluster and queue (StepsAsFcfs).
THEOREM OneClassStepsAsFcfs == ASSUME BatchPct = 100 PROVE Spec => StepsAsFcfs
<1>1. ASSUME policy \in Faithful => BaselineInv, [Next]_vars
      PROVE  [policy = "one class" => Fcfs!Next]_<<engineVars, queue>>
  <2> SUFFICES ASSUME policy = "one class", ~UNCHANGED <<engineVars, queue>>
               PROVE  Fcfs!Next
    OBVIOUS
  <2>1. BaselineInv
    BY <1>1 DEF Faithful
  <2>2. CASE Answer
    <3>1. AsOneClass
      BY <2>2 DEF Answer, AsFcfs, AsVllm, AsNiyama, AsConcur, AsMars, AsMlfq
    <3> QED
      BY <2>1, <3>1, AnswerAsFcfs DEF Fcfs!Next
  <2>3. CASE \/ EngineAlone(HandlingStep \/ AdmitAggregate(Unmetered))
             \/ EngineAlone(TriggerStep)
    <3>1. EngineStep \/ AdmitAggregate(Unmetered)
      BY <2>3 DEF EngineAlone, EngineStep
    <3>2. UNCHANGED queue
      BY <2>3 DEF EngineAlone, policyVars
    <3> QED
      BY <3>1, <3>2, FcfsEngine DEF Fcfs!Next
  <2>4. CASE UNCHANGED vars
    BY <2>4 DEF vars, policyVars
  <2> QED
    BY <1>1, <2>2, <2>3, <2>4 DEF Next, Handling
<1> QED
  BY <1>1, BaselineInvHolds, PTL DEF Spec, StepsAsFcfs
===============================================================================
