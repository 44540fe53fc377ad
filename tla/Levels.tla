------------------------------- MODULE Levels -------------------------------
(***************************************************************************)
(* The multi-level feedback queue of fastserve_mlfq.py, which mars_style.py *)
(* repeats: every invocation enters at level 0 and sinks as it is served;  *)
(* ticks make the residents the best ranked ones, other events only fill   *)
(* free capacity.                                                          *)
(***************************************************************************)
EXTENDS PolicyPass

CONSTANTS
    NumLevels,       \* num_levels
    Quantum          \* quantum_tokens of the levels, scaled; level 0 first

VARIABLES
    running,         \* _running, in the order of insertion
    level,           \* _level of each flow's next invocation
    base,            \* its _level_base
    tracked          \* invocations with a level, [flow, step] each

levelVars == <<level, base, tracked>>

\* generated_tokens of the next invocation of f: fresh at a settlement only.
Generated(f) == Work[f][Step(f)].output - left[f]

\* _order_key
RankedBefore(f, g) ==
    level'[f] < level'[g] \/ (level'[f] = level'[g] /\ f < g)

\* An invocation that is offered for the first time has no level yet.
Untracked(f) == [flow |-> f, step |-> Step(f)] \notin tracked

\* _track: enter level 0, or leave an existing level intact.
Track(f) ==
    /\ tracked' = tracked \cup {[flow |-> f, step |-> Step(f)]}
    /\ IF Untracked(f)
       THEN /\ level' = [level EXCEPT ![f] = 0]
            /\ base' = [base EXCEPT ![f] = Generated(f)]
       ELSE UNCHANGED <<level, base>>

\* _forget the invocation that completed.
ForgetLevel ==
    /\ tracked' = tracked \ {[flow |-> Head(stack).flow, step |-> Head(stack).step]}
    /\ UNCHANGED <<level, base>>

\* The quantum of the current level is used up.  The service it was used up by
\* counts for no further level: one pass demotes by one level at most.
Earned(f) ==
    /\ level[f] < NumLevels - 1
    /\ Generated(f) - base[f] >= Quantum[level[f] + 1]

\* Demotion of those in S who earned it.
Demote(S) ==
    /\ level' = [f \in Flows |-> IF f \in S /\ Earned(f) THEN level[f] + 1
                                                         ELSE level[f]]
    /\ base' = [f \in Flows |-> IF f \in S /\ Earned(f) THEN Generated(f)
                                                        ELSE base[f]]
    /\ UNCHANGED tracked

Residents(run) == {r.flow : r \in ToSet(run)}

\* _running after a pass: the residents kept, then the placements it made.
RunningAfter(run, m) ==
    FoldLeft(LAMBDA t, a : IF a.op = "Schedule"
                           THEN Append(t, Placement(a.flow, a.dev)) ELSE t,
             Filtered(run, m.running), m.actions)

\* The best ranked waiting work goes into what capacity is free.
TryPlace(m, f) == LET d == FindDevice(m, f)
                  IN IF d = NoDevice THEN Declined(m, f) ELSE Booked(m, f, d)
FilledFrom(m) ==
    Drained(m, Sorted(m.waiting, [f \in m.waiting |->
                                      {g \in m.waiting : RankedBefore(g, f)}]),
            TryPlace, LAMBDA r, f : AnySlot(r))

\* The pass is answered with its actions.
AnswerPass(run, m) ==
    queue' = m.waiting /\ running' = RunningAfter(run, m) /\ Respond(m.actions)

\* A plausible bug: who is kept does not depend on the levels.
KeptByAge(run) == {f \in queue \cup Residents(run) :
    Cardinality({g \in queue \cup Residents(run) : g < f}) < TotalSlots}
\* The keep-set: as many of the best ranked as the cluster has slots.
Kept(run) == {f \in queue \cup Residents(run) :
    Cardinality({g \in queue \cup Residents(run) : RankedBefore(g, f)})
        < TotalSlots}

\* The mirror after the residents outside the keep-set are evicted, in a set.
Outranked(run) ==
    {FoldLeft(Evicted, Mirror(ToSet(run), queue),
              Filtered(run, {r \in ToSet(run) : r.flow \notin kept}))
        : kept \in {Kept(run)}}
=============================================================================
