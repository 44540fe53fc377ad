\* Every experiment program, each by itself.  A directory fills up, a tuning
\* ends and a generator runs out of flows: a behaviour may stop.
SPECIFICATION Spec
INVARIANTS
    VerdictSound
    EvidenceHonest
    CurvesFair
    FlowsPaired
PROPERTIES
    SelectsBest
    SweepResumable
CHECK_DEADLOCK FALSE
