\* Entries, evictions and completions around one serve loop.
SPECIFICATION FairSpec
CONSTANTS
    i1 = i1
    i2 = i2
    i3 = i3
    Invs = {i1, i2, i3}
    Tokens = 32
    Slots = 2
    Rate <- RateOf
    Latencies = {0, 8}
    Grain = 8
    Horizon = 16
    MaxPreempt = 1
INVARIANTS
    ServiceExact
PROPERTIES
    IntervalCurrent
    EveryDecodeEnds
CHECK_DEADLOCK FALSE
