\* Every kind of fault, over overlapping selections, with an operator who
\* relaunches what is missing.
SPECIFICATION FairSpec
CONSTANTS
    c1 = c1
    c2 = c2
    w1 = w1
    w2 = w2
    Cells = {c1, c2}
    Selections <- Shards
    Workers = {w1, w2}
    Capped = TRUE
    Faults <- FaultSets
    MaxLaunches = 5
INVARIANTS
    NoHalfFile
    ReturnedTrue
PROPERTIES
    NeverOverwritten
    GridCompletes
CHECK_DEADLOCK FALSE
