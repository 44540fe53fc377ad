\* The launching process is killed, its workers go on, and the grid is
\* launched again.
SPECIFICATION Spec
CONSTANTS
    c1 = c1
    c2 = c2
    w1 = w1
    w2 = w2
    Cells = {c1, c2}
    Selections <- Pair
    Workers = {w1, w2}
    Capped = TRUE
    Faults = {{"main"}}
    MaxLaunches = 2
SYMMETRY WorkerSymmetry
INVARIANTS
    NoHalfFileLeft
CHECK_DEADLOCK FALSE
