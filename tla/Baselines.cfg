\* Every baseline, where memory and slots are scarce.  The policies that may
\* make the engine raise meet four of the five flows.
SPECIFICATION Spec
CONSTRAINT LastForTheFaithful
CONSTANTS
    NumFlows = 5
    NumDevices = 2
    MaxSlots = 2
    HbmCap = 3
    Work <- ScarceWork
    PinMode = "STRICT"
    NonPreemptible = TRUE
    TokenScalePct = 50
    PreemptCap = 2
    ScanBudget = 64
    Policies <- AllPolicies
    ClassPriority <- ScarceClasses
    BatchPct = 100
    Slo <- ScarceSlo
    DeadlineRank <- ScarceRank
    NumDemotions = 1
    InitialPct = 100
    Increment = 1
    DecreasePct = 50
    CongestionPct = 25
    OversubscribedPct = 200
    NumLevels = 3
    Quantum <- Quanta
INVARIANTS
    FaithfulNeverRaise
    BooksExact
    NoWorkLost
    WaitsForCause
    WindowKept
PROPERTIES
    StepsAsFcfs
