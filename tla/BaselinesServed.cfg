\* Every baseline, where slots are scarce: who is admitted is served.
SPECIFICATION FairSpec
CONSTANTS
    NumFlows = 4
    NumDevices = 1
    MaxSlots = 2
    HbmCap = 2
    Work <- SlotWork
    PinMode = "STRICT"
    NonPreemptible = TRUE
    TokenScalePct = 50
    PreemptCap = 2
    ScanBudget = 64
    Policies <- AllPolicies
    ClassPriority <- SlotClasses
    BatchPct = 100
    Slo <- SlotSlo
    DeadlineRank <- ArrivalRank
    NumDemotions = 1
    InitialPct = 100
    Increment = 1
    DecreasePct = 50
    CongestionPct = 50
    OversubscribedPct = 200
    NumLevels = 3
    Quantum <- Quanta
INVARIANTS
    BooksExact
PROPERTIES
    AdmittedServed
    LevelsEarned
