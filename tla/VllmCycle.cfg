\* Two victims whose memory is not enough are evicted in turn for ever.
SPECIFICATION FairSpec
CONSTANTS
    NumFlows = 4
    NumDevices = 1
    MaxSlots = 4
    HbmCap = 4
    Work <- CyclicWork
    PinMode = "STRICT"
    NonPreemptible = TRUE
    TokenScalePct = 50
    PreemptCap = 2
    ScanBudget = 64
    Policies = {"vllm"}
    ClassPriority <- CyclicClasses
    BatchPct = 100
    Slo <- NoSlo
    DeadlineRank <- ArrivalRank
    NumDemotions = 1
    InitialPct = 100
    Increment = 1
    DecreasePct = 50
    CongestionPct = 25
    OversubscribedPct = 200
    NumLevels = 3
    Quantum <- Quanta
PROPERTIES
    CascadeEnds
