\* The lazy integrals against the history of the run.
SPECIFICATION HistorySpec
CONSTANTS
    NumFlows = 2
    NumDevices = 1
    MaxSlots = 2
    HbmCap = 3
    Work <- MeasuredWork
    PinMode = "TIERED"
    NonPreemptible = TRUE
    TokenScalePct = 50
    PreemptCap = 2
    Eligible = {1}
    ReservedPct = 50
    MaxPinPct = 70
    BudgetEnabled = TRUE
    ClassBudget <- MeasuredBudget
    DegradationKey = "headroom"
    HeadroomPct = 30
    ScanBudget = 64
    Horizon = 4
    Warmup = 1
    Monitored = {1}
INVARIANTS
    MetricsExact
    LittlesLaw
CHECK_DEADLOCK FALSE
