\* Strict pins on two devices, two reservations for three eligible flows.
SPECIFICATION Spec
CONSTANTS
    NumFlows = 5
    NumDevices = 2
    MaxSlots = 2
    HbmCap = 4
    Work <- PinnedWork
    PinMode = "STRICT"
    NonPreemptible = TRUE
    TokenScalePct = 50
    PreemptCap = 9
    Eligible = {1, 2, 3}
    ReservedPct = 50
    MaxPinPct = 50
    BudgetEnabled = TRUE
    ClassBudget <- PinnedBudget
    DegradationKey = "queue_depth"
    HeadroomPct = 30
    ScanBudget = 1
INVARIANTS
    LedgerBacked
    WorkConserving
    BudgetMetered
PROPERTIES
    SettlementCredits
