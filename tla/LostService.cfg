\* Evicting an entering invocation from a device that is decoding.
SPECIFICATION Spec
CONSTANTS
    NumFlows = 3
    NumDevices = 1
    MaxSlots = 3
    HbmCap = 6
    Work <- ContendedWork
    PinMode = "TIERED"
    NonPreemptible = TRUE
    TokenScalePct = 50
    PreemptCap = 9
    Eligible = {1}
    ReservedPct = 40
    MaxPinPct = 50
    BudgetEnabled = TRUE
    ClassBudget <- ContendedBudget
    DegradationKey = "headroom"
    HeadroomPct = 30
    ScanBudget = 64
PROPERTIES
    SettlementCredits
