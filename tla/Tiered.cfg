\* Tiered pins: every restore finds its memory, no work is lost, every flow is
\* served, and the contract is kept.
SPECIFICATION FairSpec
CONSTANTS
    NumFlows = 3
    NumDevices = 1
    MaxSlots = 3
    HbmCap = 6
    Work <- ContendedWork
    PinMode = "TIERED"
    NonPreemptible = TRUE
    TokenScalePct = 50
    PreemptCap = 9
    Eligible = {1}
    ReservedPct = 40
    MaxPinPct = 50
    BudgetEnabled = TRUE
    ClassBudget <- ContendedBudget
    DegradationKey = "headroom"
    HeadroomPct = 30
    ScanBudget = 64
INVARIANTS
    TypeOK
    NoEngineError
    BooksAgree
    NoWorkLost
    ReservedNeverWaits
PROPERTIES
    EveryFlowServed
    ImplementsContract
