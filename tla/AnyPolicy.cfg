\* The engine under any policy: what it enforces by itself.
SPECIFICATION Spec
CONSTANTS
    NumFlows = 3
    NumDevices = 1
    MaxSlots = 2
    HbmCap = 4
    Work <- SmallWork
    PinMode = "TIERED"
    NonPreemptible = TRUE
    TokenScalePct = 50
    PreemptCap = 9
    Answers <- SmallAnswers
    Budgets <- SmallBudgets
    MaxPending = 2
    MaxPreempts = 1
INVARIANTS
    EngineTypeOK
    NeverOverserved
PROPERTIES
    CapacityRespected
    GuaranteeEnforced
    PinLasts
\* A run stops when the engine raises.
CHECK_DEADLOCK FALSE
