\* One handler at a time: what every handler relies on.
CONSTANTS
    Ids = {b1, b2}
    Users = {u1}
    Resources = {r1, r2}
    Workers = {w1}
    NoId = NoId
    MaxTime = 4
    Rate = 2
    Buffer = 1
    MaxHours = 2
    LeadTime = 0
    OpenTimes <- AllTimes
    RefundWindow = 1
    AutoConfirm = {r2}
    InitialCredits = 5
    Transitions <- Lifecycle
    FlagEdits = FALSE
    Exclusive <- Everything
    MaxFaults = 0
SPECIFICATION Spec
SYMMETRY IdSymmetry
INVARIANTS
    TypeOK
    NoOverlap
    Reserved
    PaidAsStatusSays
    MaintenanceIsClear
    OccupantIsCheckedIn
PROPERTIES
    TerminalIsFinal
CHECK_DEADLOCK FALSE
