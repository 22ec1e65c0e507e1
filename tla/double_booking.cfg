\* Two create requests pass the overlap query before either has written.
CONSTANTS
    Ids = {b1, b2}
    Users = {u1}
    Resources = {r1}
    Workers = {w1, w2}
    NoId = NoId
    MaxTime = 3
    Rate = 1
    Buffer = 0
    MaxHours = 2
    LeadTime = 0
    OpenTimes <- AllTimes
    RefundWindow = 1
    AutoConfirm = {}
    InitialCredits = 3
    Transitions <- Lifecycle
    FlagEdits = FALSE
    Exclusive = {}
    MaxFaults = 0
SPECIFICATION Spec
SYMMETRY Symmetry
INVARIANTS
    NoOverlap
CHECK_DEADLOCK FALSE
