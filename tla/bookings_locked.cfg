\* Two request handlers; create, reschedule and status exclude one another, nothing else does.
CONSTANTS
    Ids = {b1, b2}
    Users = {u1}
    Resources = {r1}
    Workers = {w1, w2}
    NoId = NoId
    MaxTime = 3
    Rate = 1
    Buffer = 0
    MaxHours = 1
    LeadTime = 0
    OpenTimes <- AllTimes
    RefundWindow = 1
    AutoConfirm = {}
    InitialCredits = 2
    Transitions <- Decisions
    FlagEdits = FALSE
    Exclusive <- BookingRequests
    MaxFaults = 0
SPECIFICATION Spec
SYMMETRY Symmetry
INVARIANTS
    CheckedSlotStaysFree
    Reserved
PROPERTIES
    KeepsSchedule
CHECK_DEADLOCK FALSE
