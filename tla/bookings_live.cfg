\* The crons settle every booking, whatever requests and failures come in between.
CONSTANTS
    Ids = {b1, b2}
    Users = {u1}
    Resources = {r1}
    Workers = {w1}
    NoId = NoId
    MaxTime = 3
    Rate = 1
    Buffer = 1
    MaxHours = 1
    LeadTime = 0
    OpenTimes <- AllTimes
    RefundWindow = 1
    AutoConfirm = {}
    InitialCredits = 2
    Transitions <- Lifecycle
    FlagEdits = TRUE
    Exclusive = {}
    MaxFaults = 1
SPECIFICATION FairSpec
PROPERTIES
    EventuallySettled
CHECK_DEADLOCK FALSE
