\* Every handler and cron one after the other.
CONSTANTS
    s1 = s1
    s2 = s2
    Sessions <- TwoSessions
    NoSession = NoSession
    PlanOf <- BothPlans
    LengthOf <- OneMonth
    Workers = {w1}
    FreeCredits = 1
    Credits <- PlanCredits
    TrialCredits = 1
    FreeTime = 2
    TrialTime = 2
    RemindAhead = 2
    RemindGap = 1
    Amounts = {1}
    Dates = {0, 2}
    MaxCredits = 3
    MaxOut = 2
    MaxFaults = 0
    LateRetries = FALSE
    Exclusive <- Everything
SPECIFICATION Spec
INVARIANTS
    TypeOK
    Conserved
    PlansAgree
    GraceIsShort
PROPERTIES
    PlanIsKept
    TrialIsFirst
