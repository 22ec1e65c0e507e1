\* Payments and trials exclude one another; top-ups, crons and failures meet them.
CONSTANTS
    s1 = s1
    s2 = s2
    Sessions <- TwoSessions
    NoSession = NoSession
    PlanOf <- OnePlan
    LengthOf <- OneMonth
    Workers = {w1, w2}
    FreeCredits = 1
    Credits <- PlanCredits
    TrialCredits = 1
    FreeTime = 2
    TrialTime = 2
    RemindAhead = 2
    RemindGap = 1
    Amounts = {1}
    Dates = {0, 2}
    MaxCredits = 0
    MaxOut = 0
    MaxFaults = 1
    LateRetries = FALSE
    Exclusive <- Activations
SPECIFICATION FairSpec
INVARIANTS
    CreditedOnce
PROPERTIES
    ExpiredEnds
