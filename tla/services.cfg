\* The catalog with two requests at once; the inbox with one call at a time; three
\* requests for two connections.
CONSTANTS
    Second = 1
    Day = 4
    Week = 2
    Month = 2
    Resources = {"a", "b"}
    Bookings = {"b1"}
    Workers = {"w1", "w2"}
    Locks <- CreationLock
    Zones <- SlotZones
    MaxResources <- Limits
    DefaultRules <- AnyDay
    CustomRules <- SomeDays
    Weekend = {1}
    Dates = {0, 1}
    MaxTime = 4
    MaxLength = 2
    Users = {u1, u2, u3}
    Preferences <- SomePreferences
    Senders = {s1}
    ChunkSize = 2
    MaxInbox = 1
    MaxFaults = 2
    Requests = {r1, r2, r3}
    Size = 2
    Aside <- AsideOf
    r1 = r1
    r2 = r2
    r3 = r3
SPECIFICATION ServicesSpec
INVARIANTS
    OffersAgree
    FailuresStayLocal
PROPERTIES
    LimitKept
    EveryoneAnswered
CHECK_DEADLOCK FALSE
