\* One report at a time, while rows are added, changed and deleted.
CONSTANTS
    Second = 2
    Day = 4
    Week = 2
    Month = 2
    OrgOf <- TwoUsers
    Payload <- SomeRows
    Zones <- ReportZones
    Dates = {1}
    NoDate = NoDate
    NoUser = NoUser
    Retention = 1
    Limit = 1
    TrendDays = 2
    MaxRows = 2
    MaxTime = 5
SPECIFICATION Spec
INVARIANTS
    PagesMissNothing
    NumbersAgree
    FollowsCalendar
CHECK_DEADLOCK FALSE
