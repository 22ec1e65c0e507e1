------------------------------- MODULE Reports -------------------------------
(***************************************************************************)
(* Listings, revenue analytics, booking statistics and overviews.  A       *)
(* report reads in several statements; even those of one $transaction see  *)
(* each its own moment, at READ COMMITTED.  Between them rows are added,   *)
(* bookings change status and times, old logs are deleted, and time        *)
(* passes; credit transactions are never changed.  Reports write nothing,  *)
(* so one of them over one table at a time is enough.                      *)
(***************************************************************************)
EXTENDS Calendar, Sequences, Functions

CONSTANTS
    OrgOf,     \* organization of each user
    Payload,   \* for each table the rows it may get: user, kind (type or status) and amount
    Zones,     \* the reader's time zone is one of them
    Dates,     \* dates that are asked for (bounds the run)
    NoDate,    \* no such bound is given
    NoUser,    \* nobody: the user of a deleted row
    Retention, \* how long activity logs are kept
    Limit,     \* rows of a page
    TrendDays, \* days of the revenue trend
    MaxRows,   \* rows of the table (bounds the run)
    MaxTime    \* the clock's last value (bounds the run)

Users == DOMAIN OrgOf
Orgs == {OrgOf[u] : u \in Users}
Tables == DOMAIN Payload
Groupings == {"day", "week", "month"}

ReportsAssumption ==
    /\ Limit \in Nat \ {0} /\ TrendDays \in Nat \ {0} /\ Retention \in Nat
    /\ MaxRows \in Nat /\ MaxTime \in Nat
    /\ Dates \subseteq Nat /\ NoDate \notin Nat /\ NoUser \notin Users
    /\ Tables \subseteq {"Bookings", "CreditTransaction", "ActivityLog"}
    /\ \A t \in Tables : \A r \in Payload[t] : r.user \in Users /\ r.amount \in Nat

\* The offsets of a zone are whole seconds.
ZonesAssumption ==
    /\ CalendarAssumption
    /\ \A z \in Zones : /\ {z.before, z.after, z.change} \subseteq Int
                        /\ z.before % Second = 0 /\ z.after % Second = 0

VARIABLES
    zone,   \* what resolveUserTimezone finds for the reader
    table,  \* the table the report is about
    rows,   \* its rows in the order of createdAt, deleted ones (NoUser's) included
    now,    \* the clock
    report  \* the report that is being made, and what it has read

vars == <<zone, table, rows, now, report>>

NoReport == [op |-> "none"]
Init ==
    /\ zone \in Zones
    /\ table \in Tables
    /\ rows = <<>> /\ now = 0 /\ report = NoReport

-----------------------------------------------------------------------------
(* Rows are added, dated by the clock, a booking by its start time.         *)

AddRow ==
    /\ Len(rows) < MaxRows
    /\ \E r \in Payload[table], on \in now .. MaxTime :
         /\ table # "Bookings" => on = now
         /\ rows' = Append(rows, [user |-> r.user, kind |-> r.kind, amount |-> r.amount, on |-> on])
    /\ UNCHANGED <<zone, table, now, report>>

Tick ==
    /\ now < MaxTime /\ now' = now + 1
    /\ UNCHANGED <<zone, table, rows, report>>

-----------------------------------------------------------------------------
(* The where-clauses.                                                       *)

Kinds == {r.kind : r \in Payload[table]}
MaybeDates == Dates \cup {NoDate}
InRange(q, t) ==
    /\ q.from # NoDate => getStartOfDayUtc(zone, q.from) <= t
    /\ q.to # NoDate => t <= getEndOfDayUtc(zone, q.to)
Matches(q, r) == r.user \in q.users /\ r.kind \in q.kinds /\ InRange(q, r.on)
Selected(q) == {i \in DOMAIN rows : Matches(q, rows[i])}

Query(users, kinds, from, to) == [users |-> users, kinds |-> kinds, from |-> from, to |-> to]
Anyone(org) == {u \in Users : OrgOf[u] = org}
\* A filter that is left out, or a single value.
OneOrAll(S) == {S} \cup {{x} : x \in S}

getMyBookingsHistory ==
    {Query({u}, kinds, NoDate, NoDate) : u \in Users, kinds \in OneOrAll(Kinds)}

\* A range has both its dates or is no range.
getAllBookings ==
    UNION {{Query(users, kinds, NoDate, NoDate), Query(users, kinds, d.from, d.to)} :
             users \in UNION {OneOrAll(Anyone(org)) : org \in Orgs}, kinds \in OneOrAll(Kinds),
             d \in [from : Dates, to : Dates]}

getStaffCreditLogs ==
    {Query(Anyone(org), kinds, NoDate, NoDate) : org \in Orgs, kinds \in OneOrAll(Kinds)}

\* Top-ups unless another type is asked for.
getOrganizationSubscriptionHistory ==
    {Query(users, {kind}, from, to) : users \in {Users} \cup {Anyone(org) : org \in Orgs},
                                      kind \in Kinds, from \in MaybeDates, to \in MaybeDates}

getUserActivityLogs ==
    {Query(users, Kinds, from, to) : users \in OneOrAll(Users) \cup {Anyone(org) : org \in Orgs},
                                     from \in MaybeDates, to \in MaybeDates}

Listings ==
    CASE table = "Bookings" -> getMyBookingsHistory \cup getAllBookings
      [] table = "CreditTransaction" -> getStaffCreditLogs \cup getOrganizationSubscriptionHistory
      [] OTHER -> getUserActivityLogs

-----------------------------------------------------------------------------
(* Rows are changed and deleted under the reports: a walk notes (for the    *)
(* property only) those that leave its listing.                             *)

Rewrite(changed) ==
    /\ rows' = changed
    /\ report' = IF report.op # "walk" THEN report
                 ELSE [report EXCEPT !.gone = @ \cup {i \in Selected(report.query) :
                                                         ~Matches(report.query, changed[i])}]
    /\ UNCHANGED <<zone, table, now>>

\* By a request, the crons or a resource's maintenance: Bookings says which status
\* follows which.
updateBookingStatus ==
    /\ table = "Bookings"
    /\ \E i \in DOMAIN rows, kind \in Kinds : Rewrite([rows EXCEPT ![i].kind = kind])

\* To a window ahead, at its cost.  The status is checked on a copy read before the
\* transaction, and may be any other by now.
rescheduleBooking ==
    /\ table = "Bookings"
    /\ \E i \in DOMAIN rows, on \in now .. MaxTime, cost \in {r.amount : r \in Payload[table]} :
         Rewrite([rows EXCEPT ![i].on = on, ![i].amount = cost])

\* The cutoff is computed when the cron starts, at midnight.
cleanUpOldData ==
    /\ table = "ActivityLog"
    /\ LET cutoff == now - (now % Day) - Retention
       IN  Rewrite([i \in DOMAIN rows |->
                      IF rows[i].on < cutoff THEN [rows[i] EXCEPT !.user = NoUser] ELSE rows[i]])

-----------------------------------------------------------------------------
(* A client goes through the pages of a listing, the newest rows first.     *)

WalkStart ==
    /\ report = NoReport
    /\ \E q \in Listings :
         report' = [op |-> "walk", step |-> "rows", query |-> q, page |-> 1, seen |-> {},
                    before |-> Selected(q), gone |-> {}]
    /\ UNCHANGED <<zone, table, rows, now>>

Rank(i, S) == Cardinality({j \in S : j > i})
MutantSkip(page) == page * Limit
Skip(page) == (page - 1) * Limit
PageOf(S, page) == {i \in S : Skip(page) <= Rank(i, S) /\ Rank(i, S) < Skip(page) + Limit}

WalkRows ==
    /\ report.op = "walk" /\ report.step = "rows"
    /\ report' = [report EXCEPT !.step = "count",
                    !.seen = @ \cup PageOf(Selected(report.query), report.page)]
    /\ UNCHANGED <<zone, table, rows, now>>

\* The page's count tells whether there is another one.
WalkCount ==
    /\ report.op = "walk" /\ report.step = "count"
    /\ report' = IF report.page * Limit < Cardinality(Selected(report.query))
                 THEN [report EXCEPT !.step = "rows", !.page = @ + 1]
                 ELSE [report EXCEPT !.step = "done"]
    /\ UNCHANGED <<zone, table, rows, now>>

-----------------------------------------------------------------------------
(* getRevenueAnalytics and getBookingStats                                  *)

Amount(S) == SumFunctionOnSet([i \in DOMAIN rows |-> rows[i].amount], S)
Sum(groups, field) == SumFunctionOnSet([k \in DOMAIN groups |-> groups[k][field]], DOMAIN groups)
BucketKey(grouping, t) ==
    LET date == getDateKey(zone, t)
    IN  CASE grouping = "day" -> date
          [] grouping = "week" -> getWeekKey(date)
          [] OTHER -> getMonthKey(date)
Grouped(S, grouping) ==
    LET bucket(i) == BucketKey(grouping, rows[i].on)
    IN  [k \in {bucket(i) : i \in S} |->
           LET B == {i \in S : bucket(i) = k}
           IN  [amount |-> Amount(B), count |-> Cardinality(B), orgs |-> {OrgOf[rows[i].user] : i \in B}]]

RevenueStart ==
    /\ report = NoReport /\ table = "CreditTransaction"
    /\ \E grouping \in Groupings, users \in {Users} \cup {Anyone(org) : org \in Orgs},
          from, to \in MaybeDates :
         report' = [op |-> "revenue", grouping |-> grouping, answers |-> <<>>,
                    query |-> Query(users, {"TOP_UP"}, from, to)]
    /\ UNCHANGED <<zone, table, rows, now>>

Paid(q) == {i \in Selected(q) : rows[i].amount > 0}

\* The statements of the batch that read payments, in the order they run in.
MutantStatements == <<"groups", "total", "payers">>
Statements == <<"total", "payers", "groups">>
Answer(statement) ==
    LET S == Paid(report.query)
    IN  CASE statement = "total" -> [amount |-> Amount(S), count |-> Cardinality(S)]
          [] statement = "payers" -> {OrgOf[rows[i].user] : i \in S}
          [] OTHER -> Grouped(S, report.grouping)

RevenueStatement ==
    /\ report.op = "revenue" /\ Len(report.answers) < Len(Statements)
    /\ report' = [report EXCEPT !.answers = Append(@, Answer(Statements[Len(@) + 1]))]
    /\ UNCHANGED <<zone, table, rows, now>>

\* The FREE plan gets no insight.
StatsReport(plan, grouping, q) ==
    LET groups == Grouped(Selected(q), grouping)
        insight == [bookings |-> Sum(groups, "count"), credits |-> Sum(groups, "amount")]
    IN  [op |-> "stats", query |-> q, data |-> groups,
         insight |-> IF plan = "FREE" \/ groups = <<>> THEN <<>> ELSE <<insight>>]

StatsQueries ==
    {Query(Anyone(org), Kinds, d.from, d.to) :
        org \in Orgs, d \in [from : Dates, to : Dates] \cup {[from |-> NoDate, to |-> NoDate]}}

\* Nor are weeks and months for it.
getBookingStats ==
    /\ report = NoReport /\ table = "Bookings"
    /\ \E plan \in {"FREE", "PRO"}, grouping \in Groupings, q \in StatsQueries :
         /\ plan = "FREE" => grouping = "day"
         /\ report' = StatsReport(plan, grouping, q)
    /\ UNCHANGED <<zone, table, rows, now>>

-----------------------------------------------------------------------------
(* getAdminOverview: its Promise.all answers in any order; the trend of the *)
(* last days is computed when all have, by a clock that may be later.       *)

MutantTrendSince == now - (TrendDays - 1) * Day
TrendSince == now - TrendDays * Day

OverviewStart ==
    /\ report = NoReport /\ table = "CreditTransaction"
    /\ report' = [op |-> "overview", since |-> TrendSince, topUps |-> {}, sales |-> 0, read |-> 0,
                  left |-> {"monthlyCreditRevenueAgg", "topUpRows"}, trend |-> <<>>, today |-> NoDate]
    /\ UNCHANGED <<zone, table, rows, now>>

TopUpsSince(t) == {i \in DOMAIN rows : rows[i].kind = "TOP_UP" /\ rows[i].on >= t}
OverviewQuery ==
    /\ report.op = "overview"
    /\ \E q \in report.left :
         report' = [IF q = "topUpRows"
                    THEN [report EXCEPT !.topUps = TopUpsSince(report.since), !.read = Len(rows)]
                    ELSE [report EXCEPT !.sales = Amount(TopUpsSince(report.since))]
                    EXCEPT !.left = @ \ {q}]
    /\ UNCHANGED <<zone, table, rows, now>>

\* The start of today and the instants some times 24 hours before it.
buildRevenueTrend(S, t) ==
    LET today == getStartOfDayUtc(zone, getDateKey(zone, t))
        dates == {getDateKey(zone, today - n * Day) : n \in 0 .. TrendDays - 1}
    IN  [d \in dates |-> Amount({i \in S : getDateKey(zone, rows[i].on) = d})]
revenueTrendWeekly(trend) ==
    [w \in {getWeekKey(d) : d \in DOMAIN trend} |->
        SumFunctionOnSet(trend, {d \in DOMAIN trend : getWeekKey(d) = w})]

OverviewTrend ==
    /\ report.op = "overview" /\ report.left = {} /\ report.today = NoDate
    /\ report' = [report EXCEPT !.trend = buildRevenueTrend(report.topUps, now),
                                !.today = getDateKey(zone, now)]
    /\ UNCHANGED <<zone, table, rows, now>>

(* getOrganizationOverviewV2 and getStaffOverview: credits of the month.    *)

\* The server's own zone, in which the staff's month begins.
Server == [before |-> 0, after |-> 0, change |-> 0]
MonthReport(users, z) ==
    LET month == getMonthKey(getDateKey(z, now))
    IN  [op |-> "month", users |-> users, in |-> z, month |-> month, spent |-> NoDate, read |-> 0,
         start |-> getStartOfDayUtc(z, month * Month)]
MonthStart ==
    /\ report = NoReport /\ table = "CreditTransaction"
    /\ \/ \E org \in Orgs : report' = MonthReport(Anyone(org), zone)
       \/ \E u \in Users : report' = MonthReport({u}, Server)
    /\ UNCHANGED <<zone, table, rows, now>>

MonthRead ==
    /\ report.op = "month" /\ report.spent = NoDate
    /\ report' = [report EXCEPT !.read = Len(rows),
                    !.spent = Amount({i \in DOMAIN rows : /\ rows[i].kind = "SPEND" /\ rows[i].user \in report.users
                                                          /\ rows[i].on >= report.start})]
    /\ UNCHANGED <<zone, table, rows, now>>

Next ==
    \/ AddRow \/ Tick \/ updateBookingStatus \/ rescheduleBooking \/ cleanUpOldData
    \/ WalkStart \/ WalkRows \/ WalkCount
    \/ RevenueStart \/ RevenueStatement \/ getBookingStats
    \/ OverviewStart \/ OverviewQuery \/ OverviewTrend
    \/ MonthStart \/ MonthRead

Spec == Init /\ [][Next]_vars

-----------------------------------------------------------------------------
TypeOK ==
    /\ zone \in Zones /\ table \in Tables /\ now \in 0 .. MaxTime
    /\ Len(rows) <= MaxRows
    /\ \A i \in DOMAIN rows : rows[i].user \in Users \cup {NoUser} /\ rows[i].on \in 0 .. MaxTime
    /\ report.op \in {"none", "walk", "revenue", "stats", "overview", "month"}

\* The dates from..to of a query, and whether the clocks are left alone at its ends.
From(q, t) == q.from # NoDate => q.from <= getDateKey(zone, t)
UpTo(q, t) == q.to # NoDate => getDateKey(zone, t) <= q.to
Clear(q) == \A d \in {q.from, q.to} \ {NoDate} : ClearOfMidnight(zone, d)
Wanted(q, r) == r.user \in q.users /\ r.kind \in q.kinds /\ From(q, r.on) /\ UpTo(q, r.on)
\* getEndOfDayUtc is late by the milliseconds of the last second: so may a row be.
Late(q, t) == From(q, t) /\ UpTo(q, t - Second)

\* Whoever goes through all the pages of a listing has seen every row of it there
\* was when they began, although rows push others to later pages meanwhile: but for
\* those that left it, and those behind a newer row that left it and so pulled them to
\* a page already read, as a booking does whose status or time is changed.  Activity
\* logs are deleted the oldest first, so of those no other is missed.  A listing has
\* the rows of the dates asked for in their zone and, but for the first second of the
\* day after, no others.
PagesMissNothing ==
    report.op = "walk" =>
        LET q == report.query
        IN  /\ report.step = "done" =>
                 /\ {i \in report.before : \A j \in report.gone : j < i} \subseteq report.seen
                 /\ table # "Bookings" => report.before \ report.gone \subseteq report.seen
            /\ Clear(q) =>
                 /\ \A i \in report.seen \ report.gone : Wanted(q, rows[i]) \/ Late(q, rows[i].on)
                 /\ \A i \in DOMAIN rows : Wanted(q, rows[i]) => Matches(q, rows[i])

AnswerTo(statement) == report.answers[CHOOSE n \in DOMAIN Statements : Statements[n] = statement]

\* The periods of the revenue report add up to no less than its summary, which is
\* read first, and name every organization it counts as paying.
RevenueAgrees ==
    report.op = "revenue" /\ Len(report.answers) = Len(Statements) =>
        LET groups == AnswerTo("groups")
        IN  /\ AnswerTo("total").amount <= Sum(groups, "amount")
            /\ AnswerTo("total").count <= Sum(groups, "count")
            /\ AnswerTo("payers") \subseteq UNION {groups[k].orgs : k \in DOMAIN groups}

\* The statistics, whenever they are asked for, put each booking on its date and count
\* each one of the dates asked for once.
StatsAgree ==
    report = NoReport /\ table = "Bookings" =>
        \A q \in StatsQueries, plan \in {"FREE", "PRO"}, grouping \in Groupings :
            LET counted == Sum(StatsReport(plan, grouping, q).data, "count")
                asked == {i \in DOMAIN rows : Wanted(q, rows[i])}
                late == {i \in DOMAIN rows : Late(q, rows[i].on)}
            IN  Clear(q) => Cardinality(asked) <= counted /\ counted <= Cardinality(asked \cup late)

NumbersAgree == RevenueAgrees /\ StatsAgree

\* Unless the clocks change within its days or next to the midnights of the first and
\* the last of them, the trend has the last days up to the one it is computed on, each
\* with all that was paid on it, and so have its weeks.
TrendFollowsDates ==
    /\ report.op = "overview" /\ report.today # NoDate
    /\ zone.change \notin report.since .. now
    /\ \A d \in {report.today - TrendDays + 1, report.today} : ClearOfMidnight(zone, d)
    =>  LET days == report.today - TrendDays + 1 .. report.today
            paid(i) == rows[i].kind = "TOP_UP"
        IN  /\ report.trend = [d \in days |-> Amount({i \in 1 .. report.read : paid(i) /\ getDateKey(zone, rows[i].on) = d})]
            /\ \A w \in DOMAIN revenueTrendWeekly(report.trend) :
                 revenueTrendWeekly(report.trend)[w] =
                   Amount({i \in 1 .. report.read : /\ paid(i) /\ getDateKey(zone, rows[i].on) \in days
                                                    /\ getWeekKey(getDateKey(zone, rows[i].on)) = w})

\* Credits spent this month are those of its dates, where the month begins clear
\* of a change of clocks.
MonthFollowsDates ==
    report.op = "month" /\ report.spent # NoDate /\ ClearOfMidnight(report.in, report.month * Month) =>
        report.spent = Amount({i \in 1 .. report.read :
            /\ rows[i].kind = "SPEND" /\ rows[i].user \in report.users
            /\ getMonthKey(getDateKey(report.in, rows[i].on)) >= report.month})

FollowsCalendar == TrendFollowsDates /\ MonthFollowsDates
=============================================================================
