--------------------------- MODULE ReportsProofs ---------------------------
(***************************************************************************)
(* Theorems about Reports, for any tables, rows, dates, page sizes and     *)
(* lengths of a day: walking the pages of a listing misses no row but for  *)
(* those that left it or follow one that did, groups add up to no less     *)
(* than the totals read before them, and the trend and the month follow    *)
(* the dates of the zone.                                                  *)
(***************************************************************************)
EXTENDS Reports, Sums, SequenceTheorems, TLAPS

-----------------------------------------------------------------------------
(* Dates and instants.                                                      *)

\* What has a whole number of seconds, and what is left of the others.
LEMMA Rest ==
    ASSUME NEW n \in Nat \ {0}, NEW a \in Int, NEW b \in 0 .. n - 1
    PROVE  (a * n + b) % n = b
  OBVIOUS

LEMMA Whole ==
    ASSUME NEW n \in Nat \ {0}, NEW x \in Int, x % n = 0
    PROVE  x = (x \div n) * n /\ x \div n \in Int
  OBVIOUS

\* The first and the last of the n that have a key: the units of a date, the dates
\* of a month.
LEMMA KeyOf ==
    ASSUME NEW n \in Nat \ {0}, NEW key \in Int, NEW x \in Int
    PROVE  /\ key * n <= x <=> key <= x \div n
           /\ x <= key * n + n - 1 <=> x \div n <= key
  <1>1. n \in Nat \ {0}
    OBVIOUS
  <1> DEFINE k == x \div n
             r == x % n
  <1>2. k \in Int /\ r \in 0 .. n - 1 /\ x = k * n + r
    BY <1>1
  <1> HIDE DEF k, r
  <1>3. ASSUME key <= k PROVE key * n <= k * n
    BY <1>1, <1>2, <1>3
  <1>4. ASSUME k < key PROVE k * n + n <= key * n
    <2>1. (k + 1) * n <= key * n
      BY <1>1, <1>2, <1>4
    <2> QED BY <1>1, <1>2, <2>1
  <1>5. ASSUME key < k PROVE key * n + n <= k * n
    <2>1. (key + 1) * n <= k * n
      BY <1>1, <1>2, <1>5
    <2> QED BY <1>1, <1>2, <2>1
  <1>6. key * n \in Int /\ k * n \in Int
    BY <1>1, <1>2
  <1>7. ASSUME k <= key PROVE k * n <= key * n
    BY <1>1, <1>2, <1>7
  <1>8. key * n <= x <=> key <= k
    BY <1>1, <1>2, <1>3, <1>4, <1>6
  <1>9. x <= key * n + n - 1 <=> k <= key
    BY <1>1, <1>2, <1>5, <1>6, <1>7
  <1> QED BY <1>8, <1>9 DEF k

IsZone(z) == /\ z.before \in Int /\ z.after \in Int /\ z.change \in Int
             /\ z.before % Second = 0 /\ z.after % Second = 0

\* Where the clocks are left alone around it, an instant is found by the offset
\* there is when its clock is read as UTC.
LEMMA ClearInstant ==
    ASSUME NEW z, IsZone(z), NEW clock \in Int, NEW t \in Int,
           \A o \in {z.before, z.after} : Offset(z, clock) = Offset(z, clock - o)
    PROVE  /\ Offset(z, clock) \in Int /\ Shown(z, t) \in Int
           /\ clock - Offset(z, clock) <= t <=> clock <= Shown(z, t)
           /\ t <= clock - Offset(z, clock) <=> Shown(z, t) <= clock
  <1>1. z.before \in Int /\ z.after \in Int /\ z.change \in Int
    BY DEF IsZone
  <1>2. CASE clock < z.change
    <2>1. Offset(z, clock) = z.before
      BY <1>2 DEF Offset
    <2>2. (clock - z.after < z.change \/ z.before = z.after) /\ (clock - z.before < z.change \/ z.before = z.after)
      BY <1>1, <2>1 DEF Offset
    <2> QED BY <1>1, <1>2, <2>1, <2>2 DEF Offset, Shown
  <1>3. CASE ~(clock < z.change)
    <2>1. Offset(z, clock) = z.after
      BY <1>3 DEF Offset
    <2>2. (clock - z.after >= z.change \/ z.before = z.after) /\ (clock - z.before >= z.change \/ z.before = z.after)
      BY <1>1, <2>1 DEF Offset
    <2> QED BY <1>1, <1>3, <2>1, <2>2 DEF Offset, Shown
  <1> QED BY <1>2, <1>3

\* getStartOfDayUtc and getEndOfDayUtc, the latter late by the last second.
LEMMA EndsOfDay ==
    ASSUME CalendarAssumption, NEW z, IsZone(z), NEW date \in Int
    PROVE  /\ getStartOfDayUtc(z, date) = date * Day - Offset(z, date * Day)
           /\ getEndOfDayUtc(z, date) =
                 (date * Day + Day - 1) - Offset(z, date * Day + Day - 1) + (Second - 1)
  <1>1. Day \in Nat \ {0} /\ Second \in Nat \ {0} /\ Day % Second = 0
    BY DEF CalendarAssumption
  <1>2. \A t : Offset(z, t) \in Int /\ Offset(z, t) % Second = 0
    BY DEF IsZone, Offset
  <1> DEFINE days(d) == (d * (Day \div Second)) * Second
  <1>3. Day = (Day \div Second) * Second /\ Day \div Second \in Int
    BY <1>1, Whole
  <1>4. ASSUME NEW d \in Int, NEW o \in Int, o % Second = 0
        PROVE  (d * Day + o) % Second = 0 /\ (d * Day - 1 + o) % Second = Second - 1
    <2> DEFINE k == Day \div Second
               j == o \div Second
               n == d * k + j
    <2>1. o = j * Second /\ j \in Int
      BY <1>1, <1>4, Whole
    <2>2. k \in Int /\ d * Day = (d * k) * Second
      <3>1. k \in Int /\ Day = k * Second
        BY <1>3
      <3> HIDE DEF k
      <3> QED BY <1>1, <3>1
    <2> HIDE DEF k, j
    <2>3. d * Day + o = n * Second + 0 /\ n \in Int
      BY <1>1, <2>1, <2>2
    <2>4. d * Day - 1 + o = (n - 1) * Second + (Second - 1)
      BY <1>1, <2>1, <2>2
    <2> HIDE DEF n
    <2>5. 0 \in 0 .. Second - 1 /\ Second - 1 \in 0 .. Second - 1 /\ n - 1 \in Int
      BY <1>1, <2>3
    <2>6. (n * Second + 0) % Second = 0
      BY <1>1, <2>3, <2>5, Rest
    <2>7. ((n - 1) * Second + (Second - 1)) % Second = Second - 1
      BY <1>1, <2>5, Rest
    <2> QED BY <2>3, <2>4, <2>6, <2>7
  <1>5. (date * Day + Offset(z, date * Day)) % Second = 0
    BY <1>2, <1>4
  <1>6. date * Day \in Int /\ date * Day + Day - 1 = (date + 1) * Day - 1
    BY <1>1
  <1>7. (date * Day + Day - 1 + Offset(z, date * Day + Day - 1)) % Second = Second - 1
    BY <1>2, <1>4, <1>6
  <1> QED BY <1>1, <1>2, <1>5, <1>6, <1>7
          DEF getStartOfDayUtc, getEndOfDayUtc, zonedDateTimeToUtc, getOffsetMsAtInstant, Shown

\* The instants from the start of a date are those that show it or a later one; those
\* to its end show it or an earlier one, but for the first second of the next.
LEMMA DatesShown ==
    ASSUME CalendarAssumption, NEW z, IsZone(z), NEW date \in Int, ClearOfMidnight(z, date),
           NEW t \in Int
    PROVE  /\ getStartOfDayUtc(z, date) <= t <=> date <= getDateKey(z, t)
           /\ getDateKey(z, t) <= date => t <= getEndOfDayUtc(z, date)
           /\ t <= getEndOfDayUtc(z, date) => getDateKey(z, t - Second) <= date
  <1>1. Day \in Nat \ {0} /\ Second \in Nat \ {0}
    BY DEF CalendarAssumption
  <1> DEFINE m == date * Day
             e == date * Day + Day - 1
  <1>2. m \in Int /\ e \in Int /\ t - Second \in Int
    BY <1>1
  <1>3. \A c \in {m, e} : \A o \in {z.before, z.after} : Offset(z, c) = Offset(z, c - o)
    BY Zenon DEF ClearOfMidnight
  <1>4. /\ getStartOfDayUtc(z, date) = m - Offset(z, m)
        /\ getEndOfDayUtc(z, date) = e - Offset(z, e) + (Second - 1)
    BY EndsOfDay
  <1>5. \A x \in Int : /\ m <= x <=> date <= x \div Day
                       /\ x <= e <=> x \div Day <= date
    BY <1>1, KeyOf
  <1> HIDE DEF m, e
  <1>6. \A x \in Int : /\ Shown(z, x) \in Int
                       /\ m - Offset(z, m) <= x <=> m <= Shown(z, x)
                       /\ x <= e - Offset(z, e) <=> Shown(z, x) <= e
    BY <1>2, <1>3, ClearInstant
  <1>7. Offset(z, e) \in Int
    BY <1>2, <1>3, ClearInstant
  <1>8. getStartOfDayUtc(z, date) <= t <=> date <= getDateKey(z, t)
    BY <1>4, <1>5, <1>6 DEF getDateKey
  <1>9. \A x \in Int : x <= e - Offset(z, e) <=> getDateKey(z, x) <= date
    BY <1>5, <1>6 DEF getDateKey
  <1> QED BY <1>1, <1>2, <1>4, <1>7, <1>8, <1>9

-----------------------------------------------------------------------------
(* What rows and report are made of.                                        *)

Bounds == [from : MaybeDates, to : MaybeDates]
Row == [user : Users \cup {NoUser}, kind : Kinds, amount : Nat, on : 0 .. MaxTime]

BaseInv ==
    /\ zone \in Zones /\ table \in Tables /\ now \in 0 .. MaxTime
    /\ rows \in Seq(Row) /\ Len(rows) <= MaxRows
    /\ "op" \in DOMAIN report
    /\ report.op \in {"none", "walk", "revenue", "stats", "overview", "month"}
    /\ report.op \in {"revenue", "overview", "month"} => table = "CreditTransaction"

\* Rows are only rewritten in tables that have such writers, one row by another.
Rewriting == updateBookingStatus \/ rescheduleBooking \/ cleanUpOldData

LEMMA Rewritten ==
    ASSUME ReportsAssumption, BaseInv, Rewriting
    PROVE  /\ table # "CreditTransaction" /\ rows' \in Seq(Row) /\ Len(rows') = Len(rows)
           /\ Rewrite(rows')
  <1>1. rows \in Seq(Row) /\ DOMAIN rows = 1 .. Len(rows) /\ now \in 0 .. MaxTime /\ MaxTime \in Nat
    BY DEF BaseInv, ReportsAssumption
  <1>2. CASE updateBookingStatus
    <2>1. PICK i \in DOMAIN rows, kind \in Kinds : Rewrite([rows EXCEPT ![i].kind = kind])
      BY <1>2 DEF updateBookingStatus
    <2> DEFINE row == [rows[i] EXCEPT !.kind = kind]
    <2>2. rows' = [rows EXCEPT ![i] = row] /\ Rewrite(rows')
      BY <2>1 DEF Rewrite
    <2>3. rows[i] \in Row
      BY <1>1
    <2>4. row \in Row
      BY <2>3 DEF Row
    <2> HIDE DEF row
    <2> QED BY <1>1, <1>2, <2>2, <2>4 DEF updateBookingStatus
  <1>3. CASE rescheduleBooking
    <2>1. PICK i \in DOMAIN rows, on \in now .. MaxTime, cost \in {r.amount : r \in Payload[table]} :
             Rewrite([rows EXCEPT ![i].on = on, ![i].amount = cost])
      BY <1>3 DEF rescheduleBooking
    <2> DEFINE row == [[rows[i] EXCEPT !.on = on] EXCEPT !.amount = cost]
    <2>2. rows' = [rows EXCEPT ![i] = row] /\ Rewrite(rows')
      BY <2>1 DEF Rewrite
    <2>3. rows[i] \in Row /\ on \in 0 .. MaxTime /\ cost \in Nat
      BY <1>1 DEF ReportsAssumption, BaseInv
    <2>4. row \in Row
      BY <2>3 DEF Row
    <2> HIDE DEF row
    <2> QED BY <1>1, <1>3, <2>2, <2>4 DEF rescheduleBooking
  <1>4. CASE cleanUpOldData
    <2> DEFINE cutoff == now - (now % Day) - Retention
               row(i) == IF rows[i].on < cutoff THEN [rows[i] EXCEPT !.user = NoUser] ELSE rows[i]
    <2>1. rows' = [i \in DOMAIN rows |-> row(i)] /\ Rewrite(rows')
      BY <1>4 DEF cleanUpOldData, Rewrite
    <2>2. \A i \in DOMAIN rows : row(i) \in Row
      <3> TAKE i \in DOMAIN rows
      <3>1. rows[i] \in Row
        BY <1>1
      <3> HIDE DEF cutoff
      <3> QED BY <3>1 DEF Row
    <2> HIDE DEF row
    <2>3. rows' \in [1 .. Len(rows) -> Row] /\ Len(rows) \in Nat
      BY <1>1, <2>1, <2>2
    <2>4. rows' \in Seq(Row) /\ Len(rows') = Len(rows)
      BY <2>3
    <2> QED BY <1>4, <2>1, <2>4 DEF cleanUpOldData
  <1> QED BY <1>2, <1>3, <1>4 DEF Rewriting

\* A step adds a row, rewrites rows, lets time pass, or is of the report.
LEMMA RowsStep ==
    ASSUME ReportsAssumption, BaseInv, [Next]_vars
    PROVE  /\ UNCHANGED <<zone, table>>
           /\ rows' \in Seq(Row) /\ Len(rows) <= Len(rows')
           /\ Len(rows') <= MaxRows /\ now' \in 0 .. MaxTime
           /\ Rewriting \/ \A i \in DOMAIN rows : i \in DOMAIN rows' /\ rows'[i] = rows[i]
           /\ Rewriting \/ UNCHANGED rows \/ (AddRow /\ UNCHANGED <<report, now>>)
  <1>1. CASE AddRow
    <2>1. PICK r \in Payload[table], on \in now .. MaxTime :
             rows' = Append(rows, [user |-> r.user, kind |-> r.kind, amount |-> r.amount, on |-> on])
      BY <1>1 DEF AddRow
    <2> DEFINE row == [user |-> r.user, kind |-> r.kind, amount |-> r.amount, on |-> on]
    <2>2. row \in Row
      <3>1. r.user \in Users /\ r.amount \in Nat /\ on \in 0 .. MaxTime
        BY DEF ReportsAssumption, BaseInv
      <3>2. r.kind \in Kinds
        BY DEF Kinds
      <3> QED BY <3>1, <3>2 DEF Row
    <2>3. UNCHANGED <<zone, table, report, now>> /\ Len(rows) < MaxRows /\ now \in 0 .. MaxTime
          /\ rows \in Seq(Row) /\ MaxRows \in Nat
      BY <1>1 DEF AddRow, BaseInv, ReportsAssumption
    <2> HIDE DEF row
    <2>4. /\ rows' \in Seq(Row) /\ Len(rows') = Len(rows) + 1
          /\ \A i \in 1 .. Len(rows) : rows'[i] = rows[i]
      BY <2>1, <2>2, <2>3 DEF row
    <2>5. DOMAIN rows = 1 .. Len(rows) /\ DOMAIN rows' = 1 .. Len(rows') /\ Len(rows) \in Nat
      BY <2>3, <2>4
    <2> QED BY <1>1, <2>3, <2>4, <2>5
  <1>2. CASE UNCHANGED <<zone, table, rows>> /\ now' \in 0 .. MaxTime
    BY <1>2 DEF BaseInv
  <1>3. CASE Tick
    BY <1>3, <1>2 DEF Tick, BaseInv, ReportsAssumption
  <1>4. CASE Rewriting
    <2>1. UNCHANGED <<zone, table, now>> /\ rows' \in Seq(Row) /\ Len(rows') = Len(rows)
      BY <1>4, Rewritten DEF Rewrite
    <2> QED BY <1>4, <2>1 DEF BaseInv
  <1> QED BY <1>1, <1>2, <1>3, <1>4 DEF Next, vars, BaseInv, WalkStart, WalkRows, WalkCount, RevenueStart,
          RevenueStatement, getBookingStats, OverviewStart, OverviewQuery, OverviewTrend, MonthStart, MonthRead,
          Rewriting

\* Credit transactions stay as they are.
LEMMA RowsOnlyAdded ==
    ASSUME ReportsAssumption, BaseInv, table = "CreditTransaction", [Next]_vars
    PROVE  /\ UNCHANGED <<zone, table>>
           /\ rows' \in Seq(Row) /\ Len(rows) <= Len(rows')
           /\ now' \in 0 .. MaxTime
           /\ \A i \in DOMAIN rows : i \in DOMAIN rows' /\ rows'[i] = rows[i]
  BY RowsStep, Rewritten

\* The kind of a report stays the same until it is over, and it never is.
LEMMA OneReport ==
    ASSUME BaseInv, [Next]_vars
    PROVE  /\ "op" \in DOMAIN report'
           /\ \/ UNCHANGED report
              \/ report'.op = "walk" /\ (WalkStart \/ WalkRows \/ WalkCount)
              \/ report'.op = "walk" /\ report.op = "walk" /\ Rewriting
              \/ report'.op = "revenue" /\ (RevenueStart \/ RevenueStatement)
              \/ report'.op = "stats" /\ getBookingStats
              \/ report'.op = "overview" /\ (OverviewStart \/ OverviewQuery \/ OverviewTrend)
              \/ report'.op = "month" /\ (MonthStart \/ MonthRead)
  <1> USE DEF BaseInv
  <1>1. CASE UNCHANGED report
    BY <1>1
  <1>2. CASE WalkStart
    <2>1. PICK q \in Listings :
             report' = [op |-> "walk", step |-> "rows", query |-> q, page |-> 1, seen |-> {},
                        before |-> Selected(q), gone |-> {}]
      BY <1>2, Zenon DEF WalkStart
    <2> QED BY <1>2, <2>1
  <1>3. CASE WalkRows
    BY <1>3 DEF WalkRows
  <1>4. CASE WalkCount
    BY <1>4 DEF WalkCount
  <1>5. CASE RevenueStart
    <2>1. \E grouping, q : report' = [op |-> "revenue", grouping |-> grouping, answers |-> <<>>, query |-> q]
      BY <1>5, Zenon DEF RevenueStart
    <2> QED BY <1>5, <2>1
  <1>6. CASE RevenueStatement
    BY <1>6 DEF RevenueStatement
  <1>7. CASE getBookingStats
    <2>1. \E plan, grouping, q : report' = StatsReport(plan, grouping, q)
      BY <1>7, Zenon DEF getBookingStats
    <2> QED BY <1>7, <2>1 DEF StatsReport
  <1>8. CASE OverviewStart
    BY <1>8 DEF OverviewStart
  <1>9. CASE OverviewQuery
    BY <1>9 DEF OverviewQuery
  <1>10. CASE OverviewTrend
    BY <1>10 DEF OverviewTrend
  <1>11. CASE MonthStart
    BY <1>11 DEF MonthStart, MonthReport
  <1>12. CASE MonthRead
    BY <1>12 DEF MonthRead
  <1>13. CASE Rewriting
    <2>1. CASE report.op # "walk"
      BY <1>1, <1>13, <2>1 DEF Rewriting, updateBookingStatus, rescheduleBooking, cleanUpOldData, Rewrite
    <2>2. CASE report.op = "walk"
      <3>1. \E gone : report' = [report EXCEPT !.gone = gone]
        BY <1>13, <2>2, Zenon
           DEF Rewriting, updateBookingStatus, rescheduleBooking, cleanUpOldData, Rewrite
      <3> QED BY <1>13, <2>2, <3>1
    <2> QED BY <2>1, <2>2
  <1> QED BY <1>1, <1>2, <1>3, <1>4, <1>5, <1>6, <1>7, <1>8, <1>9, <1>10, <1>11, <1>12, <1>13
          DEF Next, vars, AddRow, Tick, Rewriting

LEMMA BaseInitially == ASSUME ReportsAssumption, Init PROVE BaseInv
  BY DEF Init, BaseInv, NoReport, ReportsAssumption

LEMMA BaseKept == ASSUME ReportsAssumption, BaseInv, [Next]_vars PROVE BaseInv'
  <1>1. Row' = Row
    BY RowsStep DEF Row, Kinds
  <1>2. /\ report'.op \in {"none", "walk", "revenue", "stats", "overview", "month"}
        /\ report'.op \in {"revenue", "overview", "month"} => table = "CreditTransaction"
    <2>1. /\ RevenueStart \/ OverviewStart \/ MonthStart => table = "CreditTransaction"
          /\ RevenueStatement => report.op = "revenue"
          /\ OverviewQuery \/ OverviewTrend => report.op = "overview"
          /\ MonthRead => report.op = "month"
      BY DEF RevenueStart, OverviewStart, MonthStart, RevenueStatement, OverviewQuery, OverviewTrend, MonthRead
    <2> QED BY <2>1, OneReport DEF BaseInv
  <1> QED BY <1>1, <1>2, RowsStep, OneReport DEF BaseInv

LEMMA BaseCorrect == ASSUME ReportsAssumption PROVE Spec => []BaseInv
  BY BaseInitially, BaseKept, PTL DEF Spec

\* Zone, table, rows and clock keep their types, whatever is added and reported.
THEOREM TypeCorrect == ASSUME ReportsAssumption PROVE Spec => []TypeOK
  <1>1. BaseInv => TypeOK
    <2> SUFFICES ASSUME BaseInv PROVE TypeOK
      OBVIOUS
    <2>1. \A i \in DOMAIN rows : rows[i] \in Row
      BY DEF BaseInv
    <2> QED BY <2>1 DEF BaseInv, TypeOK, Row
  <1> QED BY <1>1, BaseCorrect, PTL

-----------------------------------------------------------------------------
(* The rows a query selects.                                                *)

\* How a query is translated into a where-clause; dates of it may be left out.
LEMMA QueryDates ==
    ASSUME ReportsAssumption, ZonesAssumption, BaseInv, NEW q, q.from \in MaybeDates, q.to \in MaybeDates,
           Clear(q), NEW r \in Row
    PROVE  /\ Wanted(q, r) => Matches(q, r)
           /\ Matches(q, r) => Wanted(q, r) \/ Late(q, r.on)
  <1>1. r.on \in Int /\ Second \in Nat \ {0} /\ r.on - Second \in Int
    BY DEF Row, ReportsAssumption, ZonesAssumption, CalendarAssumption
  <1>2. CalendarAssumption /\ IsZone(zone)
    BY DEF BaseInv, ZonesAssumption, IsZone
  <1>3. Dates \subseteq Nat /\ NoDate \notin Nat
    BY DEF ReportsAssumption
  <1>4. /\ q.from # NoDate => q.from \in Dates /\ ClearOfMidnight(zone, q.from)
        /\ q.to # NoDate => q.to \in Dates /\ ClearOfMidnight(zone, q.to)
    BY Zenon DEF MaybeDates, Clear
  <1>5. ASSUME q.from # NoDate
        PROVE  getStartOfDayUtc(zone, q.from) <= r.on <=> q.from <= getDateKey(zone, r.on)
    <2>1. q.from \in Dates /\ ClearOfMidnight(zone, q.from)
      BY <1>4, <1>5, Zenon
    <2>2. q.from \in Nat
      BY <1>3, <2>1, Zenon
    <2> QED BY <1>1, <1>2, <2>1, <2>2, DatesShown
  <1>6. ASSUME q.to # NoDate
        PROVE  /\ getDateKey(zone, r.on) <= q.to => r.on <= getEndOfDayUtc(zone, q.to)
               /\ r.on <= getEndOfDayUtc(zone, q.to) => getDateKey(zone, r.on - Second) <= q.to
    <2>1. q.to \in Dates /\ ClearOfMidnight(zone, q.to)
      BY <1>4, <1>6, Zenon
    <2>2. q.to \in Nat
      BY <1>3, <2>1, Zenon
    <2> QED BY <1>1, <1>2, <2>1, <2>2, DatesShown
  <1>7. From(q, r.on) <=> (q.from # NoDate => getStartOfDayUtc(zone, q.from) <= r.on)
    BY <1>5, Zenon DEF From
  <1>8. UpTo(q, r.on) => (q.to # NoDate => r.on <= getEndOfDayUtc(zone, q.to))
    BY <1>6, Zenon DEF UpTo
  <1>9. (q.to # NoDate => r.on <= getEndOfDayUtc(zone, q.to)) => UpTo(q, r.on - Second)
    BY <1>6, Zenon DEF UpTo
  <1> QED BY <1>7, <1>8, <1>9, Zenon DEF Wanted, Matches, InRange, Late

\* Where rows stay as they are, a query selects a row for good.
LEMMA SelectedKept ==
    ASSUME ReportsAssumption, BaseInv, [Next]_vars, NEW q,
           \A i \in DOMAIN rows : i \in DOMAIN rows' /\ rows'[i] = rows[i]
    PROVE  /\ Selected(q) \subseteq 1 .. Len(rows) /\ Len(rows) \in Nat
           /\ Selected(q) = {i \in Selected(q)' : i <= Len(rows)}
           /\ UNCHANGED rows => Selected(q)' = Selected(q)
  <1>1. /\ UNCHANGED zone /\ rows' \in Seq(Row) /\ rows \in Seq(Row) /\ Len(rows) <= Len(rows')
        /\ \A i \in DOMAIN rows : i \in DOMAIN rows' /\ rows'[i] = rows[i]
    BY RowsStep DEF BaseInv
  <1>2. \A r : Matches(q, r)' <=> Matches(q, r)
    BY <1>1 DEF Matches, InRange
  <1>3. DOMAIN rows = 1 .. Len(rows) /\ DOMAIN rows' = 1 .. Len(rows') /\ Len(rows) \in Nat /\ Len(rows') \in Nat
    BY <1>1
  <1>4. Selected(q)' = {i \in DOMAIN rows' : Matches(q, rows'[i])}
    BY <1>2 DEF Selected
  <1>5. Selected(q) = {i \in DOMAIN rows : Matches(q, rows[i])}
    BY DEF Selected
  <1>6. Selected(q) \subseteq 1 .. Len(rows)
    BY <1>3, <1>5
  <1>7. \A i \in Selected(q)' : i <= Len(rows) <=> i \in DOMAIN rows
    BY <1>3, <1>4
  <1>8. Selected(q) = {i \in Selected(q)' : i <= Len(rows)}
    BY <1>1, <1>4, <1>5, <1>7
  <1> QED BY <1>3, <1>4, <1>5, <1>6, <1>8

-----------------------------------------------------------------------------
(* The pages of a listing.                                                  *)

LEMMA RankGrows ==
    ASSUME NEW n \in Nat, NEW T \in SUBSET (1 .. n), NEW S \in SUBSET T, NEW i
    PROVE  /\ Rank(i, S) \in Nat /\ Rank(i, T) \in Nat /\ Rank(i, S) <= Rank(i, T)
           /\ Cardinality(S) \in Nat
           /\ i \in S => Rank(i, S) < Cardinality(S)
  <1> DEFINE above(R) == {j \in R : j > i}
  <1>1. IsFiniteSet(T)
    <2>1. IsFiniteSet(1 .. n)
      BY FS_Interval
    <2> QED BY <2>1, FS_Subset
  <1>2. above(S) \subseteq above(T) /\ above(T) \subseteq T /\ above(S) \subseteq S
    OBVIOUS
  <1> HIDE DEF above
  <1>3. IsFiniteSet(S) /\ IsFiniteSet(above(T)) /\ IsFiniteSet(above(S))
    BY <1>1, <1>2, FS_Subset
  <1>4. Cardinality(above(S)) <= Cardinality(above(T))
    BY <1>2, <1>3, FS_Subset
  <1>5. ASSUME i \in S PROVE Cardinality(above(S)) < Cardinality(S)
    <2>1. i \notin above(S)
      BY <1>5 DEF above
    <2>2. above(S) # S
      BY <1>5, <2>1
    <2>3. /\ Cardinality(above(S)) <= Cardinality(S)
          /\ Cardinality(S) = Cardinality(above(S)) => S = above(S)
      BY <1>2, <1>3, FS_Subset
    <2>4. Cardinality(S) \in Nat /\ Cardinality(above(S)) \in Nat
      BY <1>3, FS_CardinalityType
    <2> QED BY <2>2, <2>3, <2>4
  <1>6. Cardinality(S) \in Nat /\ Cardinality(above(S)) \in Nat /\ Cardinality(above(T)) \in Nat
    BY <1>3, FS_CardinalityType
  <1> QED BY <1>4, <1>5, <1>6 DEF Rank, above

\* What is behind a row does not count: only of what is ahead there may be more.
LEMMA RankAhead ==
    ASSUME NEW m \in Nat, NEW n \in Nat, NEW S \in SUBSET (1 .. m), NEW T \in SUBSET (1 .. n), NEW i \in Nat,
           \A j \in S : j > i => j \in T
    PROVE  Rank(i, S) \in Nat /\ Rank(i, T) \in Nat /\ Rank(i, S) <= Rank(i, T)
  <1> DEFINE A == {j \in S : j > i}
             B == {j \in T : j > i}
  <1>1. A \in SUBSET (1 .. m) /\ B \in SUBSET (1 .. n) /\ A \in SUBSET B
    OBVIOUS
  <1> HIDE DEF A, B
  <1>2. IsFiniteSet(A) /\ IsFiniteSet(B)
    <2>1. IsFiniteSet(1 .. m) /\ IsFiniteSet(1 .. n)
      BY FS_Interval
    <2> QED BY <1>1, <2>1, FS_Subset
  <1>3. Cardinality(A) \in Nat /\ Cardinality(B) \in Nat /\ Cardinality(A) <= Cardinality(B)
    BY <1>1, <1>2, FS_Subset, FS_CardinalityType
  <1> QED BY <1>3 DEF Rank, A, B

Walks == [op : {"walk"}, step : {"rows", "count", "done"}, query : Listings, page : Nat \ {0},
          seen : SUBSET Nat, before : SUBSET Nat, gone : SUBSET Nat]

\* The rows that the pages read so far hold, counted from the newest.
Read(walk) == IF walk.step = "rows" THEN Skip(walk.page) ELSE Skip(walk.page) + Limit

\* Behind no row that left the listing.
Undisplaced(walk, i) == \A j \in walk.gone : j < i

\* Of the rows there were when the walk began, and that no row ahead of which was lost,
\* the newest have been seen, as many as were read, less those that were added
\* meanwhile.  But for bookings, only the oldest are lost.
WalkInv(walk, S) ==
    /\ walk \in Walks
    /\ walk.seen \subseteq S \cup walk.gone
    /\ walk.before \subseteq S \cup walk.gone
    /\ \A i \in walk.before :
         Undisplaced(walk, i) /\ (walk.step = "done" \/ Rank(i, S) < Read(walk)) => i \in walk.seen
    /\ table # "Bookings" => \A i \in walk.before, j \in walk.gone : i <= j => i \in walk.gone
PagesInv == report.op = "walk" => WalkInv(report, Selected(report.query))

\* Logs are in the order of their dates.
LogInv ==
    table = "ActivityLog" =>
        /\ \A i \in DOMAIN rows : rows[i].on <= now
        /\ \A i, j \in DOMAIN rows : i <= j => rows[i].on <= rows[j].on

LEMMA LogStep == ASSUME ReportsAssumption, BaseInv, LogInv, [Next]_vars PROVE LogInv'
  <1> SUFFICES ASSUME table' = "ActivityLog" PROVE LogInv'
    BY DEF LogInv
  <1>1. /\ table = "ActivityLog" /\ table' = table /\ rows \in Seq(Row) /\ rows' \in Seq(Row)
        /\ now \in Int /\ now' \in Int
        /\ \A i \in DOMAIN rows : rows[i] \in Row /\ rows[i].on \in Int /\ rows[i].on <= now
        /\ \A i, j \in DOMAIN rows : i <= j => rows[i].on <= rows[j].on
    <2>1. table = "ActivityLog" /\ table' = table /\ rows \in Seq(Row) /\ rows' \in Seq(Row)
          /\ now \in Int /\ now' \in Int
      BY RowsStep DEF BaseInv
    <2>2. \A i \in DOMAIN rows : rows[i] \in Row
      BY <2>1
    <2>3. \A i \in DOMAIN rows : rows[i].on \in Int
      BY <2>2 DEF Row
    <2> QED BY <2>1, <2>2, <2>3 DEF LogInv
  <1>2. CASE AddRow
    <2>1. PICK row : rows' = Append(rows, row) /\ row.on = now
      <3>1. PICK r \in Payload[table], on \in now .. MaxTime :
              /\ table # "Bookings" => on = now
              /\ rows' = Append(rows, [user |-> r.user, kind |-> r.kind, amount |-> r.amount, on |-> on])
        BY <1>2 DEF AddRow
      <3> QED BY <1>1, <3>1
    <2>2. now' = now
      BY <1>2 DEF AddRow
    <2>3. /\ DOMAIN rows' = 1 .. Len(rows) + 1 /\ DOMAIN rows = 1 .. Len(rows) /\ Len(rows) \in Nat
          /\ rows'[Len(rows) + 1] = row /\ \A i \in DOMAIN rows : rows'[i] = rows[i]
      BY <1>1, <2>1
    <2> QED BY <1>1, <2>1, <2>2, <2>3 DEF LogInv
  <1>3. CASE Rewriting
    <2>1. cleanUpOldData
      BY <1>1, <1>3 DEF Rewriting, updateBookingStatus, rescheduleBooking
    <2> DEFINE cutoff == now - (now % Day) - Retention
    <2>2. rows' = [i \in DOMAIN rows |->
                      IF rows[i].on < cutoff THEN [rows[i] EXCEPT !.user = NoUser] ELSE rows[i]]
      BY <2>1 DEF cleanUpOldData, Rewrite
    <2>3. now' = now
      BY <2>1 DEF cleanUpOldData, Rewrite
    <2>4. DOMAIN rows' = DOMAIN rows /\ \A i \in DOMAIN rows : rows'[i].on = rows[i].on
      <3> HIDE DEF cutoff
      <3>1. \A i \in DOMAIN rows : [rows[i] EXCEPT !.user = NoUser].on = rows[i].on
        BY <1>1 DEF Row
      <3> QED BY <2>2, <3>1
    <2> QED BY <1>1, <2>3, <2>4 DEF LogInv
  <1>4. CASE UNCHANGED rows /\ now <= now'
    BY <1>1, <1>4 DEF LogInv
  <1>5. now' = now \/ now' = now + 1
    BY DEF Next, vars, AddRow, Tick, WalkStart, WalkRows, WalkCount, RevenueStart, RevenueStatement,
       getBookingStats, OverviewStart, OverviewQuery, OverviewTrend, MonthStart, MonthRead,
       updateBookingStatus, rescheduleBooking, cleanUpOldData, Rewrite
  <1> QED BY <1>1, <1>2, <1>3, <1>4, <1>5, RowsStep

LEMMA ListingUsers == \A q \in Listings : q.users \subseteq Users
  <1>1. ASSUME NEW users, NEW kinds, NEW from, NEW to
        PROVE  Query(users, kinds, from, to).users = users
    BY DEF Query
  <1>2. \A org \in Orgs : Anyone(org) \subseteq Users
    BY DEF Anyone
  <1>3. \A S, X : S \in OneOrAll(X) => S \subseteq X
    BY DEF OneOrAll
  <1>4. \A q \in getMyBookingsHistory : q.users \subseteq Users
    BY DEF getMyBookingsHistory, Query
  <1>5. \A q \in getAllBookings : q.users \subseteq Users
    <2>1. \A users \in UNION {OneOrAll(Anyone(org)) : org \in Orgs} : users \subseteq Users
      BY <1>2, <1>3
    <2> QED BY <1>1, <2>1 DEF getAllBookings
  <1>6. \A q \in getStaffCreditLogs : q.users \subseteq Users
    BY <1>1, <1>2 DEF getStaffCreditLogs
  <1>7. \A q \in getOrganizationSubscriptionHistory : q.users \subseteq Users
    <2>1. \A users \in {Users} \cup {Anyone(org) : org \in Orgs} : users \subseteq Users
      BY <1>2
    <2> QED BY <2>1 DEF getOrganizationSubscriptionHistory, Query
  <1>8. \A q \in getUserActivityLogs : q.users \subseteq Users
    <2>1. \A users \in OneOrAll(Users) \cup {Anyone(org) : org \in Orgs} : users \subseteq Users
      BY <1>2, <1>3
    <2> QED BY <1>1, <2>1 DEF getUserActivityLogs
  <1> QED BY <1>4, <1>5, <1>6, <1>7, <1>8, Zenon DEF Listings

\* What a step that is not the walk's does to it: it loses what leaves the listing, and
\* of logs only the oldest leave.
LEMMA WalkLoses ==
    ASSUME ReportsAssumption, ZonesAssumption, BaseInv, LogInv, [Next]_vars, report.op = "walk",
           ~(WalkStart \/ WalkRows \/ WalkCount), NEW q, q = report.query, report \in Walks
    PROVE  /\ report' = [report EXCEPT !.gone = report.gone \cup (Selected(q) \ Selected(q)')]
           /\ table # "Bookings" =>
                \A i \in Selected(q), j \in Selected(q) \ Selected(q)' : i <= j => i \notin Selected(q)'
  <1>1. zone' = zone /\ table' = table
    BY RowsStep
  <1>2. Selected(q)' = {i \in DOMAIN rows' : Matches(q, rows'[i])}
    BY <1>1 DEF Selected, Matches, InRange
  <1>3. CASE Rewriting
    <2>1. Rewrite(rows') /\ DOMAIN rows' = DOMAIN rows /\ table # "CreditTransaction"
      <3>1. Rewrite(rows') /\ rows' \in Seq(Row) /\ Len(rows') = Len(rows) /\ rows \in Seq(Row)
            /\ table # "CreditTransaction"
        BY <1>3, Rewritten DEF BaseInv
      <3> QED BY <3>1
    <2>2. {i \in Selected(q) : ~Matches(q, rows'[i])} = Selected(q) \ Selected(q)'
      BY <1>2, <2>1 DEF Selected
    <2>3. report' = [report EXCEPT !.gone = report.gone \cup {i \in Selected(q) : ~Matches(q, rows'[i])}]
      BY <2>1 DEF Rewrite
    <2>4. ASSUME table # "Bookings", NEW i \in Selected(q), NEW j \in Selected(q) \ Selected(q)', i <= j
          PROVE  i \notin Selected(q)'
      <3>1. cleanUpOldData /\ table = "ActivityLog"
        BY <1>3, <2>4 DEF Rewriting, updateBookingStatus, rescheduleBooking, cleanUpOldData
      <3> DEFINE cutoff == now - (now % Day) - Retention
      <3>2. rows' = [k \in DOMAIN rows |->
                        IF rows[k].on < cutoff THEN [rows[k] EXCEPT !.user = NoUser] ELSE rows[k]]
        BY <3>1 DEF cleanUpOldData, Rewrite
      <3> HIDE DEF cutoff
      <3>3. i \in DOMAIN rows /\ j \in DOMAIN rows /\ rows[i].on <= rows[j].on /\ Matches(q, rows[j])
        BY <2>4, <3>1 DEF Selected, LogInv
      <3>4. rows[j].on < cutoff
        BY <1>2, <2>4, <3>2, <3>3
      <3>5. rows[i].on < cutoff /\ rows[i] \in Row
        <4>1. rows[i] \in Row /\ rows[j] \in Row
          BY <3>3 DEF BaseInv
        <4>2. rows[i].on \in Int /\ rows[j].on \in Int
          BY <4>1 DEF Row
        <4>3. cutoff \in Int
          BY DEF cutoff, BaseInv, ReportsAssumption, ZonesAssumption, CalendarAssumption
        <4> QED BY <3>3, <3>4, <4>1, <4>2, <4>3
      <3>6. rows'[i].user = NoUser
        <4>1. rows'[i] = [rows[i] EXCEPT !.user = NoUser]
          BY <3>2, <3>3, <3>5
        <4> QED BY <3>5, <4>1 DEF Row
      <3>7. NoUser \notin q.users
        BY ListingUsers DEF Walks, ReportsAssumption
      <3> QED BY <1>2, <3>6, <3>7 DEF Matches
    <2> QED BY <2>2, <2>3, <2>4
  <1>4. CASE ~Rewriting
    <2>1. UNCHANGED report
      BY <1>4, OneReport DEF BaseInv, RevenueStart, RevenueStatement, getBookingStats, OverviewStart,
         OverviewQuery, OverviewTrend, MonthStart, MonthRead, NoReport
    <2>2. \A i \in DOMAIN rows : i \in DOMAIN rows' /\ rows'[i] = rows[i]
      BY <1>4, RowsStep
    <2>3. Selected(q) \subseteq Selected(q)'
      BY <2>2, SelectedKept
    <2>4. report = [report EXCEPT !.gone = report.gone]
      BY DEF Walks
    <2>5. report.gone \cup (Selected(q) \ Selected(q)') = report.gone
      BY <2>3
    <2> QED BY <2>1, <2>3, <2>4, <2>5
  <1> QED BY <1>3, <1>4

LEMMA ListingDates == \A q \in Listings : q.from \in MaybeDates /\ q.to \in MaybeDates
  <1>1. ASSUME NEW users, NEW kinds, NEW from \in MaybeDates, NEW to \in MaybeDates
        PROVE  Query(users, kinds, from, to).from \in MaybeDates /\ Query(users, kinds, from, to).to \in MaybeDates
    BY DEF Query
  <1>2. NoDate \in MaybeDates /\ Dates \subseteq MaybeDates
    BY DEF MaybeDates
  <1>3. \A q \in getMyBookingsHistory : q.from \in MaybeDates /\ q.to \in MaybeDates
    BY <1>2 DEF getMyBookingsHistory, Query
  <1>4. \A q \in getAllBookings : q.from \in MaybeDates /\ q.to \in MaybeDates
    BY <1>1, <1>2 DEF getAllBookings
  <1>5. \A q \in getStaffCreditLogs : q.from \in MaybeDates /\ q.to \in MaybeDates
    BY <1>1, <1>2 DEF getStaffCreditLogs
  <1>6. \A q \in getOrganizationSubscriptionHistory : q.from \in MaybeDates /\ q.to \in MaybeDates
    BY DEF getOrganizationSubscriptionHistory, Query
  <1>7. \A q \in getUserActivityLogs : q.from \in MaybeDates /\ q.to \in MaybeDates
    BY <1>1 DEF getUserActivityLogs
  <1> QED BY <1>3, <1>4, <1>5, <1>6, <1>7, Zenon DEF Listings

LEMMA SameListings == ASSUME UNCHANGED table PROVE Listings' = Listings
  <1>1. Kinds' = Kinds
    BY DEF Kinds
  <1>2. getMyBookingsHistory' = getMyBookingsHistory
    BY <1>1 DEF getMyBookingsHistory
  <1>3. getAllBookings' = getAllBookings
    BY <1>1 DEF getAllBookings
  <1>4. getStaffCreditLogs' = getStaffCreditLogs
    BY <1>1 DEF getStaffCreditLogs
  <1>5. getOrganizationSubscriptionHistory' = getOrganizationSubscriptionHistory
    BY <1>1 DEF getOrganizationSubscriptionHistory
  <1>6. getUserActivityLogs' = getUserActivityLogs
    BY <1>1 DEF getUserActivityLogs
  <1> QED BY <1>2, <1>3, <1>4, <1>5, <1>6 DEF Listings

\* A walk while rows are added, changed and deleted: what is added pushes others back,
\* what is lost pulls forward only what is behind it.
LEMMA PagesPushedBack ==
    ASSUME ReportsAssumption, ZonesAssumption, BaseInv, LogInv, PagesInv, [Next]_vars, report.op = "walk",
           ~(WalkStart \/ WalkRows \/ WalkCount)
    PROVE  PagesInv'
  <1>1. PICK q : q = report.query
    OBVIOUS
  <1> DEFINE S == Selected(q)
             T == Selected(q)'
             gone == report.gone \cup (S \ T)
  <1>2. WalkInv(report, S)
    BY <1>1 DEF PagesInv
  <1>3. /\ report' = [report EXCEPT !.gone = gone]
        /\ table # "Bookings" => \A i \in S, j \in S \ T : i <= j => i \notin T
    BY <1>1, <1>2, WalkLoses DEF WalkInv
  <1>4. /\ Len(rows) \in Nat /\ Len(rows') \in Nat
        /\ S \in SUBSET (1 .. Len(rows)) /\ T \in SUBSET (1 .. Len(rows'))
    <2>1. rows \in Seq(Row) /\ rows' \in Seq(Row)
      BY RowsStep DEF BaseInv
    <2>2. Len(rows) \in Nat /\ Len(rows') \in Nat /\ DOMAIN rows = 1 .. Len(rows) /\ DOMAIN rows' = 1 .. Len(rows')
      BY <2>1
    <2> QED BY <2>2 DEF Selected
  <1>5. /\ report \in Walks
        /\ report.seen \subseteq S \cup report.gone /\ report.before \subseteq S \cup report.gone
        /\ \A i \in report.before :
             Undisplaced(report, i) /\ (report.step = "done" \/ Rank(i, S) < Read(report)) => i \in report.seen
        /\ table # "Bookings" => \A i \in report.before, j \in report.gone : i <= j => i \in report.gone
    BY <1>2 DEF WalkInv
  <1> HIDE DEF S, T
  <1>6. /\ report' \in Walks /\ report'.gone = gone
        /\ report'.op = report.op /\ report'.step = report.step /\ report'.query = report.query
        /\ report'.page = report.page /\ report'.seen = report.seen /\ report'.before = report.before
    <2>1. gone \in SUBSET Nat
      <3>1. report.gone \in SUBSET Nat
        BY <1>5 DEF Walks
      <3>2. S \in SUBSET Nat
        BY <1>4
      <3> QED BY <3>1, <3>2
    <2> HIDE DEF gone
    <2> QED BY <1>3, <1>5, <2>1 DEF Walks
  <1>7. report'.seen \subseteq T \cup report'.gone /\ report'.before \subseteq T \cup report'.gone
    BY <1>5, <1>6
  <1>8. ASSUME NEW i \in report'.before, Undisplaced(report', i),
               report'.step = "done" \/ Rank(i, T) < Read(report')
        PROVE  i \in report'.seen
    <2>1. i \in Nat /\ \A j \in gone : j < i
      BY <1>5, <1>6, <1>8 DEF Walks, Undisplaced
    <2>2. Undisplaced(report, i)
      BY <2>1 DEF Undisplaced
    <2>3. \A j \in S : j > i => j \in T
      BY <1>4, <2>1
    <2>4. Rank(i, S) \in Nat /\ Rank(i, T) \in Nat /\ Rank(i, S) <= Rank(i, T)
      BY <1>4, <2>1, <2>3, RankAhead
    <2>5. Read(report') = Read(report) /\ Read(report) \in Int
      BY <1>5, <1>6 DEF Read, Skip, Walks, ReportsAssumption
    <2>6. report.step = "done" \/ Rank(i, S) < Read(report)
      BY <1>6, <1>8, <2>4, <2>5
    <2> QED BY <1>5, <1>6, <2>2, <2>6
  <1>9. ASSUME table # "Bookings", NEW i \in report'.before, NEW j \in report'.gone, i <= j
        PROVE  i \in report'.gone
    <2>1. CASE j \in report.gone
      BY <1>5, <1>6, <1>9, <2>1
    <2>2. CASE j \in S \ T /\ i \in S
      BY <1>3, <1>6, <1>9, <2>2
    <2> QED BY <1>5, <1>6, <1>9, <2>1, <2>2
  <1>10. /\ table' = table /\ Walks' = Walks /\ \A i, X : Rank(i, X)' = Rank(i, X)
         /\ \A w, i : Undisplaced(w, i)' <=> Undisplaced(w, i)
         /\ \A w : Read(w)' = Read(w)
    <2>1. table' = table
      BY RowsStep
    <2> QED BY <2>1, SameListings DEF Walks, Rank, Undisplaced, Read, Skip
  <1>11. PagesInv' <=> (report'.op = "walk" => WalkInv(report, Selected(report.query))')
    BY DEF PagesInv
  <1>12. Selected(report.query)' = T
    BY <1>1, <1>6 DEF T, Selected, Matches, InRange
  <1>13. WalkInv(report, Selected(report.query))'
    BY <1>6, <1>7, <1>8, <1>9, <1>10, <1>12 DEF WalkInv, Undisplaced, Rank, Read, Skip
  <1> QED BY <1>11, <1>13

LEMMA WalkSteps ==
    ASSUME ReportsAssumption, BaseInv, PagesInv, [Next]_vars, WalkStart \/ WalkRows \/ WalkCount
    PROVE  PagesInv'
  <1>1. UNCHANGED <<zone, table, rows, now>> /\ Walks' = Walks
    <2>1. UNCHANGED <<zone, table, rows, now>>
      BY DEF WalkStart, WalkRows, WalkCount
    <2> QED BY <2>1, SameListings DEF Walks
  <1>2. \A q : /\ Selected(q)' = Selected(q) /\ Selected(q) \subseteq 1 .. Len(rows)
               /\ Selected(q) \subseteq Nat /\ Len(rows) \in Nat
    <2>1. \A i \in DOMAIN rows : i \in DOMAIN rows' /\ rows'[i] = rows[i]
      BY <1>1
    <2> QED BY <1>1, <2>1, SelectedKept
  <1>3. Limit \in Nat \ {0}
    BY DEF ReportsAssumption
  <1>4. \A i, q : Rank(i, Selected(q)) \in Nat
    BY <1>2, RankGrows
  <1> SUFFICES WalkInv(report', Selected(report'.query))
    <2>1. Selected(report'.query) = Selected(report.query)'
      BY <1>1 DEF Selected, Matches, InRange
    <2> QED BY <1>1, <2>1 DEF PagesInv, WalkInv, Undisplaced, Rank, Read, Skip
  <1>5. CASE WalkStart
    <2>1. PICK q \in Listings :
             report' = [op |-> "walk", step |-> "rows", query |-> q, page |-> 1, seen |-> {},
                        before |-> Selected(q), gone |-> {}]
      BY <1>5, Zenon DEF WalkStart
    <2>2. report' \in Walks
      BY <1>2, <2>1 DEF Walks
    <2>3. Read(report') = 0
      BY <1>3, <2>1 DEF Read, Skip
    <2>4. \A i : ~(Rank(i, Selected(q)) < 0)
      BY <1>4
    <2> QED BY <2>1, <2>2, <2>3, <2>4 DEF WalkInv
  <1> SUFFICES ASSUME WalkRows \/ WalkCount PROVE WalkInv(report', Selected(report'.query))
    BY <1>5
  <1> DEFINE S == Selected(report.query)
  <1>6. /\ report \in Walks
        /\ report.seen \subseteq S \cup report.gone /\ report.before \subseteq S \cup report.gone
        /\ \A i \in report.before :
             Undisplaced(report, i) /\ (report.step = "done" \/ Rank(i, S) < Read(report)) => i \in report.seen
        /\ table # "Bookings" => \A i \in report.before, j \in report.gone : i <= j => i \in report.gone
    BY DEF WalkRows, WalkCount, PagesInv, WalkInv
  <1>7. /\ report.page \in Nat \ {0} /\ report.page + 1 \in Nat \ {0} /\ Skip(report.page) \in Int
        /\ Skip(report.page) + Limit = report.page * Limit
        /\ Skip(report.page + 1) = report.page * Limit
    <2>1. report.page \in Nat \ {0}
      BY <1>6 DEF Walks
    <2> QED BY <1>3, <2>1 DEF Skip
  <1>8. \A i \in report.before : Undisplaced(report, i) => i \in S
    <2> TAKE i \in report.before
    <2>1. i \in Nat
      BY <1>6 DEF Walks
    <2> QED BY <1>6, <2>1 DEF Undisplaced
  <1>9. CASE WalkRows
    <2> DEFINE page == PageOf(S, report.page)
    <2>1. /\ report' = [report EXCEPT !.step = "count", !.seen = report.seen \cup page]
          /\ report.step = "rows"
      BY <1>9 DEF WalkRows
    <2>2. page \subseteq S /\ page \in SUBSET Nat
      BY <1>2 DEF PageOf
    <2>3. \A i \in S : Rank(i, S) < Skip(report.page) + Limit =>
             Rank(i, S) < Skip(report.page) \/ i \in page
      BY <1>3, <1>4, <1>7 DEF PageOf
    <2> HIDE DEF page, S
    <2>4. /\ report' \in Walks /\ report'.step = "count" /\ report'.seen = report.seen \cup page
          /\ report'.before = report.before /\ report'.query = report.query /\ report'.page = report.page
          /\ report'.gone = report.gone
      BY <1>6, <2>1, <2>2 DEF Walks
    <2>5. Read(report') = Skip(report.page) + Limit /\ Read(report) = Skip(report.page)
      BY <2>1, <2>4 DEF Read
    <2>6. S = Selected(report'.query)
      BY <2>4 DEF S
    <2>7. \A i \in report'.before :
             Undisplaced(report', i) /\ (report'.step = "done" \/ Rank(i, S) < Read(report'))
               => i \in report'.seen
      BY <1>6, <1>8, <2>3, <2>4, <2>5 DEF Undisplaced
    <2>8. report'.seen \subseteq S \cup report'.gone
      BY <1>6, <2>2, <2>4
    <2> QED BY <1>6, <2>4, <2>6, <2>7, <2>8 DEF WalkInv
  <1>10. CASE WalkCount /\ report.page * Limit < Cardinality(S)
    <2>1. report' = [report EXCEPT !.step = "rows", !.page = report.page + 1] /\ report.step = "count"
      BY <1>10 DEF WalkCount
    <2> HIDE DEF S
    <2>2. /\ report' \in Walks /\ report'.step = "rows" /\ report'.seen = report.seen
          /\ report'.before = report.before /\ report'.query = report.query
          /\ report'.page = report.page + 1 /\ report'.gone = report.gone
      BY <1>6, <1>7, <2>1 DEF Walks
    <2>3. Read(report') = Read(report)
      BY <1>7, <2>1, <2>2 DEF Read
    <2>4. S = Selected(report'.query)
      BY <2>2 DEF S
    <2>5. \A i : Undisplaced(report', i) <=> Undisplaced(report, i)
      BY <2>2 DEF Undisplaced
    <2> QED BY <1>6, <2>1, <2>2, <2>3, <2>4, <2>5 DEF WalkInv
  <1>11. CASE WalkCount /\ ~(report.page * Limit < Cardinality(S))
    <2>1. report' = [report EXCEPT !.step = "done"] /\ report.step = "count"
      BY <1>11 DEF WalkCount
    <2>2. \A i \in S : Rank(i, S) < Cardinality(S) /\ Rank(i, S) \in Nat /\ Cardinality(S) \in Nat
      BY <1>2, RankGrows
    <2> HIDE DEF S
    <2>3. Read(report) = report.page * Limit
      BY <1>7, <2>1 DEF Read
    <2>4. \A i \in report.before : Undisplaced(report, i) => i \in report.seen
      <3> TAKE i \in report.before
      <3> SUFFICES ASSUME Undisplaced(report, i) PROVE i \in report.seen
        OBVIOUS
      <3>1. i \in S
        BY <1>8
      <3>2. Rank(i, S) < Read(report)
        BY <1>3, <1>7, <1>11, <2>2, <2>3, <3>1
      <3> QED BY <1>6, <3>2
    <2>5. /\ report' \in Walks /\ report'.step = "done" /\ report'.seen = report.seen
          /\ report'.before = report.before /\ report'.query = report.query /\ report'.gone = report.gone
      BY <1>6, <2>1 DEF Walks
    <2>6. S = Selected(report'.query)
      BY <2>5 DEF S
    <2>7. \A i : Undisplaced(report', i) <=> Undisplaced(report, i)
      BY <2>5 DEF Undisplaced
    <2> QED BY <1>6, <2>4, <2>5, <2>6, <2>7 DEF WalkInv
  <1> QED BY <1>9, <1>10, <1>11

\* getMyBookingsHistory, getAllBookings, getStaffCreditLogs and the other listings,
\* newest rows first: for any page size, however rows are added, changed and deleted
\* between any two requests, whoever goes through all the pages has seen every row there
\* was at the start, but for those that left the listing meanwhile and those behind one
\* that did; of logs, which are deleted the oldest first, all but those deleted; and no
\* rows of other dates than were asked for, but those of the first second after.
THEOREM PagesCorrect ==
    ASSUME ReportsAssumption, ZonesAssumption
    PROVE  Spec => []PagesMissNothing
  <1>1. Init => LogInv /\ PagesInv
    BY DEF Init, NoReport, LogInv, PagesInv
  <1>2. BaseInv /\ LogInv /\ PagesInv /\ [Next]_vars => LogInv' /\ PagesInv'
    <2> SUFFICES ASSUME BaseInv, LogInv, PagesInv, [Next]_vars PROVE PagesInv'
      BY LogStep
    <2>1. CASE report'.op # "walk"
      BY <2>1 DEF PagesInv
    <2>2. CASE WalkStart \/ WalkRows \/ WalkCount
      BY <2>2, WalkSteps
    <2> QED BY <2>1, <2>2, OneReport, PagesPushedBack
  <1>3. BaseInv /\ PagesInv => PagesMissNothing
    <2> SUFFICES ASSUME BaseInv, PagesInv, report.op = "walk"
                 PROVE  LET q == report.query
                        IN  /\ report.step = "done" =>
                                 /\ {i \in report.before : \A j \in report.gone : j < i} \subseteq report.seen
                                 /\ table # "Bookings" => report.before \ report.gone \subseteq report.seen
                            /\ Clear(q) =>
                                 /\ \A i \in report.seen \ report.gone :
                                      Wanted(q, rows[i]) \/ Late(q, rows[i].on)
                                 /\ \A i \in DOMAIN rows : Wanted(q, rows[i]) => Matches(q, rows[i])
      BY Zenon DEF PagesMissNothing
    <2> DEFINE q == report.query
    <2>1. WalkInv(report, Selected(q))
      BY DEF PagesInv
    <2>2. /\ q \in Listings /\ report.seen \subseteq Selected(q) \cup report.gone
          /\ report.step = "done" =>
               \A i \in report.before : (\A j \in report.gone : j < i) => i \in report.seen
      BY <2>1 DEF WalkInv, Walks, Undisplaced
    <2>3. ASSUME table # "Bookings", report.step = "done", NEW i \in report.before \ report.gone
          PROVE  i \in report.seen
      <3>1. \A j \in report.gone : ~(i <= j) /\ i \in Nat /\ j \in Nat
        BY <2>1, <2>3 DEF WalkInv, Walks
      <3>2. \A j \in report.gone : j < i
        BY <3>1
      <3> QED BY <2>2, <2>3, <3>2
    <2>4. q.from \in MaybeDates /\ q.to \in MaybeDates
      BY <2>2, ListingDates
    <2>5. \A i \in DOMAIN rows : rows[i] \in Row
      BY DEF BaseInv
    <2>6. ASSUME Clear(q)
          PROVE  \A i \in DOMAIN rows : /\ Wanted(q, rows[i]) => Matches(q, rows[i])
                                        /\ Matches(q, rows[i]) => Wanted(q, rows[i]) \/ Late(q, rows[i].on)
      <3> HIDE DEF q
      <3> TAKE i \in DOMAIN rows
      <3> QED BY <2>4, <2>5, <2>6, QueryDates
    <2>7. \A i \in report.seen \ report.gone : i \in DOMAIN rows /\ Matches(q, rows[i])
      BY <2>2 DEF Selected
    <2> HIDE DEF q
    <2>8. /\ report.step = "done" =>
               /\ {i \in report.before : \A j \in report.gone : j < i} \subseteq report.seen
               /\ table # "Bookings" => report.before \ report.gone \subseteq report.seen
          /\ Clear(q) =>
               /\ \A i \in report.seen \ report.gone : Wanted(q, rows[i]) \/ Late(q, rows[i].on)
               /\ \A i \in DOMAIN rows : Wanted(q, rows[i]) => Matches(q, rows[i])
      BY <2>2, <2>3, <2>6, <2>7
    <2> QED BY <2>8 DEF q
  <1> QED BY <1>1, <1>2, <1>3, BaseCorrect, PTL DEF Spec

-----------------------------------------------------------------------------
(* Sums over rows.                                                          *)

LEMMA RowFacts ==
    ASSUME BaseInv
    PROVE  /\ DOMAIN rows = 1 .. Len(rows) /\ Len(rows) \in Nat
           /\ \A i \in DOMAIN rows : rows[i] \in Row /\ rows[i].amount \in Nat /\ rows[i].on \in Int
           /\ \A S \in SUBSET DOMAIN rows : IsFiniteSet(S)
  <1>1. DOMAIN rows = 1 .. Len(rows) /\ Len(rows) \in Nat /\ \A i \in DOMAIN rows : rows[i] \in Row
    BY DEF BaseInv
  <1>2. MaxTime \in Int \/ 0 .. MaxTime \subseteq Int
    OBVIOUS
  <1>3. \A i \in DOMAIN rows : rows[i].amount \in Nat /\ rows[i].on \in Int
    BY <1>1 DEF Row
  <1>4. IsFiniteSet(DOMAIN rows)
    BY <1>1, FS_Interval
  <1> QED BY <1>1, <1>3, <1>4, FS_Subset

\* The amounts of rows, a larger set of which sums to no less.
LEMMA AmountGrows ==
    ASSUME BaseInv, NEW T \in SUBSET DOMAIN rows, NEW S \in SUBSET T
    PROVE  Amount(S) \in Nat /\ Amount(T) \in Nat /\ Amount(S) <= Amount(T)
  <1> DEFINE f == [i \in DOMAIN rows |-> rows[i].amount]
  <1>1. IsFiniteSet(T) /\ \A i \in T : f[i] \in Nat
    BY RowFacts
  <1> HIDE DEF f
  <1>2. /\ SumFunctionOnSet(f, T) \in Nat /\ SumFunctionOnSet(f, S) \in Nat
        /\ SumFunctionOnSet(f, S) <= SumFunctionOnSet(f, T)
    BY <1>1, SumOfPart
  <1> QED BY <1>2 DEF Amount, f

\* Rows that are there keep their amounts.
LEMMA AmountKept ==
    ASSUME ReportsAssumption, BaseInv, table = "CreditTransaction", [Next]_vars, NEW S, S \subseteq DOMAIN rows
    PROVE  SumFunctionOnSet([i \in DOMAIN rows' |-> rows'[i].amount], S) = Amount(S)
  <1> DEFINE f == [i \in DOMAIN rows |-> rows[i].amount]
             g == [i \in DOMAIN rows' |-> rows'[i].amount]
  <1>1. \A i \in S : g[i] = f[i]
    BY RowsOnlyAdded
  <1>2. IsFiniteSet(S)
    BY RowFacts
  <1> HIDE DEF f, g
  <1>3. SumFunctionOnSet(g, S) = SumFunctionOnSet(f, S)
    BY <1>1, <1>2, SumSame
  <1> QED BY <1>3 DEF Amount, f, g

\* The periods of a report add up to all of what it is about, and count all of it.
LEMMA GroupsAddUp ==
    ASSUME BaseInv, NEW S \in SUBSET DOMAIN rows, NEW grouping
    PROVE  LET groups == Grouped(S, grouping)
           IN  /\ Sum(groups, "amount") = Amount(S)
               /\ Sum(groups, "count") = Cardinality(S)
               /\ UNION {groups[k].orgs : k \in DOMAIN groups} = {OrgOf[rows[i].user] : i \in S}
  <1> DEFINE groups == Grouped(S, grouping)
             key == [i \in S |-> BucketKey(grouping, rows[i].on)]
             K == {key[i] : i \in S}
             paid == [i \in DOMAIN rows |-> rows[i].amount]
             one == [i \in S |-> 1]
             Part(k) == {i \in S : key[i] = k}
  <1>1. groups = [k \in K |-> [amount |-> Amount(Part(k)), count |-> Cardinality(Part(k)),
                                orgs |-> {OrgOf[rows[i].user] : i \in Part(k)}]]
    <2>1. K = {BucketKey(grouping, rows[i].on) : i \in S}
      OBVIOUS
    <2>2. \A k : Part(k) = {i \in S : BucketKey(grouping, rows[i].on) = k}
      OBVIOUS
    <2> HIDE DEF K, Part
    <2> QED BY <2>1, <2>2 DEF Grouped
  <1>2. IsFiniteSet(S) /\ \A i \in S : paid[i] \in Int /\ one[i] \in Int /\ one[i] = 1 /\ key[i] \in K
    BY RowFacts
  <1>3. IsFiniteSet(K)
    <2> HIDE DEF key
    <2> QED BY <1>2, ImageIsFinite
  <1>4. \A k \in K : Part(k) \subseteq S /\ IsFiniteSet(Part(k))
    <2> TAKE k \in K
    <2>1. Part(k) \subseteq S
      OBVIOUS
    <2> QED BY <1>2, <2>1, FS_Subset
  <1> DEFINE amounts == [k \in DOMAIN groups |-> groups[k]["amount"]]
             counts == [k \in DOMAIN groups |-> groups[k]["count"]]
  <1> HIDE DEF groups, K
  <1>5. DOMAIN groups = K /\ \A k \in K : /\ amounts[k] = SumFunctionOnSet(paid, Part(k))
                                          /\ counts[k] = Cardinality(Part(k))
    <2> HIDE DEF Part, paid
    <2>1. \A k \in K : Amount(Part(k)) = SumFunctionOnSet(paid, Part(k))
      BY DEF Amount, paid
    <2> QED BY <1>1, <2>1
  <1>6. \A k \in K : counts[k] = SumFunctionOnSet(one, Part(k))
    <2> TAKE k \in K
    <2>1. \A i \in Part(k) : one[i] = 1
      BY <1>4
    <2> HIDE DEF Part, one
    <2> QED BY <1>4, <1>5, <2>1, SumOfOnes
  <1> DEFINE part == [k \in K |-> Part(k)]
  <1>7. \A k \in K : part[k] \subseteq S /\ \A i \in S : i \in part[k] <=> key[i] = k
    <2> HIDE DEF key
    <2> QED OBVIOUS
  <1>8. SumFunctionOnSet(amounts, K) = SumFunctionOnSet(paid, S)
    <2>1. \A k \in K : amounts[k] = SumFunctionOnSet(paid, part[k])
      BY <1>5
    <2>2. /\ \A x \in S : paid[x] \in Int
          /\ \A x \in S : key[x] \in K
      BY <1>2
    <2>3. IsFiniteSet(S) /\ IsFiniteSet(K)
      BY <1>2, <1>3
    <2> HIDE DEF amounts, counts, paid, one, key, part
    <2> QED BY <1>7, <2>1, <2>2, <2>3, SumByKey
  <1>9. SumFunctionOnSet(counts, K) = SumFunctionOnSet(one, S)
    <2>1. \A k \in K : counts[k] = SumFunctionOnSet(one, part[k])
      BY <1>6
    <2>2. /\ \A x \in S : one[x] \in Int
          /\ \A x \in S : key[x] \in K
      BY <1>2
    <2>3. IsFiniteSet(S) /\ IsFiniteSet(K)
      BY <1>2, <1>3
    <2> HIDE DEF amounts, counts, paid, one, key, part
    <2> QED BY <1>7, <2>1, <2>2, <2>3, SumByKey
  <1>10. SumFunctionOnSet(one, S) = Cardinality(S)
    <2> HIDE DEF one
    <2> QED BY <1>2, SumOfOnes
  <1>11. Sum(groups, "amount") = Amount(S) /\ Sum(groups, "count") = Cardinality(S)
    BY <1>5, <1>8, <1>9, <1>10 DEF Sum, Amount
  <1>12. UNION {groups[k].orgs : k \in DOMAIN groups} = {OrgOf[rows[i].user] : i \in S}
    <2>1. \A k \in K : groups[k].orgs = {OrgOf[rows[i].user] : i \in Part(k)}
      <3> HIDE DEF Part
      <3> QED BY <1>1
    <2>2. \A i \in S : key[i] \in K /\ i \in Part(key[i])
      BY <1>2
    <2>3. \A k \in K : \A i \in Part(k) : i \in S
      OBVIOUS
    <2> HIDE DEF Part, key
    <2> QED BY <1>5, <2>1, <2>2, <2>3
  <1> QED BY <1>11, <1>12 DEF groups

-----------------------------------------------------------------------------
(* The numbers of a report.                                                 *)

Revenue(grouping, q, answers) ==
    [op |-> "revenue", grouping |-> grouping, answers |-> answers, query |-> q]

\* A total over payments, and those who made them: more may have come since.
TotalOf(q, total) ==
    \E A \in SUBSET Paid(q) : total = [amount |-> Amount(A), count |-> Cardinality(A)]
PayersOf(q, payers) == payers \subseteq {OrgOf[rows[i].user] : i \in Paid(q)}
AddUp(total, payers, groups) ==
    /\ total.amount <= Sum(groups, "amount") /\ total.count <= Sum(groups, "count")
    /\ payers \subseteq UNION {groups[k].orgs : k \in DOMAIN groups}

RevenueInv ==
    report.op = "revenue" =>
        \E grouping, q :
            \/ report = Revenue(grouping, q, <<>>)
            \/ \E total : /\ report = Revenue(grouping, q, <<total>>)
                          /\ TotalOf(q, total)
            \/ \E total, payers : /\ report = Revenue(grouping, q, <<total, payers>>)
                                  /\ TotalOf(q, total) /\ PayersOf(q, payers)
            \/ \E total, payers, groups : /\ report = Revenue(grouping, q, <<total, payers, groups>>)
                                          /\ AddUp(total, payers, groups)

LEMMA PaidRows ==
    ASSUME BaseInv, NEW q
    PROVE  Paid(q) \in SUBSET DOMAIN rows
  BY DEF Paid, Selected

\* Payments that were made stay made.
LEMMA PaidKept ==
    ASSUME ReportsAssumption, BaseInv, table = "CreditTransaction", [Next]_vars, NEW q
    PROVE  /\ Paid(q) \subseteq Paid(q)'
           /\ {OrgOf[rows[i].user] : i \in Paid(q)} \subseteq {OrgOf[rows[i].user] : i \in Paid(q)}'
           /\ \A A \in SUBSET Paid(q) : Amount(A)' = Amount(A)
  <1>1. Selected(q) \subseteq Selected(q)' /\ Selected(q) \subseteq DOMAIN rows
    BY RowsOnlyAdded, SelectedKept DEF Selected
  <1>2. \A i \in DOMAIN rows : rows'[i] = rows[i]
    BY RowsOnlyAdded
  <1>3. Paid(q) = {i \in Selected(q) : rows[i].amount > 0} /\ Paid(q)' = {i \in Selected(q)' : rows'[i].amount > 0}
    BY DEF Paid
  <1>4. Paid(q) \subseteq Paid(q)' /\ \A i \in Paid(q) : rows'[i] = rows[i] /\ i \in DOMAIN rows
    BY <1>1, <1>2, <1>3
  <1>5. ASSUME NEW A \in SUBSET Paid(q) PROVE Amount(A)' = Amount(A)
    <2>1. A \subseteq DOMAIN rows
      BY <1>4
    <2> QED BY <2>1, AmountKept DEF Amount
  <1>6. {OrgOf[rows[i].user] : i \in Paid(q)} \subseteq {OrgOf[rows'[i].user] : i \in Paid(q)'}
    BY <1>4
  <1> QED BY <1>4, <1>5, <1>6

LEMMA AnswersKept ==
    ASSUME ReportsAssumption, BaseInv, table = "CreditTransaction", [Next]_vars, NEW q
    PROVE  /\ \A total : TotalOf(q, total) => TotalOf(q, total)'
           /\ \A payers : PayersOf(q, payers) => PayersOf(q, payers)'
  <1>1. ASSUME NEW total, TotalOf(q, total) PROVE TotalOf(q, total)'
    <2>1. PICK A \in SUBSET Paid(q) : total = [amount |-> Amount(A), count |-> Cardinality(A)]
      BY <1>1 DEF TotalOf
    <2>2. A \in SUBSET Paid(q)' /\ Amount(A)' = Amount(A)
      BY PaidKept
    <2>3. total = [amount |-> Amount(A)', count |-> Cardinality(A)]
      BY <2>1, <2>2
    <2> QED BY <2>2, <2>3 DEF TotalOf
  <1>2. ASSUME NEW payers, PayersOf(q, payers) PROVE PayersOf(q, payers)'
    BY <1>2, PaidKept DEF PayersOf
  <1> QED BY <1>1, <1>2

LEMMA AddUpKept ==
    \A total, payers, groups : AddUp(total, payers, groups) => AddUp(total, payers, groups)'
  BY DEF AddUp, Sum

LEMMA RevenueKept ==
    ASSUME ReportsAssumption, BaseInv, RevenueInv, [Next]_vars, UNCHANGED report
    PROVE  RevenueInv'
  <1> SUFFICES ASSUME report.op = "revenue" PROVE RevenueInv'
    BY DEF RevenueInv
  <1>0. table = "CreditTransaction"
    BY DEF BaseInv
  <1>1. PICK grouping, q :
            \/ report = Revenue(grouping, q, <<>>)
            \/ \E total : /\ report = Revenue(grouping, q, <<total>>)
                          /\ TotalOf(q, total)
            \/ \E total, payers : /\ report = Revenue(grouping, q, <<total, payers>>)
                                  /\ TotalOf(q, total) /\ PayersOf(q, payers)
            \/ \E total, payers, groups : /\ report = Revenue(grouping, q, <<total, payers, groups>>)
                                          /\ AddUp(total, payers, groups)
    BY Zenon DEF RevenueInv
  <1>2. \A g, p, a : Revenue(g, p, a)' = Revenue(g, p, a)
    BY DEF Revenue
  <1>3. /\ \A total : TotalOf(q, total) => TotalOf(q, total)'
        /\ \A payers : PayersOf(q, payers) => PayersOf(q, payers)'
    BY <1>0, AnswersKept
  <1>4.     \/ report' = Revenue(grouping, q, <<>>)
            \/ \E total : /\ report' = Revenue(grouping, q, <<total>>)
                          /\ TotalOf(q, total)'
            \/ \E total, payers : /\ report' = Revenue(grouping, q, <<total, payers>>)
                                  /\ TotalOf(q, total)' /\ PayersOf(q, payers)'
            \/ \E total, payers, groups : /\ report' = Revenue(grouping, q, <<total, payers, groups>>)
                                          /\ AddUp(total, payers, groups)'
    BY <1>1, <1>3, AddUpKept, Zenon
  <1> QED BY <1>2, <1>4, Zenon DEF RevenueInv

\* What the statements of the batch answer.
LEMMA Answers ==
    /\ Len(Statements) = 3
    /\ Statements[1] = "total" /\ Statements[2] = "payers" /\ Statements[3] = "groups"
    /\ Answer("total") = [amount |-> Amount(Paid(report.query)), count |-> Cardinality(Paid(report.query))]
    /\ Answer("payers") = {OrgOf[rows[i].user] : i \in Paid(report.query)}
    /\ Answer("groups") = Grouped(Paid(report.query), report.grouping)
    /\ AnswerTo("total") = report.answers[1]
    /\ AnswerTo("payers") = report.answers[2]
    /\ AnswerTo("groups") = report.answers[3]
  <1>1. /\ Len(Statements) = 3 /\ DOMAIN Statements = 1 .. 3
        /\ Statements[1] = "total" /\ Statements[2] = "payers" /\ Statements[3] = "groups"
    BY DEF Statements
  <1>2. Answer("total") = [amount |-> Amount(Paid(report.query)), count |-> Cardinality(Paid(report.query))]
    BY DEF Answer
  <1>3. Answer("payers") = {OrgOf[rows[i].user] : i \in Paid(report.query)}
    BY DEF Answer
  <1>4. Answer("groups") = Grouped(Paid(report.query), report.grouping)
    BY DEF Answer
  <1>5. /\ (CHOOSE n \in DOMAIN Statements : Statements[n] = "total") = 1
        /\ (CHOOSE n \in DOMAIN Statements : Statements[n] = "payers") = 2
        /\ (CHOOSE n \in DOMAIN Statements : Statements[n] = "groups") = 3
    BY <1>1
  <1> QED BY <1>1, <1>2, <1>3, <1>4, <1>5 DEF AnswerTo

\* What Append makes of tuples.
LEMMA TupleAppended ==
    ASSUME NEW a, NEW b, NEW c
    PROVE  /\ Append(<<a>>, b) = <<a, b>> /\ Append(<<a, b>>, c) = <<a, b, c>>
           /\ Len(<<a>>) + 1 = 2 /\ Len(<<a, b>>) + 1 = 3
  <1>1. Append(<<a>>, b) = <<a, b>>
    <2> DEFINE s == Append(<<a>>, b)
               t == <<a, b>>
    <2>1. /\ <<a>> \in Seq({a, b}) /\ t \in Seq({a, b}) /\ Len(<<a>>) = 1 /\ Len(t) = 2 /\ b \in {a, b}
          /\ t[1] = a /\ t[2] = b
      OBVIOUS
    <2>2. s \in Seq({a, b}) /\ Len(s) = 2 /\ s[1] = a /\ s[2] = b
      BY <2>1
    <2>3. \A i \in 1 .. 2 : s[i] = t[i]
      BY <2>1, <2>2
    <2> HIDE DEF s, t
    <2>4. s = t
      BY <2>1, <2>2, <2>3, SeqEqual DEF t
    <2> QED BY <2>4 DEF s, t
  <1>2. Append(<<a, b>>, c) = <<a, b, c>>
    <2> DEFINE s == Append(<<a, b>>, c)
               t == <<a, b, c>>
    <2>1. /\ <<a, b>> \in Seq({a, b, c}) /\ t \in Seq({a, b, c}) /\ Len(<<a, b>>) = 2 /\ Len(t) = 3
          /\ c \in {a, b, c} /\ t[1] = a /\ t[2] = b /\ t[3] = c
      OBVIOUS
    <2>2. s \in Seq({a, b, c}) /\ Len(s) = 3 /\ s[1] = a /\ s[2] = b /\ s[3] = c
      BY <2>1
    <2>3. \A i \in 1 .. 3 : s[i] = t[i]
      BY <2>1, <2>2
    <2> HIDE DEF s, t
    <2>4. s = t
      BY <2>1, <2>2, <2>3, SeqEqual DEF t
    <2> QED BY <2>4 DEF s, t
  <1>3. Len(<<a>>) + 1 = 2 /\ Len(<<a, b>>) + 1 = 3
    OBVIOUS
  <1> QED BY <1>1, <1>2, <1>3

LEMMA RevenueSteps ==
    ASSUME ReportsAssumption, BaseInv, RevenueInv, RevenueStart \/ RevenueStatement
    PROVE  RevenueInv'
  <1>1. UNCHANGED <<zone, rows>>
    BY DEF RevenueStart, RevenueStatement
  <1>2. \A q : Paid(q)' = Paid(q)
    BY <1>1 DEF Paid, Selected, Matches, InRange
  <1>3. /\ \A q, total : TotalOf(q, total) => TotalOf(q, total)'
        /\ \A q, payers : PayersOf(q, payers) => PayersOf(q, payers)'
        /\ \A g, p, a : Revenue(g, p, a)' = Revenue(g, p, a)
    BY <1>1, <1>2 DEF TotalOf, PayersOf, Revenue, Amount
  <1> SUFFICES \E grouping, q :
            \/ report' = Revenue(grouping, q, <<>>)
            \/ \E total : /\ report' = Revenue(grouping, q, <<total>>)
                          /\ TotalOf(q, total)
            \/ \E total, payers : /\ report' = Revenue(grouping, q, <<total, payers>>)
                                  /\ TotalOf(q, total) /\ PayersOf(q, payers)
            \/ \E total, payers, groups : /\ report' = Revenue(grouping, q, <<total, payers, groups>>)
                                          /\ AddUp(total, payers, groups)
    <2>1. \E grouping, q :
            \/ report' = Revenue(grouping, q, <<>>)'
            \/ \E total : /\ report' = Revenue(grouping, q, <<total>>)'
                          /\ TotalOf(q, total)'
            \/ \E total, payers : /\ report' = Revenue(grouping, q, <<total, payers>>)'
                                  /\ TotalOf(q, total)' /\ PayersOf(q, payers)'
            \/ \E total, payers, groups : /\ report' = Revenue(grouping, q, <<total, payers, groups>>)'
                                          /\ AddUp(total, payers, groups)'
      BY <1>3, AddUpKept, Zenon
    <2> QED BY <2>1, Zenon DEF RevenueInv
  <1>4. CASE RevenueStart
    <2>1. \E grouping, q : report' = Revenue(grouping, q, <<>>)
      BY <1>4, Zenon DEF RevenueStart, Revenue
    <2> QED BY <2>1, Zenon
  <1>5. CASE RevenueStatement
    <2>1. PICK grouping, q :
            \/ report = Revenue(grouping, q, <<>>)
            \/ \E total : /\ report = Revenue(grouping, q, <<total>>)
                          /\ TotalOf(q, total)
            \/ \E total, payers : /\ report = Revenue(grouping, q, <<total, payers>>)
                                  /\ TotalOf(q, total) /\ PayersOf(q, payers)
            \/ \E total, payers, groups : /\ report = Revenue(grouping, q, <<total, payers, groups>>)
                                          /\ AddUp(total, payers, groups)
      BY <1>5, Zenon DEF RevenueInv, RevenueStatement
    <2> DEFINE P == Paid(q)
    <2>2. \A answers, x : report = Revenue(grouping, q, answers) /\ report' = [report EXCEPT !.answers = x]
             => report' = Revenue(grouping, q, x) /\ report.query = q /\ report.grouping = grouping
                /\ report.answers = answers
      BY DEF Revenue
    <2>3. /\ report' = [report EXCEPT !.answers = Append(report.answers, Answer(Statements[Len(report.answers) + 1]))]
          /\ Len(report.answers) < 3
      BY <1>5, Answers DEF RevenueStatement
    <2>4. P \in SUBSET DOMAIN rows
      BY PaidRows
    <2> HIDE DEF P
    <2>5. ASSUME NEW answers, report = Revenue(grouping, q, answers)
          PROVE  /\ report' = Revenue(grouping, q, Append(answers, Answer(Statements[Len(answers) + 1])))
                 /\ Len(answers) < 3
                 /\ Answer("total") = [amount |-> Amount(P), count |-> Cardinality(P)]
                 /\ Answer("payers") = {OrgOf[rows[i].user] : i \in P}
                 /\ Answer("groups") = Grouped(P, grouping)
      <3>1. report.query = q /\ report.grouping = grouping /\ report.answers = answers
        BY <2>2, <2>3, <2>5
      <3> QED BY <2>2, <2>3, <2>5, <3>1, Answers DEF P
    <2>6. CASE report = Revenue(grouping, q, <<>>)
      <3> DEFINE total == [amount |-> Amount(P), count |-> Cardinality(P)]
      <3>1. report' = Revenue(grouping, q, <<total>>)
        <4>1. /\ report' = Revenue(grouping, q, Append(<<>>, Answer(Statements[Len(<<>>) + 1])))
              /\ Answer("total") = total
          BY <2>5, <2>6
        <4> HIDE DEF total
        <4>2. Append(<<>>, total) = <<total>> /\ Len(<<>>) + 1 = 1
          OBVIOUS
        <4> QED BY <4>1, <4>2, Answers
      <3>2. TotalOf(q, total)
        BY DEF TotalOf, P
      <3> QED BY <3>1, <3>2, Zenon
    <2>7. CASE \E total : report = Revenue(grouping, q, <<total>>) /\ TotalOf(q, total)
      <3>1. PICK total : report = Revenue(grouping, q, <<total>>) /\ TotalOf(q, total)
        BY <2>7
      <3> DEFINE payers == {OrgOf[rows[i].user] : i \in P}
      <3>2. report' = Revenue(grouping, q, <<total, payers>>)
        <4>1. /\ report' = Revenue(grouping, q, Append(<<total>>, Answer(Statements[Len(<<total>>) + 1])))
              /\ Answer("payers") = payers
          BY <2>5, <3>1
        <4> HIDE DEF payers
        <4>2. Append(<<total>>, payers) = <<total, payers>> /\ Len(<<total>>) + 1 = 2
          BY TupleAppended
        <4> QED BY <4>1, <4>2, Answers
      <3>3. PayersOf(q, payers)
        BY DEF PayersOf, P
      <3> QED BY <3>1, <3>2, <3>3, Zenon
    <2>8. CASE \E total, payers : /\ report = Revenue(grouping, q, <<total, payers>>)
                                  /\ TotalOf(q, total) /\ PayersOf(q, payers)
      <3>1. PICK total, payers : /\ report = Revenue(grouping, q, <<total, payers>>)
                                 /\ TotalOf(q, total) /\ PayersOf(q, payers)
        BY <2>8
      <3> DEFINE groups == Grouped(P, grouping)
      <3>2. report' = Revenue(grouping, q, <<total, payers, groups>>)
        <4>1. /\ report' = Revenue(grouping, q, Append(<<total, payers>>, Answer(Statements[Len(<<total, payers>>) + 1])))
              /\ Answer("groups") = groups
          BY <2>5, <3>1
        <4> HIDE DEF groups
        <4>2. Append(<<total, payers>>, groups) = <<total, payers, groups>> /\ Len(<<total, payers>>) + 1 = 3
          BY TupleAppended
        <4> QED BY <4>1, <4>2, Answers
      <3>3. /\ Sum(groups, "amount") = Amount(P) /\ Sum(groups, "count") = Cardinality(P)
            /\ UNION {groups[k].orgs : k \in DOMAIN groups} = {OrgOf[rows[i].user] : i \in P}
        BY <2>4, GroupsAddUp
      <3>4. PICK A \in SUBSET P : total = [amount |-> Amount(A), count |-> Cardinality(A)]
        BY <3>1 DEF TotalOf, P
      <3>5. Amount(A) <= Amount(P) /\ Cardinality(A) <= Cardinality(P)
        BY <2>4, AmountGrows, RowFacts, FS_Subset
      <3>6. payers \subseteq {OrgOf[rows[i].user] : i \in P}
        BY <3>1 DEF PayersOf, P
      <3> HIDE DEF groups
      <3>7. AddUp(total, payers, groups)
        BY <3>3, <3>4, <3>5, <3>6 DEF AddUp
      <3> QED BY <3>2, <3>7, Zenon
    <2>9. ASSUME NEW total, NEW payers, NEW groups, report = Revenue(grouping, q, <<total, payers, groups>>)
          PROVE  FALSE
      <3>1. Len(<<total, payers, groups>>) < 3
        BY <2>5, <2>9
      <3> QED BY <3>1
    <2> QED BY <2>1, <2>6, <2>7, <2>8, <2>9
  <1> QED BY <1>4, <1>5

LEMMA RevenueRight ==
    ASSUME RevenueInv
    PROVE  RevenueAgrees
  <1> SUFFICES ASSUME report.op = "revenue", Len(report.answers) = Len(Statements)
               PROVE  AddUp(AnswerTo("total"), AnswerTo("payers"), AnswerTo("groups"))
    BY Zenon DEF RevenueAgrees, AddUp
  <1>1. PICK grouping, q :
            \/ report = Revenue(grouping, q, <<>>)
            \/ \E total : /\ report = Revenue(grouping, q, <<total>>)
                          /\ TotalOf(q, total)
            \/ \E total, payers : /\ report = Revenue(grouping, q, <<total, payers>>)
                                  /\ TotalOf(q, total) /\ PayersOf(q, payers)
            \/ \E total, payers, groups : /\ report = Revenue(grouping, q, <<total, payers, groups>>)
                                          /\ AddUp(total, payers, groups)
    BY Zenon DEF RevenueInv
  <1>2. \A answers : report = Revenue(grouping, q, answers) => report.answers = answers /\ Len(answers) = 3
    BY Answers DEF Revenue
  <1>3. PICK total, payers, groups : /\ report = Revenue(grouping, q, <<total, payers, groups>>)
                                     /\ AddUp(total, payers, groups)
    <2>1. ASSUME NEW a, NEW b PROVE Len(<<>>) # 3 /\ Len(<<a>>) # 3 /\ Len(<<a, b>>) # 3
      OBVIOUS
    <2> QED BY <1>1, <1>2, <2>1, Zenon
  <1>4. AnswerTo("total") = total /\ AnswerTo("payers") = payers /\ AnswerTo("groups") = groups
    <2>1. report.answers = <<total, payers, groups>>
      BY <1>2, <1>3
    <2> QED BY <2>1, Answers
  <1> QED BY <1>3, <1>4

\* What the statistics count is what the query selects.
LEMMA StatsRight ==
    ASSUME ReportsAssumption, ZonesAssumption, BaseInv
    PROVE  StatsAgree
  <1> SUFFICES ASSUME NEW q \in StatsQueries, NEW plan \in {"FREE", "PRO"}, NEW grouping \in Groupings, Clear(q)
               PROVE  LET counted == Sum(StatsReport(plan, grouping, q).data, "count")
                          asked == {i \in DOMAIN rows : Wanted(q, rows[i])}
                          late == {i \in DOMAIN rows : Late(q, rows[i].on)}
                      IN  Cardinality(asked) <= counted /\ counted <= Cardinality(asked \cup late)
    BY Zenon DEF StatsAgree
  <1> DEFINE N == DOMAIN rows
             asked == {i \in N : Wanted(q, rows[i])}
             late == {i \in N : Late(q, rows[i].on)}
             S == Selected(q)
  <1>1. /\ q.from \in MaybeDates /\ q.to \in MaybeDates
        /\ Sum(StatsReport(plan, grouping, q).data, "count") = Cardinality(S)
    <2>1. q.from \in MaybeDates /\ q.to \in MaybeDates
      BY DEF StatsQueries, Query, MaybeDates
    <2>2. StatsReport(plan, grouping, q).data = Grouped(S, grouping)
      BY DEF StatsReport
    <2>3. S \in SUBSET N
      BY DEF Selected
    <2> QED BY <2>1, <2>2, <2>3, GroupsAddUp
  <1>2. IsFiniteSet(N) /\ \A i \in N : rows[i] \in Row
    BY RowFacts
  <1>3. \A i \in N : /\ Wanted(q, rows[i]) => Matches(q, rows[i])
                     /\ Matches(q, rows[i]) => Wanted(q, rows[i]) \/ Late(q, rows[i].on)
    BY <1>1, <1>2, QueryDates
  <1>4. asked \subseteq S /\ S \subseteq asked \cup late /\ asked \cup late \subseteq N
    BY <1>3 DEF Selected
  <1> HIDE DEF asked, late, S, N
  <1>5. IsFiniteSet(asked \cup late) /\ IsFiniteSet(S)
    <2>1. IsFiniteSet(asked \cup late)
      BY <1>2, <1>4, FS_Subset
    <2> QED BY <1>4, <2>1, FS_Subset
  <1>6. Cardinality(asked) <= Cardinality(S) /\ Cardinality(S) <= Cardinality(asked \cup late)
    BY <1>4, <1>5, FS_Subset
  <1> QED BY <1>1, <1>6 DEF asked, late, N

\* getRevenueAnalytics: for any rows, grouping and range, and however many payments
\* are made between its statements, the periods add up to no less than the summary
\* and name every organization that pays; getBookingStats: the periods count each
\* booking on the dates asked for once, and but for the first second after no other.
THEOREM NumbersCorrect ==
    ASSUME ReportsAssumption, ZonesAssumption
    PROVE  Spec => []NumbersAgree
  <1>1. Init => RevenueInv
    BY DEF Init, NoReport, RevenueInv
  <1>2. BaseInv /\ RevenueInv /\ [Next]_vars => RevenueInv'
    <2> SUFFICES ASSUME BaseInv, RevenueInv, [Next]_vars, report'.op = "revenue" PROVE RevenueInv'
      BY DEF RevenueInv
    <2> QED BY OneReport, RevenueKept, RevenueSteps
  <1>3. BaseInv /\ RevenueInv => NumbersAgree
    BY RevenueRight, StatsRight DEF NumbersAgree
  <1> QED BY <1>1, <1>2, <1>3, BaseCorrect, PTL DEF Spec

-----------------------------------------------------------------------------
(* The dates of a report.                                                   *)

LEMMA KeysAreIntegers ==
    ASSUME CalendarAssumption, NEW z, IsZone(z), NEW t \in Int
    PROVE  getDateKey(z, t) \in Int /\ Offset(z, t) \in {z.before, z.after} /\ Offset(z, t) \in Int
  <1>1. Day \in Nat \ {0}
    BY DEF CalendarAssumption
  <1>2. Offset(z, t) \in {z.before, z.after} /\ Offset(z, t) \in Int
    BY DEF IsZone, Offset
  <1>3. Shown(z, t) \in Int
    BY <1>2 DEF Shown
  <1> QED BY <1>1, <1>2, <1>3 DEF getDateKey

LEMMA ReadersZone ==
    ASSUME ZonesAssumption, BaseInv
    PROVE  CalendarAssumption /\ \A z \in {zone, Server} : IsZone(z)
  <1>1. CalendarAssumption /\ IsZone(zone)
    BY DEF ZonesAssumption, BaseInv, IsZone
  <1>2. IsZone(Server)
    <2>1. 0 % Second = 0
      BY <1>1 DEF CalendarAssumption
    <2> QED BY <2>1 DEF IsZone, Server
  <1> QED BY <1>1, <1>2

Monthly(users, z, month, spent, read) ==
    [op |-> "month", users |-> users, in |-> z, month |-> month, spent |-> spent, read |-> read,
     start |-> getStartOfDayUtc(z, month * Month)]
SpentSince(n, users, start) ==
    {i \in 1 .. n : rows[i].kind = "SPEND" /\ rows[i].user \in users /\ rows[i].on >= start}

MonthInv ==
    report.op = "month" =>
        \E users, z, month, spent, read :
            /\ z \in {zone, Server} /\ month \in Int
            /\ report = Monthly(users, z, month, spent, read)
            /\ spent # NoDate =>
                 /\ read \in Nat /\ read <= Len(rows)
                 /\ spent = Amount(SpentSince(read, users, getStartOfDayUtc(z, month * Month)))

LEMMA MonthSteps ==
    ASSUME ReportsAssumption, ZonesAssumption, BaseInv, MonthInv, MonthStart \/ MonthRead
    PROVE  MonthInv'
  <1>1. UNCHANGED <<zone, rows>>
    BY DEF MonthStart, MonthRead
  <1> SUFFICES \E users, z, month, spent, read :
                   /\ z \in {zone, Server} /\ month \in Int
                   /\ report' = Monthly(users, z, month, spent, read)
                   /\ spent # NoDate =>
                        /\ read \in Nat /\ read <= Len(rows)
                        /\ spent = Amount(SpentSince(read, users, getStartOfDayUtc(z, month * Month)))
    <2>1. \A users, z, month, spent, read :
             /\ Monthly(users, z, month, spent, read)' = Monthly(users, z, month, spent, read)
             /\ Amount(SpentSince(read, users, getStartOfDayUtc(z, month * Month)))'
                  = Amount(SpentSince(read, users, getStartOfDayUtc(z, month * Month)))
      BY <1>1 DEF Monthly, SpentSince, Amount
    <2> QED BY <1>1, <2>1 DEF MonthInv, Server
  <1>2. CASE MonthStart
    <2>1. PICK users : \E z \in {zone, Server} : report' = MonthReport(users, z)
      BY <1>2, Zenon DEF MonthStart
    <2>2. PICK z \in {zone, Server} : report' = MonthReport(users, z)
      BY <2>1
    <2> DEFINE month == getMonthKey(getDateKey(z, now))
    <2>3. month \in Int
      <3>1. now \in Int /\ CalendarAssumption /\ IsZone(z)
        BY ReadersZone DEF BaseInv
      <3>2. getDateKey(z, now) \in Int
        BY <3>1, KeysAreIntegers
      <3>3. Month \in Nat \ {0}
        BY <3>1 DEF CalendarAssumption
      <3> QED BY <3>2, <3>3 DEF getMonthKey
    <2>4. report' = Monthly(users, z, month, NoDate, 0)
      BY <2>2 DEF MonthReport, Monthly
    <2> QED BY <2>3, <2>4
  <1>3. CASE MonthRead
    <2>1. PICK users, z, month, spent, read :
             z \in {zone, Server} /\ month \in Int /\ report = Monthly(users, z, month, spent, read)
      BY <1>3 DEF MonthRead, MonthInv
    <2> DEFINE start == getStartOfDayUtc(z, month * Month)
    <2>2. report.users = users /\ report.start = start
      BY <2>1 DEF Monthly
    <2>3. /\ report' = [report EXCEPT !.read = Len(rows), !.spent = Amount(SpentSince(Len(rows), users, start))]
          /\ Len(rows) \in Nat
      <3>1. DOMAIN rows = 1 .. Len(rows) /\ Len(rows) \in Nat
        BY RowFacts
      <3> HIDE DEF start
      <3> QED BY <1>3, <2>2, <3>1 DEF MonthRead, SpentSince
    <2>4. report' = Monthly(users, z, month, Amount(SpentSince(Len(rows), users, start)), Len(rows))
      <3> HIDE DEF start
      <3>1. report = [op |-> "month", users |-> users, in |-> z, month |-> month, spent |-> spent,
                      read |-> read, start |-> start]
        BY <2>1 DEF Monthly, start
      <3>2. report' = [op |-> "month", users |-> users, in |-> z, month |-> month,
                       spent |-> Amount(SpentSince(Len(rows), users, start)),
                       read |-> Len(rows), start |-> start]
        BY <2>3, <3>1
      <3> QED BY <3>2 DEF Monthly, start
    <2>5. Len(rows) <= Len(rows)
      BY <2>3
    <2> DEFINE total == Amount(SpentSince(Len(rows), users, start))
    <2>6. /\ z \in {zone, Server} /\ month \in Int
          /\ report' = Monthly(users, z, month, total, Len(rows))
          /\ Len(rows) \in Nat /\ Len(rows) <= Len(rows)
          /\ total = Amount(SpentSince(Len(rows), users, getStartOfDayUtc(z, month * Month)))
      BY <2>1, <2>3, <2>4, <2>5
    <2> HIDE DEF total, start
    <2> QED BY <2>6, Zenon
  <1> QED BY <1>2, <1>3

\* The rows that were read keep their fields.
LEMMA RowsRead ==
    ASSUME ReportsAssumption, BaseInv, table = "CreditTransaction", [Next]_vars, NEW n \in Nat, n <= Len(rows)
    PROVE  /\ n <= Len(rows') /\ 1 .. n \subseteq DOMAIN rows
           /\ \A i \in 1 .. n : rows'[i] = rows[i]
  <1>1. /\ Len(rows) <= Len(rows') /\ rows' \in Seq(Row)
        /\ \A i \in DOMAIN rows : rows'[i] = rows[i]
    BY RowsOnlyAdded
  <1>2. DOMAIN rows = 1 .. Len(rows) /\ Len(rows) \in Nat /\ Len(rows') \in Nat
    BY <1>1, RowFacts
  <1> QED BY <1>1, <1>2

LEMMA MonthKept ==
    ASSUME ReportsAssumption, BaseInv, MonthInv, [Next]_vars, UNCHANGED report
    PROVE  MonthInv'
  <1> SUFFICES ASSUME report.op = "month" PROVE MonthInv'
    BY DEF MonthInv
  <1>0. table = "CreditTransaction"
    BY DEF BaseInv
  <1>1. PICK users, z, month, spent, read :
            /\ z \in {zone, Server} /\ month \in Int
            /\ report = Monthly(users, z, month, spent, read)
            /\ spent # NoDate =>
                 /\ read \in Nat /\ read <= Len(rows)
                 /\ spent = Amount(SpentSince(read, users, getStartOfDayUtc(z, month * Month)))
    BY DEF MonthInv
  <1> DEFINE start == getStartOfDayUtc(z, month * Month)
  <1>2. ASSUME spent # NoDate
        PROVE  read \in Nat /\ read <= Len(rows') /\ Amount(SpentSince(read, users, start))' = spent
    <2>1. /\ read \in Nat /\ read <= Len(rows') /\ 1 .. read \subseteq DOMAIN rows
          /\ \A i \in 1 .. read : rows'[i] = rows[i]
      BY <1>1, <1>2, <1>0, RowsRead
    <2> HIDE DEF start
    <2>2. SpentSince(read, users, start)' = SpentSince(read, users, start) /\ SpentSince(read, users, start) \subseteq DOMAIN rows
      BY <2>1 DEF SpentSince, start
    <2>3. Amount(SpentSince(read, users, start))' = Amount(SpentSince(read, users, start))
      BY <2>2, <1>0, AmountKept DEF Amount
    <2> QED BY <1>1, <1>2, <2>1, <2>3 DEF start
  <1>3. zone' = zone /\ report' = Monthly(users, z, month, spent, read)'
    BY <1>1, <1>0, RowsOnlyAdded DEF Monthly
  <1> QED BY <1>1, <1>2, <1>3 DEF MonthInv, Server

LEMMA MonthRight ==
    ASSUME ReportsAssumption, ZonesAssumption, BaseInv, MonthInv
    PROVE  MonthFollowsDates
  <1> SUFFICES ASSUME report.op = "month", report.spent # NoDate,
                      ClearOfMidnight(report.in, report.month * Month)
               PROVE  report.spent = Amount({i \in 1 .. report.read :
                        /\ rows[i].kind = "SPEND" /\ rows[i].user \in report.users
                        /\ getMonthKey(getDateKey(report.in, rows[i].on)) >= report.month})
    BY DEF MonthFollowsDates
  <1>1. PICK users, z, month, spent, read :
            /\ z \in {zone, Server} /\ month \in Int
            /\ report = Monthly(users, z, month, spent, read)
            /\ spent # NoDate =>
                 /\ read \in Nat /\ read <= Len(rows)
                 /\ spent = Amount(SpentSince(read, users, getStartOfDayUtc(z, month * Month)))
    BY DEF MonthInv
  <1>2. /\ report.users = users /\ report.in = z /\ report.month = month /\ report.spent = spent
        /\ report.read = read
    BY <1>1 DEF Monthly
  <1>3. /\ read \in Nat /\ read <= Len(rows) /\ ClearOfMidnight(z, month * Month)
        /\ spent = Amount(SpentSince(read, users, getStartOfDayUtc(z, month * Month)))
    BY <1>1, <1>2
  <1>4. CalendarAssumption /\ IsZone(z) /\ Month \in Nat \ {0} /\ month \in Int
    BY <1>1, ReadersZone DEF CalendarAssumption
  <1>5. ASSUME NEW i \in 1 .. read
        PROVE  rows[i].on >= getStartOfDayUtc(z, month * Month)
                 <=> getMonthKey(getDateKey(z, rows[i].on)) >= month
    <2> DEFINE first == month * Month
               key == getDateKey(z, rows[i].on)
    <2>1. rows[i].on \in Int
      BY <1>3, RowFacts
    <2>2. first \in Int /\ key \in Int
      BY <1>4, <2>1, KeysAreIntegers
    <2>3. getStartOfDayUtc(z, first) <= rows[i].on <=> first <= key
      <3>1. ClearOfMidnight(z, first)
        BY <1>3
      <3> HIDE DEF first
      <3> QED BY <1>4, <2>1, <2>2, <3>1, DatesShown
    <2>4. first <= key <=> month <= key \div Month
      <3> HIDE DEF key
      <3> QED BY <1>4, <2>2, KeyOf
    <2>5. getStartOfDayUtc(z, first) \in Int /\ key \div Month \in Int
      <3>1. Offset(z, first * Day) \in Int /\ first * Day \in Int
        <4>1. Day \in Int
          BY <1>4 DEF CalendarAssumption
        <4>2. first * Day \in Int
          BY <2>2, <4>1
        <4> QED BY <1>4, <4>2, KeysAreIntegers
      <3>2. getStartOfDayUtc(z, first) = first * Day - Offset(z, first * Day)
        BY <1>4, <2>2, EndsOfDay
      <3> HIDE DEF first, key
      <3> QED BY <1>4, <2>2, <3>1, <3>2
    <2> HIDE DEF first, key
    <2>6. rows[i].on >= getStartOfDayUtc(z, first) <=> key \div Month >= month
      BY <2>1, <2>3, <2>4, <2>5
    <2> QED BY <2>6 DEF first, key, getMonthKey
  <1>6. SpentSince(read, users, getStartOfDayUtc(z, month * Month))
          = {i \in 1 .. read : /\ rows[i].kind = "SPEND" /\ rows[i].user \in users
                               /\ getMonthKey(getDateKey(z, rows[i].on)) >= month}
    BY <1>5 DEF SpentSince
  <1> QED BY <1>2, <1>3, <1>6

Overview(since, topUps, sales, read, left, trend, today) ==
    [op |-> "overview", since |-> since, topUps |-> topUps, sales |-> sales, read |-> read,
     left |-> left, trend |-> trend, today |-> today]
TopUpsOf(n, since) == {i \in 1 .. n : rows[i].kind = "TOP_UP" /\ rows[i].on >= since}

\* The trend is of the days before some moment t, which is not before the overview
\* began and has passed.
TrendAt(since, topUps, trend, today, t) ==
    /\ t \in Int /\ since <= t - TrendDays * Day /\ t <= now
    /\ today = getDateKey(zone, t) /\ trend = buildRevenueTrend(topUps, t)

OverviewInv ==
    report.op = "overview" =>
        \E since, topUps, sales, read, left, trend, today :
            /\ report = Overview(since, topUps, sales, read, left, trend, today)
            /\ since \in Int /\ since <= now - TrendDays * Day
            /\ "topUpRows" \notin left =>
                 read \in Nat /\ read <= Len(rows) /\ topUps = TopUpsOf(read, since)
            /\ today # NoDate => "topUpRows" \notin left /\ \E t : TrendAt(since, topUps, trend, today, t)

LEMMA DaysOfTrend == ASSUME ReportsAssumption, ZonesAssumption PROVE TrendDays * Day \in Nat
  <1>1. TrendDays \in Nat /\ Day \in Nat
    BY DEF ReportsAssumption, ZonesAssumption, CalendarAssumption
  <1> QED BY <1>1

LEMMA OverviewSteps ==
    ASSUME ReportsAssumption, ZonesAssumption, BaseInv, OverviewInv,
           OverviewStart \/ OverviewQuery \/ OverviewTrend
    PROVE  OverviewInv'
  <1>1. UNCHANGED <<zone, rows, now>>
    BY DEF OverviewStart, OverviewQuery, OverviewTrend
  <1>2. now \in Int /\ TrendDays * Day \in Int /\ Len(rows) \in Nat /\ DOMAIN rows = 1 .. Len(rows)
    BY DaysOfTrend, RowFacts DEF BaseInv
  <1> DEFINE Right(since, topUps, read, left, trend, today) ==
               /\ since \in Int /\ since <= now - TrendDays * Day
               /\ "topUpRows" \notin left =>
                    read \in Nat /\ read <= Len(rows) /\ topUps = TopUpsOf(read, since)
               /\ today # NoDate => "topUpRows" \notin left /\ \E t : TrendAt(since, topUps, trend, today, t)
  <1> SUFFICES \E since, topUps, sales, read, left, trend, today :
                   /\ report' = Overview(since, topUps, sales, read, left, trend, today)
                   /\ Right(since, topUps, read, left, trend, today)
    <2>1. /\ \A since, topUps, sales, read, left, trend, today :
                Overview(since, topUps, sales, read, left, trend, today)'
                  = Overview(since, topUps, sales, read, left, trend, today)
          /\ \A n, since : TopUpsOf(n, since)' = TopUpsOf(n, since)
          /\ \A since, topUps, trend, today, t :
                TrendAt(since, topUps, trend, today, t) => TrendAt(since, topUps, trend, today, t)'
      BY <1>1 DEF Overview, TopUpsOf, TrendAt, buildRevenueTrend, Amount
    <2> QED BY <1>1, <2>1 DEF OverviewInv
  <1>3. CASE OverviewStart
    <2> DEFINE left == {"monthlyCreditRevenueAgg", "topUpRows"}
    <2>1. report' = Overview(now - TrendDays * Day, {}, 0, 0, left, <<>>, NoDate)
      BY <1>3 DEF OverviewStart, Overview, TrendSince
    <2>2. Right(now - TrendDays * Day, {}, 0, left, <<>>, NoDate)
      BY <1>2
    <2> HIDE DEF Right
    <2> QED BY <2>1, <2>2
  <1> SUFFICES ASSUME OverviewQuery \/ OverviewTrend
               PROVE \E since, topUps, sales, read, left, trend, today :
                   /\ report' = Overview(since, topUps, sales, read, left, trend, today)
                   /\ Right(since, topUps, read, left, trend, today)
    BY <1>3
  <1>4. PICK since, topUps, sales, read, left, trend, today :
            /\ report = Overview(since, topUps, sales, read, left, trend, today)
            /\ Right(since, topUps, read, left, trend, today)
    BY DEF OverviewQuery, OverviewTrend, OverviewInv
  <1>5. /\ report.since = since /\ report.topUps = topUps /\ report.left = left /\ report.today = today
    BY <1>4 DEF Overview
  <1>6. CASE OverviewTrend
    <2> DEFINE points == buildRevenueTrend(topUps, now)
               date == getDateKey(zone, now)
    <2>1. report' = [report EXCEPT !.trend = points, !.today = date] /\ left = {}
      BY <1>5, <1>6 DEF OverviewTrend
    <2> HIDE DEF points, date
    <2>2. report' = Overview(since, topUps, sales, read, left, points, date)
      BY <1>4, <2>1 DEF Overview
    <2>3. now <= now /\ since <= now - TrendDays * Day
      BY <1>2, <1>4
    <2>4. TrendAt(since, topUps, points, date, now)
      BY <1>2, <2>3 DEF TrendAt, points, date
    <2>5. Right(since, topUps, read, left, points, date)
      BY <1>4, <2>1, <2>4
    <2> HIDE DEF Right
    <2> QED BY <2>2, <2>5
  <1>7. CASE OverviewQuery
    <2>1. PICK q \in left :
             report' = [IF q = "topUpRows"
                        THEN [report EXCEPT !.topUps = TopUpsSince(report.since), !.read = Len(rows)]
                        ELSE [report EXCEPT !.sales = Amount(TopUpsSince(report.since))]
                        EXCEPT !.left = @ \ {q}]
      BY <1>5, <1>7 DEF OverviewQuery
    <2>2. TopUpsSince(since) = TopUpsOf(Len(rows), since)
      BY <1>2 DEF TopUpsSince, TopUpsOf
    <2>3. CASE q = "topUpRows"
      <3> DEFINE found == TopUpsOf(Len(rows), since)
      <3>1. report' = [[report EXCEPT !.topUps = found, !.read = Len(rows)] EXCEPT !.left = @ \ {q}]
        BY <1>5, <2>1, <2>2, <2>3
      <3> HIDE DEF found
      <3>2. report' = Overview(since, found, sales, Len(rows), left \ {q}, trend, today)
        BY <1>4, <3>1 DEF Overview
      <3>3. ~(today # NoDate)
        BY <1>4, <2>3
      <3>4. Right(since, found, Len(rows), left \ {q}, trend, today)
        BY <1>2, <1>4, <3>3 DEF found
      <3> HIDE DEF Right
      <3> QED BY <3>2, <3>4
    <2>4. CASE q # "topUpRows"
      <3> DEFINE amount == Amount(TopUpsSince(since))
      <3>1. report' = [[report EXCEPT !.sales = amount] EXCEPT !.left = @ \ {q}]
        BY <1>5, <2>1, <2>4
      <3> HIDE DEF amount
      <3>2. report' = Overview(since, topUps, amount, read, left \ {q}, trend, today)
        BY <1>4, <3>1 DEF Overview
      <3>3. "topUpRows" \notin left \ {q} <=> "topUpRows" \notin left
        BY <2>4
      <3>4. Right(since, topUps, read, left \ {q}, trend, today)
        BY <1>4, <3>3
      <3> HIDE DEF Right
      <3> QED BY <3>2, <3>4
    <2> QED BY <2>3, <2>4
  <1> QED BY <1>6, <1>7

LEMMA OverviewKept ==
    ASSUME ReportsAssumption, ZonesAssumption, BaseInv, OverviewInv, [Next]_vars, UNCHANGED report
    PROVE  OverviewInv'
  <1> SUFFICES ASSUME report.op = "overview" PROVE OverviewInv'
    BY DEF OverviewInv
  <1>0. table = "CreditTransaction"
    BY DEF BaseInv
  <1>1. PICK since, topUps, sales, read, left, trend, today :
            /\ report = Overview(since, topUps, sales, read, left, trend, today)
            /\ since \in Int /\ since <= now - TrendDays * Day
            /\ "topUpRows" \notin left =>
                 read \in Nat /\ read <= Len(rows) /\ topUps = TopUpsOf(read, since)
            /\ today # NoDate => "topUpRows" \notin left /\ \E t : TrendAt(since, topUps, trend, today, t)
    BY DEF OverviewInv
  <1>2. now \in Int /\ now' \in Int /\ now <= now' /\ TrendDays * Day \in Int /\ zone' = zone
    <2>1. now \in Int /\ now' \in Int /\ TrendDays * Day \in Int /\ zone' = zone
      BY <1>0, RowsOnlyAdded, DaysOfTrend DEF BaseInv
    <2>2. now' = now \/ now' = now + 1
      BY DEF Next, vars, AddRow, Tick, WalkStart, WalkRows, WalkCount, RevenueStart, RevenueStatement,
         getBookingStats, OverviewStart, OverviewQuery, OverviewTrend, MonthStart, MonthRead,
         updateBookingStatus, rescheduleBooking, cleanUpOldData, Rewrite
    <2> QED BY <2>1, <2>2
  <1>3. ASSUME "topUpRows" \notin left
        PROVE  /\ read \in Nat /\ read <= Len(rows') /\ topUps = TopUpsOf(read, since)'
               /\ topUps \subseteq DOMAIN rows /\ \A i \in topUps : rows'[i] = rows[i]
    <2>1. /\ read \in Nat /\ read <= Len(rows') /\ 1 .. read \subseteq DOMAIN rows
          /\ \A i \in 1 .. read : rows'[i] = rows[i]
      BY <1>1, <1>3, <1>0, RowsRead
    <2>2. topUps = TopUpsOf(read, since)
      BY <1>1, <1>3
    <2>3. TopUpsOf(read, since)' = TopUpsOf(read, since) /\ TopUpsOf(read, since) \subseteq 1 .. read
      BY <2>1 DEF TopUpsOf
    <2> QED BY <2>1, <2>2, <2>3
  <1>4. ASSUME NEW t, "topUpRows" \notin left, TrendAt(since, topUps, trend, today, t)
        PROVE  TrendAt(since, topUps, trend, today, t)'
    <2>1. \A d : Amount({i \in topUps : getDateKey(zone, rows[i].on) = d})'
                   = Amount({i \in topUps : getDateKey(zone, rows[i].on) = d})
      <3> TAKE d
      <3> DEFINE S == {i \in topUps : getDateKey(zone, rows[i].on) = d}
      <3>1. S' = S /\ S \subseteq DOMAIN rows
        BY <1>2, <1>3, <1>4 DEF getDateKey, Shown, Offset
      <3> HIDE DEF S
      <3>2. Amount(S)' = Amount(S)
        BY <3>1, <1>0, AmountKept DEF Amount
      <3> QED BY <3>2 DEF S
    <2>2. buildRevenueTrend(topUps, t)' = buildRevenueTrend(topUps, t)
      BY <1>2, <2>1 DEF buildRevenueTrend
    <2>3. t <= now'
      BY <1>2, <1>4 DEF TrendAt
    <2>4. getDateKey(zone, t)' = getDateKey(zone, t)
      BY <1>2
    <2> QED BY <1>2, <1>4, <2>2, <2>3, <2>4 DEF TrendAt
  <1>5. since <= now' - TrendDays * Day
    BY <1>1, <1>2
  <1>6. report' = Overview(since, topUps, sales, read, left, trend, today)'
    BY <1>1 DEF Overview
  <1>7. /\ "topUpRows" \notin left => read \in Nat /\ read <= Len(rows)' /\ topUps = TopUpsOf(read, since)'
        /\ today # NoDate => "topUpRows" \notin left /\ \E t : TrendAt(since, topUps, trend, today, t)'
    BY <1>1, <1>3, <1>4
  <1> QED BY <1>1, <1>5, <1>6, <1>7, Zenon DEF OverviewInv

\* The instants some times 24 hours before the start of a date have the dates before
\* it, unless the clocks change in between; and no earlier instant shows the first of
\* them or a later one.
LEMMA LastDates ==
    ASSUME CalendarAssumption, NEW z, IsZone(z), NEW t \in Int, NEW n \in Nat \ {0},
           NEW since \in Int, since <= t - n * Day, z.change \notin since .. t,
           NEW date \in Int, date = getDateKey(z, t),
           ClearOfMidnight(z, date), ClearOfMidnight(z, date - n + 1)
    PROVE  /\ {getDateKey(z, getStartOfDayUtc(z, date) - k * Day) : k \in 0 .. n - 1} = date - n + 1 .. date
           /\ \A on \in Int : date - n + 1 <= getDateKey(z, on) => since <= on
  <1>1. Day \in Nat \ {0} /\ z.change \in Int
    BY DEF CalendarAssumption, IsZone
  <1> DEFINE o == Offset(z, t)
             m == date * Day - o
             first == date - n + 1
  <1>2. o \in Int /\ o \in {z.before, z.after} /\ m \in Int /\ date * Day \in Int /\ first \in Int
    <2>1. o \in Int /\ o \in {z.before, z.after}
      BY KeysAreIntegers
    <2> HIDE DEF o
    <2> QED BY <1>1, <2>1
  <1>3. \A x \in Int : since <= x /\ x <= t => Offset(z, x) = o
    BY <1>1 DEF Offset
  <1>4. date * Day <= t + o /\ t + o <= date * Day + Day - 1
    <2>1. t + o \in Int /\ date = (t + o) \div Day
      BY <1>2 DEF getDateKey, Shown
    <2> HIDE DEF o
    <2>2. date <= (t + o) \div Day /\ (t + o) \div Day <= date
      BY <2>1
    <2> QED BY <1>1, <2>1, <2>2, KeyOf
  <1>5. \A k \in 0 .. n - 1 : /\ k * Day \in Int /\ since <= m - k * Day /\ m - k * Day <= t
                              /\ (date - k) * Day = date * Day - k * Day
    <2> TAKE k \in 0 .. n - 1
    <2>1. 0 <= k * Day /\ k * Day \in Int /\ n * Day \in Int
      BY <1>1
    <2>2. k * Day + Day <= n * Day
      <3>1. (k + 1) * Day <= n * Day
        BY <1>1
      <3> QED BY <1>1, <3>1
    <2>3. (date - k) * Day = date * Day - k * Day
      BY <1>1
    <2> HIDE DEF o
    <2> QED BY <1>1, <1>2, <1>4, <2>1, <2>2, <2>3
  <1>6. \A d \in Int : ClearOfMidnight(z, d) => Offset(z, d * Day) = Offset(z, d * Day - o)
    BY <1>2, Zenon DEF ClearOfMidnight
  <1>7. getStartOfDayUtc(z, date) = m
    <2>1. 0 \in 0 .. n - 1 /\ m - 0 * Day = m
      BY <1>1, <1>2
    <2>2. since <= m /\ m <= t
      BY <1>5, <2>1
    <2>3. Offset(z, date * Day) = o
      BY <1>2, <1>3, <1>6, <2>2
    <2> QED BY <2>3, EndsOfDay
  <1>8. first * Day = date * Day - (n - 1) * Day /\ since <= m - (n - 1) * Day
        /\ m - (n - 1) * Day <= t /\ (n - 1) * Day \in Int
    <2>1. n - 1 \in 0 .. n - 1 /\ date - (n - 1) = first
      OBVIOUS
    <2> HIDE DEF m, first
    <2> QED BY <1>5, <2>1
  <1>9. getStartOfDayUtc(z, first) = m - (n - 1) * Day
    <2>1. m - (n - 1) * Day = first * Day - o
      BY <1>2, <1>8
    <2>2. Offset(z, first * Day) = o
      <3>1. Offset(z, first * Day) = Offset(z, first * Day - o)
        BY <1>2, <1>6
      <3>2. first * Day - o \in Int /\ since <= first * Day - o /\ first * Day - o <= t
        BY <1>2, <1>8, <2>1
      <3>3. Offset(z, first * Day - o) = o
        BY <1>3, <3>2
      <3> QED BY <3>1, <3>3
    <2>3. getStartOfDayUtc(z, first) = first * Day - Offset(z, first * Day)
      BY <1>2, EndsOfDay
    <2> QED BY <2>1, <2>2, <2>3
  <1>10. \A on \in Int : first <= getDateKey(z, on) => since <= on
    <2> TAKE on \in Int
    <2>1. getStartOfDayUtc(z, first) <= on <=> first <= getDateKey(z, on)
      BY <1>2, DatesShown
    <2> QED BY <1>2, <1>8, <1>9, <2>1
  <1>11. \A k \in 0 .. n - 1 : getDateKey(z, m - k * Day) = date - k
    <2> TAKE k \in 0 .. n - 1
    <2>1. m - k * Day \in Int /\ Offset(z, m - k * Day) = o
      <3>1. m - k * Day \in Int
        BY <1>2, <1>5
      <3> QED BY <1>3, <1>5, <3>1
    <2>2. Shown(z, m - k * Day) = (date - k) * Day
      <3>1. Shown(z, m - k * Day) = m - k * Day + o
        BY <2>1 DEF Shown
      <3> QED BY <1>2, <1>5, <3>1
    <2>3. \A d \in Int : (d * Day) \div Day = d
      <3> TAKE d \in Int
      <3>1. d * Day <= d * Day /\ d * Day <= d * Day + Day - 1 /\ d * Day \in Int
        BY <1>1
      <3>2. (d * Day) \div Day \in Int
        BY <1>1, <3>1
      <3>3. d <= (d * Day) \div Day /\ (d * Day) \div Day <= d
        BY <1>1, <3>1, KeyOf
      <3> QED BY <3>2, <3>3
    <2> QED BY <2>2, <2>3 DEF getDateKey
  <1>12. {getDateKey(z, m - k * Day) : k \in 0 .. n - 1} = date - n + 1 .. date
    <2>1. \A d \in date - n + 1 .. date : date - d \in 0 .. n - 1 /\ date - (date - d) = d
      OBVIOUS
    <2>2. \A k \in 0 .. n - 1 : date - k \in date - n + 1 .. date
      OBVIOUS
    <2> HIDE DEF m
    <2>3. {getDateKey(z, m - k * Day) : k \in 0 .. n - 1} = {date - k : k \in 0 .. n - 1}
      BY <1>11
    <2>4. {date - k : k \in 0 .. n - 1} = date - n + 1 .. date
      BY <2>1, <2>2
    <2> QED BY <2>3, <2>4
  <1> QED BY <1>7, <1>10, <1>12

\* Rows of S on a date, and in a week of days.
OnDate(S, d) == {i \in S : getDateKey(zone, rows[i].on) = d}
InWeek(S, days, w) ==
    {i \in S : /\ getDateKey(zone, rows[i].on) \in days
               /\ getWeekKey(getDateKey(zone, rows[i].on)) = w}

\* The weeks of a trend are sums of its days, so sums over the rows of those days.
LEMMA WeeksOfTrend ==
    ASSUME ZonesAssumption, BaseInv, NEW S \in SUBSET DOMAIN rows, NEW days, IsFiniteSet(days),
           NEW trend, DOMAIN trend = days,
           \A d \in days : trend[d] = Amount(OnDate(S, d)),
           NEW w
    PROVE  SumFunctionOnSet(trend, {d \in DOMAIN trend : getWeekKey(d) = w})
             = Amount(InWeek(S, days, w))
  <1> DEFINE paid == [i \in DOMAIN rows |-> rows[i].amount]
             key == [i \in DOMAIN rows |-> getDateKey(zone, rows[i].on)]
             K == {d \in days : getWeekKey(d) = w}
             part == [d \in K |-> {i \in S : key[i] = d}]
             T == {i \in S : key[i] \in days /\ getWeekKey(key[i]) = w}
  <1>1. T \subseteq DOMAIN rows /\ IsFiniteSet(T) /\ \A i \in T : paid[i] \in Int /\ key[i] \in K
    <2>1. T \subseteq DOMAIN rows
      OBVIOUS
    <2>2. IsFiniteSet(T)
      BY <2>1, RowFacts
    <2>3. \A i \in T : key[i] \in K
      <3> HIDE DEF key
      <3> QED OBVIOUS
    <2>4. \A i \in DOMAIN rows : paid[i] \in Int
      BY RowFacts
    <2> QED BY <2>1, <2>2, <2>3, <2>4
  <1>2. IsFiniteSet(K)
    BY FS_Subset
  <1>3. \A d \in K : part[d] \subseteq T /\ \A i \in T : i \in part[d] <=> key[i] = d
    <2> HIDE DEF key
    <2> QED OBVIOUS
  <1>4. \A d \in K : trend[d] = SumFunctionOnSet(paid, part[d])
    <2> TAKE d \in K
    <2>1. part[d] = OnDate(S, d)
      BY DEF OnDate
    <2>2. trend[d] = Amount(OnDate(S, d))
      OBVIOUS
    <2> QED BY <2>1, <2>2 DEF Amount
  <1>5. K = {d \in DOMAIN trend : getWeekKey(d) = w}
    OBVIOUS
  <1>6. T = InWeek(S, days, w)
    BY DEF InWeek
  <1>7. Amount(T) = SumFunctionOnSet(paid, T)
    BY DEF Amount
  <1> HIDE DEF paid, key, K, part, T
  <1>8. SumFunctionOnSet(trend, K) = SumFunctionOnSet(paid, T)
    <2>1. (\A i \in T : paid[i] \in Int) /\ (\A i \in T : key[i] \in K) /\ IsFiniteSet(T)
      BY <1>1
    <2> QED BY <1>2, <1>3, <1>4, <2>1, SumByKey
  <1> QED BY <1>5, <1>6, <1>7, <1>8

LEMMA TrendRight ==
    ASSUME ReportsAssumption, ZonesAssumption, BaseInv, OverviewInv
    PROVE  TrendFollowsDates
  <1> DEFINE key(i) == getDateKey(zone, rows[i].on)
             paid(i) == rows[i].kind = "TOP_UP"
  <1> SUFFICES ASSUME report.op = "overview", report.today # NoDate, zone.change \notin report.since .. now,
                      \A d \in {report.today - TrendDays + 1, report.today} : ClearOfMidnight(zone, d)
               PROVE  LET days == report.today - TrendDays + 1 .. report.today
                      IN  /\ report.trend = [d \in days |-> Amount({i \in 1 .. report.read : paid(i) /\ key(i) = d})]
                          /\ \A w \in DOMAIN revenueTrendWeekly(report.trend) :
                               revenueTrendWeekly(report.trend)[w] =
                                 Amount({i \in 1 .. report.read : paid(i) /\ key(i) \in days /\ getWeekKey(key(i)) = w})
    BY Zenon DEF TrendFollowsDates
  <1>1. PICK since, topUps, sales, read, left, trend, today :
            /\ report = Overview(since, topUps, sales, read, left, trend, today)
            /\ since \in Int /\ since <= now - TrendDays * Day
            /\ "topUpRows" \notin left =>
                 read \in Nat /\ read <= Len(rows) /\ topUps = TopUpsOf(read, since)
            /\ today # NoDate => "topUpRows" \notin left /\ \E t : TrendAt(since, topUps, trend, today, t)
    BY DEF OverviewInv
  <1>2. /\ report.since = since /\ report.topUps = topUps /\ report.read = read /\ report.trend = trend
        /\ report.today = today
    BY <1>1 DEF Overview
  <1>3. PICK t : TrendAt(since, topUps, trend, today, t)
    BY <1>1, <1>2
  <1>4. read \in Nat /\ read <= Len(rows) /\ topUps = TopUpsOf(read, since)
    BY <1>1, <1>2
  <1>5. CalendarAssumption /\ IsZone(zone) /\ t \in Int /\ TrendDays \in Nat \ {0} /\ since \in Int /\ now \in Int
    BY <1>1, <1>3, ReadersZone DEF TrendAt, ReportsAssumption, BaseInv
  <1> DEFINE first == today - TrendDays + 1
             days == first .. today
             start == getStartOfDayUtc(zone, today)
             Rows == {i \in 1 .. read : paid(i)}
  <1>6. today \in Int /\ today = getDateKey(zone, t) /\ first \in Int
    <2>1. today = getDateKey(zone, t)
      BY <1>3 DEF TrendAt
    <2>2. today \in Int
      BY <1>5, <2>1, KeysAreIntegers
    <2> QED BY <1>5, <2>1, <2>2
  <1>7. /\ {getDateKey(zone, start - k * Day) : k \in 0 .. TrendDays - 1} = days
        /\ \A on \in Int : first <= getDateKey(zone, on) => since <= on
    <2>1. zone.change \notin since .. t
      <3>1. zone.change \in Int /\ zone.change \notin since .. now /\ t <= now
        BY <1>2, <1>3, <1>5 DEF TrendAt, IsZone
      <3> QED BY <1>5, <3>1
    <2>2. since <= t - TrendDays * Day
      BY <1>3 DEF TrendAt
    <2>3. ClearOfMidnight(zone, today) /\ ClearOfMidnight(zone, today - TrendDays + 1)
      BY <1>2
    <2> QED BY <1>5, <1>6, <2>1, <2>2, <2>3, LastDates
  <1>8. \A i \in 1 .. read : i \in DOMAIN rows /\ rows[i].on \in Int /\ key(i) \in Int
    <2>1. \A i \in 1 .. read : i \in DOMAIN rows /\ rows[i].on \in Int
      BY <1>4, RowFacts
    <2> QED BY <1>5, <2>1, KeysAreIntegers
  <1>9. \A d \in days : {i \in topUps : key(i) = d} = {i \in Rows : key(i) = d}
    <2> TAKE d \in days
    <2>1. \A i \in 1 .. read : key(i) = d => rows[i].on >= since
      <3> TAKE i \in 1 .. read
      <3>1. key(i) = d => since <= rows[i].on
        BY <1>5, <1>6, <1>7, <1>8
      <3> QED BY <1>5, <1>8, <3>1
    <2>2. topUps = {i \in 1 .. read : paid(i) /\ rows[i].on >= since}
      BY <1>4 DEF TopUpsOf
    <2> HIDE DEF key, days, first
    <2> QED BY <2>1, <2>2
  <1>10. trend = [d \in days |-> Amount({i \in Rows : key(i) = d})]
    <2>1. trend = [d \in days |-> Amount({i \in topUps : key(i) = d})]
      <3>1. trend = buildRevenueTrend(topUps, t)
        BY <1>3 DEF TrendAt
      <3>2. buildRevenueTrend(topUps, t)
              = [d \in {getDateKey(zone, start - k * Day) : k \in 0 .. TrendDays - 1} |->
                   Amount({i \in topUps : key(i) = d})]
        BY <1>6 DEF buildRevenueTrend
      <3> HIDE DEF start, days, key
      <3> QED BY <1>7, <3>1, <3>2
    <2> HIDE DEF key, days, Rows
    <2> QED BY <1>9, <2>1
  <1>11. \A w \in DOMAIN revenueTrendWeekly(trend) :
            revenueTrendWeekly(trend)[w] = Amount({i \in Rows : key(i) \in days /\ getWeekKey(key(i)) = w})
    <2> TAKE w \in DOMAIN revenueTrendWeekly(trend)
    <2>1. revenueTrendWeekly(trend)[w] = SumFunctionOnSet(trend, {d \in DOMAIN trend : getWeekKey(d) = w})
      BY DEF revenueTrendWeekly
    <2>2. Rows \in SUBSET DOMAIN rows
      BY <1>8
    <2>3. IsFiniteSet(days)
      BY <1>6, FS_Interval
    <2>4. DOMAIN trend = days /\ \A d \in days : trend[d] = Amount(OnDate(Rows, d))
      <3> HIDE DEF Rows, days
      <3> QED BY <1>10 DEF OnDate
    <2>5. InWeek(Rows, days, w) = {i \in Rows : key(i) \in days /\ getWeekKey(key(i)) = w}
      BY DEF InWeek
    <2> HIDE DEF Rows, days, key
    <2>6. revenueTrendWeekly(trend)[w] = Amount(InWeek(Rows, days, w))
      BY <2>1, <2>2, <2>3, <2>4, WeeksOfTrend
    <2> QED BY <2>5, <2>6
  <1>12. /\ \A d : {i \in Rows : key(i) = d} = {i \in 1 .. read : paid(i) /\ key(i) = d}
         /\ \A w : {i \in Rows : key(i) \in days /\ getWeekKey(key(i)) = w}
                     = {i \in 1 .. read : paid(i) /\ key(i) \in days /\ getWeekKey(key(i)) = w}
    <2> HIDE DEF days, key
    <2> QED OBVIOUS
  <1>13. /\ trend = [d \in days |-> Amount({i \in 1 .. read : paid(i) /\ key(i) = d})]
         /\ \A w \in DOMAIN revenueTrendWeekly(trend) :
              revenueTrendWeekly(trend)[w]
                = Amount({i \in 1 .. read : paid(i) /\ key(i) \in days /\ getWeekKey(key(i)) = w})
    <2> HIDE DEF key, paid, Rows, days
    <2> QED BY <1>10, <1>11, <1>12
  <1> QED BY <1>2, <1>13

\* For any zone, table and length of a day: where the clocks are left alone, the trend
\* of an overview has the last days up to the one it is computed on, each with all that
\* was paid on it, its weeks are sums of them, and the credits of a month are those of
\* its dates, whatever rows are added and however long a report takes.
THEOREM CalendarCorrect ==
    ASSUME ReportsAssumption, ZonesAssumption
    PROVE  Spec => []FollowsCalendar
  <1>1. Init => MonthInv /\ OverviewInv
    BY DEF Init, NoReport, MonthInv, OverviewInv
  <1>2. BaseInv /\ MonthInv /\ OverviewInv /\ [Next]_vars => MonthInv' /\ OverviewInv'
    <2> SUFFICES ASSUME BaseInv, MonthInv, OverviewInv, [Next]_vars PROVE MonthInv' /\ OverviewInv'
      OBVIOUS
    <2>1. MonthInv'
      <3>1. CASE report'.op # "month"
        BY <3>1 DEF MonthInv
      <3> QED BY <3>1, OneReport, MonthKept, MonthSteps
    <2>2. OverviewInv'
      <3>1. CASE report'.op # "overview"
        BY <3>1 DEF OverviewInv
      <3> QED BY <3>1, OneReport, OverviewKept, OverviewSteps
    <2> QED BY <2>1, <2>2
  <1>3. BaseInv /\ MonthInv /\ OverviewInv => FollowsCalendar
    BY MonthRight, TrendRight DEF FollowsCalendar
  <1> QED BY <1>1, <1>2, <1>3, BaseCorrect, PTL DEF Spec
=============================================================================
