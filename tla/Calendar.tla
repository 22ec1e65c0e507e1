------------------------------ MODULE Calendar ------------------------------
(***************************************************************************)
(* timezone.util: instants of UTC, and the dates a zone's clocks show for  *)
(* them.  A zone has an offset before and one after one change of clocks;  *)
(* a day has Day units of time, and dates are numbered from 0, a Monday.   *)
(***************************************************************************)
EXTENDS Integers, FiniteSets

CONSTANTS
    Second, \* units of a second: the smallest ones are milliseconds
    Day,    \* units of a day
    Week,   \* days of a week
    Month   \* days of a month

CalendarAssumption ==
    {Second, Day, Week, Month} \subseteq Nat \ {0} /\ Day % Second = 0

\* What the zone's clocks show.
Offset(zone, t) == IF t < zone.change THEN zone.before ELSE zone.after
Shown(zone, t) == t + Offset(zone, t)

\* The clock is formatted to the second, then compared with the instant: any
\* milliseconds of the instant are taken off the offset.
getOffsetMsAtInstant(zone, t) == Offset(zone, t) - (Shown(zone, t) % Second)

\* The clock is read as if it were UTC to find the offset: there is no second look.
zonedDateTimeToUtc(zone, clock) == clock - getOffsetMsAtInstant(zone, clock)

getDateKey(zone, t) == Shown(zone, t) \div Day
getWeekKey(date) == date \div Week
getMonthKey(date) == date \div Month
getWeekday(zone, t) == getDateKey(zone, t) % Week
\* The weekday of a date given without a time: that of its midnight in UTC.
WeekdayOfDate(zone, date) == getWeekday(zone, date * Day)

getStartOfDayUtc(zone, date) == zonedDateTimeToUtc(zone, date * Day)
\* The last instant of the date by the clock, 23:59:59.999.
getEndOfDayUtc(zone, date) == zonedDateTimeToUtc(zone, date * Day + Day - 1)

\* Whether the clocks are left alone around the date's midnights, in the zone and
\* in UTC.
ClearOfMidnight(zone, date) ==
    \A t \in {date * Day, date * Day + Day - 1} :
        \A o \in {zone.before, zone.after} : Offset(zone, t) = Offset(zone, t - o)
=============================================================================
