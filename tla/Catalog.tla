------------------------------ MODULE Catalog -------------------------------
(***************************************************************************)
(* ResourcesService and ResourcesRuleService: the resources an             *)
(* organization's plan lets it have, their rules, and the slots and        *)
(* calendar BookingsService shows for them.  The interleavings of booking  *)
(* requests are in module Bookings: here a booking is made in one step.    *)
(***************************************************************************)
EXTENDS Calendar

CONSTANTS
    Resources,    \* resources that may be created (bounds the run)
    Bookings,     \* bookings that may exist at once (bounds the run)
    Workers,      \* request handlers that may be in progress at once
    Locks,        \* sets of handlers assumed to exclude one another
    Zones,        \* the organization's time zone is one of them
    MaxResources, \* limit of each plan
    DefaultRules, \* the rules of a new resource
    CustomRules,  \* bodies of the rule request
    Weekend,      \* WEEKEND_DAYS
    Dates,        \* dates that are looked at (bounds the run)
    MaxTime,      \* the clock's last value (bounds the run)
    MaxLength     \* longest booking that is asked for (bounds the run)

Plans == DOMAIN MaxResources
Handlers == {"create", "delete", "plan"}

CatalogAssumption ==
    /\ Locks \subseteq SUBSET Handlers
    /\ "FREE" \in Plans /\ \A p \in Plans : MaxResources[p] \in Nat
    /\ MaxTime \in Nat /\ MaxLength \in Nat

VARIABLES
    zone,     \* Organizations.timezone
    plan,     \* Organizations.plan_type
    resource, \* table Resources, with the rules of each
    booking,  \* table Bookings: the rows that are not over
    job,      \* what each request handler has read and not yet used
    now       \* the clock

vars == <<zone, plan, resource, booking, job, now>>

NoResource == [deleted |-> TRUE]
NoBooking == [held |-> FALSE]
Idle == [op |-> "idle"]

Rules == {DefaultRules} \cup CustomRules
TypeOK ==
    /\ zone \in Zones
    /\ plan \in Plans
    /\ resource \in [Resources -> {NoResource} \cup [deleted : BOOLEAN, rules : Rules]]
    /\ booking \in [Bookings -> {NoBooking} \cup [resource : Resources, start : 0 .. MaxTime,
                                                  end : 0 .. MaxTime + MaxLength, held : BOOLEAN]]
    /\ job \in [Workers -> {Idle} \cup [op : {"create"}] \cup [op : {"delete"}, resource : Resources]]
    /\ now \in 0 .. MaxTime

Init ==
    /\ zone \in Zones
    /\ plan = "FREE"
    /\ resource = [r \in Resources |-> NoResource]
    /\ booking = [b \in Bookings |-> NoBooking]
    /\ job = [w \in Workers |-> Idle]
    /\ now = 0

-----------------------------------------------------------------------------
Existing == {r \in Resources : resource[r] # NoResource}
Live == {r \in Resources : ~resource[r].deleted}
Rows == {b \in Bookings : booking[b] # NoBooking}
RulesOf(r) == resource[r].rules

Excluded(op) ==
    \E v \in Workers, lock \in Locks : {op, job[v].op} \subseteq lock
Start(w, j) == job[w] = Idle /\ ~Excluded(j.op) /\ job' = [job EXCEPT ![w] = j]
Return(w) == job' = [job EXCEPT ![w] = Idle]

MutantLimitReached == Cardinality(Live) > MaxResources[plan]
\* isSubscriptionLimitReached
LimitReached == Cardinality(Live) >= MaxResources[plan]

-----------------------------------------------------------------------------
(* createResource, createResourceRule, deleteResource                       *)

CreateResourceRead(w) ==
    /\ ~LimitReached
    /\ Start(w, [op |-> "create"])
    /\ UNCHANGED <<zone, plan, resource, booking, now>>

CreateResourceCommit(w) ==
    /\ job[w].op = "create"
    /\ \E r \in Resources \ Existing :
           resource' = [resource EXCEPT ![r] = [deleted |-> FALSE, rules |-> DefaultRules]]
    /\ Return(w)
    /\ UNCHANGED <<zone, plan, booking, now>>

\* ADVANCED_RULES is not a feature of the FREE plan.
CreateResourceRule(r) ==
    /\ r \in Live
    /\ plan # "FREE"
    /\ \E rules \in CustomRules : resource' = [resource EXCEPT ![r].rules = rules]
    /\ UNCHANGED <<zone, plan, booking, job, now>>

\* Bookings that have not ended, those in use included.
DeleteResourceRead(w) ==
    \E r \in Live :
        /\ ~\E b \in Rows : booking[b].resource = r /\ booking[b].end >= now
        /\ Start(w, [op |-> "delete", resource |-> r])
        /\ UNCHANGED <<zone, plan, resource, booking, now>>

DeleteResourceCommit(w) ==
    /\ job[w].op = "delete"
    /\ resource' = [resource EXCEPT ![job[w].resource].deleted = TRUE]
    /\ Return(w)
    /\ UNCHANGED <<zone, plan, booking, now>>

-----------------------------------------------------------------------------
(* createBooking, as far as the slots are about it.                         *)

\* Resources that were deleted count here as well.  The members are counted too (module
\* Staff has them), which refuses more bookings and allows none.
OverPlan == plan = "FREE" /\ Cardinality(Existing) > MaxResources["FREE"]

\* availableDays; none of them stands for every day.
AvailableOn(r, weekday) == RulesOf(r).days = {} \/ weekday \in RulesOf(r).days

\* The rules of createBooking that the slot list does not look at: is_weekend_allowed,
\* max_booking_hours (0 for no limit) and min_lead_time.
UnlistedRulesAllow(r, start, end) ==
    LET rules == RulesOf(r)
    IN  /\ getWeekday(zone, start) \in Weekend => rules.weekend
        /\ rules.hours # 0 => end - start <= rules.hours
        /\ start >= now + rules.lead

\* All the rules of createBooking: it knows no opening hours.
RulesAllow(r, start, end) ==
    UnlistedRulesAllow(r, start, end) /\ AvailableOn(r, getWeekday(zone, start))

SlotFree(r, start, end) ==
    ~\E b \in Rows : /\ booking[b].resource = r /\ booking[b].held
                     /\ booking[b].start < end + RulesOf(r).buffer
                     /\ booking[b].end > start - RulesOf(r).buffer

CreateBooking(b) ==
    \E r \in Existing, start \in now .. MaxTime, length \in 1 .. MaxLength :
        /\ booking[b] = NoBooking
        /\ ~OverPlan
        /\ RulesAllow(r, start, start + length)
        /\ SlotFree(r, start, start + length)
        /\ booking' = [booking EXCEPT ![b] = [resource |-> r, start |-> start,
                                              end |-> start + length, held |-> TRUE]]
        /\ UNCHANGED <<zone, plan, resource, job, now>>

\* It is checked in by the cron, and later completed; or it is cancelled.
CheckIn(b) ==
    /\ b \in Rows /\ booking[b].held /\ booking[b].start < now
    /\ booking' = [booking EXCEPT ![b].held = FALSE]
    /\ UNCHANGED <<zone, plan, resource, job, now>>
EndBooking(b) ==
    /\ b \in Rows
    /\ booking' = [booking EXCEPT ![b] = NoBooking]
    /\ UNCHANGED <<zone, plan, resource, job, now>>

\* The subscription changes (module Subscription); time passes.
ChangePlan ==
    /\ ~Excluded("plan")
    /\ plan' \in Plans \ {plan}
    /\ UNCHANGED <<zone, resource, booking, job, now>>
Tick ==
    /\ now < MaxTime /\ now' = now + 1
    /\ UNCHANGED <<zone, plan, resource, booking, job>>

Next ==
    \/ \E w \in Workers : \/ CreateResourceRead(w) \/ CreateResourceCommit(w)
                          \/ DeleteResourceRead(w) \/ DeleteResourceCommit(w)
    \/ \E r \in Resources : CreateResourceRule(r)
    \/ \E b \in Bookings : CreateBooking(b) \/ CheckIn(b) \/ EndBooking(b)
    \/ ChangePlan \/ Tick

Spec == Init /\ [][Next]_vars

-----------------------------------------------------------------------------
(* getAvailableSlotsByResource, getBookingsByResourceAndMonth               *)

WorkStart(r, date) == zonedDateTimeToUtc(zone, date * Day + RulesOf(r).opening)
WorkEnd(r, date) == zonedDateTimeToUtc(zone, date * Day + RulesOf(r).closing)

\* Weekends are not looked at here.
OpenOn(r, date) == AvailableOn(r, WeekdayOfDate(zone, date))

\* The starts of the slots the loop visits that are not past.
Visited(r, date) ==
    {s \in WorkStart(r, date) .. WorkEnd(r, date) - RulesOf(r).slot :
        (s - WorkStart(r, date)) % RulesOf(r).slot = 0 /\ s >= now}

Fetched(r, date) ==
    {b \in Rows : /\ booking[b].resource = r /\ booking[b].held
                  /\ booking[b].start <= WorkEnd(r, date)
                  /\ booking[b].end >= WorkStart(r, date)}

MutantOffered(r, date) ==
    {s \in Visited(r, date) : OpenOn(r, date) /\ ~\E b \in Fetched(r, date) :
        s < booking[b].end /\ s + RulesOf(r).slot > booking[b].start}
Offered(r, date) ==
    {s \in Visited(r, date) : OpenOn(r, date) /\ ~\E b \in Fetched(r, date) :
        /\ s < booking[b].end + RulesOf(r).buffer
        /\ s + RulesOf(r).slot > booking[b].start - RulesOf(r).buffer}

\* availableDays that are empty do not include the day: it is off when it is full.
DayStatus(r, date) ==
    IF Offered(r, date) # {} THEN "PARTIALLY_BOOKED"
    ELSE IF WeekdayOfDate(zone, date) \in RulesOf(r).days THEN "FULLY_BOOKED" ELSE "OFF_DAY"

-----------------------------------------------------------------------------
\* A slot whose resource's margins hold no booking that the slot list overlooks:
\* one outside the working hours, but nearer to them than the buffer.
MarginsClear(r, date) ==
    \A b \in Rows \ Fetched(r, date) :
        booking[b].resource = r /\ booking[b].held =>
            \/ booking[b].start >= WorkEnd(r, date) + RulesOf(r).buffer
            \/ booking[b].end <= WorkStart(r, date) - RulesOf(r).buffer

\* Rules and zones are given in whole units of time.
TimesAssumption ==
    /\ CalendarAssumption /\ Dates \subseteq Int
    /\ \A z \in Zones : {z.before, z.after, z.change} \subseteq Int
    /\ \A rules \in Rules : /\ {rules.opening, rules.closing} \subseteq Int
                            /\ rules.slot \in Nat \ {0} /\ rules.buffer \in Nat

\* In a zone that is not behind UTC, the slots of a date begin on it by the zone's
\* clocks: so they do but for a change of clocks near the ends of the working hours.
SlotsKeepTheirDate ==
    \A z \in Zones, rules \in Rules, date \in Dates :
        z.before >= 0 /\ z.after >= 0 =>
            \A s \in zonedDateTimeToUtc(z, date * Day + rules.opening) ..
                        zonedDateTimeToUtc(z, date * Day + rules.closing) - rules.slot :
                getWeekday(z, s) = WeekdayOfDate(z, date)

\* In a zone that is not behind UTC, and unless a booking outside the working hours
\* reaches into them by its buffer, the slots shown are those that are free on an
\* available day, and a day is shown as open for bookings exactly if it has one: no
\* other slot of the date would be accepted by createBooking, and it refuses none of
\* these but by its rules on weekends, on lengths and on lead times, which neither the
\* slot list nor the calendar looks at.
OffersAgree ==
    zone.before >= 0 /\ zone.after >= 0 =>
        \A r \in Live, date \in Dates :
            MarginsClear(r, date) =>
                LET free == {s \in Visited(r, date) : SlotFree(r, s, s + RulesOf(r).slot)}
                    bookable == {s \in free : AvailableOn(r, getWeekday(zone, s))}
                    accepted == {s \in free : RulesAllow(r, s, s + RulesOf(r).slot)}
                IN  /\ Offered(r, date) = bookable
                    /\ accepted = {s \in Offered(r, date) :
                                     UnlistedRulesAllow(r, s, s + RulesOf(r).slot)}
                    /\ DayStatus(r, date) = "PARTIALLY_BOOKED" <=> bookable # {}

\* No resource is added beyond the limit of the plan in force, where creations
\* exclude one another and changes of the plan; what a better plan left is kept.
AddsWithinLimit == Cardinality(Live') > Cardinality(Live) => Cardinality(Live') <= MaxResources[plan]
LimitKept == [][AddsWithinLimit]_vars
=============================================================================
