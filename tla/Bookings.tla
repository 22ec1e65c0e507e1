------------------------------ MODULE Bookings ------------------------------
(***************************************************************************)
(* The booking engine of the server: BookingsService (create, change of    *)
(* status, reschedule), the maintenance switch of ResourcesService and the *)
(* three minute crons of SchedulerService that move bookings along.        *)
(*                                                                         *)
(* The tables live in PostgreSQL (READ COMMITTED, through Prisma).  A      *)
(* handler is an async function: between two awaits any other handler of   *)
(* the process may run.  It is modelled by what it has read and not yet    *)
(* used (job, scan) and by one action for each of its reads and for its    *)
(* commit.  The writes of one interactive transaction become visible       *)
(* together, increments and decrements are applied to the stored value.    *)
(***************************************************************************)
EXTENDS Integers, FiniteSets, Functions

CONSTANTS
    Ids,            \* booking rows that may be created (bounds the run)
    Users,          \* staff members and organization admins of one organization
    Resources,      \* resources of that organization
    Workers,        \* request handlers that may be in progress at once
    NoId,           \* currentBookingId = null
    MaxTime,        \* last instant of the clock (bounds the run)
    Rate,           \* hourly_rate, in credits for one unit of time
    Buffer,         \* resourcesRules.buffer_time
    MaxHours,       \* resourcesRules.max_booking_hours, 0 when not set
    LeadTime,       \* resourcesRules.min_lead_time
    OpenTimes,      \* starts on a weekday the rules allow
    RefundWindow,   \* REFUND_POLICY.FULL_REFUND_IF_CANCELLED_WITHIN
    AutoConfirm,    \* resources with isAutoConfirm
    InitialCredits, \* personal_credits of every user at the start
    Transitions,    \* <<from, to>> pairs clients ask of PATCH /bookings/status
    FlagEdits,      \* may clients edit is_maintenance through PATCH /resources/update?
    Exclusive,      \* handlers assumed never to run at the same time as one another
    MaxFaults       \* handlers that may fail before their commit (bounds the run)

Crons == {"autoCancel", "autoCheckIn", "autoComplete"}
Requests == {"create", "reschedule", "status", "maintenance", "flagEdit"}
Statuses == {"PENDING", "CONFIRMED", "REJECTED", "CANCELLED", "CHECKED_IN", "COMPLETED"}
Active == {"PENDING", "CONFIRMED"}
Terminal == {"REJECTED", "CANCELLED", "COMPLETED"}
Roles == {"STAFF", "ORG_ADMIN"}
Times == 0 .. MaxTime
Slots == 0 .. (MaxTime - 1)   \* bookings end before the clock stops

ASSUME BoundsAssumption ==
    /\ MaxTime \in Nat \ {0} /\ MaxFaults \in Nat
    /\ Rate \in Nat /\ InitialCredits \in Nat
    /\ Buffer \in Nat /\ MaxHours \in Nat /\ LeadTime \in Nat /\ RefundWindow \in Nat
ASSUME FiniteAssumption == IsFiniteSet(Ids)
ASSUME NoIdAssumption == NoId \notin Ids
ASSUME NonEmptyAssumption == Users # {} /\ Resources # {}
ASSUME ClientAssumption ==
    /\ Transitions \subseteq Statuses \X Statuses
    /\ FlagEdits \in BOOLEAN
    /\ Exclusive \subseteq Crons \cup Requests
ASSUME ResourceAssumption == AutoConfirm \subseteq Resources /\ OpenTimes \subseteq Slots

VARIABLES
    now,         \* the clock the handlers read with new Date()
    bookings,    \* table Bookings
    credits,     \* User.personal_credits
    current,     \* Resources.currentBookingId; is_occupied is current # NoId
    maintenance, \* Resources.is_maintenance
    job,         \* what each request handler has read and not yet used
    scan,        \* the ids each cron has selected and not yet updated
    faults,      \* handlers that failed so far
    paid         \* history: credits taken for a booking and not given back

vars == <<now, bookings, credits, current, maintenance, job, scan, faults, paid>>

Booking == [status : Statuses \cup {"none"}, user : Users, res : Resources,
            start : Slots, end : Slots, cost : Nat]

Idle == [op |-> "idle"]
CreateJob == [op : {"create"}, step : {"credits", "commit"}, user : Users, res : Resources,
              start : Slots, end : Slots, status : Active]
RescheduleJob == [op : {"reschedule"}, step : {"slot", "credits", "commit"}, id : Ids,
                  seen : Booking, start : Slots, end : Slots]
StatusJob == [op : {"status"}, step : {"charge", "commit"}, id : Ids, seen : Booking,
              to : Statuses, role : Roles]
FindJob == [op : {"maintenance"}, step : {"find"}, res : Resources, was : BOOLEAN]
CancelJob == [op : {"maintenance"}, step : {"commit"}, res : Resources,
              seen : [Ids -> Booking]]
Job == {Idle} \cup CreateJob \cup RescheduleJob \cup StatusJob \cup FindJob \cup CancelJob

\* The rows and the handlers' locals; TypeOK adds the balances.
RowsOK ==
    /\ now \in Times
    /\ bookings \in [Ids -> Booking]
    /\ current \in [Resources -> Ids \cup {NoId}]
    /\ maintenance \in [Resources -> BOOLEAN]
    /\ job \in [Workers -> Job]
    /\ \A w \in Workers : job[w].op \in {"create", "reschedule"} => job[w].start < job[w].end
    /\ scan \in [Crons -> SUBSET Ids]
    /\ faults \in 0 .. MaxFaults
    /\ paid \in [Ids -> Int]

TypeOK == RowsOK /\ credits \in [Users -> Int]

Unused == [status |-> "none", user |-> CHOOSE u \in Users : TRUE,
           res |-> CHOOSE r \in Resources : TRUE, start |-> 0, end |-> 0, cost |-> 0]

Init ==
    /\ now = 0
    /\ bookings = [i \in Ids |-> Unused]
    /\ credits = [u \in Users |-> InitialCredits]
    /\ current = [r \in Resources |-> NoId]
    /\ maintenance = [r \in Resources |-> FALSE]
    /\ job = [w \in Workers |-> Idle]
    /\ scan = [c \in Crons |-> {}]
    /\ faults = 0
    /\ paid = [i \in Ids |-> 0]

-----------------------------------------------------------------------------
(* What the handlers compute from the tables.                              *)

Created == {i \in Ids : bookings[i].status # "none"}

OnResource(r, statuses) == {i \in Ids : bookings[i].status \in statuses /\ bookings[i].res = r}

MutantCostReversed(s, e) == (s - e) * Rate
\* total_cost
Cost(s, e) == (e - s) * Rate

\* Two windows of one resource that the buffered overlap query matches.
Overlaps(s1, e1, s2, e2) == s1 < e2 + Buffer /\ e1 > s2 - Buffer

MutantSlotFreeNoBuffer(r, s, e, skip) ==
    \A i \in OnResource(r, Active) \ skip : ~(bookings[i].start < e /\ bookings[i].end > s)
\* No active booking of r, those of skip apart, is in the way of [s, e).
SlotFree(r, s, e, skip) ==
    \A i \in OnResource(r, Active) \ skip : ~Overlaps(bookings[i].start, bookings[i].end, s, e)

\* The resource's rules accept a booking of [s, e) made now.
RulesAllow(s, e) ==
    /\ MaxHours = 0 \/ e - s <= MaxHours
    /\ s >= now + LeadTime
    /\ s \in OpenTimes

\* The sum of total_cost over the PENDING bookings of u, those of skip apart.
PendingCredits(u, skip) ==
    SumFunctionOnSet([i \in Ids |-> bookings[i].cost],
                     {i \in Ids \ skip : bookings[i].status = "PENDING" /\ bookings[i].user = u})

MutantPayInFull(j) == Cost(j.start, j.end)
\* howMuchToPay of a reschedule, from the booking as it was first read.
HowMuchToPay(j) ==
    Cost(j.start, j.end) - (IF j.seen.status = "CONFIRMED" THEN j.seen.cost ELSE 0)

\* update, updateMany: the rows are found by id, whatever their status is by now.
SetStatus(ids, to) ==
    bookings' = [i \in Ids |-> IF i \in ids THEN [bookings[i] EXCEPT !.status = to]
                                            ELSE bookings[i]]

Running(o) == IF o \in Crons THEN scan[o] # {} ELSE \E w \in Workers : job[w].op = o
MayStart(o) == o \in Exclusive => \A x \in Exclusive : ~Running(x)

Start(w, j) == job[w] = Idle /\ MayStart(j.op) /\ job' = [job EXCEPT ![w] = j]
At(w, op, step) == job[w] # Idle /\ job[w].op = op /\ job[w].step = step
Advance(w, step) == job' = [job EXCEPT ![w].step = step]
Return(w) == job' = [job EXCEPT ![w] = Idle]
tables == <<bookings, credits, current, maintenance>>

-----------------------------------------------------------------------------
(* POST /bookings/create                                                   *)

\* The time checks, the resource with its rules, the overlap query.
CreateCheckSlot(w) ==
    \E u \in Users, r \in Resources, s \in Slots, e \in Slots, role \in Roles :
        /\ Cardinality(Created) + Cardinality({v \in Workers : job[v].op = "create"})
             < Cardinality(Ids)                                    \* bounds the run
        /\ s >= now /\ e > s
        /\ ~maintenance[r]
        /\ RulesAllow(s, e)
        /\ SlotFree(r, s, e, {})
        /\ Start(w, [op |-> "create", step |-> "credits", user |-> u, res |-> r,
                     start |-> s, end |-> e,
                     status |-> IF role = "ORG_ADMIN" \/ r \in AutoConfirm
                                THEN "CONFIRMED" ELSE "PENDING"])
        /\ UNCHANGED <<now, tables, scan, faults, paid>>

MutantCheckOwnCost(w) ==
    /\ At(w, "create", "credits")
    /\ IF credits[job[w].user] >= Cost(job[w].start, job[w].end)
       THEN Advance(w, "commit") ELSE Return(w)
    /\ UNCHANGED <<now, tables, scan, faults, paid>>
\* The user's balance must cover this booking and all pending ones.
CreateCheckCredits(w) ==
    /\ At(w, "create", "credits")
    /\ IF credits[job[w].user] >= Cost(job[w].start, job[w].end)
                                    + PendingCredits(job[w].user, {})
       THEN Advance(w, "commit")
       ELSE Return(w)
    /\ UNCHANGED <<now, tables, scan, faults, paid>>

CreateCommit(w) ==
    /\ At(w, "create", "commit")
    /\ \E i \in Ids \ Created :
         LET j == job[w]
             charge == IF j.status = "CONFIRMED" THEN Cost(j.start, j.end) ELSE 0
         IN  /\ bookings' = [bookings EXCEPT ![i] =
                               [status |-> j.status, user |-> j.user, res |-> j.res,
                                start |-> j.start, end |-> j.end,
                                cost |-> Cost(j.start, j.end)]]
             /\ credits' = [credits EXCEPT ![j.user] = @ - charge]
             /\ paid' = [paid EXCEPT ![i] = charge]
    /\ Return(w)
    /\ UNCHANGED <<now, current, maintenance, scan, faults>>

-----------------------------------------------------------------------------
(* PATCH /bookings/status                                                  *)

\* Who may confirm the pending booking b, as it was read.
MayConfirm(role, b) ==
    role = "ORG_ADMIN" /\ credits[b.user] >= b.cost /\ credits[b.user] >= 0

\* The booking and its user are read before the transaction; what the handler
\* decides from them is decided here.  A STAFF caller is the booking's user.
StatusRead(w) ==
    \E i \in Created, to \in Statuses, role \in Roles :
        LET b == bookings[i]
            confirms == b.status = "PENDING" /\ to = "CONFIRMED"
        IN  /\ <<b.status, to>> \in Transitions
            /\ confirms => MayConfirm(role, b)
            /\ Start(w, [op |-> "status", step |-> IF confirms THEN "charge" ELSE "commit",
                         id |-> i, seen |-> b, to |-> to, role |-> role])
            /\ UNCHANGED <<now, tables, scan, faults, paid>>

\* Charged through this.prisma and once more through tx.
MutantChargeTwice(w) ==
    /\ At(w, "status", "charge")
    /\ credits' = [credits EXCEPT ![job[w].seen.user] = @ - 2 * job[w].seen.cost]
    /\ paid' = [paid EXCEPT ![job[w].id] = @ + job[w].seen.cost]
    /\ Advance(w, "commit")
    /\ UNCHANGED <<now, bookings, current, maintenance, scan, faults>>
\* The charge of a confirmation goes through this.prisma, not tx: it is
\* committed on its own, before the rest of the transaction.
ConfirmCharge(w) ==
    /\ At(w, "status", "charge")
    /\ credits' = [credits EXCEPT ![job[w].seen.user] = @ - job[w].seen.cost]
    /\ paid' = [paid EXCEPT ![job[w].id] = @ + job[w].seen.cost]
    /\ Advance(w, "commit")
    /\ UNCHANGED <<now, bookings, current, maintenance, scan, faults>>

\* A cancelled confirmed booking is refunded: half of it when it starts soon.
LateCancel(j) == j.seen.start - now < RefundWindow
Refund(j) ==
    IF j.seen.status = "CONFIRMED" /\ j.to = "CANCELLED"
    THEN IF LateCancel(j) THEN j.seen.cost \div 2 ELSE j.seen.cost
    ELSE 0
\* personal_credits is an Int column: a fractional refund fails the transaction.
RefundFits(j) ==
    j.seen.status = "CONFIRMED" /\ j.to = "CANCELLED" /\ LateCancel(j) => j.seen.cost % 2 = 0

StatusCommit(w) ==
    /\ At(w, "status", "commit")
    /\ LET j == job[w]
       IN  IF RefundFits(j)
           THEN /\ bookings' = [bookings EXCEPT ![j.id].status = j.to]
                /\ credits' = [credits EXCEPT ![j.seen.user] = @ + Refund(j)]
                /\ paid' = [paid EXCEPT ![j.id] = @ - Refund(j)]
                /\ current' = IF j.seen.status = "CHECKED_IN" /\ j.to = "COMPLETED"
                              THEN [current EXCEPT ![j.seen.res] = NoId]
                              ELSE current
           ELSE UNCHANGED <<bookings, credits, paid, current>>
    /\ Return(w)
    /\ UNCHANGED <<now, maintenance, scan, faults>>

-----------------------------------------------------------------------------
(* PATCH /bookings/reschedule                                              *)

\* The booking, and every check that rests on it, on the clock or on the rules.
RescheduleRead(w) ==
    \E i \in Created, s \in Slots, e \in Slots :
        /\ bookings[i].status \in Active
        /\ s >= now /\ e > s
        /\ RulesAllow(s, e)
        /\ Start(w, [op |-> "reschedule", step |-> "slot", id |-> i, seen |-> bookings[i],
                     start |-> s, end |-> e])
        /\ UNCHANGED <<now, tables, scan, faults, paid>>

MutantSkipOwnBookings(w) ==
    /\ At(w, "reschedule", "slot")
    /\ LET j == job[w]
       IN  IF /\ ~maintenance[j.seen.res]
              /\ SlotFree(j.seen.res, j.start, j.end,
                          {i \in Ids : bookings[i].user = j.seen.user})
           THEN Advance(w, "credits") ELSE Return(w)
    /\ UNCHANGED <<now, tables, scan, faults, paid>>
RescheduleCheckSlot(w) ==
    /\ At(w, "reschedule", "slot")
    /\ LET j == job[w]
       IN  IF /\ ~maintenance[j.seen.res]
              /\ SlotFree(j.seen.res, j.start, j.end, {j.id})
           THEN Advance(w, "credits")
           ELSE Return(w)
    /\ UNCHANGED <<now, tables, scan, faults, paid>>

RescheduleCheckCredits(w) ==
    /\ At(w, "reschedule", "credits")
    /\ LET j == job[w]
       IN  IF HowMuchToPay(j) > 0 => credits[j.seen.user] >=
                                       HowMuchToPay(j) + PendingCredits(j.seen.user, {j.id})
           THEN Advance(w, "commit")
           ELSE Return(w)
    /\ UNCHANGED <<now, tables, scan, faults, paid>>

\* The whole row is saved as it was read.
MutantSaveAsRead(w) ==
    /\ At(w, "reschedule", "commit")
    /\ LET j == job[w]
           pay == IF j.seen.status = "CONFIRMED" THEN HowMuchToPay(j) ELSE 0
       IN  /\ bookings' = [bookings EXCEPT ![j.id] = [j.seen EXCEPT
                               !.start = j.start, !.end = j.end, !.cost = Cost(j.start, j.end)]]
           /\ credits' = [credits EXCEPT ![j.seen.user] = @ - pay]
           /\ paid' = [paid EXCEPT ![j.id] = @ + pay]
    /\ Return(w)
    /\ UNCHANGED <<now, current, maintenance, scan, faults>>
RescheduleCommit(w) ==
    /\ At(w, "reschedule", "commit")
    /\ LET j == job[w]
           pay == IF j.seen.status = "CONFIRMED" THEN HowMuchToPay(j) ELSE 0
       IN  /\ bookings' = [bookings EXCEPT ![j.id].start = j.start, ![j.id].end = j.end,
                                           ![j.id].cost = Cost(j.start, j.end)]
           /\ credits' = [credits EXCEPT ![j.seen.user] = @ - pay]
           /\ paid' = [paid EXCEPT ![j.id] = @ + pay]
    /\ Return(w)
    /\ UNCHANGED <<now, current, maintenance, scan, faults>>

-----------------------------------------------------------------------------
(* PATCH /resources/maintenance, PATCH /resources/update                   *)

MaintenanceRead(w) ==
    \E r \in Resources :
        /\ current[r] = NoId
        /\ Start(w, [op |-> "maintenance", step |-> "find", res |-> r,
                     was |-> maintenance[r]])
        /\ UNCHANGED <<now, tables, scan, faults, paid>>

\* findMany inside the transaction: the active bookings that end from now on.
MutantUpcomingByStart(r) == {i \in OnResource(r, Active) : bookings[i].start >= now}
Upcoming(r) == {i \in OnResource(r, Active) : bookings[i].end >= now}

MaintenanceFind(w) ==
    /\ At(w, "maintenance", "find") /\ ~job[w].was
    /\ LET r == job[w].res
       IN  job' = [job EXCEPT ![w] =
                     [op |-> "maintenance", step |-> "commit", res |-> r,
                      seen |-> [i \in Ids |-> IF i \in Upcoming(r) THEN bookings[i] ELSE Unused]]]
    /\ UNCHANGED <<now, tables, scan, faults, paid>>

\* The selected bookings are cancelled, those read as confirmed refunded in full.
MaintenanceCommit(w) ==
    /\ At(w, "maintenance", "commit")
    /\ LET j == job[w]
           refunded == {i \in Ids : j.seen[i].status = "CONFIRMED"}
       IN  /\ SetStatus({i \in Ids : j.seen[i].status \in Active}, "CANCELLED")
           /\ credits' = [u \in Users |-> credits[u] +
                            SumFunctionOnSet([i \in Ids |-> j.seen[i].cost],
                                             {i \in refunded : j.seen[i].user = u})]
           /\ paid' = [i \in Ids |-> IF i \in refunded THEN paid[i] - j.seen[i].cost ELSE paid[i]]
           /\ maintenance' = [maintenance EXCEPT ![j.res] = TRUE]
    /\ Return(w)
    /\ UNCHANGED <<now, current, scan, faults>>

MaintenanceEnd(w) ==
    /\ At(w, "maintenance", "find") /\ job[w].was
    /\ maintenance' = [maintenance EXCEPT ![job[w].res] = FALSE]
    /\ Return(w)
    /\ UNCHANGED <<now, bookings, credits, current, scan, faults, paid>>

\* updateResource writes the dto's is_maintenance as it is and cancels nothing.
UpdateResourceFlag(r) ==
    /\ FlagEdits /\ MayStart("flagEdit")
    /\ maintenance' = [maintenance EXCEPT ![r] = ~@]
    /\ UNCHANGED <<now, bookings, credits, current, job, scan, faults, paid>>

-----------------------------------------------------------------------------
(* The minute crons.  Each selects ids, then updates those ids whatever    *)
(* their status has become.  A cron that selects nothing returns.          *)

MutantDueAnyStatus(c) ==
    {i \in Created :
        \/ c = "autoCancel" /\ bookings[i].start < now /\ bookings[i].status # "CANCELLED"
        \/ c = "autoCheckIn" /\ bookings[i].status = "CONFIRMED" /\ bookings[i].start < now
        \/ c = "autoComplete" /\ bookings[i].status = "CHECKED_IN" /\ bookings[i].end < now}
MutantDueAhead(c) ==
    {i \in Ids :
        \/ c = "autoCancel" /\ bookings[i].status = "PENDING" /\ bookings[i].start < now
        \/ c = "autoCheckIn" /\ bookings[i].status = "CONFIRMED" /\ bookings[i].start > now
        \/ c = "autoComplete" /\ bookings[i].status = "CHECKED_IN" /\ bookings[i].end < now}
Due(c) ==
    {i \in Ids :
        \/ c = "autoCancel" /\ bookings[i].status = "PENDING" /\ bookings[i].start < now
        \/ c = "autoCheckIn" /\ bookings[i].status = "CONFIRMED" /\ bookings[i].start < now
        \/ c = "autoComplete" /\ bookings[i].status = "CHECKED_IN" /\ bookings[i].end < now}

CronSelect(c) ==
    /\ scan[c] = {} /\ Due(c) # {} /\ MayStart(c)
    /\ scan' = [scan EXCEPT ![c] = Due(c)]
    /\ UNCHANGED <<now, tables, job, faults, paid>>

ScanOf(c, r) == {i \in scan[c] : bookings[i].res = r}

AutoCancel ==
    /\ scan["autoCancel"] # {}
    /\ SetStatus(scan["autoCancel"], "CANCELLED")
    /\ scan' = [scan EXCEPT !["autoCancel"] = {}]
    /\ UNCHANGED <<now, credits, current, maintenance, job, faults, paid>>

\* The resource rows are written in parallel: when several selected bookings
\* share a resource, any of them may be written last.
AutoCheckIn ==
    /\ scan["autoCheckIn"] # {}
    /\ SetStatus(scan["autoCheckIn"], "CHECKED_IN")
    /\ \E last \in [Resources -> Ids \cup {NoId}] :
         /\ \A r \in Resources : IF ScanOf("autoCheckIn", r) = {}
                                 THEN last[r] = current[r]
                                 ELSE last[r] \in ScanOf("autoCheckIn", r)
         /\ current' = last
    /\ scan' = [scan EXCEPT !["autoCheckIn"] = {}]
    /\ UNCHANGED <<now, credits, maintenance, job, faults, paid>>

MutantCompleteOccupied ==
    /\ scan["autoComplete"] # {}
    /\ SetStatus(scan["autoComplete"], "COMPLETED")
    /\ scan' = [scan EXCEPT !["autoComplete"] = {}]
    /\ UNCHANGED <<now, credits, current, maintenance, job, faults, paid>>
AutoComplete ==
    /\ scan["autoComplete"] # {}
    /\ SetStatus(scan["autoComplete"], "COMPLETED")
    /\ current' = [r \in Resources |-> IF ScanOf("autoComplete", r) = {} THEN current[r] ELSE NoId]
    /\ scan' = [scan EXCEPT !["autoComplete"] = {}]
    /\ UNCHANGED <<now, credits, maintenance, job, faults, paid>>

-----------------------------------------------------------------------------
\* A query throws or the process stops: what the handler had not committed is
\* rolled back.
RequestFails(w) ==
    /\ faults < MaxFaults /\ job[w] # Idle
    /\ faults' = faults + 1
    /\ Return(w)
    /\ UNCHANGED <<now, tables, scan, paid>>

CronFails(c) ==
    /\ faults < MaxFaults /\ scan[c] # {}
    /\ faults' = faults + 1
    /\ scan' = [scan EXCEPT ![c] = {}]
    /\ UNCHANGED <<now, tables, job, paid>>

Tick ==
    /\ now < MaxTime
    /\ now' = now + 1
    /\ UNCHANGED <<tables, job, scan, faults, paid>>

CreateStep(w) == CreateCheckSlot(w) \/ CreateCheckCredits(w) \/ CreateCommit(w)
StatusStep(w) == StatusRead(w) \/ ConfirmCharge(w) \/ StatusCommit(w)
RescheduleStep(w) ==
    \/ RescheduleRead(w) \/ RescheduleCheckSlot(w)
    \/ RescheduleCheckCredits(w) \/ RescheduleCommit(w)
MaintenanceStep(w) ==
    \/ MaintenanceRead(w) \/ MaintenanceFind(w)
    \/ MaintenanceCommit(w) \/ MaintenanceEnd(w)

Next ==
    \/ \E w \in Workers : \/ CreateStep(w) \/ StatusStep(w) \/ RescheduleStep(w)
                          \/ MaintenanceStep(w) \/ RequestFails(w)
    \/ \E r \in Resources : UpdateResourceFlag(r)
    \/ \E c \in Crons : CronSelect(c) \/ CronFails(c)
    \/ AutoCancel \/ AutoCheckIn \/ AutoComplete
    \/ Tick

Spec == Init /\ [][Next]_vars

\* What a request handler does once it has begun.
Proceed(w) ==
    \/ CreateCheckCredits(w) \/ CreateCommit(w) \/ ConfirmCharge(w) \/ StatusCommit(w)
    \/ RescheduleCheckSlot(w) \/ RescheduleCheckCredits(w) \/ RescheduleCommit(w)
    \/ MaintenanceFind(w) \/ MaintenanceCommit(w) \/ MaintenanceEnd(w)

\* Time passes, the crons are scheduled every minute and what they begin they
\* finish; a request that was begun is run to its end.
FairSpec ==
    /\ Spec
    /\ WF_vars(Tick)
    /\ \A c \in Crons : WF_vars(CronSelect(c))
    /\ WF_vars(AutoCancel) /\ WF_vars(AutoCheckIn) /\ WF_vars(AutoComplete)
    /\ \A w \in Workers : WF_vars(Proceed(w))

-----------------------------------------------------------------------------
(* Safety.                                                                 *)

Clash(i, j) ==
    i # j /\ Overlaps(bookings[i].start, bookings[i].end, bookings[j].start, bookings[j].end)

\* No two pending or confirmed bookings of a resource come closer than the
\* buffer: what the overlap queries of create and reschedule are there for.
NoOverlap ==
    \A r \in Resources : \A i, j \in OnResource(r, Active) : ~Clash(i, j)

\* The window a handler is about to write is still free, from its overlap query
\* on (a change of status relies on the one that was made for the booking).
CheckedSlotStaysFree ==
    \A w \in Workers :
        LET j == job[w]
        IN  /\ j.op = "create" => SlotFree(j.res, j.start, j.end, {})
            /\ j.op = "reschedule" =>
                 j.step = "slot" \/ SlotFree(bookings[j.id].res, j.start, j.end, {j.id})
            /\ j.op = "status" =>
                 \/ j.to \notin Active
                 \/ SlotFree(bookings[j.id].res, bookings[j.id].start, bookings[j.id].end, {j.id})

\* The resource's calendar as the overlap queries see it.
Window == [i \in Created |-> [res |-> bookings[i].res, start |-> bookings[i].start,
                              end |-> bookings[i].end]]
Held == {i \in Ids : bookings[i].status \in Active}
TheSchedule == INSTANCE Schedule WITH window <- Window, held <- Held

\* The chain of steps of create, reschedule and status, from the overlap query to
\* the commit, is as good as one step that checks and writes: the rows implement
\* Schedule.
KeepsSchedule == TheSchedule!Spec

\* A confirmation has charged booking i and not yet written its status.
BeingConfirmed(i) ==
    \E w \in Workers : At(w, "status", "commit") /\ job[w].id = i
                       /\ job[w].seen.status = "PENDING" /\ job[w].to = "CONFIRMED"

\* Every balance covers the pending bookings it was checked for, so each of
\* them can still be confirmed: no other booking, reschedule or confirmation
\* has spent the credits a pending booking was accepted on.
Reserved ==
    \A u \in Users : credits[u] >= PendingCredits(u, {i \in Ids : BeingConfirmed(i)})

\* What a user has paid for a booking is what its status says: all of it while
\* the booking stands or was used, nothing while it waits or was rejected,
\* nothing or half of it once it is cancelled.
PaidAsStatusSays ==
    \A i \in Created :
        LET b == bookings[i]
        IN  paid[i] \in CASE b.status \in {"CONFIRMED", "CHECKED_IN", "COMPLETED"} -> {b.cost}
                          [] b.status = "CANCELLED" -> {0, b.cost - b.cost \div 2}
                          [] OTHER -> {IF BeingConfirmed(i) THEN b.cost ELSE 0}

\* A resource under maintenance has no booking ahead: switching it on cancels
\* them and create and reschedule refuse new ones.
MaintenanceIsClear ==
    \A r \in Resources : maintenance[r] => \A i \in OnResource(r, Active) : bookings[i].end < now

\* The booking a resource is occupied by is checked in on that resource.
OccupantIsCheckedIn ==
    \A r \in Resources : current[r] # NoId => current[r] \in OnResource(r, {"CHECKED_IN"})

\* A booking that reached its end, rejected, cancelled or completed, stays so.
TerminalIsFinal ==
    [][\A i \in Ids : bookings[i].status \in Terminal
                        => bookings'[i].status = bookings[i].status]_vars

-----------------------------------------------------------------------------
(* Liveness.                                                               *)

\* Every booking whose time is over ends up rejected, cancelled or completed
\* for good, whatever requests and failures come in between.
EventuallySettled ==
    \A i \in Ids : <>[](bookings[i].status \in Terminal \cup {"none"})
=============================================================================
