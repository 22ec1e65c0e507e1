--------------------------- MODULE BookingsProofs ---------------------------
(***************************************************************************)
(* Theorems about Bookings, for any bookings, users, resources, handlers   *)
(* and times: types; no overlap, and the refinement of Schedule; what ends *)
(* bookings and occupies resources; what was paid and what is reserved.    *)
(***************************************************************************)
EXTENDS Bookings, Sums, TLAPS

LEMMA UnusedIsBooking == Unused \in Booking
  BY NonEmptyAssumption, BoundsAssumption DEF Unused, Booking, Slots

LEMMA CostType ==
  ASSUME NEW s \in Slots, NEW e \in Slots, s < e
  PROVE  Cost(s, e) \in Nat
<1>1. s \in Int /\ e \in Int /\ e - s \in Nat
  BY BoundsAssumption DEF Slots
<1>2. \A k \in Nat : k * Rate \in Nat
  BY BoundsAssumption
<1>3. QED
  BY <1>1, <1>2 DEF Cost

LEMMA RowsInit == Init => RowsOK
  BY UnusedIsBooking, BoundsAssumption DEF Init, RowsOK, Times, Job, Idle, Crons

\* What the name of a handler says of its locals.
LEMMA JobKinds ==
  ASSUME NEW j \in Job
  PROVE  /\ j.op = "create" => j \in CreateJob
         /\ j.op = "reschedule" => j \in RescheduleJob
         /\ j.op = "status" => j \in StatusJob
         /\ j.op = "maintenance" /\ j.step = "find" => j \in FindJob
         /\ j.op = "maintenance" /\ j.step = "commit" => j \in CancelJob
  BY DEF Job, Idle, CreateJob, RescheduleJob, StatusJob, FindJob, CancelJob

LEMMA CreateRows ==
  ASSUME RowsOK, NEW w \in Workers, CreateStep(w)
  PROVE  RowsOK'
<1>1. CASE CreateCheckSlot(w)
  BY <1>1 DEF CreateCheckSlot, RowsOK, Start, Job, CreateJob, Active, tables
<1>2. CASE CreateCheckCredits(w)
  <2>1. job[w] \in CreateJob
    BY <1>2, JobKinds DEF CreateCheckCredits, At, RowsOK
  <2>2. CASE Advance(w, "commit")
    BY <1>2, <2>1, <2>2 DEF CreateCheckCredits, RowsOK, Advance, Job, CreateJob, tables
  <2>3. CASE Return(w)
    BY <1>2, <2>1, <2>3 DEF CreateCheckCredits, RowsOK, Return, Job, Idle, tables
  <2>4. QED
    BY <1>2, <2>2, <2>3 DEF CreateCheckCredits
<1>3. CASE CreateCommit(w)
  <2>1. job[w] \in CreateJob
    BY <1>3, JobKinds DEF CreateCommit, At, RowsOK
  <2>2. Cost(job[w].start, job[w].end) \in Nat
    BY <1>3, <2>1, CostType DEF CreateCommit, At, RowsOK, CreateJob
  <2>3. bookings' \in [Ids -> Booking] /\ paid' \in [Ids -> Int]
    BY <1>3, <2>1, <2>2 DEF CreateCommit, RowsOK, CreateJob, Booking, Active, Statuses
  <2>4. QED
    BY <1>3, <2>3 DEF CreateCommit, RowsOK, Return, Job, Idle
<1>4. QED
  BY <1>1, <1>2, <1>3 DEF CreateStep

LEMMA StatusRows ==
  ASSUME RowsOK, NEW w \in Workers, StatusStep(w)
  PROVE  RowsOK'
<1>1. CASE StatusRead(w)
  BY <1>1 DEF StatusRead, RowsOK, Start, Job, StatusJob, Created, tables
<1>2. CASE ConfirmCharge(w)
  <2>1. job[w] \in StatusJob
    BY <1>2, JobKinds DEF ConfirmCharge, At, RowsOK
  <2>2. job' \in [Workers -> Job] /\ job'[w].op = "status"
    BY <1>2, <2>1 DEF ConfirmCharge, RowsOK, Advance, Job, StatusJob
  <2>3. paid' \in [Ids -> Int]
    BY <1>2, <2>1 DEF ConfirmCharge, RowsOK, StatusJob, Booking
  <2>4. QED
    BY <1>2, <2>2, <2>3 DEF ConfirmCharge, RowsOK, Advance
<1>3. CASE StatusCommit(w)
  <2>1. job[w] \in StatusJob
    BY <1>3, JobKinds DEF StatusCommit, At, RowsOK
  <2>2. Refund(job[w]) \in Int
    BY <2>1 DEF Refund, StatusJob, Booking
  <2>3. bookings' \in [Ids -> Booking]
    BY <1>3, <2>1 DEF StatusCommit, RowsOK, StatusJob, Booking
  <2>4. paid' \in [Ids -> Int]
    BY <1>3, <2>1, <2>2 DEF StatusCommit, RowsOK, StatusJob
  <2>5. current' \in [Resources -> Ids \cup {NoId}]
    BY <1>3, <2>1 DEF StatusCommit, RowsOK, StatusJob, Booking
  <2>6. QED
    BY <1>3, <2>3, <2>4, <2>5 DEF StatusCommit, RowsOK, Return, Job, Idle
<1>4. QED
  BY <1>1, <1>2, <1>3 DEF StatusStep

LEMMA RescheduleRows ==
  ASSUME RowsOK, NEW w \in Workers, RescheduleStep(w)
  PROVE  RowsOK'
<1>1. CASE RescheduleRead(w)
  BY <1>1 DEF RescheduleRead, RowsOK, Start, Job, RescheduleJob, Created, tables, Slots
<1>2. CASE RescheduleCheckSlot(w) \/ RescheduleCheckCredits(w)
  <2>1. job[w] \in RescheduleJob
    BY <1>2, JobKinds DEF RescheduleCheckSlot, RescheduleCheckCredits, At, RowsOK
  <2>2. UNCHANGED <<now, tables, scan, faults, paid>>
    BY <1>2 DEF RescheduleCheckSlot, RescheduleCheckCredits
  <2>3. CASE Return(w)
    BY <2>1, <2>2, <2>3 DEF RowsOK, Return, Job, Idle, tables
  <2>4. CASE Advance(w, "credits") \/ Advance(w, "commit")
    BY <2>1, <2>2, <2>4 DEF RowsOK, Advance, Job, RescheduleJob, tables
  <2>5. QED
    BY <1>2, <2>3, <2>4 DEF RescheduleCheckSlot, RescheduleCheckCredits
<1>3. CASE RescheduleCommit(w)
  <2>1. job[w] \in RescheduleJob
    BY <1>3, JobKinds DEF RescheduleCommit, At, RowsOK
  <2>2. Cost(job[w].start, job[w].end) \in Nat
    BY <1>3, <2>1, CostType DEF RescheduleCommit, At, RowsOK, RescheduleJob
  <2>3. HowMuchToPay(job[w]) \in Int
    BY <2>1, <2>2 DEF HowMuchToPay, RescheduleJob, Booking
  <2>4. bookings' \in [Ids -> Booking]
    BY <1>3, <2>1, <2>2 DEF RescheduleCommit, RowsOK, RescheduleJob, Booking
  <2>5. paid' \in [Ids -> Int]
    BY <1>3, <2>1, <2>3 DEF RescheduleCommit, RowsOK, RescheduleJob
  <2>6. QED
    BY <1>3, <2>4, <2>5 DEF RescheduleCommit, RowsOK, Return, Job, Idle
<1>4. QED
  BY <1>1, <1>2, <1>3 DEF RescheduleStep

LEMMA MaintenanceRows ==
  ASSUME RowsOK, NEW w \in Workers, MaintenanceStep(w)
  PROVE  RowsOK'
<1>1. CASE MaintenanceRead(w)
  BY <1>1 DEF MaintenanceRead, RowsOK, Start, Job, FindJob, tables
<1>2. CASE MaintenanceFind(w)
  <2>1. job[w] \in FindJob
    BY <1>2, JobKinds DEF MaintenanceFind, At, RowsOK
  <2>2. [i \in Ids |-> IF i \in Upcoming(job[w].res) THEN bookings[i] ELSE Unused]
          \in [Ids -> Booking]
    BY UnusedIsBooking DEF RowsOK
  <2>3. job' \in [Workers -> Job] /\ job'[w].op = "maintenance"
    BY <1>2, <2>1, <2>2 DEF MaintenanceFind, RowsOK, Job, CancelJob, FindJob
  <2>4. QED
    BY <1>2, <2>3 DEF MaintenanceFind, RowsOK, tables
<1>3. CASE MaintenanceCommit(w)
  <2>1. job[w] \in CancelJob
    BY <1>3, JobKinds DEF MaintenanceCommit, At, RowsOK
  <2>2. bookings' \in [Ids -> Booking]
    BY <1>3 DEF MaintenanceCommit, RowsOK, SetStatus, Booking, Statuses
  <2>3. paid' \in [Ids -> Int]
    BY <1>3, <2>1 DEF MaintenanceCommit, RowsOK, CancelJob, Booking
  <2>4. maintenance' \in [Resources -> BOOLEAN]
    BY <1>3, <2>1 DEF MaintenanceCommit, RowsOK, CancelJob
  <2>5. QED
    BY <1>3, <2>2, <2>3, <2>4 DEF MaintenanceCommit, RowsOK, Return, Job, Idle
<1>4. CASE MaintenanceEnd(w)
  BY <1>4 DEF MaintenanceEnd, RowsOK, Return, Job, Idle
<1>5. QED
  BY <1>1, <1>2, <1>3, <1>4 DEF MaintenanceStep

\* A change of status leaves a row a row.
LEMMA SetStatusRows ==
  ASSUME RowsOK, NEW ids, NEW to \in Statuses, SetStatus(ids, to)
  PROVE  bookings' \in [Ids -> Booking]
<1>1. ASSUME NEW i \in Ids PROVE [bookings[i] EXCEPT !.status = to] \in Booking
  BY <1>1 DEF RowsOK, Booking
<1>2. QED
  BY <1>1 DEF SetStatus, RowsOK

\* The crons, the clock, the flag and the failures.
LEMMA OtherRows ==
  ASSUME RowsOK,
         \/ \E w \in Workers : RequestFails(w)
         \/ \E r \in Resources : UpdateResourceFlag(r)
         \/ \E c \in Crons : CronSelect(c) \/ CronFails(c)
         \/ AutoCancel \/ AutoCheckIn \/ AutoComplete \/ Tick
  PROVE  RowsOK'
<1>1. ASSUME NEW w \in Workers, RequestFails(w) PROVE RowsOK'
  BY <1>1, BoundsAssumption DEF RequestFails, RowsOK, Return, Job, Idle, tables
<1>2. ASSUME NEW r \in Resources, UpdateResourceFlag(r) PROVE RowsOK'
  BY <1>2 DEF UpdateResourceFlag, RowsOK
<1>3. ASSUME NEW c \in Crons, CronSelect(c) PROVE RowsOK'
  BY <1>3 DEF CronSelect, RowsOK, Due, tables
<1>4. ASSUME NEW c \in Crons, CronFails(c) PROVE RowsOK'
  BY <1>4, BoundsAssumption DEF CronFails, RowsOK, tables
<1>5. CASE AutoCancel
  <2>1. bookings' \in [Ids -> Booking]
    BY <1>5, SetStatusRows DEF AutoCancel, Statuses
  <2>2. QED
    BY <1>5, <2>1 DEF AutoCancel, RowsOK
<1>6. CASE AutoCheckIn
  <2>1. bookings' \in [Ids -> Booking]
    BY <1>6, SetStatusRows DEF AutoCheckIn, Statuses
  <2>2. QED
    BY <1>6, <2>1 DEF AutoCheckIn, RowsOK, ScanOf
<1>7. CASE AutoComplete
  <2>1. bookings' \in [Ids -> Booking]
    BY <1>7, SetStatusRows DEF AutoComplete, Statuses
  <2>2. QED
    BY <1>7, <2>1 DEF AutoComplete, RowsOK, ScanOf
<1>8. CASE Tick
  BY <1>8, BoundsAssumption DEF Tick, RowsOK, Times, tables
<1>9. QED
  BY <1>1, <1>2, <1>3, <1>4, <1>5, <1>6, <1>7, <1>8

LEMMA RowsStep == ASSUME RowsOK, [Next]_vars PROVE RowsOK'
<1>1. CASE UNCHANGED vars
  BY <1>1 DEF vars, RowsOK
<1>2. CASE Next
  BY <1>2, CreateRows, StatusRows, RescheduleRows, MaintenanceRows, OtherRows DEF Next
<1>3. QED
  BY <1>1, <1>2

\* Rows are well formed and no handler carries an empty window, whatever the
\* clients ask and however the handlers interleave.
THEOREM RowsCorrect == Spec => []RowsOK
<1>1. RowsOK /\ [Next]_vars => RowsOK'
  BY RowsStep
<1>2. QED
  BY RowsInit, <1>1, PTL DEF Spec

\* Balances stay whole numbers too: a refund is one, or fails.
LEMMA TypeStep == ASSUME TypeOK, [Next]_vars PROVE TypeOK'
<1> USE DEF TypeOK
<1>1. RowsOK'
  BY RowsStep
<1>2. ASSUME NEW w \in Workers, CreateCommit(w) PROVE credits' \in [Users -> Int]
  <2>1. job[w] \in CreateJob
    BY <1>2, JobKinds DEF CreateCommit, At, RowsOK
  <2>2. Cost(job[w].start, job[w].end) \in Nat
    BY <1>2, <2>1, CostType DEF CreateCommit, At, RowsOK, CreateJob
  <2>3. QED
    BY <1>2, <2>1, <2>2 DEF CreateCommit, CreateJob
<1>3. ASSUME NEW w \in Workers, ConfirmCharge(w) \/ StatusCommit(w)
      PROVE  credits' \in [Users -> Int]
  <2>1. job[w] \in StatusJob
    BY <1>3, JobKinds DEF ConfirmCharge, StatusCommit, At, RowsOK
  <2>2. Refund(job[w]) \in Int
    BY <2>1 DEF Refund, StatusJob, Booking
  <2>3. QED
    BY <1>3, <2>1, <2>2 DEF ConfirmCharge, StatusCommit, StatusJob, Booking
<1>4. ASSUME NEW w \in Workers, RescheduleCommit(w) PROVE credits' \in [Users -> Int]
  <2>1. job[w] \in RescheduleJob
    BY <1>4, JobKinds DEF RescheduleCommit, At, RowsOK
  <2>2. Cost(job[w].start, job[w].end) \in Nat
    BY <1>4, <2>1, CostType DEF RescheduleCommit, At, RowsOK, RescheduleJob
  <2>3. HowMuchToPay(job[w]) \in Int
    BY <2>1, <2>2 DEF HowMuchToPay, RescheduleJob, Booking
  <2>4. QED
    BY <1>4, <2>1, <2>3 DEF RescheduleCommit, RescheduleJob, Booking
<1>5. ASSUME NEW w \in Workers, MaintenanceCommit(w) PROVE credits' \in [Users -> Int]
  <2>1. job[w] \in CancelJob
    BY <1>5, JobKinds DEF MaintenanceCommit, At, RowsOK
  <2> DEFINE costs == [i \in Ids |-> job[w].seen[i].cost]
             of(u) == {i \in {i \in Ids : job[w].seen[i].status = "CONFIRMED"} : job[w].seen[i].user = u}
  <2>2. \A i \in Ids : costs[i] \in Int
    BY <2>1 DEF CancelJob, Booking
  <2>3. ASSUME NEW u \in Users PROVE SumFunctionOnSet(costs, of(u)) \in Int
    <3>1. IsFiniteSet(of(u)) /\ of(u) \subseteq Ids
      BY FiniteAssumption, FS_Subset
    <3> HIDE DEF costs, of
    <3>2. QED
      BY <2>2, <3>1, SumIsInt
  <2>4. credits' = [u \in Users |-> credits[u] + SumFunctionOnSet(costs, of(u))]
    BY <1>5 DEF MaintenanceCommit
  <2> HIDE DEF costs, of
  <2>5. QED
    BY <2>3, <2>4
<1>6. CASE UNCHANGED credits
  BY <1>1, <1>6
<1>7. ASSUME NEW w \in Workers,
             CreateStep(w) \/ StatusStep(w) \/ RescheduleStep(w) \/ MaintenanceStep(w)
      PROVE  TypeOK'
  <2>1. ASSUME CreateCheckSlot(w) \/ CreateCheckCredits(w) PROVE UNCHANGED credits
    BY <2>1 DEF CreateCheckSlot, CreateCheckCredits, tables
  <2>2. ASSUME StatusRead(w) PROVE UNCHANGED credits
    BY <2>2 DEF StatusRead, tables
  <2>3. ASSUME RescheduleRead(w) \/ RescheduleCheckSlot(w) \/ RescheduleCheckCredits(w)
        PROVE  UNCHANGED credits
    BY <2>3 DEF RescheduleRead, RescheduleCheckSlot, RescheduleCheckCredits, tables
  <2>4. ASSUME MaintenanceRead(w) \/ MaintenanceFind(w) \/ MaintenanceEnd(w)
        PROVE  UNCHANGED credits
    BY <2>4 DEF MaintenanceRead, MaintenanceFind, MaintenanceEnd, tables
  <2>5. QED
    BY <1>1, <1>2, <1>3, <1>4, <1>5, <1>6, <1>7, <2>1, <2>2, <2>3, <2>4
       DEF CreateStep, StatusStep, RescheduleStep, MaintenanceStep
<1>8. ASSUME \/ \E w \in Workers : RequestFails(w)
             \/ \E r \in Resources : UpdateResourceFlag(r)
             \/ \E c \in Crons : CronSelect(c) \/ CronFails(c)
             \/ AutoCancel \/ AutoCheckIn \/ AutoComplete \/ Tick \/ UNCHANGED vars
      PROVE  UNCHANGED credits
  BY <1>8 DEF RequestFails, UpdateResourceFlag, CronSelect, CronFails, AutoCancel, AutoCheckIn,
              AutoComplete, Tick, tables, vars
<1>9. QED
  BY <1>6, <1>7, <1>8 DEF Next

\* Every reachable state is well typed, for all values of the constants: rows
\* are rows, balances are whole numbers, no handler holds a row it cannot have read.
THEOREM TypeCorrect == Spec => []TypeOK
<1>1. Init => TypeOK
  BY RowsInit, BoundsAssumption DEF Init, TypeOK
<1>2. TypeOK /\ [Next]_vars => TypeOK'
  BY TypeStep
<1>3. QED
  BY <1>1, <1>2, PTL DEF Spec

-----------------------------------------------------------------------------
(* What one step may do to the handlers' locals.                           *)

LEMMA StartsAs ==
  ASSUME RowsOK, NEW w \in Workers, NEW j, Start(w, j)
  PROVE  job[w].op = "idle" /\ job'[w] = j /\ \A v \in Workers \ {w} : job'[v] = job[v]
  BY DEF Start, Idle, RowsOK

LEMMA Returns ==
  ASSUME RowsOK, NEW w \in Workers, Return(w)
  PROVE  job'[w] = Idle /\ job'[w].op = "idle" /\ \A v \in Workers \ {w} : job'[v] = job[v]
  BY DEF Return, Idle, RowsOK

\* A handler that goes on keeps everything but its place.
LEMMA GoesOn ==
  ASSUME RowsOK, NEW w \in Workers, NEW step, Advance(w, step)
  PROVE  job'[w] = [job[w] EXCEPT !.step = step] /\ \A v \in Workers \ {w} : job'[v] = job[v]
  BY DEF Advance, RowsOK

\* A step of a handler is that handler's only, and makes it one of another kind
\* only by way of Idle.
LEMMA CreateJobs ==
  ASSUME RowsOK, NEW w \in Workers, CreateStep(w)
  PROVE  /\ \A v \in Workers \ {w} : job'[v] = job[v]
         /\ job[w].op \in {"idle", "create"} /\ job'[w].op \in {"idle", "create"}
<1>1. CASE CreateCheckSlot(w)
  BY <1>1, StartsAs DEF CreateCheckSlot
<1>2. CASE CreateCheckCredits(w)
  <2>1. job[w] \in CreateJob /\ job[w].op = "create"
    BY <1>2, JobKinds DEF CreateCheckCredits, At, RowsOK
  <2>2. CASE Return(w)
    BY <2>1, <2>2, Returns
  <2>3. CASE Advance(w, "commit")
    BY <2>1, <2>3, GoesOn DEF CreateJob
  <2>4. QED
    BY <1>2, <2>2, <2>3 DEF CreateCheckCredits
<1>3. CASE CreateCommit(w)
  <2>1. Return(w) /\ job[w].op = "create"
    BY <1>3 DEF CreateCommit, At
  <2>2. QED
    BY <2>1, Returns
<1>4. QED
  BY <1>1, <1>2, <1>3 DEF CreateStep

LEMMA StatusJobs ==
  ASSUME RowsOK, NEW w \in Workers, StatusStep(w)
  PROVE  /\ \A v \in Workers \ {w} : job'[v] = job[v]
         /\ job[w].op \in {"idle", "status"} /\ job'[w].op \in {"idle", "status"}
<1>1. CASE StatusRead(w)
  BY <1>1, StartsAs DEF StatusRead
<1>2. CASE ConfirmCharge(w)
  <2>1. job[w] \in StatusJob /\ job[w].op = "status" /\ Advance(w, "commit")
    BY <1>2, JobKinds DEF ConfirmCharge, At, RowsOK
  <2>2. QED
    BY <2>1, GoesOn DEF StatusJob
<1>3. CASE StatusCommit(w)
  <2>1. Return(w) /\ job[w].op = "status"
    BY <1>3 DEF StatusCommit, At
  <2>2. QED
    BY <2>1, Returns
<1>4. QED
  BY <1>1, <1>2, <1>3 DEF StatusStep

LEMMA RescheduleJobs ==
  ASSUME RowsOK, NEW w \in Workers, RescheduleStep(w)
  PROVE  /\ \A v \in Workers \ {w} : job'[v] = job[v]
         /\ job[w].op \in {"idle", "reschedule"} /\ job'[w].op \in {"idle", "reschedule"}
<1>1. CASE RescheduleRead(w)
  BY <1>1, StartsAs DEF RescheduleRead
<1>2. CASE RescheduleCheckSlot(w) \/ RescheduleCheckCredits(w)
  <2>1. job[w] \in RescheduleJob /\ job[w].op = "reschedule"
    BY <1>2, JobKinds DEF RescheduleCheckSlot, RescheduleCheckCredits, At, RowsOK
  <2>2. CASE Return(w)
    BY <2>1, <2>2, Returns
  <2>3. CASE Advance(w, "credits") \/ Advance(w, "commit")
    BY <2>1, <2>3, GoesOn DEF RescheduleJob
  <2>4. QED
    BY <1>2, <2>2, <2>3 DEF RescheduleCheckSlot, RescheduleCheckCredits
<1>3. CASE RescheduleCommit(w)
  <2>1. Return(w) /\ job[w].op = "reschedule"
    BY <1>3 DEF RescheduleCommit, At
  <2>2. QED
    BY <2>1, Returns
<1>4. QED
  BY <1>1, <1>2, <1>3 DEF RescheduleStep

LEMMA MaintenanceJobs ==
  ASSUME RowsOK, NEW w \in Workers, MaintenanceStep(w)
  PROVE  /\ \A v \in Workers \ {w} : job'[v] = job[v]
         /\ job[w].op \in {"idle", "maintenance"} /\ job'[w].op \in {"idle", "maintenance"}
<1>1. CASE MaintenanceRead(w)
  BY <1>1, StartsAs DEF MaintenanceRead
<1>2. CASE MaintenanceFind(w)
  BY <1>2 DEF MaintenanceFind, At, RowsOK
<1>3. CASE MaintenanceCommit(w) \/ MaintenanceEnd(w)
  <2>1. Return(w) /\ job[w].op = "maintenance"
    BY <1>3 DEF MaintenanceCommit, MaintenanceEnd, At
  <2>2. QED
    BY <2>1, Returns
<1>4. QED
  BY <1>1, <1>2, <1>3 DEF MaintenanceStep

LEMMA FailsIdle ==
  ASSUME RowsOK, NEW w \in Workers, RequestFails(w)
  PROVE  job'[w].op = "idle" /\ \A v \in Workers \ {w} : job'[v] = job[v]
  BY Returns DEF RequestFails

LEMMA ScanKept ==
  ASSUME NEW w \in Workers,
         \/ CreateStep(w) \/ StatusStep(w) \/ RescheduleStep(w) \/ MaintenanceStep(w)
         \/ RequestFails(w)
  PROVE  scan' = scan /\ now' = now
<1>1. CASE CreateStep(w) \/ StatusStep(w)
  BY <1>1 DEF CreateStep, CreateCheckSlot, CreateCheckCredits, CreateCommit, StatusStep,
              StatusRead, ConfirmCharge, StatusCommit
<1>2. CASE RescheduleStep(w) \/ MaintenanceStep(w) \/ RequestFails(w)
  BY <1>2 DEF RescheduleStep, RescheduleRead, RescheduleCheckSlot, RescheduleCheckCredits,
              RescheduleCommit, MaintenanceStep, MaintenanceRead, MaintenanceFind,
              MaintenanceCommit, MaintenanceEnd, RequestFails
<1>3. QED
  BY <1>1, <1>2

-----------------------------------------------------------------------------
(* What one step writes into the rows of bookings.                         *)

\* Row i keeps its user, resource, window and cost and gets status to.
Turns(i, to) ==
    /\ bookings'[i].status = to
    /\ bookings'[i].user = bookings[i].user /\ bookings'[i].res = bookings[i].res
    /\ bookings'[i].start = bookings[i].start /\ bookings'[i].end = bookings[i].end
    /\ bookings'[i].cost = bookings[i].cost

LEMMA CreateWrites ==
  ASSUME RowsOK, NEW w \in Workers, CreateCommit(w)
  PROVE  /\ job[w] \in CreateJob /\ Cost(job[w].start, job[w].end) \in Nat
         /\ \E i \in Ids :
              /\ bookings[i].status = "none"
              /\ \A k \in Ids \ {i} : bookings'[k] = bookings[k]
              /\ bookings'[i] = [status |-> job[w].status, user |-> job[w].user, res |-> job[w].res,
                                 start |-> job[w].start, end |-> job[w].end,
                                 cost |-> Cost(job[w].start, job[w].end)]
<1>1. job[w] \in CreateJob
  BY JobKinds DEF CreateCommit, At, RowsOK
<1>2. Cost(job[w].start, job[w].end) \in Nat
  BY <1>1, CostType DEF CreateCommit, At, RowsOK, CreateJob
<1>3. QED
  BY <1>1, <1>2 DEF CreateCommit, RowsOK, Created

LEMMA StatusWrites ==
  ASSUME RowsOK, NEW w \in Workers, StatusCommit(w)
  PROVE  /\ job[w] \in StatusJob /\ job[w].id \in Ids /\ job[w].op = "status"
         /\ \A k \in Ids \ {job[w].id} : bookings'[k] = bookings[k]
         /\ RefundFits(job[w]) => Turns(job[w].id, job[w].to)
         /\ ~RefundFits(job[w]) => bookings' = bookings
<1>1. job[w] \in StatusJob /\ job[w].id \in Ids /\ job[w].op = "status"
  BY JobKinds DEF StatusCommit, At, RowsOK, StatusJob
<1>2. CASE RefundFits(job[w])
  <2>1. bookings' = [bookings EXCEPT ![job[w].id].status = job[w].to]
    BY <1>2 DEF StatusCommit
  <2>2. bookings[job[w].id] \in Booking
    BY <1>1 DEF RowsOK
  <2>3. bookings'[job[w].id] = [bookings[job[w].id] EXCEPT !.status = job[w].to]
    BY <1>1, <2>1 DEF RowsOK
  <2>4. Turns(job[w].id, job[w].to)
    BY <2>2, <2>3 DEF Turns, Booking
  <2>5. QED
    BY <1>1, <1>2, <2>1, <2>4 DEF RowsOK
<1>3. CASE ~RefundFits(job[w])
  BY <1>1, <1>3 DEF StatusCommit
<1>4. QED
  BY <1>2, <1>3

LEMMA RescheduleWrites ==
  ASSUME RowsOK, NEW w \in Workers, RescheduleCommit(w)
  PROVE  LET i == job[w].id
         IN  /\ job[w] \in RescheduleJob /\ i \in Ids /\ Cost(job[w].start, job[w].end) \in Nat
             /\ HowMuchToPay(job[w]) \in Int
             /\ \A k \in Ids \ {i} : bookings'[k] = bookings[k]
             /\ bookings'[i].status = bookings[i].status
             /\ bookings'[i].user = bookings[i].user /\ bookings'[i].res = bookings[i].res
             /\ bookings'[i].start = job[w].start /\ bookings'[i].end = job[w].end
             /\ bookings'[i].cost = Cost(job[w].start, job[w].end)
<1>1. job[w] \in RescheduleJob /\ job[w].op = "reschedule" /\ job[w].id \in Ids
  BY JobKinds DEF RescheduleCommit, At, RowsOK, RescheduleJob
<1>2. Cost(job[w].start, job[w].end) \in Nat
  BY <1>1, CostType DEF RowsOK, RescheduleJob
<1>3. HowMuchToPay(job[w]) \in Int
  BY <1>1, <1>2 DEF HowMuchToPay, RescheduleJob, Booking
<1>4. bookings[job[w].id] \in Booking
  BY <1>1 DEF RowsOK
<1>5. bookings'[job[w].id] = [bookings[job[w].id] EXCEPT !.start = job[w].start, !.end = job[w].end,
                                                       !.cost = Cost(job[w].start, job[w].end)]
  BY <1>1 DEF RescheduleCommit, RowsOK
<1>6. QED
  BY <1>1, <1>2, <1>3, <1>4, <1>5 DEF RescheduleCommit, RowsOK, Booking

LEMMA SetStatusWrites ==
  ASSUME RowsOK, NEW ids, NEW to, SetStatus(ids, to)
  PROVE  \A i \in Ids : IF i \in ids THEN Turns(i, to) ELSE bookings'[i] = bookings[i]
<1>1. \A i \in Ids : bookings[i] \in Booking
  BY DEF RowsOK
<1>2. \A i \in Ids : bookings'[i] = IF i \in ids THEN [bookings[i] EXCEPT !.status = to]
                                                ELSE bookings[i]
  BY DEF SetStatus
<1>3. QED
  BY <1>1, <1>2 DEF Turns, Booking

\* All the other steps leave the rows alone.
LEMMA OthersWriteNothing ==
  ASSUME [Next]_vars,
         \A w \in Workers : ~CreateCommit(w) /\ ~StatusCommit(w) /\ ~RescheduleCommit(w)
                            /\ ~MaintenanceCommit(w),
         ~AutoCancel, ~AutoCheckIn, ~AutoComplete
  PROVE  bookings' = bookings
<1>1. ASSUME NEW w \in Workers, CreateStep(w) \/ StatusStep(w) PROVE bookings' = bookings
  BY <1>1 DEF CreateStep, CreateCheckSlot, CreateCheckCredits, StatusStep, StatusRead,
              ConfirmCharge, tables
<1>2. ASSUME NEW w \in Workers, RescheduleStep(w) \/ MaintenanceStep(w) \/ RequestFails(w)
      PROVE  bookings' = bookings
  BY <1>2 DEF RescheduleStep, RescheduleRead, RescheduleCheckSlot, RescheduleCheckCredits,
              MaintenanceStep, MaintenanceRead, MaintenanceFind, MaintenanceEnd, RequestFails, tables
<1>3. ASSUME \/ \E r \in Resources : UpdateResourceFlag(r)
             \/ \E c \in Crons : CronSelect(c) \/ CronFails(c)
             \/ Tick \/ UNCHANGED vars
      PROVE  bookings' = bookings
  BY <1>3 DEF UpdateResourceFlag, CronSelect, CronFails, Tick, tables, vars
<1>4. QED
  BY <1>1, <1>2, <1>3 DEF Next

-----------------------------------------------------------------------------
(* No overlap, when no two handlers decide on one resource at a time and   *)
(* no client request revives a booking.  Handlers of other resources,      *)
(* crons, maintenance, rejections, cancellations and failures may come     *)
(* between any two steps.                                                  *)

NoRevival == \A s \in Statuses, t \in Active : <<s, t>> \in Transitions => s \in Active

\* A handler decides on a resource from its overlap query to its commit, or from the
\* read of a booking that it is to leave active.
Deciding(j) ==
    \/ j.op = "create"
    \/ j.op = "reschedule" /\ j.step # "slot"
    \/ j.op = "status" /\ j.to \in Active
ResourceOf(j) == IF j.op = "create" THEN j.res ELSE j.seen.res

\* What a lock on the resource would give: two handlers never decide on it at once.
OneDecides ==
    \A v, w \in Workers :
        Deciding(job[v]) /\ Deciding(job[w]) /\ ResourceOf(job[v]) = ResourceOf(job[w]) => v = w

\* A handler's booking exists and is on the resource it was read with.
SeenResource ==
    \A w \in Workers : job[w].op \in {"reschedule", "status"} =>
        /\ bookings[job[w].id].status # "none"
        /\ bookings[job[w].id].res = job[w].seen.res

IInv == RowsOK /\ NoOverlap /\ CheckedSlotStaysFree /\ SeenResource

\* What CheckedSlotStaysFree and SeenResource ask of one handler's locals.
Fits(j) ==
    /\ j.op = "create" => SlotFree(j.res, j.start, j.end, {})
    /\ j.op = "reschedule" =>
         j.step = "slot" \/ SlotFree(bookings[j.id].res, j.start, j.end, {j.id})
    /\ j.op = "status" =>
         j.to \notin Active \/ SlotFree(bookings[j.id].res, bookings[j.id].start, bookings[j.id].end, {j.id})
    /\ j.op \in {"reschedule", "status"} =>
         bookings[j.id].status # "none" /\ bookings[j.id].res = j.seen.res

LEMMA AllFit == ASSUME IInv, NEW w \in Workers PROVE Fits(job[w])
  BY DEF IInv, CheckedSlotStaysFree, SeenResource, Fits

\* What a step does that only takes bookings out of the calendar, and ends
\* handlers or starts ones that rest on no booking.
Withdraws ==
    \A i \in Ids :
        /\ bookings'[i].res = bookings[i].res
        /\ bookings'[i].start = bookings[i].start /\ bookings'[i].end = bookings[i].end
        /\ \/ bookings'[i].status = bookings[i].status
           \/ bookings'[i].status \notin Active \cup {"none"}
Bookers == {"create", "reschedule", "status"}
Releases == Withdraws /\ \A w \in Workers : job'[w] = job[w] \/ job'[w].op \notin Bookers

LEMMA WithdrawsKeepsNoOverlap ==
  ASSUME NoOverlap, Withdraws
  PROVE  NoOverlap'
<1>1. \A i \in Ids, r \in Resources : i \in OnResource(r, Active)' => i \in OnResource(r, Active)
  BY DEF Withdraws, OnResource
<1>2. QED
  BY <1>1 DEF NoOverlap, Clash, Overlaps, Withdraws, OnResource

LEMMA WithdrawsKeepsFit ==
  ASSUME RowsOK, NEW j \in Job, Fits(j), Withdraws
  PROVE  Fits(j)'
<1>1. j.op \in {"reschedule", "status"} => j.id \in Ids
  BY JobKinds DEF RescheduleJob, StatusJob
<1>2. QED
  BY <1>1 DEF Fits, SlotFree, OnResource, Overlaps, Withdraws

LEMMA ReleasesKeepIInv ==
  ASSUME IInv, RowsOK', Releases
  PROVE  IInv'
<1>1. NoOverlap'
  BY WithdrawsKeepsNoOverlap DEF IInv, Releases
<1>2. \A j \in Job : Fits(j) => Fits(j)'
  BY WithdrawsKeepsFit DEF IInv, Releases
<1>3. ASSUME NEW w \in Workers, job'[w] = job[w] PROVE Fits(job[w])'
  <2>1. job'[w] \in Job /\ Fits(job'[w])
    BY <1>3, AllFit DEF IInv, RowsOK
  <2> QED BY <1>2, <2>1 DEF Fits
<1>4. ASSUME NEW w \in Workers, job'[w].op \notin Bookers PROVE Fits(job[w])'
  BY <1>4 DEF Fits, Bookers
<1>5. QED
  BY <1>1, <1>3, <1>4 DEF IInv, CheckedSlotStaysFree, SeenResource, Fits, Releases

LEMMA OthersRelease ==
  ASSUME RowsOK,
         \/ \E w \in Workers : MaintenanceStep(w) \/ RequestFails(w)
         \/ \E r \in Resources : UpdateResourceFlag(r)
         \/ \E c \in Crons : CronSelect(c) \/ CronFails(c)
         \/ AutoCancel \/ AutoCheckIn \/ AutoComplete \/ Tick
  PROVE  Releases
<1> USE DEF Bookers
<1>1. RowsOK
  OBVIOUS
<1>2. ASSUME NEW w \in Workers, MaintenanceRead(w) PROVE Releases
  BY <1>1, <1>2 DEF MaintenanceRead, Start, Releases, Withdraws, RowsOK, tables
<1>3. ASSUME NEW w \in Workers, MaintenanceFind(w) PROVE Releases
  BY <1>1, <1>3 DEF MaintenanceFind, Releases, Withdraws, RowsOK, tables
<1>4. ASSUME NEW w \in Workers, MaintenanceCommit(w) PROVE Releases
  BY <1>1, <1>4 DEF MaintenanceCommit, SetStatus, Return, Idle, Releases, Withdraws, RowsOK, Booking, Active
<1>5. ASSUME NEW w \in Workers, MaintenanceEnd(w) \/ RequestFails(w) PROVE Releases
  BY <1>1, <1>5 DEF MaintenanceEnd, RequestFails, Return, Idle, Releases, Withdraws, RowsOK, tables
<1>6. ASSUME \/ \E r \in Resources : UpdateResourceFlag(r)
             \/ \E c \in Crons : CronSelect(c) \/ CronFails(c)
             \/ Tick
      PROVE  Releases
  BY <1>1, <1>6 DEF UpdateResourceFlag, CronSelect, CronFails, Tick, Releases, Withdraws, RowsOK, tables
<1>7. CASE AutoCancel \/ AutoCheckIn \/ AutoComplete
  BY <1>1, <1>7 DEF AutoCancel, AutoCheckIn, AutoComplete, SetStatus, Releases, Withdraws, RowsOK, Booking,
                    Active
<1>8. QED
  BY <1>2, <1>3, <1>4, <1>5, <1>6, <1>7 DEF MaintenanceStep

\* A step of one handler that writes no row.
LEMMA BookerGoesOn ==
  ASSUME IInv, RowsOK', bookings' = bookings, NEW w \in Workers, Fits(job[w])',
         \A v \in Workers \ {w} : job'[v] = job[v]
  PROVE  IInv'
<1>1. NoOverlap'
  BY DEF IInv, NoOverlap, Clash, OnResource
<1>2. ASSUME NEW v \in Workers \ {w} PROVE Fits(job[v])'
  BY AllFit DEF Fits, SlotFree, OnResource
<1>3. \A v \in Workers : Fits(job[v])'
  BY <1>2
<1> QED BY <1>1, <1>3 DEF IInv, CheckedSlotStaysFree, SeenResource, Fits

\* Writing one booking into a slot that is free for it makes no overlap.
LEMMA WritingAFreeSlot ==
  ASSUME RowsOK, RowsOK', NoOverlap, NEW i \in Ids,
         \A k \in Ids \ {i} : bookings'[k] = bookings[k],
         \/ bookings'[i].status \notin Active
         \/ SlotFree(bookings'[i].res, bookings'[i].start, bookings'[i].end, {i})
  PROVE  NoOverlap'
<1> SUFFICES ASSUME NEW r \in Resources, NEW k \in Ids, NEW m \in Ids, k # m,
                    k \in OnResource(r, Active)', m \in OnResource(r, Active)'
             PROVE  ~Overlaps(bookings'[k].start, bookings'[k].end,
                              bookings'[m].start, bookings'[m].end)
  BY DEF NoOverlap, OnResource, Clash
<1>1. \A x \in Ids : /\ bookings[x].start \in Int /\ bookings[x].end \in Int
                     /\ bookings'[x].start \in Int /\ bookings'[x].end \in Int
  BY BoundsAssumption DEF RowsOK, Booking, Slots
<1>2. CASE k # i /\ m # i
  BY <1>2 DEF NoOverlap, OnResource, Clash
<1>3. CASE k = i
  BY <1>1, <1>3, BoundsAssumption DEF SlotFree, OnResource, Overlaps
<1>4. CASE m = i
  BY <1>1, <1>4, BoundsAssumption DEF SlotFree, OnResource, Overlaps
<1>5. QED
  BY <1>2, <1>3, <1>4

\* It leaves what is decided on other resources as it is.
LEMMA WritingElsewhere ==
  ASSUME RowsOK, NEW i \in Ids, NEW j \in Job, Fits(j),
         \A k \in Ids \ {i} : bookings'[k] = bookings[k],
         bookings[i].status = "none" \/ bookings'[i].res = bookings[i].res,
         bookings'[i].status # "none",
         Deciding(j) => ResourceOf(j) # bookings'[i].res
  PROVE  Fits(j)'
<1>1. j.op \in {"reschedule", "status"} => j.id \in Ids
  BY JobKinds DEF RescheduleJob, StatusJob
<1>2. j.op \in {"reschedule", "status"} =>
        bookings'[j.id].status # "none" /\ bookings'[j.id].res = j.seen.res
  BY <1>1 DEF Fits
<1>3. ASSUME NEW r, NEW s, NEW e, NEW skip, SlotFree(r, s, e, skip), r # bookings'[i].res
      PROVE  SlotFree(r, s, e, skip)'
  BY <1>3 DEF SlotFree, OnResource
<1>4. CASE j.op = "create"
  BY <1>3, <1>4 DEF Fits, Deciding, ResourceOf
<1>5. CASE j.op = "reschedule" /\ j.step # "slot"
  <2>1. j.seen.res # bookings'[i].res
    BY <1>5 DEF Deciding, ResourceOf
  <2>2. bookings'[j.id].res = j.seen.res /\ bookings[j.id].res = j.seen.res
    BY <1>2, <1>5 DEF Fits
  <2>3. SlotFree(j.seen.res, j.start, j.end, {j.id})'
    BY <1>3, <1>5, <2>1, <2>2 DEF Fits
  <2> QED BY <1>2, <1>5, <2>2, <2>3 DEF Fits
<1>6. CASE j.op = "status" /\ j.to \in Active
  <2>1. j.seen.res # bookings'[i].res
    BY <1>6 DEF Deciding, ResourceOf
  <2>2. bookings'[j.id].res = j.seen.res /\ bookings[j.id].res = j.seen.res
    BY <1>2, <1>6 DEF Fits
  <2>3. j.id # i /\ bookings'[j.id] = bookings[j.id]
    BY <1>1, <1>6, <2>1, <2>2
  <2>4. SlotFree(j.seen.res, bookings[j.id].start, bookings[j.id].end, {j.id})'
    BY <1>3, <1>6, <2>1, <2>2, <2>3 DEF Fits
  <2> QED BY <1>2, <1>6, <2>2, <2>3, <2>4 DEF Fits
<1>7. CASE \/ j.op \notin Bookers
           \/ j.op = "reschedule" /\ j.step = "slot"
           \/ j.op = "status" /\ j.to \notin Active
  BY <1>2, <1>7 DEF Fits, Bookers
<1> QED BY <1>4, <1>5, <1>6, <1>7 DEF Bookers

\* The one handler that decides on a resource may write there what it found free.
LEMMA DeciderWrites ==
  ASSUME IInv, RowsOK', OneDecides, NEW w \in Workers, Deciding(job[w]), job'[w] = Idle,
         \A v \in Workers \ {w} : job'[v] = job[v],
         NEW i \in Ids,
         \A k \in Ids \ {i} : bookings'[k] = bookings[k],
         bookings[i].status = "none" \/ bookings'[i].res = bookings[i].res,
         bookings'[i].status # "none", bookings'[i].res = ResourceOf(job[w]),
         SlotFree(bookings'[i].res, bookings'[i].start, bookings'[i].end, {i})
  PROVE  IInv'
<1>0. RowsOK /\ NoOverlap
  BY DEF IInv
<1>1. NoOverlap'
  BY <1>0, WritingAFreeSlot
<1>2. ASSUME NEW v \in Workers \ {w} PROVE Fits(job[v])'
  <2>1. job[v] \in Job /\ Fits(job[v]) /\ job'[v] = job[v]
    BY <1>0, AllFit DEF RowsOK
  <2>2. Deciding(job[v]) => ResourceOf(job[v]) # bookings'[i].res
    BY DEF OneDecides
  <2>3. \A j \in Job : Fits(j) /\ (Deciding(j) => ResourceOf(j) # bookings'[i].res) => Fits(j)'
    BY <1>0, WritingElsewhere
  <2> QED BY <2>1, <2>2, <2>3 DEF Fits
<1>3. Fits(job[w])'
  BY DEF Fits, Idle
<1> QED BY <1>1, <1>2, <1>3 DEF IInv, CheckedSlotStaysFree, SeenResource, Fits

\* A handler that goes on to its next step, writing no row, rests on what it did.
LEMMA FitGoesOn ==
  ASSUME RowsOK, bookings' = bookings, NEW w \in Workers, NEW step, Advance(w, step),
         Fits(job[w]), job[w].op = "reschedule" => job[w].step # "slot"
  PROVE  Fits(job[w])'
<1>1. job'[w] = [job[w] EXCEPT !.step = step]
  BY GoesOn
<1>2. CASE job[w].op = "create"
  <2>1. job[w] \in CreateJob
    BY <1>2, JobKinds DEF RowsOK
  <2>2. /\ job'[w].op = "create" /\ job'[w].res = job[w].res
        /\ job'[w].start = job[w].start /\ job'[w].end = job[w].end
    BY <1>1, <1>2, <2>1 DEF CreateJob
  <2> QED BY <1>2, <2>2 DEF Fits, SlotFree, OnResource
<1>3. CASE job[w].op = "status"
  <2>1. job[w] \in StatusJob
    BY <1>3, JobKinds DEF RowsOK
  <2>2. /\ job'[w].op = "status" /\ job'[w].id = job[w].id
        /\ job'[w].seen = job[w].seen /\ job'[w].to = job[w].to
    BY <1>1, <1>3, <2>1 DEF StatusJob
  <2> QED BY <1>3, <2>2 DEF Fits, SlotFree, OnResource
<1>4. CASE job[w].op = "reschedule"
  <2>1. job[w] \in RescheduleJob
    BY <1>4, JobKinds DEF RowsOK
  <2>2. /\ job'[w].op = "reschedule" /\ job'[w].id = job[w].id /\ job'[w].seen = job[w].seen
        /\ job'[w].start = job[w].start /\ job'[w].end = job[w].end
    BY <1>1, <1>4, <2>1 DEF RescheduleJob
  <2> QED BY <1>4, <2>2 DEF Fits, SlotFree, OnResource
<1>5. CASE job[w].op \notin Bookers
  <2>1. job'[w].op = job[w].op
    BY <1>1, <1>5 DEF RowsOK, Job, Idle, FindJob, CancelJob, CreateJob, StatusJob, RescheduleJob
  <2> QED BY <1>5, <2>1 DEF Fits, Bookers
<1> QED BY <1>2, <1>3, <1>4, <1>5 DEF Bookers

LEMMA CreateKeepsIInv ==
  ASSUME IInv, RowsOK', OneDecides, NEW w \in Workers, CreateStep(w)
  PROVE  IInv'
<1>0. RowsOK
  BY DEF IInv
<1>1. CASE CreateCheckSlot(w)
  <2>1. PICK u \in Users, r \in Resources, s \in Slots, e \in Slots, a \in Active :
          /\ SlotFree(r, s, e, {})
          /\ Start(w, [op |-> "create", step |-> "credits", user |-> u, res |-> r,
                       start |-> s, end |-> e, status |-> a])
          /\ bookings' = bookings
    BY <1>1 DEF CreateCheckSlot, Active, tables
  <2>2. Fits(job[w])'
    BY <1>0, <2>1, StartsAs DEF Fits, SlotFree, OnResource
  <2>3. QED
    BY <1>0, <2>1, <2>2, StartsAs, BookerGoesOn
<1>2. CASE CreateCheckCredits(w)
  <2>1. bookings' = bookings /\ job[w].op = "create" /\ job[w] \in CreateJob
    BY <1>0, <1>2, JobKinds DEF CreateCheckCredits, At, RowsOK, tables
  <2>2. CASE Return(w)
    BY <1>0, <2>1, <2>2, Returns, BookerGoesOn DEF Fits
  <2>3. CASE Advance(w, "commit")
    <3>1. Fits(job[w])'
      BY <1>0, <2>1, <2>3, AllFit, FitGoesOn
    <3> QED BY <1>0, <2>1, <2>3, <3>1, GoesOn, BookerGoesOn
  <2>4. QED
    BY <1>2, <2>2, <2>3 DEF CreateCheckCredits
<1>3. CASE CreateCommit(w)
  <2>1. job[w] \in CreateJob /\ job[w].op = "create" /\ Return(w)
    BY <1>0, <1>3, CreateWrites DEF CreateJob, CreateCommit
  <2>2. SlotFree(job[w].res, job[w].start, job[w].end, {})
    BY <2>1, AllFit DEF Fits
  <2>3. PICK i \in Ids :
          /\ bookings[i].status = "none"
          /\ \A k \in Ids \ {i} : bookings'[k] = bookings[k]
          /\ bookings'[i] = [status |-> job[w].status, user |-> job[w].user, res |-> job[w].res,
                             start |-> job[w].start, end |-> job[w].end,
                             cost |-> Cost(job[w].start, job[w].end)]
    BY <1>0, <1>3, CreateWrites
  <2>4. /\ bookings'[i].status # "none" /\ bookings'[i].res = ResourceOf(job[w])
        /\ SlotFree(bookings'[i].res, bookings'[i].start, bookings'[i].end, {i})
    BY <2>1, <2>2, <2>3 DEF ResourceOf, SlotFree, CreateJob, Active
  <2>5. Deciding(job[w])
    BY <2>1 DEF Deciding
  <2>6. QED
    BY <1>0, <2>1, <2>3, <2>4, <2>5, Returns, DeciderWrites
<1>4. QED
  BY <1>1, <1>2, <1>3 DEF CreateStep

LEMMA StatusKeepsIInv ==
  ASSUME NoRevival, IInv, RowsOK', OneDecides, NEW w \in Workers, StatusStep(w)
  PROVE  IInv'
<1>0. RowsOK
  BY DEF IInv
<1>1. CASE StatusRead(w)
  <2>1. PICK i \in Ids, to \in Statuses, role \in Roles, step \in {"charge", "commit"} :
          /\ bookings[i].status # "none"
          /\ <<bookings[i].status, to>> \in Transitions
          /\ Start(w, [op |-> "status", step |-> step, id |-> i, seen |-> bookings[i],
                       to |-> to, role |-> role])
          /\ bookings' = bookings
    BY <1>1 DEF StatusRead, Created, tables
  <2>2. to \in Active => bookings[i].status \in Active
    BY <1>0, <2>1 DEF NoRevival, RowsOK, Booking
  <2>3. to \in Active => SlotFree(bookings[i].res, bookings[i].start, bookings[i].end, {i})
    <3>1. bookings[i].res \in Resources
      BY <1>0 DEF RowsOK, Booking
    <3>2. \A k \in Ids : /\ bookings[k].start \in Int /\ bookings[k].end \in Int
      BY <1>0, BoundsAssumption DEF RowsOK, Booking, Slots
    <3>3. QED
      BY <2>2, <3>1, <3>2 DEF IInv, NoOverlap, SlotFree, OnResource, Clash
  <2>4. Fits(job[w])'
    BY <1>0, <2>1, <2>3, StartsAs DEF Fits, SlotFree, OnResource
  <2>5. QED
    BY <1>0, <2>1, <2>4, StartsAs, BookerGoesOn
<1>2. CASE ConfirmCharge(w)
  <2>1. bookings' = bookings /\ job[w].op = "status" /\ Advance(w, "commit") /\ job[w] \in StatusJob
    BY <1>0, <1>2, JobKinds DEF ConfirmCharge, At, RowsOK
  <2>2. Fits(job[w])'
    BY <1>0, <2>1, AllFit, FitGoesOn
  <2>3. QED
    BY <1>0, <2>1, <2>2, GoesOn, BookerGoesOn
<1>3. CASE StatusCommit(w)
  <2>1. job[w] \in StatusJob /\ job[w].op = "status" /\ job[w].id \in Ids /\ Return(w)
    BY <1>0, <1>3, StatusWrites DEF StatusCommit
  <2>2. CASE bookings' = bookings
    BY <1>0, <2>1, <2>2, Returns, BookerGoesOn DEF Fits
  <2>3. CASE Turns(job[w].id, job[w].to) /\ job[w].to \notin Active
    <3>1. Withdraws
      BY <1>0, <1>3, <2>1, <2>3, StatusWrites
         DEF Withdraws, Turns, StatusJob, Statuses, Active, Terminal
    <3> QED BY <1>0, <2>1, <3>1, Returns, ReleasesKeepIInv DEF Releases, Bookers
  <2>4. CASE Turns(job[w].id, job[w].to) /\ job[w].to \in Active
    <3> DEFINE i == job[w].id
    <3>1. /\ \A k \in Ids \ {i} : bookings'[k] = bookings[k]
          /\ bookings'[i].res = bookings[i].res /\ bookings'[i].status # "none"
      BY <1>0, <1>3, <2>4, StatusWrites DEF Turns, Active
    <3>2. bookings'[i].res = ResourceOf(job[w]) /\ Deciding(job[w])
      BY <2>1, <2>4, AllFit DEF Fits, Turns, ResourceOf, Deciding
    <3>3. SlotFree(bookings'[i].res, bookings'[i].start, bookings'[i].end, {i})
      BY <2>1, <2>4, AllFit DEF Fits, Turns
    <3> QED BY <1>0, <2>1, <3>1, <3>2, <3>3, Returns, DeciderWrites
  <2>5. QED
    BY <1>0, <1>3, <2>2, <2>3, <2>4, StatusWrites
<1>4. QED
  BY <1>1, <1>2, <1>3 DEF StatusStep

LEMMA RescheduleKeepsIInv ==
  ASSUME IInv, RowsOK', OneDecides, NEW w \in Workers, RescheduleStep(w)
  PROVE  IInv'
<1>0. RowsOK
  BY DEF IInv
<1>1. CASE RescheduleRead(w)
  <2>1. PICK i \in Ids, s \in Slots, e \in Slots :
          /\ bookings[i].status # "none"
          /\ Start(w, [op |-> "reschedule", step |-> "slot", id |-> i, seen |-> bookings[i],
                       start |-> s, end |-> e])
          /\ bookings' = bookings
    BY <1>1 DEF RescheduleRead, Created, tables
  <2>2. Fits(job[w])'
    BY <1>0, <2>1, StartsAs DEF Fits
  <2>3. QED
    BY <1>0, <2>1, <2>2, StartsAs, BookerGoesOn
<1>2. CASE RescheduleCheckSlot(w) \/ RescheduleCheckCredits(w)
  <2>1. bookings' = bookings /\ job[w].op = "reschedule" /\ job[w] \in RescheduleJob
    BY <1>0, <1>2, JobKinds DEF RescheduleCheckSlot, RescheduleCheckCredits, At, RowsOK, tables
  <2>2. CASE Return(w)
    BY <1>0, <2>1, <2>2, Returns, BookerGoesOn DEF Fits
  <2>3. ASSUME NEW step \in {"credits", "commit"}, Advance(w, step),
               SlotFree(bookings[job[w].id].res, job[w].start, job[w].end, {job[w].id})
        PROVE  IInv'
    <3>1. Fits(job[w])'
      <4>1. job'[w] = [job[w] EXCEPT !.step = step]
        BY <1>0, <2>3, GoesOn
      <4>2. /\ job'[w].op = "reschedule" /\ job'[w].id = job[w].id /\ job'[w].seen = job[w].seen
            /\ job'[w].start = job[w].start /\ job'[w].end = job[w].end
        BY <2>1, <4>1 DEF RescheduleJob
      <4> QED BY <2>1, <2>3, <4>2, AllFit DEF Fits, SlotFree, OnResource
    <3>2. QED
      BY <1>0, <2>1, <2>3, <3>1, GoesOn, BookerGoesOn
  <2>4. SlotFree(job[w].seen.res, job[w].start, job[w].end, {job[w].id})
          => SlotFree(bookings[job[w].id].res, job[w].start, job[w].end, {job[w].id})
    BY <2>1 DEF IInv, SeenResource
  <2>5. CASE RescheduleCheckSlot(w)
    BY <2>2, <2>3, <2>4, <2>5 DEF RescheduleCheckSlot
  <2>6. CASE RescheduleCheckCredits(w)
    BY <2>1, <2>2, <2>3, <2>6 DEF RescheduleCheckCredits, At, IInv, CheckedSlotStaysFree
  <2>7. QED
    BY <1>2, <2>5, <2>6
<1>3. CASE RescheduleCommit(w)
  <2> DEFINE i == job[w].id
  <2>1. job[w].op = "reschedule" /\ job[w].step = "commit" /\ Return(w)
    BY <1>3 DEF RescheduleCommit, At
  <2>2. /\ i \in Ids /\ \A k \in Ids \ {i} : bookings'[k] = bookings[k]
        /\ bookings'[i].status = bookings[i].status /\ bookings'[i].res = bookings[i].res
        /\ bookings'[i].start = job[w].start /\ bookings'[i].end = job[w].end
    BY <1>0, <1>3, RescheduleWrites
  <2>3. /\ bookings'[i].status # "none" /\ bookings'[i].res = ResourceOf(job[w])
        /\ SlotFree(bookings'[i].res, bookings'[i].start, bookings'[i].end, {i})
    BY <2>1, <2>2, AllFit DEF Fits, ResourceOf
  <2>4. Deciding(job[w])
    BY <2>1 DEF Deciding
  <2>5. QED
    BY <1>0, <2>1, <2>2, <2>3, <2>4, Returns, DeciderWrites
<1>4. QED
  BY <1>1, <1>2, <1>3 DEF RescheduleStep

LEMMA IInvInit == Init => IInv
  BY RowsInit DEF Init, IInv, NoOverlap, CheckedSlotStaysFree, SeenResource,
                  OnResource, Unused, Active, Idle

LEMMA IInvStep ==
  ASSUME NoRevival, IInv, OneDecides, [Next]_vars
  PROVE  IInv'
<1>1. RowsOK'
  BY RowsStep DEF IInv
<1>2. CASE UNCHANGED vars
  BY <1>1, <1>2, ReleasesKeepIInv DEF vars, Releases, Withdraws
<1>3. CASE Next
  <2>1. ASSUME NEW w \in Workers, CreateStep(w) \/ StatusStep(w) \/ RescheduleStep(w)
        PROVE  IInv'
    BY <1>1, <2>1, CreateKeepsIInv, StatusKeepsIInv, RescheduleKeepsIInv
  <2>2. CASE Releases
    BY <1>1, <2>2, ReleasesKeepIInv
  <2>3. QED
    BY <1>3, <2>1, <2>2, OthersRelease DEF Next, IInv
<1>4. QED
  BY <1>2, <1>3

\* Where no two handlers decide on one resource at a time and nothing is revived, no
\* two pending or confirmed bookings of a resource ever come closer than its buffer:
\* whatever handlers of other resources, crons, maintenance and failures do meanwhile.
THEOREM NoOverlapCorrect ==
  ASSUME NoRevival
  PROVE  Spec /\ []OneDecides => []NoOverlap
<1>1. IInv /\ OneDecides /\ [Next]_vars => IInv'
  BY IInvStep
<1>2. IInv => NoOverlap
  BY DEF IInv
<1>3. QED
  BY IInvInit, <1>1, <1>2, PTL DEF Spec

\* Under the same conditions a window that an overlap query found free stays
\* free until its handler writes it, across all the awaits in between.
THEOREM CheckedSlotCorrect ==
  ASSUME NoRevival
  PROVE  Spec /\ []OneDecides => []CheckedSlotStaysFree
<1>1. IInv /\ OneDecides /\ [Next]_vars => IInv'
  BY IInvStep
<1>2. IInv => CheckedSlotStaysFree
  BY DEF IInv
<1>3. QED
  BY IInvInit, <1>1, <1>2, PTL DEF Spec

-----------------------------------------------------------------------------
(* Exclusion gives what these theorems suppose: handlers of kinds that     *)
(* never run at the same time never decide on anything at the same time.   *)

LEMMA StepKinds ==
  ASSUME RowsOK, [Next]_vars
  PROVE  \/ /\ \A w \in Workers : job'[w].op \in {job[w].op, "idle"}
            /\ \A c \in Crons : scan'[c] \in {scan[c], {}}
         \/ \E w \in Workers : /\ MayStart(job'[w].op) /\ scan' = scan
                               /\ \A v \in Workers \ {w} : job'[v] = job[v]
         \/ \E c \in Crons : /\ MayStart(c) /\ job' = job
                             /\ \A d \in Crons \ {c} : scan'[d] = scan[d]
<1> DEFINE Ends == /\ \A w \in Workers : job'[w].op \in {job[w].op, "idle"}
                   /\ \A c \in Crons : scan'[c] \in {scan[c], {}}
           Begins == \E w \in Workers : /\ MayStart(job'[w].op) /\ scan' = scan
                                        /\ \A v \in Workers \ {w} : job'[v] = job[v]
           Selects == \E c \in Crons : /\ MayStart(c) /\ job' = job
                                       /\ \A d \in Crons \ {c} : scan'[d] = scan[d]
<1> SUFFICES Ends \/ Begins \/ Selects
  OBVIOUS
<1> HIDE DEF Ends, Begins, Selects
<1>1. ASSUME NEW w \in Workers, NEW j, Start(w, j), scan' = scan PROVE Begins
  BY <1>1, StartsAs DEF Start, Begins
<1>2. ASSUME NEW w \in Workers, \A v \in Workers \ {w} : job'[v] = job[v],
             job'[w].op \in {job[w].op, "idle"}, scan' = scan
      PROVE  Ends
  BY <1>2 DEF Ends
<1>3. ASSUME NEW w \in Workers, CreateStep(w) \/ StatusStep(w) \/ RescheduleStep(w) \/ MaintenanceStep(w)
      PROVE  Ends \/ Begins
  <2>1. scan' = scan
    BY <1>3, ScanKept
  <2>2. CASE CreateCheckSlot(w) \/ StatusRead(w) \/ RescheduleRead(w) \/ MaintenanceRead(w)
    BY <1>1, <2>1, <2>2 DEF CreateCheckSlot, StatusRead, RescheduleRead, MaintenanceRead
  <2>3. CASE job[w].op # "idle"
    <3>1. \A v \in Workers \ {w} : job'[v] = job[v]
      BY <1>3, CreateJobs, StatusJobs, RescheduleJobs, MaintenanceJobs
    <3>2. job'[w].op \in {job[w].op, "idle"}
      BY <1>3, <2>3, CreateJobs, StatusJobs, RescheduleJobs, MaintenanceJobs
    <3> QED BY <1>2, <2>1, <3>1, <3>2
  <2>4. CASE \/ CreateCheckCredits(w) \/ CreateCommit(w) \/ ConfirmCharge(w) \/ StatusCommit(w)
             \/ RescheduleCheckSlot(w) \/ RescheduleCheckCredits(w) \/ RescheduleCommit(w)
             \/ MaintenanceFind(w) \/ MaintenanceCommit(w) \/ MaintenanceEnd(w)
    <3>1. job[w].op # "idle"
      <4>1. CASE CreateCheckCredits(w) \/ CreateCommit(w)
        BY <4>1 DEF CreateCheckCredits, CreateCommit, At
      <4>2. CASE ConfirmCharge(w) \/ StatusCommit(w)
        BY <4>2 DEF ConfirmCharge, StatusCommit, At
      <4>3. CASE RescheduleCheckSlot(w) \/ RescheduleCheckCredits(w) \/ RescheduleCommit(w)
        BY <4>3 DEF RescheduleCheckSlot, RescheduleCheckCredits, RescheduleCommit, At
      <4>4. CASE MaintenanceFind(w) \/ MaintenanceCommit(w) \/ MaintenanceEnd(w)
        BY <4>4 DEF MaintenanceFind, MaintenanceCommit, MaintenanceEnd, At
      <4> QED BY <2>4, <4>1, <4>2, <4>3, <4>4
    <3> QED BY <2>3, <3>1
  <2> QED BY <1>3, <2>2, <2>4 DEF CreateStep, StatusStep, RescheduleStep, MaintenanceStep
<1>4. ASSUME NEW w \in Workers, RequestFails(w) PROVE Ends
  BY <1>2, <1>4, FailsIdle, ScanKept
<1>5. ASSUME NEW c \in Crons, CronSelect(c) PROVE Selects
  BY <1>5 DEF CronSelect, Selects, RowsOK
<1>6. ASSUME job' = job, NEW c \in Crons, scan' = scan \/ scan' = [scan EXCEPT ![c] = {}] PROVE Ends
  BY <1>6 DEF Ends, RowsOK
<1>7. CASE \/ \E c \in Crons : CronFails(c)
           \/ AutoCancel \/ AutoCheckIn \/ AutoComplete
           \/ \E r \in Resources : UpdateResourceFlag(r)
           \/ Tick \/ UNCHANGED vars
  BY <1>6, <1>7 DEF CronFails, AutoCancel, AutoCheckIn, AutoComplete, UpdateResourceFlag, Tick, vars, Crons
<1> QED BY <1>3, <1>4, <1>5, <1>7 DEF Next

\* Of the requests and crons of kinds at most one is in progress.
OneOf(kinds) ==
    /\ \A v, w \in Workers : job[v].op \in kinds /\ job[w].op \in kinds => v = w
    /\ \A c \in Crons \cap kinds : scan[c] # {} => /\ \A w \in Workers : job[w].op \notin kinds
                                                  /\ \A d \in (Crons \cap kinds) \ {c} : scan[d] = {}

LEMMA OneOfInit == ASSUME NEW kinds \in SUBSET (Crons \cup Requests), Init PROVE OneOf(kinds)
  BY DEF Init, OneOf, Idle, Crons, Requests

\* Handlers of which a run assumes that they exclude one another do.
LEMMA OneOfStep ==
  ASSUME NEW kinds \in SUBSET (Crons \cup Requests), kinds \subseteq Exclusive,
         RowsOK, OneOf(kinds), [Next]_vars
  PROVE  OneOf(kinds)'
<1>0. "idle" \notin kinds
  BY DEF Crons, Requests
<1>1. ASSUME \A w \in Workers : job'[w].op \in {job[w].op, "idle"},
             \A c \in Crons : scan'[c] \in {scan[c], {}}
      PROVE  OneOf(kinds)'
  BY <1>0, <1>1 DEF OneOf
<1>2. ASSUME NEW o \in kinds, MayStart(o)
      PROVE  /\ \A w \in Workers : job[w].op \notin kinds
             /\ \A c \in Crons \cap kinds : scan[c] = {}
  <2>1. \A x \in kinds : ~Running(x)
    BY <1>2 DEF MayStart
  <2>2. ASSUME NEW w \in Workers, job[w].op \in kinds PROVE FALSE
    <3>1. job[w].op \notin Crons
      BY DEF RowsOK, Job, Idle, CreateJob, RescheduleJob, StatusJob, FindJob, CancelJob, Crons
    <3> QED BY <2>1, <2>2, <3>1 DEF Running
  <2> QED BY <2>1, <2>2 DEF Running
<1>3. ASSUME NEW w \in Workers, MayStart(job'[w].op), scan' = scan,
             \A v \in Workers \ {w} : job'[v] = job[v]
      PROVE  OneOf(kinds)'
  <2>1. CASE job'[w].op \in kinds
    BY <1>2, <1>3, <2>1 DEF OneOf
  <2>2. CASE job'[w].op \notin kinds
    BY <1>3, <2>2 DEF OneOf
  <2> QED BY <2>1, <2>2
<1>4. ASSUME NEW c \in Crons, MayStart(c), job' = job, \A d \in Crons \ {c} : scan'[d] = scan[d]
      PROVE  OneOf(kinds)'
  <2>1. CASE c \in kinds
    BY <1>2, <1>4, <2>1 DEF OneOf
  <2>2. CASE c \notin kinds
    BY <1>4, <2>2 DEF OneOf
  <2> QED BY <2>1, <2>2
<1> QED BY <1>1, <1>3, <1>4, StepKinds

LEMMA LockedDecides == ASSUME Bookers \subseteq Exclusive PROVE Spec => []OneDecides
<1>0. Bookers \in SUBSET (Crons \cup Requests)
  BY DEF Bookers, Requests
<1>1. Init => RowsOK /\ OneOf(Bookers)
  BY <1>0, RowsInit, OneOfInit
<1>2. RowsOK /\ OneOf(Bookers) /\ [Next]_vars => RowsOK' /\ OneOf(Bookers)'
  BY <1>0, RowsStep, OneOfStep
<1>3. OneOf(Bookers) => OneDecides
  BY DEF OneOf, OneDecides, Deciding, Bookers
<1> QED BY <1>1, <1>2, <1>3, PTL DEF Spec

\* So one lock around create, reschedule and status is enough for no two active
\* bookings of a resource to come closer than the buffer ...
THEOREM NoOverlapLocked == ASSUME Bookers \subseteq Exclusive, NoRevival PROVE Spec => []NoOverlap
  BY LockedDecides, NoOverlapCorrect, PTL

\* ... and for a window that was checked to stay free until it is written.
THEOREM CheckedSlotLocked ==
  ASSUME Bookers \subseteq Exclusive, NoRevival PROVE Spec => []CheckedSlotStaysFree
  BY LockedDecides, CheckedSlotCorrect, PTL

-----------------------------------------------------------------------------
(* The refinement of Schedule, under the same conditions.                  *)

\* What crons and the maintenance switch have selected are rows that exist.
KnownRows ==
    /\ \A c \in Crons : scan[c] \subseteq Created
    /\ \A w \in Workers : job[w].op = "maintenance" /\ job[w].step = "commit" =>
         \A i \in Ids : job[w].seen[i].status \in Active => i \in Created

ScheduleInv == IInv /\ KnownRows

\* Rows are never taken back.
LEMMA RowsRemain ==
  ASSUME ScheduleInv, [Next]_vars
  PROVE  Created \subseteq Created'
<1>0. RowsOK /\ SeenResource
  BY DEF ScheduleInv, IInv
<1> SUFFICES ASSUME NEW i \in Ids, bookings[i].status # "none" PROVE bookings'[i].status # "none"
  BY DEF Created
<1>1. ASSUME NEW w \in Workers, CreateStep(w) PROVE bookings'[i].status # "none"
  <2>1. CASE CreateCommit(w)
    BY <1>0, <2>1, CreateWrites DEF CreateJob, Active
  <2>2. CASE CreateCheckSlot(w) \/ CreateCheckCredits(w)
    BY <2>2 DEF CreateCheckSlot, CreateCheckCredits, tables
  <2> QED BY <1>1, <2>1, <2>2 DEF CreateStep
<1>2. ASSUME NEW w \in Workers, StatusStep(w) PROVE bookings'[i].status # "none"
  <2>1. CASE StatusCommit(w)
    <3>1. job[w].to # "none"
      BY <1>0, <2>1, StatusWrites DEF StatusJob, Statuses, Active, Terminal
    <3> QED BY <1>0, <2>1, <3>1, StatusWrites DEF Turns
  <2>2. CASE StatusRead(w) \/ ConfirmCharge(w)
    BY <2>2 DEF StatusRead, ConfirmCharge, tables
  <2> QED BY <1>2, <2>1, <2>2 DEF StatusStep
<1>3. ASSUME NEW w \in Workers, RescheduleStep(w) PROVE bookings'[i].status # "none"
  <2>1. CASE RescheduleCommit(w)
    BY <1>0, <2>1, RescheduleWrites
  <2>2. CASE RescheduleRead(w) \/ RescheduleCheckSlot(w) \/ RescheduleCheckCredits(w)
    BY <2>2 DEF RescheduleRead, RescheduleCheckSlot, RescheduleCheckCredits, tables
  <2> QED BY <1>3, <2>1, <2>2 DEF RescheduleStep
<1>4. CASE Releases
  BY <1>4 DEF Releases, Withdraws
<1>5. CASE UNCHANGED vars
  BY <1>5 DEF vars
<1> QED BY <1>0, <1>1, <1>2, <1>3, <1>4, <1>5, OthersRelease DEF Next

LEMMA KnownRowsStep ==
  ASSUME ScheduleInv, [Next]_vars
  PROVE  KnownRows'
<1>0. RowsOK /\ KnownRows /\ Created \subseteq Created'
  BY RowsRemain DEF ScheduleInv, IInv
<1> DEFINE Knows(j) == j.op = "maintenance" /\ j.step = "commit" =>
                         \A i \in Ids : j.seen[i].status \in Active => i \in Created'
<1> SUFFICES ASSUME \/ \E w \in Workers : ~Knows(job'[w])
                    \/ \E c \in Crons : ~(scan'[c] \subseteq Created')
             PROVE  FALSE
  BY DEF KnownRows
<1>1. ASSUME NEW v \in Workers, job'[v] = job[v] \/ job'[v].op # "maintenance" PROVE Knows(job'[v])
  BY <1>0, <1>1 DEF KnownRows
<1>2. ASSUME NEW c \in Crons, scan'[c] \subseteq scan[c] PROVE scan'[c] \subseteq Created'
  BY <1>0, <1>2 DEF KnownRows
<1>3. ASSUME NEW w \in Workers, CreateStep(w) \/ StatusStep(w) \/ RescheduleStep(w) PROVE FALSE
  <2>1. scan' = scan
    BY <1>3 DEF CreateStep, CreateCheckSlot, CreateCheckCredits, CreateCommit,
                StatusStep, StatusRead, ConfirmCharge, StatusCommit, RescheduleStep,
                RescheduleRead, RescheduleCheckSlot, RescheduleCheckCredits, RescheduleCommit
  <2>2. \A v \in Workers : job'[v] = job[v] \/ job'[v].op # "maintenance"
    BY <1>0, <1>3, CreateJobs, StatusJobs, RescheduleJobs
  <2> QED BY <1>1, <1>2, <2>1, <2>2
<1>4. ASSUME NEW w \in Workers, MaintenanceStep(w) \/ RequestFails(w) PROVE FALSE
  <2>1. scan' = scan
    BY <1>4 DEF MaintenanceStep, MaintenanceRead, MaintenanceFind, MaintenanceCommit, MaintenanceEnd,
                RequestFails
  <2>2. CASE MaintenanceFind(w)
    <3>1. /\ \A v \in Workers : v # w => job'[v] = job[v]
          /\ job'[w].seen = [i \in Ids |-> IF i \in Upcoming(job[w].res) THEN bookings[i] ELSE Unused]
      BY <1>0, <2>2 DEF MaintenanceFind, RowsOK
    <3>2. \A i \in Ids : job'[w].seen[i].status \in Active => i \in Created
      BY <3>1 DEF Upcoming, OnResource, Unused, Active, Created
    <3> QED BY <1>0, <1>1, <1>2, <2>1, <3>1, <3>2
  <2>3. CASE MaintenanceRead(w)
    <3>1. \A v \in Workers : job'[v] = job[v] \/ job'[v].step = "find"
      BY <1>0, <2>3 DEF MaintenanceRead, Start, RowsOK
    <3> QED BY <1>1, <1>2, <2>1, <3>1
  <2>4. CASE MaintenanceCommit(w) \/ MaintenanceEnd(w) \/ RequestFails(w)
    <3>1. \A v \in Workers : job'[v] = job[v] \/ job'[v].op # "maintenance"
      BY <1>0, <2>4 DEF MaintenanceCommit, MaintenanceEnd, RequestFails, Return, Idle, RowsOK
    <3> QED BY <1>1, <1>2, <2>1, <3>1
  <2> QED BY <1>4, <2>2, <2>3, <2>4 DEF MaintenanceStep
<1>5. CASE \E c \in Crons : CronSelect(c) \/ CronFails(c)
  <2>1. PICK c \in Crons : CronSelect(c) \/ CronFails(c)
    BY <1>5
  <2>2. job' = job /\ bookings' = bookings
    BY <2>1 DEF CronSelect, CronFails, tables
  <2>3. Due(c) \subseteq Created
    BY DEF Due, Created
  <2>4. scan' = [scan EXCEPT ![c] = Due(c)] \/ scan' = [scan EXCEPT ![c] = {}]
    BY <2>1 DEF CronSelect, CronFails
  <2>5. \A d \in Crons : scan'[d] \subseteq scan[d] \/ scan'[d] \subseteq Created
    BY <1>0, <2>3, <2>4 DEF RowsOK
  <2> QED BY <1>0, <1>1, <1>2, <2>2, <2>5
<1>6. CASE AutoCancel \/ AutoCheckIn \/ AutoComplete
  <2>1. job' = job /\ \A d \in Crons : scan'[d] \subseteq scan[d]
    BY <1>0, <1>6 DEF AutoCancel, AutoCheckIn, AutoComplete, RowsOK
  <2> QED BY <1>1, <1>2, <2>1
<1>7. CASE (\E r \in Resources : UpdateResourceFlag(r)) \/ Tick \/ UNCHANGED vars
  <2>1. job' = job /\ scan' = scan
    BY <1>7 DEF UpdateResourceFlag, Tick, vars
  <2> QED BY <1>1, <1>2, <2>1
<1> QED BY <1>3, <1>4, <1>5, <1>6, <1>7 DEF Next

LEMMA WindowOf ==
  ASSUME RowsOK, NEW i \in Created
  PROVE  /\ i \in Ids /\ DOMAIN Window = Created
         /\ Window[i] = [res |-> bookings[i].res, start |-> bookings[i].start, end |-> bookings[i].end]
         /\ Window[i].res = bookings[i].res
         /\ Window[i].start = bookings[i].start /\ Window[i].end = bookings[i].end
<1>1. i \in Ids /\ DOMAIN Window = Created
  BY DEF Window, Created
<1>2. Window[i] = [res |-> bookings[i].res, start |-> bookings[i].start, end |-> bookings[i].end]
  BY DEF Window
<1> QED BY <1>1, <1>2

LEMMA ReleasesRefine ==
  ASSUME Releases, Created' = Created
  PROVE  [TheSchedule!Next]_(TheSchedule!vars)
<1>1. Window' = Window
  BY DEF Releases, Withdraws, Window, Created
<1>2. Held' \subseteq Held
  BY DEF Releases, Withdraws, Held
<1>3. Held' = Held \ (Held \ Held')
  BY <1>2
<1>4. TheSchedule!Release(Held \ Held')
  BY <1>1, <1>3 DEF TheSchedule!Release
<1> QED BY <1>4 DEF TheSchedule!Next

\* What the overlap query finds free is free in the schedule.
LEMMA FreeInSchedule ==
  ASSUME RowsOK, NEW i \in Ids, NEW r, NEW s, NEW e, SlotFree(r, s, e, {i})
  PROVE  TheSchedule!Free([res |-> r, start |-> s, end |-> e], i)
<1> SUFFICES ASSUME NEW k \in Held \ {i},
                    TheSchedule!Near(Window[k], [res |-> r, start |-> s, end |-> e])
             PROVE  FALSE
  BY DEF TheSchedule!Free
<1>1. k \in Created /\ k \in Ids
  BY DEF Held, Created, Active
<1>2. Window[k].res = bookings[k].res /\ Window[k].start = bookings[k].start
      /\ Window[k].end = bookings[k].end
  BY <1>1, WindowOf
<1>3. k \in OnResource(r, Active) /\ Overlaps(bookings[k].start, bookings[k].end, s, e)
  BY <1>1, <1>2 DEF TheSchedule!Near, Held, OnResource, Overlaps
<1> QED BY <1>3 DEF SlotFree

LEMMA CreateRefines ==
  ASSUME ScheduleInv, NEW w \in Workers, CreateStep(w)
  PROVE  [TheSchedule!Next]_(TheSchedule!vars)
<1>0. RowsOK /\ CheckedSlotStaysFree
  BY DEF ScheduleInv, IInv
<1>1. CASE CreateCheckSlot(w) \/ CreateCheckCredits(w)
  BY <1>1 DEF CreateCheckSlot, CreateCheckCredits, tables, TheSchedule!vars, Window, Held, Created
<1>2. CASE CreateCommit(w)
  <2> DEFINE v == [res |-> job[w].res, start |-> job[w].start, end |-> job[w].end]
  <2>1. job[w] \in CreateJob /\ job[w].op = "create"
    BY <1>0, <1>2, CreateWrites DEF CreateJob
  <2>2. PICK i \in Ids :
          /\ bookings[i].status = "none"
          /\ \A k \in Ids \ {i} : bookings'[k] = bookings[k]
          /\ bookings'[i].status \in Active /\ bookings'[i].res = job[w].res
          /\ bookings'[i].start = job[w].start /\ bookings'[i].end = job[w].end
    <3>1. PICK i \in Ids :
            /\ bookings[i].status = "none"
            /\ \A k \in Ids \ {i} : bookings'[k] = bookings[k]
            /\ bookings'[i] = [status |-> job[w].status, user |-> job[w].user, res |-> job[w].res,
                               start |-> job[w].start, end |-> job[w].end,
                               cost |-> Cost(job[w].start, job[w].end)]
      BY <1>0, <1>2, CreateWrites
    <3>2. job[w].status \in Active
      BY <2>1 DEF CreateJob
    <3> QED BY <3>1, <3>2
  <2>3. i \notin Created /\ Created' = Created \cup {i} /\ Held' = Held \cup {i}
    BY <2>2 DEF Created, Held, Active
  <2>4. Window' = [k \in DOMAIN Window \cup {i} |-> IF k = i THEN v ELSE Window[k]]
    BY <2>2, <2>3 DEF Window, Created
  <2>5. SlotFree(job[w].res, job[w].start, job[w].end, {i})
    BY <1>0, <2>1 DEF CheckedSlotStaysFree, SlotFree
  <2>6. TheSchedule!Free(v, i)
    BY <1>0, <2>5, FreeInSchedule
  <2>7. v \in TheSchedule!Windows
    BY <1>0, <2>1 DEF RowsOK, CreateJob, TheSchedule!Windows
  <2>8. i \notin DOMAIN Window
    BY <2>3 DEF Window
  <2>9. TheSchedule!Book(i, v)
    BY <2>3, <2>4, <2>6, <2>8 DEF TheSchedule!Book
  <2> QED BY <2>7, <2>9 DEF TheSchedule!Next
<1> QED BY <1>1, <1>2 DEF CreateStep

LEMMA RescheduleRefines ==
  ASSUME ScheduleInv, NEW w \in Workers, RescheduleStep(w)
  PROVE  [TheSchedule!Next]_(TheSchedule!vars)
<1>0. RowsOK /\ CheckedSlotStaysFree /\ SeenResource
  BY DEF ScheduleInv, IInv
<1>1. CASE RescheduleRead(w) \/ RescheduleCheckSlot(w) \/ RescheduleCheckCredits(w)
  BY <1>1 DEF RescheduleRead, RescheduleCheckSlot, RescheduleCheckCredits, tables, TheSchedule!vars,
              Window, Held, Created
<1>2. CASE RescheduleCommit(w)
  <2> DEFINE i == job[w].id
             v == [res |-> bookings[i].res, start |-> job[w].start, end |-> job[w].end]
  <2>1. /\ job[w] \in RescheduleJob /\ i \in Ids /\ job[w].op = "reschedule" /\ job[w].step = "commit"
        /\ \A k \in Ids \ {i} : bookings'[k] = bookings[k]
        /\ bookings'[i].status = bookings[i].status /\ bookings'[i].res = bookings[i].res
        /\ bookings'[i].start = job[w].start /\ bookings'[i].end = job[w].end
    BY <1>0, <1>2, RescheduleWrites DEF RescheduleCommit, At
  <2>2. i \in Created /\ Created' = Created /\ Held' = Held
    BY <1>0, <2>1 DEF SeenResource, Created, Held
  <2>3. Window' = [Window EXCEPT ![i] = v]
    BY <2>1, <2>2 DEF Window, Created
  <2>4. SlotFree(bookings[i].res, job[w].start, job[w].end, {i})
    BY <1>0, <2>1 DEF CheckedSlotStaysFree
  <2>5. TheSchedule!Free(v, i)
    BY <1>0, <2>1, <2>4, FreeInSchedule
  <2>6. v \in TheSchedule!Windows
    BY <1>0, <2>1 DEF RowsOK, RescheduleJob, Booking, TheSchedule!Windows
  <2>7. i \in DOMAIN Window /\ v.res = Window[i].res
    BY <1>0, <2>2, WindowOf
  <2>8. TheSchedule!Move(i, v)
    BY <2>2, <2>3, <2>5, <2>7 DEF TheSchedule!Move
  <2> QED BY <2>1, <2>6, <2>8 DEF TheSchedule!Next
<1> QED BY <1>1, <1>2 DEF RescheduleStep

LEMMA StatusRefines ==
  ASSUME ScheduleInv, NEW w \in Workers, StatusStep(w)
  PROVE  [TheSchedule!Next]_(TheSchedule!vars)
<1>0. RowsOK /\ CheckedSlotStaysFree /\ SeenResource
  BY DEF ScheduleInv, IInv
<1> DEFINE i == job[w].id
<1>1. CASE bookings' = bookings
  BY <1>1 DEF TheSchedule!vars, Window, Held, Created
<1>2. CASE StatusCommit(w) /\ Turns(i, job[w].to)
  <2>1. /\ job[w] \in StatusJob /\ i \in Ids /\ job[w].op = "status" /\ job[w].to \in Statuses
        /\ \A k \in Ids \ {i} : bookings'[k] = bookings[k]
    BY <1>0, <1>2, StatusWrites DEF StatusJob
  <2>2. i \in Created /\ Created' = Created
    BY <1>0, <1>2, <2>1 DEF SeenResource, Created, Turns, Statuses
  <2>3. Window' = Window
    BY <1>2, <2>1, <2>2 DEF Window, Turns, Created
  <2>4. CASE job[w].to \in Active /\ i \notin Held
    <3>1. SlotFree(bookings[i].res, bookings[i].start, bookings[i].end, {i})
      BY <1>0, <2>1, <2>4 DEF CheckedSlotStaysFree
    <3>2. TheSchedule!Free(Window[i], i)
      BY <1>0, <2>1, <2>2, <3>1, FreeInSchedule, WindowOf
    <3>3. Held' = Held \cup {i}
      BY <1>2, <2>1, <2>4 DEF Held, Turns
    <3>4. TheSchedule!Retake(i)
      BY <1>0, <2>2, <2>3, <2>4, <3>2, <3>3, WindowOf DEF TheSchedule!Retake
    <3> QED BY <2>1, <3>4 DEF TheSchedule!Next
  <2>5. CASE job[w].to \in Active /\ i \in Held
    <3>1. Held' = Held
      BY <1>2, <2>1, <2>5 DEF Held, Turns
    <3> QED BY <2>3, <3>1 DEF TheSchedule!vars
  <2>6. CASE job[w].to \notin Active
    <3>1. Held' = Held \ ({i} \cap Held)
      BY <1>2, <2>1, <2>6 DEF Held, Turns
    <3>2. TheSchedule!Release({i} \cap Held)
      BY <2>3, <3>1 DEF TheSchedule!Release
    <3> QED BY <3>2 DEF TheSchedule!Next
  <2> QED BY <2>4, <2>5, <2>6
<1>3. CASE StatusRead(w) \/ ConfirmCharge(w)
  BY <1>1, <1>3 DEF StatusRead, ConfirmCharge, tables
<1> QED BY <1>0, <1>1, <1>2, <1>3, StatusWrites DEF StatusStep

\* Crons and the maintenance switch make no row of what was none.
LEMMA OthersMakeNoRow ==
  ASSUME RowsOK, KnownRows,
         \/ \E w \in Workers : MaintenanceStep(w) \/ RequestFails(w)
         \/ \E r \in Resources : UpdateResourceFlag(r)
         \/ \E c \in Crons : CronSelect(c) \/ CronFails(c)
         \/ AutoCancel \/ AutoCheckIn \/ AutoComplete \/ Tick
  PROVE  Created' \subseteq Created
<1>1. CASE bookings' = bookings
  BY <1>1 DEF Created
<1>2. ASSUME NEW ids, NEW to, SetStatus(ids, to), \A i \in Ids : i \in ids => i \in Created
      PROVE  Created' \subseteq Created
  <2> SUFFICES ASSUME NEW i \in Ids, bookings[i].status = "none" PROVE bookings'[i].status = "none"
    BY DEF Created
  <2>1. i \notin ids
    BY <1>2 DEF Created
  <2> QED BY <1>2, <2>1 DEF SetStatus
<1>3. ASSUME NEW w \in Workers, MaintenanceCommit(w) PROVE Created' \subseteq Created
  <2>1. \A i \in Ids : job[w].seen[i].status \in Active => i \in Created
    BY <1>3 DEF KnownRows, MaintenanceCommit, At
  <2>2. SetStatus({i \in Ids : job[w].seen[i].status \in Active}, "CANCELLED")
    BY <1>3 DEF MaintenanceCommit
  <2> QED BY <1>2, <2>1, <2>2
<1>4. CASE AutoCancel \/ AutoCheckIn \/ AutoComplete
  BY <1>2, <1>4 DEF AutoCancel, AutoCheckIn, AutoComplete, KnownRows, Crons
<1> QED BY <1>1, <1>3, <1>4 DEF MaintenanceStep, MaintenanceRead, MaintenanceFind, MaintenanceEnd,
           RequestFails, UpdateResourceFlag, CronSelect, CronFails, Tick, tables

\* createBooking, rescheduleBooking, updateBookingStatus: where no two of them decide on
\* one resource at a time and no request revives what ended, the booking engine implements
\* Schedule: what a handler checks in one step and writes some steps later is as good as
\* checked and written at once, whatever handlers of other resources, crons, maintenance
\* and failures come between.
THEOREM KeepsScheduleCorrect ==
  ASSUME NoRevival
  PROVE  Spec /\ []OneDecides => KeepsSchedule
<1>1. Init => ScheduleInv /\ TheSchedule!Init
  <2> SUFFICES ASSUME Init PROVE ScheduleInv /\ TheSchedule!Init
    OBVIOUS
  <2>1. Created = {} /\ Held = {}
    BY DEF Init, Created, Held, Unused, Active
  <2>2. Window = <<>>
    BY <2>1 DEF Window
  <2>3. KnownRows
    BY DEF Init, KnownRows, Idle
  <2> QED BY <2>1, <2>2, <2>3, IInvInit DEF ScheduleInv, TheSchedule!Init
<1>2. ScheduleInv /\ OneDecides /\ [Next]_vars => ScheduleInv' /\ [TheSchedule!Next]_(TheSchedule!vars)
  <2> SUFFICES ASSUME ScheduleInv, OneDecides, [Next]_vars PROVE ScheduleInv' /\ [TheSchedule!Next]_(TheSchedule!vars)
    OBVIOUS
  <2>1. ScheduleInv'
    BY IInvStep, KnownRowsStep DEF ScheduleInv
  <2>2. CASE UNCHANGED vars
    BY <2>1, <2>2 DEF vars, TheSchedule!vars, Window, Held, Created
  <2>3. ASSUME NEW w \in Workers, CreateStep(w) \/ StatusStep(w) \/ RescheduleStep(w)
        PROVE  [TheSchedule!Next]_(TheSchedule!vars)
    BY <2>3, CreateRefines, StatusRefines, RescheduleRefines
  <2>4. CASE \/ \E w \in Workers : MaintenanceStep(w) \/ RequestFails(w)
             \/ \E r \in Resources : UpdateResourceFlag(r)
             \/ \E c \in Crons : CronSelect(c) \/ CronFails(c)
             \/ AutoCancel \/ AutoCheckIn \/ AutoComplete \/ Tick
    <3>1. Releases /\ Created' \subseteq Created
      BY <2>4, OthersRelease, OthersMakeNoRow DEF ScheduleInv, IInv
    <3>2. Created' = Created
      BY <3>1, RowsRemain
    <3> QED BY <2>1, <3>1, <3>2, ReleasesRefine
  <2> QED BY <2>1, <2>2, <2>3, <2>4 DEF Next
<1> QED BY <1>1, <1>2, PTL DEF Spec, KeepsSchedule, TheSchedule!Spec

\* One lock around create, reschedule and status is enough for the booking engine
\* to implement Schedule.
THEOREM KeepsScheduleLocked ==
  ASSUME Bookers \subseteq Exclusive, NoRevival PROVE Spec => KeepsSchedule
  BY LockedDecides, KeepsScheduleCorrect, PTL

-----------------------------------------------------------------------------
(* Ended bookings stay ended and the occupant of a resource is checked in, *)
(* when no two of the handlers and crons that write a status have read it  *)
(* of the same row, as a lock on the row would have it.  Creations and     *)
(* reschedules may come between any two of their steps.                    *)

\* Clients ask for no change of a booking that has ended ...
NothingAfterTheEnd ==
    \A s \in Terminal, t \in Statuses : <<s, t>> \in Transitions => t = s
\* ... and of one that is checked in only that it be completed.
CheckedInOnlyCompletes ==
    \A t \in Statuses : <<"CHECKED_IN", t>> \in Transitions => t = "COMPLETED"

\* The rows of which a handler has read the status and is to write it.
Settles(j) ==
    {i \in Ids : \/ j.op = "status" /\ i = j.id
                 \/ j.op = "maintenance" /\ j.step = "commit" /\ j.seen[i].status \in Active}

OneSettles ==
    /\ \A v, w \in Workers : v # w => Settles(job[v]) \cap Settles(job[w]) = {}
    /\ \A c \in Crons : /\ \A w \in Workers : Settles(job[w]) \cap scan[c] = {}
                        /\ \A d \in Crons \ {c} : scan[c] \cap scan[d] = {}

\* What selects the bookings of a cron.
Selected(c) == CASE c = "autoCancel" -> "PENDING"
                 [] c = "autoCheckIn" -> "CONFIRMED"
                 [] c = "autoComplete" -> "CHECKED_IN"

\* A booking has the status and the resource its settler read it with.
AsRead(j) ==
    /\ j.op = "status" => /\ bookings[j.id].status = j.seen.status
                          /\ bookings[j.id].res = j.seen.res
                          /\ j.seen.status # "none"
                          /\ <<j.seen.status, j.to>> \in Transitions
    /\ j.op = "maintenance" /\ j.step = "commit" =>
         \A i \in Settles(j) : bookings[i].status = j.seen[i].status
StillSelected(c) == \A i \in scan[c] : bookings[i].status = Selected(c)

SettleInv == RowsOK /\ (\A w \in Workers : AsRead(job[w])) /\ (\A c \in Crons : StillSelected(c))
OccupantInv == SettleInv /\ OccupantIsCheckedIn

LEMMA SettledExist ==
  ASSUME SettleInv
  PROVE  /\ \A w \in Workers : \A i \in Settles(job[w]) : i \in Ids /\ bookings[i].status # "none"
         /\ \A w \in Workers : job[w].op = "status" => job[w].id \in Settles(job[w])
         /\ \A c \in Crons : \A i \in scan[c] : i \in Ids /\ bookings[i].status # "none"
<1>1. \A w \in Workers : job[w].op = "status" => job[w].id \in Ids
  BY JobKinds DEF SettleInv, RowsOK, StatusJob
<1>2. \A c \in Crons : \A i \in scan[c] : i \in Ids /\ bookings[i].status # "none"
  BY DEF SettleInv, StillSelected, Selected, Crons, RowsOK
<1>3. \A w \in Workers : \A i \in Settles(job[w]) : i \in Ids /\ bookings[i].status # "none"
  BY <1>1 DEF SettleInv, AsRead, Settles, Active
<1> QED BY <1>1, <1>2, <1>3 DEF Settles

\* Row i, if it exists, keeps what its settler relies on.
KeepsStatus(i) ==
    bookings[i].status # "none" =>
      bookings'[i].status = bookings[i].status /\ bookings'[i].res = bookings[i].res

\* What a handler or a cron has read still stands when its rows keep their status.
LEMMA SettlesElsewhere ==
  ASSUME SettleInv, RowsOK',
         \A w \in Workers : \/ AsRead(job[w])'
                            \/ job'[w] = job[w] /\ \A i \in Settles(job[w]) : KeepsStatus(i),
         \A c \in Crons : \/ StillSelected(c)'
                          \/ scan'[c] = scan[c] /\ \A i \in scan[c] : KeepsStatus(i)
  PROVE  SettleInv'
<1>1. ASSUME NEW w \in Workers, job'[w] = job[w], \A i \in Settles(job[w]) : KeepsStatus(i)
      PROVE  AsRead(job[w])'
  <2>1. \A i \in Settles(job[w]) :
          bookings'[i].status = bookings[i].status /\ bookings'[i].res = bookings[i].res
    BY <1>1, SettledExist DEF KeepsStatus
  <2>2. AsRead(job[w]) /\ (job[w].op = "status" => job[w].id \in Settles(job[w]))
    BY SettledExist DEF SettleInv
  <2>3. Settles(job[w])' = Settles(job[w])
    BY <1>1 DEF Settles
  <2> QED BY <1>1, <2>1, <2>2, <2>3 DEF AsRead
<1>2. ASSUME NEW c \in Crons, scan'[c] = scan[c], \A i \in scan[c] : KeepsStatus(i)
      PROVE  StillSelected(c)'
  BY <1>2, SettledExist DEF SettleInv, StillSelected, KeepsStatus
<1>3. (\A w \in Workers : AsRead(job[w]))' /\ (\A c \in Crons : StillSelected(c))'
  BY <1>1, <1>2
<1> QED BY <1>3 DEF SettleInv

\* A handler of another kind has read no status it is to write.
LEMMA NotSettling ==
  ASSUME NEW w \in Workers,
         \/ job'[w].op \notin {"status", "maintenance"}
         \/ job'[w].op = "maintenance" /\ job'[w].step = "find"
  PROVE  AsRead(job[w])'
  BY DEF AsRead

LEMMA RequestSettles ==
  ASSUME SettleInv, OneSettles, RowsOK', NEW w \in Workers, StatusStep(w) \/ MaintenanceStep(w)
  PROVE  SettleInv'
<1>0. RowsOK /\ scan' = scan /\ \A v \in Workers \ {w} : job'[v] = job[v]
  BY ScanKept, StatusJobs, MaintenanceJobs DEF SettleInv
<1>1. ASSUME bookings' = bookings, AsRead(job[w])' PROVE SettleInv'
  <2>1. \A i \in Ids : KeepsStatus(i)
    BY <1>1 DEF KeepsStatus
  <2> QED BY <1>0, <1>1, <2>1, SettledExist, SettlesElsewhere
<1>2. CASE StatusRead(w)
  <2>1. PICK i \in Created, to \in Statuses, role \in Roles, step \in {"charge", "commit"} :
          /\ <<bookings[i].status, to>> \in Transitions
          /\ Start(w, [op |-> "status", step |-> step, id |-> i, seen |-> bookings[i],
                       to |-> to, role |-> role])
          /\ bookings' = bookings
    BY <1>2 DEF StatusRead, tables
  <2>2. job'[w] = [op |-> "status", step |-> step, id |-> i, seen |-> bookings[i],
                   to |-> to, role |-> role]
    BY <1>0, <2>1, StartsAs
  <2>3. AsRead(job[w])'
    BY <2>1, <2>2 DEF AsRead, Created
  <2> QED BY <1>1, <2>1, <2>3
<1>3. CASE ConfirmCharge(w)
  <2>1. job[w] \in StatusJob /\ job[w].op = "status" /\ Advance(w, "commit") /\ bookings' = bookings
    BY <1>0, <1>3, JobKinds DEF ConfirmCharge, At, RowsOK
  <2>2. /\ job'[w].op = "status" /\ job'[w].id = job[w].id /\ job'[w].seen = job[w].seen
        /\ job'[w].to = job[w].to
    BY <1>0, <2>1, GoesOn DEF StatusJob
  <2>3. AsRead(job[w])'
    BY <2>1, <2>2 DEF SettleInv, AsRead
  <2> QED BY <1>1, <2>1, <2>3
<1>4. CASE StatusCommit(w)
  <2>1. /\ job[w].op = "status" /\ AsRead(job[w])'
        /\ \A k \in Ids \ {job[w].id} : bookings'[k] = bookings[k]
    BY <1>0, <1>4, StatusWrites, Returns, NotSettling DEF StatusCommit
  <2>2. job[w].id \in Settles(job[w])
    BY <2>1, SettledExist
  <2>3. /\ \A v \in Workers \ {w} : job[w].id \notin Settles(job[v])
        /\ \A c \in Crons : job[w].id \notin scan[c]
    BY <2>2 DEF OneSettles
  <2>4. \A k \in Ids \ {job[w].id} : KeepsStatus(k)
    BY <2>1 DEF KeepsStatus
  <2> QED BY <1>0, <2>1, <2>3, <2>4, SettledExist, SettlesElsewhere
<1>5. CASE MaintenanceCommit(w)
  <2>1. /\ job[w].op = "maintenance" /\ job[w].step = "commit" /\ AsRead(job[w])'
        /\ SetStatus(Settles(job[w]), "CANCELLED")
    BY <1>0, <1>5, Returns, NotSettling DEF MaintenanceCommit, At, Settles
  <2>2. \A k \in Ids \ Settles(job[w]) : KeepsStatus(k)
    BY <1>0, <2>1, SetStatusWrites DEF KeepsStatus
  <2>3. /\ \A v \in Workers \ {w} : Settles(job[v]) \cap Settles(job[w]) = {}
        /\ \A c \in Crons : scan[c] \cap Settles(job[w]) = {}
    BY DEF OneSettles
  <2> QED BY <1>0, <2>1, <2>2, <2>3, SettledExist, SettlesElsewhere
<1>6. CASE MaintenanceRead(w)
  <2>1. PICK r \in Resources :
          /\ Start(w, [op |-> "maintenance", step |-> "find", res |-> r, was |-> maintenance[r]])
          /\ bookings' = bookings
    BY <1>6 DEF MaintenanceRead, tables
  <2>2. AsRead(job[w])'
    BY <1>0, <2>1, StartsAs, NotSettling
  <2> QED BY <1>1, <2>1, <2>2
<1>7. CASE MaintenanceFind(w)
  <2>1. /\ bookings' = bookings
        /\ job'[w] = [op |-> "maintenance", step |-> "commit", res |-> job[w].res,
                      seen |-> [i \in Ids |-> IF i \in Upcoming(job[w].res) THEN bookings[i]
                                                                           ELSE Unused]]
    BY <1>0, <1>7 DEF MaintenanceFind, RowsOK, tables
  <2>2. \A i \in Ids : job'[w].seen[i].status \in Active
                         => bookings'[i].status = job'[w].seen[i].status
    BY <2>1 DEF Unused, Active
  <2>3. AsRead(job[w])'
    BY <2>1, <2>2 DEF AsRead, Settles
  <2> QED BY <1>1, <2>1, <2>3
<1>8. CASE MaintenanceEnd(w)
  BY <1>0, <1>1, <1>8, Returns, NotSettling DEF MaintenanceEnd
<1> QED
  BY <1>2, <1>3, <1>4, <1>5, <1>6, <1>7, <1>8 DEF StatusStep, MaintenanceStep

LEMMA CronSettles ==
  ASSUME SettleInv, OneSettles, RowsOK',
         (\E c \in Crons : CronSelect(c)) \/ AutoCancel \/ AutoCheckIn \/ AutoComplete
  PROVE  SettleInv'
<1>0. RowsOK /\ job' = job
  BY DEF SettleInv, CronSelect, AutoCancel, AutoCheckIn, AutoComplete
<1>1. ASSUME NEW c \in Crons, CronSelect(c) PROVE SettleInv'
  <2>1. /\ bookings' = bookings
        /\ scan'[c] = Due(c) /\ \A d \in Crons \ {c} : scan'[d] = scan[d]
    BY <1>0, <1>1 DEF CronSelect, RowsOK, tables
  <2>2. StillSelected(c)'
    BY <2>1 DEF StillSelected, Due, Selected, Crons
  <2>3. \A i \in Ids : KeepsStatus(i)
    BY <2>1 DEF KeepsStatus
  <2> QED BY <1>0, <2>1, <2>2, <2>3, SettledExist, SettlesElsewhere
<1>2. ASSUME NEW c \in Crons, NEW to, SetStatus(scan[c], to), scan' = [scan EXCEPT ![c] = {}]
      PROVE  SettleInv'
  <2>1. scan'[c] = {} /\ \A d \in Crons \ {c} : scan'[d] = scan[d]
    BY <1>0, <1>2 DEF RowsOK
  <2>2. \A k \in Ids \ scan[c] : KeepsStatus(k)
    BY <1>0, <1>2, SetStatusWrites DEF KeepsStatus
  <2>3. /\ \A d \in Crons \ {c} : scan[d] \cap scan[c] = {}
        /\ \A w \in Workers : Settles(job[w]) \cap scan[c] = {}
    BY DEF OneSettles
  <2>4. StillSelected(c)'
    BY <2>1 DEF StillSelected
  <2> QED BY <1>0, <2>1, <2>2, <2>3, <2>4, SettledExist, SettlesElsewhere
<1>3. CASE AutoCancel
  BY <1>2, <1>3 DEF AutoCancel, Crons
<1>4. CASE AutoCheckIn
  BY <1>2, <1>4 DEF AutoCheckIn, Crons
<1>5. CASE AutoComplete
  BY <1>2, <1>5 DEF AutoComplete, Crons
<1> QED BY <1>1, <1>3, <1>4, <1>5

LEMMA SettleInvStep ==
  ASSUME SettleInv, OneSettles, [Next]_vars
  PROVE  SettleInv'
<1>0. RowsOK /\ RowsOK'
  BY RowsStep DEF SettleInv
<1>1. ASSUME \A v \in Workers : job'[v] = job[v] \/ AsRead(job[v])',
             \A c \in Crons : scan'[c] \in {scan[c], {}},
             \A i \in Ids : KeepsStatus(i)
      PROVE  SettleInv'
  <2>1. \A c \in Crons : scan'[c] = {} => StillSelected(c)'
    BY DEF StillSelected
  <2> QED BY <1>0, <1>1, <2>1, SettledExist, SettlesElsewhere
<1>2. ASSUME NEW w \in Workers, CreateStep(w) \/ RescheduleStep(w) \/ RequestFails(w)
      PROVE  SettleInv'
  <2>1. scan' = scan
    BY <1>2, ScanKept
  <2>2. \A v \in Workers : job'[v] = job[v] \/ AsRead(job[v])'
    BY <1>0, <1>2, CreateJobs, RescheduleJobs, FailsIdle, NotSettling
  <2>3. \A i \in Ids : KeepsStatus(i)
    <3>1. CASE CreateCommit(w)
      BY <1>0, <3>1, CreateWrites DEF KeepsStatus
    <3>2. CASE RescheduleCommit(w)
      BY <1>0, <3>2, RescheduleWrites DEF KeepsStatus
    <3>3. CASE bookings' = bookings
      BY <3>3 DEF KeepsStatus
    <3> QED
      BY <1>2, <3>1, <3>2, <3>3
         DEF CreateStep, CreateCheckSlot, CreateCheckCredits, RescheduleStep, RescheduleRead,
             RescheduleCheckSlot, RescheduleCheckCredits, RequestFails, tables
  <2> QED BY <1>1, <2>1, <2>2, <2>3
<1>3. ASSUME \/ \E r \in Resources : UpdateResourceFlag(r)
             \/ \E c \in Crons : CronFails(c)
             \/ Tick \/ UNCHANGED vars
      PROVE  SettleInv'
  <2>1. bookings' = bookings /\ job' = job
    BY <1>3 DEF UpdateResourceFlag, CronFails, Tick, tables, vars
  <2>2. \A c \in Crons : scan'[c] \in {scan[c], {}}
    BY <1>0, <1>3 DEF UpdateResourceFlag, CronFails, Tick, vars, RowsOK
  <2>3. \A i \in Ids : KeepsStatus(i)
    BY <2>1 DEF KeepsStatus
  <2> QED BY <1>1, <2>1, <2>2, <2>3
<1> QED
  BY <1>0, <1>2, <1>3, RequestSettles, CronSettles DEF Next

LEMMA SettleInvInit == Init => SettleInv
  BY RowsInit DEF Init, SettleInv, AsRead, StillSelected, Idle

\* The status a settler's booking had when it was read is the one it has when
\* it is written.
LEMMA TerminalStep ==
  ASSUME NothingAfterTheEnd, SettleInv, [Next]_vars,
         NEW i \in Ids, bookings[i].status \in Terminal
  PROVE  bookings'[i].status = bookings[i].status
<1>0. RowsOK
  BY DEF SettleInv
<1>1. CASE \E w \in Workers : CreateCommit(w) \/ RescheduleCommit(w)
  BY <1>0, <1>1, CreateWrites, RescheduleWrites DEF Terminal
<1>2. ASSUME NEW w \in Workers, StatusCommit(w) PROVE bookings'[i].status = bookings[i].status
  <2>1. job[w] \in StatusJob /\ job[w].op = "status"
    BY <1>0, <1>2, StatusWrites
  <2>2. /\ bookings[job[w].id].status = job[w].seen.status
        /\ <<job[w].seen.status, job[w].to>> \in Transitions
    BY <2>1 DEF SettleInv, AsRead
  <2>3. job[w].id = i => job[w].to = bookings[i].status
    BY <2>1, <2>2 DEF NothingAfterTheEnd, StatusJob
  <2>4. QED
    BY <1>0, <1>2, <2>3, StatusWrites DEF Turns
<1>3. ASSUME NEW w \in Workers, MaintenanceCommit(w) PROVE bookings'[i].status = bookings[i].status
  <2>1. /\ job[w].op = "maintenance" /\ job[w].step = "commit"
        /\ SetStatus({k \in Ids : job[w].seen[k].status \in Active}, "CANCELLED")
    BY <1>3 DEF MaintenanceCommit, At
  <2>2. job[w].seen[i].status \notin Active
    BY <2>1 DEF SettleInv, AsRead, Settles, Active, Terminal
  <2>3. QED
    BY <1>0, <2>1, <2>2, SetStatusWrites
<1>4. ASSUME NEW c \in Crons, NEW to, SetStatus(scan[c], to)
      PROVE  bookings'[i].status = bookings[i].status
  <2>1. i \notin scan[c]
    BY DEF SettleInv, StillSelected, Selected, Terminal, Crons
  <2> QED BY <1>0, <1>4, <2>1, SetStatusWrites
<1>5. CASE AutoCancel \/ AutoCheckIn \/ AutoComplete
  BY <1>4, <1>5 DEF AutoCancel, AutoCheckIn, AutoComplete, Crons
<1>6. QED
  BY <1>1, <1>2, <1>3, <1>5, OthersWriteNothing

\* A booking that is rejected, cancelled or completed stays so, when no two of
\* the handlers and crons that write statuses hold one row and clients ask for
\* no change of an ended booking: the crons and the switch update the rows they
\* selected whatever has become of them.
THEOREM TerminalIsFinalCorrect ==
  ASSUME NothingAfterTheEnd
  PROVE  Spec /\ []OneSettles => TerminalIsFinal
<1> DEFINE Final == \A i \in Ids : bookings[i].status \in Terminal
                                     => bookings'[i].status = bookings[i].status
<1>1. SettleInv /\ OneSettles /\ [Next]_vars => SettleInv'
  BY SettleInvStep
<1>2. SettleInv /\ [Next]_vars => [Final]_vars
  BY TerminalStep
<1>3. QED
  BY SettleInvInit, <1>1, <1>2, PTL DEF Spec, TerminalIsFinal

\* The occupant of r leaves, or is neither replaced nor changed.
KeepsOccupant(r) ==
    \/ current'[r] = NoId
    \/ /\ current'[r] = current[r]
       /\ \A i \in Ids : bookings[i].status = "CHECKED_IN" /\ bookings[i].res = r =>
            bookings'[i].status = "CHECKED_IN" /\ bookings'[i].res = r

LEMMA OccupantStep ==
  ASSUME CheckedInOnlyCompletes, OccupantInv, OneSettles, [Next]_vars
  PROVE  OccupantInv'
<1>0. RowsOK /\ RowsOK' /\ SettleInv /\ OccupantIsCheckedIn
  BY RowsStep DEF OccupantInv, SettleInv
<1>1. SettleInv'
  BY <1>0, SettleInvStep
<1>2. \A r \in Resources : current[r] # NoId =>
         current[r] \in Ids /\ bookings[current[r]].status = "CHECKED_IN"
                            /\ bookings[current[r]].res = r
  BY <1>0 DEF OccupantIsCheckedIn, OnResource
<1>3. ASSUME \A r \in Resources : KeepsOccupant(r) PROVE OccupantIsCheckedIn'
  BY <1>2, <1>3 DEF OccupantIsCheckedIn, OnResource, KeepsOccupant
<1>4. ASSUME NEW w \in Workers, CreateCommit(w) \/ RescheduleCommit(w)
      PROVE  OccupantIsCheckedIn'
  <2>1. current' = current
    BY <1>4 DEF CreateCommit, RescheduleCommit
  <2>2. \A r \in Resources : KeepsOccupant(r)
    BY <1>0, <1>4, <2>1, CreateWrites, RescheduleWrites DEF KeepsOccupant
  <2>3. QED
    BY <1>3, <2>2
<1>5. ASSUME NEW w \in Workers, StatusCommit(w) PROVE OccupantIsCheckedIn'
  <2> DEFINE j == job[w]
  <2>1. /\ j \in StatusJob /\ j.op = "status" /\ j.id \in Ids /\ j.to \in Statuses
        /\ j.seen.res \in Resources
    BY <1>0, <1>5, StatusWrites DEF StatusJob, Booking
  <2>2. /\ bookings[j.id].status = j.seen.status /\ bookings[j.id].res = j.seen.res
        /\ <<j.seen.status, j.to>> \in Transitions
    BY <1>0, <2>1 DEF SettleInv, AsRead
  <2>3. CASE ~RefundFits(j)
    BY <1>0, <1>3, <1>5, <2>3 DEF StatusCommit, KeepsOccupant
  <2>4. CASE RefundFits(j) /\ j.seen.status # "CHECKED_IN"
    <3>1. current' = current
      BY <1>5, <2>4 DEF StatusCommit
    <3>2. \A i \in Ids : bookings[i].status = "CHECKED_IN" => bookings'[i] = bookings[i]
      BY <1>0, <1>5, <2>2, <2>4, StatusWrites
    <3>3. QED
      BY <1>3, <3>1, <3>2 DEF KeepsOccupant
  <2>5. CASE RefundFits(j) /\ j.seen.status = "CHECKED_IN"
    <3>1. j.to = "COMPLETED"
      BY <2>1, <2>2, <2>5 DEF CheckedInOnlyCompletes
    <3>2. current' = [current EXCEPT ![j.seen.res] = NoId]
      BY <1>5, <2>5, <3>1 DEF StatusCommit
    <3>3. current'[j.seen.res] = NoId
          /\ \A r \in Resources \ {j.seen.res} : current'[r] = current[r]
      BY <1>0, <2>1, <3>2 DEF RowsOK
    <3>4. \A i \in Ids : bookings[i].res # j.seen.res => bookings'[i] = bookings[i]
      BY <1>0, <1>5, <2>2, StatusWrites
    <3>5. QED
      BY <1>3, <3>3, <3>4 DEF KeepsOccupant
  <2>6. QED
    BY <2>3, <2>4, <2>5
<1>6. ASSUME NEW w \in Workers, MaintenanceCommit(w) PROVE OccupantIsCheckedIn'
  <2>1. /\ job[w].op = "maintenance" /\ job[w].step = "commit" /\ current' = current
        /\ SetStatus({k \in Ids : job[w].seen[k].status \in Active}, "CANCELLED")
    BY <1>6 DEF MaintenanceCommit, At
  <2>2. \A i \in Ids : bookings[i].status = "CHECKED_IN" => job[w].seen[i].status \notin Active
    BY <1>0, <2>1 DEF SettleInv, AsRead, Settles, Active
  <2>3. \A i \in Ids : bookings[i].status = "CHECKED_IN" => bookings'[i] = bookings[i]
    BY <1>0, <2>1, <2>2, SetStatusWrites
  <2>4. QED
    BY <1>3, <2>1, <2>3 DEF KeepsOccupant
<1>7. ASSUME AutoCancel PROVE OccupantIsCheckedIn'
  <2>1. SetStatus(scan["autoCancel"], "CANCELLED") /\ current' = current
        /\ \A i \in scan["autoCancel"] : bookings[i].status = "PENDING"
    BY <1>0, <1>7 DEF AutoCancel, SettleInv, StillSelected, Crons, Selected
  <2>2. \A i \in Ids : bookings[i].status = "CHECKED_IN" => bookings'[i] = bookings[i]
    BY <1>0, <2>1, SetStatusWrites
  <2>3. QED
    BY <1>3, <2>1, <2>2 DEF KeepsOccupant
<1>8. ASSUME AutoCheckIn PROVE OccupantIsCheckedIn'
  <2>1. SetStatus(scan["autoCheckIn"], "CHECKED_IN")
    BY <1>8 DEF AutoCheckIn
  <2>2. \A i \in Ids : IF i \in scan["autoCheckIn"] THEN Turns(i, "CHECKED_IN")
                                                  ELSE bookings'[i] = bookings[i]
    BY <1>0, <2>1, SetStatusWrites
  <2>3. \A r \in Resources : current'[r] = current[r] \/ current'[r] \in ScanOf("autoCheckIn", r)
    BY <1>8 DEF AutoCheckIn
  <2>4. scan["autoCheckIn"] \subseteq Ids
    BY <1>0 DEF RowsOK, Crons
  <2>5. \A i \in Ids : bookings[i].status = "CHECKED_IN" =>
          bookings'[i].status = "CHECKED_IN" /\ bookings'[i].res = bookings[i].res
    BY <2>2 DEF Turns
  <2>6. \A r \in Resources : \A i \in ScanOf("autoCheckIn", r) :
          i \in Ids /\ bookings'[i].status = "CHECKED_IN" /\ bookings'[i].res = r
    BY <2>2, <2>4 DEF ScanOf, Turns
  <2>7. QED
    BY <1>2, <2>3, <2>5, <2>6 DEF OccupantIsCheckedIn, OnResource
<1>9. ASSUME AutoComplete PROVE OccupantIsCheckedIn'
  <2>1. SetStatus(scan["autoComplete"], "COMPLETED")
    BY <1>9 DEF AutoComplete
  <2>2. \A i \in Ids : IF i \in scan["autoComplete"] THEN Turns(i, "COMPLETED")
                                                   ELSE bookings'[i] = bookings[i]
    BY <1>0, <2>1, SetStatusWrites
  <2>3. \A r \in Resources : current'[r] = IF ScanOf("autoComplete", r) = {} THEN current[r]
                                                                         ELSE NoId
    BY <1>9 DEF AutoComplete
  <2>4. QED
    BY <1>3, <2>2, <2>3 DEF ScanOf, KeepsOccupant
<1>10. ASSUME bookings' = bookings /\ current' = current PROVE OccupantIsCheckedIn'
  BY <1>3, <1>10 DEF KeepsOccupant
<1>11. ASSUME bookings' = bookings, ~AutoCancel, ~AutoCheckIn, ~AutoComplete,
              \A w \in Workers : ~CreateCommit(w) /\ ~StatusCommit(w) /\ ~RescheduleCommit(w)
                                 /\ ~MaintenanceCommit(w)
       PROVE  current' = current
  <2>1. ASSUME NEW w \in Workers, CreateStep(w) \/ StatusStep(w) PROVE current' = current
    BY <1>11, <2>1 DEF CreateStep, CreateCheckSlot, CreateCheckCredits, StatusStep, StatusRead,
                       ConfirmCharge, tables
  <2>2. ASSUME NEW w \in Workers, RescheduleStep(w) \/ MaintenanceStep(w) \/ RequestFails(w)
        PROVE  current' = current
    BY <1>11, <2>2 DEF RescheduleStep, RescheduleRead, RescheduleCheckSlot,
         RescheduleCheckCredits, MaintenanceStep, MaintenanceRead, MaintenanceFind,
         MaintenanceEnd, RequestFails, tables
  <2>3. ASSUME \/ \E r \in Resources : UpdateResourceFlag(r)
               \/ \E c \in Crons : CronSelect(c) \/ CronFails(c)
               \/ Tick \/ UNCHANGED vars
        PROVE  current' = current
    BY <2>3 DEF UpdateResourceFlag, CronSelect, CronFails, Tick, tables, vars
  <2>4. QED
    BY <1>11, <2>1, <2>2, <2>3 DEF Next
<1>12. OccupantIsCheckedIn'
  BY <1>4, <1>5, <1>6, <1>7, <1>8, <1>9, <1>10, <1>11, OthersWriteNothing
<1>13. QED
  BY <1>1, <1>12 DEF OccupantInv

\* The booking a resource is occupied by is checked in on that resource, when no
\* two of the handlers and crons that write statuses hold one row and clients
\* ask of a booking that is checked in only that it be completed.
THEOREM OccupantCorrect ==
  ASSUME CheckedInOnlyCompletes
  PROVE  Spec /\ []OneSettles => []OccupantIsCheckedIn
<1>1. Init => OccupantInv
  BY SettleInvInit DEF Init, OccupantInv, OccupantIsCheckedIn
<1>2. OccupantInv /\ OneSettles /\ [Next]_vars => OccupantInv'
  BY OccupantStep
<1>3. OccupantInv => OccupantIsCheckedIn
  BY DEF OccupantInv
<1>4. QED
  BY <1>1, <1>2, <1>3, PTL DEF Spec

Settlers == Crons \cup {"status", "maintenance"}

LEMMA LockedSettles == ASSUME Settlers \subseteq Exclusive PROVE Spec => []OneSettles
<1>0. Settlers \in SUBSET (Crons \cup Requests)
  BY DEF Settlers, Requests
<1>1. Init => RowsOK /\ OneOf(Settlers)
  BY <1>0, RowsInit, OneOfInit
<1>2. RowsOK /\ OneOf(Settlers) /\ [Next]_vars => RowsOK' /\ OneOf(Settlers)'
  BY <1>0, RowsStep, OneOfStep
<1>3. OneOf(Settlers) => OneSettles
  BY DEF OneOf, OneSettles, Settles, Settlers
<1> QED BY <1>1, <1>2, <1>3, PTL DEF Spec

\* One lock around changes of status, switches of maintenance and crons is
\* enough for ended bookings to stay ended ...
THEOREM TerminalIsFinalLocked ==
  ASSUME Settlers \subseteq Exclusive, NothingAfterTheEnd PROVE Spec => TerminalIsFinal
  BY LockedSettles, TerminalIsFinalCorrect, PTL

\* ... and for the booking that occupies a resource to be checked in on it.
THEOREM OccupantLocked ==
  ASSUME Settlers \subseteq Exclusive, CheckedInOnlyCompletes
  PROVE  Spec => []OccupantIsCheckedIn
  BY LockedSettles, OccupantCorrect, PTL

-----------------------------------------------------------------------------
(* What was paid for a booking is what its status says, when no two of the *)
(* handlers and crons that write an existing booking have read the same    *)
(* row and no confirmation fails between its charge and its commit.        *)
(* Creations, edits of the flag and all other failures may come between    *)
(* any two of their steps.                                                 *)

\* The ways of a booking the screens and crons offer.
LifecycleOnly ==
    Transitions \subseteq {<<"PENDING", "CONFIRMED">>, <<"PENDING", "REJECTED">>,
                           <<"PENDING", "CANCELLED">>, <<"CONFIRMED", "CANCELLED">>,
                           <<"CONFIRMED", "CHECKED_IN">>, <<"CONFIRMED", "COMPLETED">>,
                           <<"CHECKED_IN", "COMPLETED">>}

\* The rows a handler has read and is to write.
Writes(j) == Settles(j) \cup {i \in Ids : j.op = "reschedule" /\ i = j.id}

OneWrites ==
    /\ \A v, w \in Workers : v # w => Writes(job[v]) \cap Writes(job[w]) = {}
    /\ \A c \in Crons : /\ \A w \in Workers : Writes(job[w]) \cap scan[c] = {}
                        /\ \A d \in Crons \ {c} : scan[c] \cap scan[d] = {}

\* A confirmation that has charged and not yet written the status.
Charged(j) == j.op = "status" /\ j.step = "commit" /\ j.seen.status = "PENDING" /\ j.to = "CONFIRMED"

\* A charged confirmation goes on to its commit.
ConfirmationCommits == \A w \in Workers : Charged(job[w]) => ~RequestFails(w)

\* A booking is still the row its writer read; only confirmations charge before
\* their commit, and only active bookings are rescheduled.
RowAsRead(j) ==
    /\ j.op \in {"status", "reschedule"} => bookings[j.id] = j.seen
    /\ j.op = "maintenance" /\ j.step = "commit" => \A i \in Settles(j) : bookings[i] = j.seen[i]
    /\ j.op = "status" /\ j.step = "charge" => j.seen.status = "PENDING" /\ j.to = "CONFIRMED"
    /\ j.op = "reschedule" => j.seen.status \in Active

WriterInv == SettleInv /\ \A w \in Workers : RowAsRead(job[w])

LEMMA WritesSettles == OneWrites => OneSettles
  BY DEF OneWrites, OneSettles, Writes

LEMMA WrittenExist ==
  ASSUME WriterInv
  PROVE  /\ \A w \in Workers : \A i \in Writes(job[w]) : i \in Ids /\ bookings[i].status # "none"
         /\ \A w \in Workers : job[w].op \in {"status", "reschedule"} => job[w].id \in Writes(job[w])
<1>1. \A w \in Workers : job[w].op = "reschedule" => job[w].id \in Ids
  BY JobKinds DEF WriterInv, SettleInv, RowsOK, RescheduleJob
<1>2. \A w \in Workers : job[w].op = "reschedule" => bookings[job[w].id].status # "none"
  BY DEF WriterInv, RowAsRead, Active
<1> QED BY <1>1, <1>2, SettledExist DEF WriterInv, Writes

\* What a handler has read still stands when its rows stay as they are.
LEMMA WritesElsewhere ==
  ASSUME WriterInv, SettleInv',
         \A w \in Workers : \/ RowAsRead(job[w])'
                            \/ /\ job'[w] = job[w]
                               /\ \A i \in Writes(job[w]) : bookings'[i] = bookings[i]
  PROVE  WriterInv'
<1>1. ASSUME NEW w \in Workers, job'[w] = job[w], \A i \in Writes(job[w]) : bookings'[i] = bookings[i]
      PROVE  RowAsRead(job[w])'
  <2>1. /\ RowAsRead(job[w])
        /\ job[w].op \in {"status", "reschedule"} => job[w].id \in Writes(job[w])
    BY WrittenExist DEF WriterInv
  <2>2. Settles(job[w])' = Settles(job[w])
    BY <1>1 DEF Settles
  <2>3. Settles(job[w]) \subseteq Writes(job[w])
    BY DEF Writes
  <2> QED BY <1>1, <2>1, <2>2, <2>3 DEF RowAsRead
<1>2. (\A w \in Workers : RowAsRead(job[w]))'
  BY <1>1
<1> QED BY <1>2 DEF WriterInv

LEMMA NotWriting ==
  ASSUME NEW w \in Workers,
         \/ job'[w].op \notin {"status", "maintenance", "reschedule"}
         \/ job'[w].op = "maintenance" /\ job'[w].step = "find"
  PROVE  RowAsRead(job[w])'
  BY DEF RowAsRead

LEMMA RequestKeepsWriter ==
  ASSUME WriterInv, OneWrites, SettleInv', NEW w \in Workers,
         StatusStep(w) \/ RescheduleStep(w) \/ MaintenanceStep(w)
  PROVE  WriterInv'
<1>0. RowsOK /\ \A v \in Workers \ {w} : job'[v] = job[v]
  BY StatusJobs, RescheduleJobs, MaintenanceJobs DEF WriterInv, SettleInv
<1>1. ASSUME bookings' = bookings, RowAsRead(job[w])' PROVE WriterInv'
  BY <1>0, <1>1, WritesElsewhere
<1>2. CASE StatusRead(w)
  <2>1. PICK i \in Created, to \in Statuses, role \in Roles, step \in {"charge", "commit"} :
          /\ Start(w, [op |-> "status", step |-> step, id |-> i, seen |-> bookings[i],
                       to |-> to, role |-> role])
          /\ step = "charge" => bookings[i].status = "PENDING" /\ to = "CONFIRMED"
          /\ bookings' = bookings
    BY <1>2 DEF StatusRead, tables
  <2>2. job'[w] = [op |-> "status", step |-> step, id |-> i, seen |-> bookings[i],
                   to |-> to, role |-> role]
    BY <1>0, <2>1, StartsAs
  <2>3. RowAsRead(job[w])'
    BY <2>1, <2>2 DEF RowAsRead
  <2> QED BY <1>1, <2>1, <2>3
<1>3. CASE RescheduleRead(w)
  <2>1. PICK i \in Created, s \in Slots, e \in Slots :
          /\ bookings[i].status \in Active
          /\ Start(w, [op |-> "reschedule", step |-> "slot", id |-> i, seen |-> bookings[i],
                       start |-> s, end |-> e])
          /\ bookings' = bookings
    BY <1>3 DEF RescheduleRead, tables
  <2>2. job'[w] = [op |-> "reschedule", step |-> "slot", id |-> i, seen |-> bookings[i],
                   start |-> s, end |-> e]
    BY <1>0, <2>1, StartsAs
  <2>3. RowAsRead(job[w])'
    BY <2>1, <2>2 DEF RowAsRead
  <2> QED BY <1>1, <2>1, <2>3
<1>4. CASE MaintenanceRead(w)
  <2>1. PICK r \in Resources :
          /\ Start(w, [op |-> "maintenance", step |-> "find", res |-> r, was |-> maintenance[r]])
          /\ bookings' = bookings
    BY <1>4 DEF MaintenanceRead, tables
  <2>2. RowAsRead(job[w])'
    BY <1>0, <2>1, StartsAs, NotWriting
  <2> QED BY <1>1, <2>1, <2>2
<1>5. ASSUME Return(w) PROVE RowAsRead(job[w])'
  BY <1>0, <1>5, Returns, NotWriting
<1>6. ASSUME job[w] \in StatusJob \cup RescheduleJob, bookings' = bookings,
             NEW step \in {"credits", "commit"}, Advance(w, step)
      PROVE  WriterInv'
  <2>1. /\ job'[w].op = job[w].op /\ job'[w].id = job[w].id /\ job'[w].seen = job[w].seen
        /\ job'[w].step # "charge" /\ job[w].op \in {"status", "reschedule"}
    <3>1. job'[w] = [job[w] EXCEPT !.step = step]
      BY <1>0, <1>6, GoesOn
    <3>2. CASE job[w] \in StatusJob
      BY <3>1, <3>2 DEF StatusJob
    <3>3. CASE job[w] \in RescheduleJob
      BY <3>1, <3>3 DEF RescheduleJob
    <3> QED BY <1>6, <3>2, <3>3
  <2>2. RowAsRead(job[w])'
    BY <1>6, <2>1 DEF WriterInv, RowAsRead
  <2> QED BY <1>1, <1>6, <2>2
<1>7. CASE ConfirmCharge(w)
  <2>1. job[w] \in StatusJob /\ Advance(w, "commit") /\ bookings' = bookings
    BY <1>0, <1>7, JobKinds DEF ConfirmCharge, At, RowsOK
  <2> QED BY <1>6, <2>1
<1>8. CASE RescheduleCheckSlot(w) \/ RescheduleCheckCredits(w)
  <2>1. job[w] \in RescheduleJob /\ job[w].op = "reschedule" /\ bookings' = bookings
    BY <1>0, <1>8, JobKinds DEF RescheduleCheckSlot, RescheduleCheckCredits, At, RowsOK, tables
  <2>2. Return(w) \/ Advance(w, "credits") \/ Advance(w, "commit")
    BY <1>8 DEF RescheduleCheckSlot, RescheduleCheckCredits
  <2> QED BY <1>1, <1>5, <1>6, <2>1, <2>2
<1>9. CASE StatusCommit(w) \/ RescheduleCommit(w)
  <2>1. /\ job[w].op \in {"status", "reschedule"} /\ RowAsRead(job[w])'
        /\ \A k \in Ids \ {job[w].id} : bookings'[k] = bookings[k]
    BY <1>0, <1>5, <1>9, StatusWrites, RescheduleWrites DEF StatusCommit, RescheduleCommit, At
  <2>2. job[w].id \in Writes(job[w])
    BY <2>1, WrittenExist
  <2>3. \A v \in Workers \ {w} : job[w].id \notin Writes(job[v])
    BY <2>2 DEF OneWrites
  <2> QED BY <1>0, <2>1, <2>3, WrittenExist, WritesElsewhere
<1>10. CASE MaintenanceCommit(w)
  <2>1. RowAsRead(job[w])' /\ SetStatus(Settles(job[w]), "CANCELLED")
    BY <1>5, <1>10 DEF MaintenanceCommit, At, Settles
  <2>2. \A k \in Ids \ Writes(job[w]) : bookings'[k] = bookings[k]
    BY <1>0, <2>1, SetStatusWrites DEF Writes
  <2>3. \A v \in Workers \ {w} : Writes(job[v]) \cap Writes(job[w]) = {}
    BY DEF OneWrites
  <2> QED BY <1>0, <2>1, <2>2, <2>3, WrittenExist, WritesElsewhere
<1>11. CASE MaintenanceFind(w)
  <2>1. /\ bookings' = bookings
        /\ job'[w] = [op |-> "maintenance", step |-> "commit", res |-> job[w].res,
                      seen |-> [i \in Ids |-> IF i \in Upcoming(job[w].res) THEN bookings[i]
                                                                           ELSE Unused]]
    BY <1>0, <1>11 DEF MaintenanceFind, RowsOK, tables
  <2>2. \A i \in Ids : job'[w].seen[i].status \in Active => bookings'[i] = job'[w].seen[i]
    BY <2>1 DEF Unused, Active
  <2>3. RowAsRead(job[w])'
    BY <2>1, <2>2 DEF RowAsRead, Settles
  <2> QED BY <1>1, <2>1, <2>3
<1>12. CASE MaintenanceEnd(w)
  BY <1>1, <1>5, <1>12 DEF MaintenanceEnd
<1> QED
  BY <1>2, <1>3, <1>4, <1>7, <1>8, <1>9, <1>10, <1>11, <1>12
     DEF StatusStep, RescheduleStep, MaintenanceStep

LEMMA WriterInvStep ==
  ASSUME WriterInv, OneWrites, [Next]_vars
  PROVE  WriterInv'
<1>0. RowsOK /\ SettleInv /\ SettleInv'
  BY SettleInvStep, WritesSettles DEF WriterInv, SettleInv
<1>1. ASSUME NEW w \in Workers, CreateStep(w) \/ RequestFails(w) PROVE WriterInv'
  <2>1. \A v \in Workers : RowAsRead(job[v])' \/ job'[v] = job[v]
    BY <1>0, <1>1, CreateJobs, FailsIdle, NotWriting
  <2>2. \A i \in Ids : bookings[i].status # "none" => bookings'[i] = bookings[i]
    <3>1. CASE CreateCommit(w)
      BY <1>0, <3>1, CreateWrites
    <3>2. CASE bookings' = bookings
      BY <3>2
    <3> QED
      BY <1>1, <3>1, <3>2
         DEF CreateStep, CreateCheckSlot, CreateCheckCredits, RequestFails, tables
  <2> QED BY <1>0, <2>1, <2>2, WrittenExist, WritesElsewhere
<1>2. ASSUME \/ \E r \in Resources : UpdateResourceFlag(r)
             \/ \E c \in Crons : CronSelect(c) \/ CronFails(c)
             \/ Tick \/ UNCHANGED vars
      PROVE  WriterInv'
  <2>1. bookings' = bookings /\ job' = job
    BY <1>2 DEF UpdateResourceFlag, CronSelect, CronFails, Tick, tables, vars
  <2> QED BY <1>0, <2>1, WritesElsewhere
<1>3. CASE AutoCancel \/ AutoCheckIn \/ AutoComplete
  <2>1. PICK c \in Crons : job' = job /\ \E to \in Statuses : SetStatus(scan[c], to)
    BY <1>3 DEF AutoCancel, AutoCheckIn, AutoComplete, Crons, Statuses
  <2>2. \A k \in Ids \ scan[c] : bookings'[k] = bookings[k]
    BY <1>0, <2>1, SetStatusWrites
  <2>3. \A w \in Workers : Writes(job[w]) \cap scan[c] = {}
    BY DEF OneWrites
  <2> QED BY <1>0, <2>1, <2>2, <2>3, WrittenExist, WritesElsewhere
<1> QED
  BY <1>0, <1>1, <1>2, <1>3, RequestKeepsWriter DEF Next

PaidInv == WriterInv /\ PaidAsStatusSays

\* What PaidAsStatusSays says of one booking.
PaidRight(i) ==
    paid[i] \in CASE bookings[i].status \in {"CONFIRMED", "CHECKED_IN", "COMPLETED"} -> {bookings[i].cost}
                  [] bookings[i].status = "CANCELLED" -> {0, bookings[i].cost - bookings[i].cost \div 2}
                  [] OTHER -> {IF BeingConfirmed(i) THEN bookings[i].cost ELSE 0}

LEMMA PaidOneByOne ==
  /\ PaidAsStatusSays <=> \A i \in Created : PaidRight(i)
  /\ PaidAsStatusSays' <=> \A i \in Created' : PaidRight(i)'
  BY DEF PaidAsStatusSays, PaidRight

\* A booking of which neither row, charge nor confirmation changes.
LEMMA PaidKept ==
  ASSUME NEW i \in Ids, PaidRight(i), bookings'[i] = bookings[i], paid'[i] = paid[i],
         BeingConfirmed(i)' <=> BeingConfirmed(i)
  PROVE  PaidRight(i)'
  BY DEF PaidRight

LEMMA ConfirmationsKept ==
  ASSUME \A w \in Workers : job'[w] = job[w] \/ (job[w].op # "status" /\ job'[w].op # "status")
  PROVE  \A i \in Ids : BeingConfirmed(i)' <=> BeingConfirmed(i)
  BY DEF BeingConfirmed, At

\* A step of w leaves the confirmations of rows it does not confirm alone.
LEMMA OtherConfirmations ==
  ASSUME NEW w \in Workers, \A v \in Workers \ {w} : job'[v] = job[v], NEW i \in Ids,
         ~(Charged(job[w]) /\ job[w].id = i), ~(Charged(job'[w]) /\ job'[w].id = i)
  PROVE  BeingConfirmed(i)' <=> BeingConfirmed(i)
  BY DEF BeingConfirmed, At, Charged

\* A row is being confirmed by the handler that holds it, if at all.
LEMMA HolderConfirms ==
  ASSUME WriterInv, OneWrites, NEW w \in Workers, NEW i \in Writes(job[w])
  PROVE  /\ BeingConfirmed(i) <=> Charged(job[w]) /\ job[w].id = i
         /\ (\A v \in Workers \ {w} : job'[v] = job[v]) =>
              (BeingConfirmed(i)' <=> Charged(job'[w]) /\ job'[w].id = i)
<1>1. \A v \in Workers \ {w} : job[v].op = "status" => job[v].id # i
  BY WrittenExist DEF OneWrites
<1>2. Charged(job[w]) => job[w] # Idle
  BY DEF Charged, Idle
<1>3. Charged(job'[w]) => job'[w] # Idle
  BY DEF Charged, Idle
<1> QED BY <1>1, <1>2, <1>3 DEF BeingConfirmed, At, Charged

LEMMA CronConfirmsNone ==
  ASSUME WriterInv, OneWrites, NEW c \in Crons, NEW i \in scan[c]
  PROVE  ~BeingConfirmed(i)
<1>1. \A v \in Workers : job[v].op = "status" => job[v].id # i
  BY WrittenExist DEF OneWrites
<1> QED BY <1>1 DEF BeingConfirmed, At

LEMMA CreatePaid ==
  ASSUME PaidInv, NEW w \in Workers, CreateCommit(w)
  PROVE  PaidAsStatusSays'
<1>0. RowsOK /\ \A i \in Created : PaidRight(i)
  BY PaidOneByOne DEF PaidInv, WriterInv, SettleInv
<1>1. \A i \in Ids : BeingConfirmed(i)' <=> BeingConfirmed(i)
  BY <1>0, CreateJobs, ConfirmationsKept DEF CreateStep
<1>2. PICK i \in Ids :
        /\ bookings[i].status = "none"
        /\ bookings' = [bookings EXCEPT ![i] =
                          [status |-> job[w].status, user |-> job[w].user, res |-> job[w].res,
                           start |-> job[w].start, end |-> job[w].end,
                           cost |-> Cost(job[w].start, job[w].end)]]
        /\ paid' = [paid EXCEPT ![i] = IF job[w].status = "CONFIRMED"
                                       THEN Cost(job[w].start, job[w].end) ELSE 0]
  BY DEF CreateCommit, Created
<1>3. job[w].status \in Active
  BY <1>0, CreateWrites DEF CreateJob
<1>4. ~BeingConfirmed(i)
  <2>1. \A v \in Workers : job[v].op = "status" => bookings[job[v].id].status # "none"
    BY DEF PaidInv, WriterInv, SettleInv, AsRead
  <2>2. QED
    BY <1>2, <2>1 DEF BeingConfirmed, At
<1>5. PaidRight(i)'
  BY <1>0, <1>1, <1>2, <1>3, <1>4 DEF PaidRight, Active, RowsOK
<1>6. \A k \in Ids \ {i} : bookings'[k] = bookings[k] /\ paid'[k] = paid[k]
  BY <1>0, <1>2 DEF RowsOK
<1>7. \A k \in Created' : PaidRight(k)'
  BY <1>0, <1>1, <1>5, <1>6, PaidKept DEF Created
<1>8. QED
  BY <1>7, PaidOneByOne

LEMMA ReschedulePaid ==
  ASSUME PaidInv, OneWrites, NEW w \in Workers, RescheduleCommit(w)
  PROVE  PaidAsStatusSays'
<1> DEFINE j == job[w]
<1>0. RowsOK /\ WriterInv /\ \A i \in Created : PaidRight(i)
  BY PaidOneByOne DEF PaidInv, WriterInv, SettleInv
<1>1. j \in RescheduleJob /\ j.op = "reschedule" /\ j.id \in Ids
  BY <1>0, JobKinds DEF RescheduleCommit, At, RowsOK, RescheduleJob
<1>this. PICK this \in Ids : this = j.id
  BY <1>1
<1>2. bookings[j.id] = j.seen /\ j.seen.status \in Active
  BY <1>0, <1>1 DEF WriterInv, RowAsRead
<1>3. ~Charged(job[w]) /\ ~Charged(job'[w]) /\ \A v \in Workers \ {w} : job'[v] = job[v]
  BY <1>0, <1>1, Returns DEF RescheduleCommit, Charged
<1>4. ~BeingConfirmed(j.id) /\ \A i \in Ids : BeingConfirmed(i)' <=> BeingConfirmed(i)
  BY <1>0, <1>1, <1>3, WrittenExist, HolderConfirms, OtherConfirmations
<1>5. paid' = [paid EXCEPT ![j.id] =
                 @ + (IF j.seen.status = "CONFIRMED" THEN HowMuchToPay(j) ELSE 0)]
  BY DEF RescheduleCommit
<1>6. PaidRight(this)'
  <2>1. Cost(j.start, j.end) \in Nat /\ bookings'[j.id].cost = Cost(j.start, j.end)
        /\ bookings'[j.id].status = j.seen.status
    BY <1>0, <1>2, RescheduleWrites
  <2>2. PaidRight(j.id)
    BY <1>0, <1>1, <1>2 DEF Created, Active
  <2>3. paid[j.id] = IF j.seen.status = "CONFIRMED" THEN j.seen.cost ELSE 0
    BY <1>1, <1>2, <1>4, <2>2 DEF PaidRight, Active
  <2>4. paid'[j.id] = paid[j.id] + (IF j.seen.status = "CONFIRMED" THEN HowMuchToPay(j) ELSE 0)
    BY <1>0, <1>1, <1>5 DEF RowsOK
  <2>5. j.seen.cost \in Nat
    BY <1>1 DEF RescheduleJob, Booking
  <2>6. paid'[j.id] = IF j.seen.status = "CONFIRMED" THEN Cost(j.start, j.end) ELSE 0
    BY <2>1, <2>3, <2>4, <2>5 DEF HowMuchToPay
  <2>7. QED
    BY <1>this, <1>2, <1>4, <2>1, <2>6 DEF PaidRight, Active
<1>7. \A k \in Ids \ {j.id} : bookings'[k] = bookings[k] /\ paid'[k] = paid[k]
  BY <1>0, <1>5, RescheduleWrites DEF RowsOK
<1>8. \A k \in Created' : PaidRight(k)'
  BY <1>this, <1>0, <1>4, <1>6, <1>7, PaidKept DEF Created
<1>9. QED
  BY <1>8, PaidOneByOne

LEMMA ChargePaid ==
  ASSUME PaidInv, OneWrites, NEW w \in Workers, ConfirmCharge(w)
  PROVE  PaidAsStatusSays'
<1> DEFINE j == job[w]
<1>0. RowsOK /\ WriterInv /\ \A i \in Created : PaidRight(i)
  BY PaidOneByOne DEF PaidInv, WriterInv, SettleInv
<1>1. j \in StatusJob /\ j.op = "status" /\ j.step = "charge" /\ j.id \in Ids /\ j # Idle
  BY <1>0, JobKinds DEF ConfirmCharge, At, RowsOK, StatusJob
<1>this. PICK this \in Ids : this = j.id
  BY <1>1
<1>2. bookings[j.id] = j.seen /\ j.seen.status = "PENDING" /\ j.to = "CONFIRMED"
  BY <1>0, <1>1 DEF WriterInv, RowAsRead
<1>3. \A v \in Workers \ {w} : job'[v] = job[v]
  BY <1>0, GoesOn DEF ConfirmCharge
<1>4. ~BeingConfirmed(j.id)
  BY <1>0, <1>1, WrittenExist, HolderConfirms DEF Charged
<1>5. /\ job'[w].op = "status" /\ job'[w].step = "commit" /\ job'[w].id = j.id
      /\ job'[w].seen = j.seen /\ job'[w].to = j.to /\ job'[w] # Idle
  <2>1. job'[w] = [job[w] EXCEPT !.step = "commit"]
    BY <1>0, GoesOn DEF ConfirmCharge
  <2>2. QED
    BY <1>1, <2>1 DEF StatusJob, Idle
<1>6. BeingConfirmed(this)' /\ \A i \in Ids \ {j.id} : BeingConfirmed(i)' <=> BeingConfirmed(i)
  <2>1. Charged(job'[w]) /\ ~Charged(job[w])
    BY <1>1, <1>2, <1>5 DEF Charged
  <2>2. BeingConfirmed(this)'
    BY <1>this, <1>2, <1>5 DEF BeingConfirmed, At
  <2> QED BY <1>3, <1>5, <2>1, <2>2, OtherConfirmations
<1>7. bookings' = bookings /\ paid' = [paid EXCEPT ![j.id] = @ + j.seen.cost]
  BY DEF ConfirmCharge
<1>8. PaidRight(this)'
  <2>1. paid[j.id] = 0
    BY <1>0, <1>1, <1>2, <1>4 DEF PaidRight, Created
  <2>2. j.seen.cost \in Nat
    BY <1>1 DEF StatusJob, Booking
  <2>3. paid'[j.id] = j.seen.cost
    BY <1>0, <1>1, <1>7, <2>1, <2>2 DEF RowsOK
  <2>4. QED
    BY <1>this, <1>2, <1>6, <1>7, <2>3 DEF PaidRight
<1>9. \A k \in Ids \ {j.id} : paid'[k] = paid[k] /\ bookings'[k] = bookings[k]
  BY <1>0, <1>7 DEF RowsOK
<1>10. \A k \in Created' : PaidRight(k)'
  BY <1>this, <1>0, <1>6, <1>7, <1>8, <1>9, PaidKept DEF Created
<1>11. QED
  BY <1>10, PaidOneByOne

\* What a change of status leaves paid, on each way of the life of a booking.
LEMMA StatusPaid ==
  ASSUME LifecycleOnly, PaidInv, OneWrites, NEW w \in Workers, StatusCommit(w)
  PROVE  PaidAsStatusSays'
<1> DEFINE j == job[w]
<1>0. RowsOK /\ WriterInv /\ \A i \in Created : PaidRight(i)
  BY PaidOneByOne DEF PaidInv, WriterInv, SettleInv
<1>1. j \in StatusJob /\ j.op = "status" /\ j.step = "commit" /\ j.id \in Ids /\ j # Idle
  BY <1>0, JobKinds DEF StatusCommit, At, RowsOK, StatusJob
<1>this. PICK this \in Ids : this = j.id
  BY <1>1
<1>2. bookings[j.id] = j.seen /\ <<j.seen.status, j.to>> \in Transitions /\ j.seen.status # "none"
  BY <1>0, <1>1 DEF WriterInv, RowAsRead, SettleInv, AsRead
<1>3. ~Charged(job'[w]) /\ \A v \in Workers \ {w} : job'[v] = job[v]
  BY <1>0, <1>1, Returns DEF StatusCommit, Charged
<1>4. /\ BeingConfirmed(j.id) <=> j.seen.status = "PENDING" /\ j.to = "CONFIRMED"
      /\ ~BeingConfirmed(this)'
      /\ \A i \in Ids \ {j.id} : BeingConfirmed(i)' <=> BeingConfirmed(i)
  <2>1. j.id \in Writes(j)
    BY <1>0, <1>1, WrittenExist
  <2>2. /\ BeingConfirmed(j.id) <=> j.seen.status = "PENDING" /\ j.to = "CONFIRMED"
        /\ ~BeingConfirmed(this)'
    BY <1>0, <1>1, <1>3, <1>this, <2>1, HolderConfirms DEF Charged
  <2> QED BY <1>3, <2>2, OtherConfirmations
<1>5. PaidRight(j.id)
  BY <1>0, <1>1, <1>2 DEF Created
<1>6. j.seen.cost \in Nat /\ paid[j.id] \in Int
  BY <1>0, <1>1 DEF StatusJob, Booking, RowsOK
<1>7. CASE ~RefundFits(j)
  <2>1. bookings' = bookings /\ paid' = paid
    BY <1>7 DEF StatusCommit
  <2>2. j.to = "CANCELLED"
    BY <1>7 DEF RefundFits
  <2>3. \A i \in Ids : BeingConfirmed(i)' <=> BeingConfirmed(i)
    BY <1>this, <1>4, <2>2
  <2>4. QED
    BY <1>0, <2>1, <2>3, PaidKept, PaidOneByOne DEF Created
<1>8. CASE RefundFits(j)
  <2>1. bookings'[j.id].status = j.to /\ bookings'[j.id].cost = j.seen.cost
    BY <1>0, <1>2, <1>8, StatusWrites DEF Turns
  <2>2. /\ paid'[j.id] = paid[j.id] - Refund(j)
        /\ \A k \in Ids \ {j.id} : paid'[k] = paid[k] /\ bookings'[k] = bookings[k]
    BY <1>0, <1>1, <1>8, StatusWrites DEF StatusCommit, RowsOK
  <2>3. PaidRight(this)'
    <3>1. CASE j.seen.status = "PENDING"
      <4>1. paid[j.id] = IF j.to = "CONFIRMED" THEN j.seen.cost ELSE 0
        BY <1>1, <1>2, <1>4, <1>5, <3>1 DEF PaidRight
      <4>2. j.to \in {"CONFIRMED", "REJECTED", "CANCELLED"} /\ Refund(j) = 0
        BY <1>2, <3>1 DEF LifecycleOnly, Refund
      <4>3. paid'[j.id] = paid[j.id]
        BY <1>6, <2>2, <4>2
      <4>4. QED
        BY <1>this, <1>4, <2>1, <4>1, <4>2, <4>3, <3>1 DEF PaidRight
    <3>2. CASE j.seen.status = "CONFIRMED" /\ j.to = "CANCELLED"
      <4>1. paid[j.id] = j.seen.cost
        BY <1>1, <1>2, <1>5, <3>2 DEF PaidRight
      <4>2. Refund(j) \in {j.seen.cost, j.seen.cost \div 2}
        BY <3>2 DEF Refund
      <4>3. paid'[j.id] \in {0, j.seen.cost - j.seen.cost \div 2}
        BY <1>6, <2>2, <4>1, <4>2
      <4>4. QED
        BY <1>this, <2>1, <3>2, <4>3 DEF PaidRight
    <3>3. CASE j.seen.status \in {"CONFIRMED", "CHECKED_IN"} /\ j.to \in {"CHECKED_IN", "COMPLETED"}
      <4>1. paid[j.id] = j.seen.cost /\ Refund(j) = 0
        BY <1>1, <1>2, <1>5, <3>3 DEF PaidRight, Refund
      <4>2. paid'[j.id] = j.seen.cost
        BY <1>6, <2>2, <4>1
      <4>3. QED
        BY <1>this, <2>1, <3>3, <4>2 DEF PaidRight
    <3>4. QED
      BY <1>2, <3>1, <3>2, <3>3 DEF LifecycleOnly
  <2>4. \A k \in Created' : PaidRight(k)'
    BY <1>this, <1>0, <1>4, <2>2, <2>3, PaidKept DEF Created
  <2>5. QED
    BY <2>4, PaidOneByOne
<1>9. QED
  BY <1>7, <1>8

LEMMA MaintenancePaid ==
  ASSUME PaidInv, OneWrites, NEW w \in Workers, MaintenanceCommit(w)
  PROVE  PaidAsStatusSays'
<1> DEFINE j == job[w]
<1>0. RowsOK /\ WriterInv /\ \A i \in Created : PaidRight(i)
  BY PaidOneByOne DEF PaidInv, WriterInv, SettleInv
<1>1. j \in CancelJob /\ j.op = "maintenance" /\ j.step = "commit"
  BY <1>0, JobKinds DEF MaintenanceCommit, At, RowsOK
<1>2. \A i \in Ids : j.seen[i].status \in Active => bookings[i] = j.seen[i]
  BY <1>0, <1>1 DEF WriterInv, RowAsRead, Settles
<1>3. ~Charged(job[w]) /\ ~Charged(job'[w]) /\ \A v \in Workers \ {w} : job'[v] = job[v]
  BY <1>0, <1>1, Returns DEF MaintenanceCommit, Charged
<1>4. /\ \A i \in Ids : j.seen[i].status \in Active => ~BeingConfirmed(i)
      /\ \A i \in Ids : BeingConfirmed(i)' <=> BeingConfirmed(i)
  <2>1. \A i \in Ids : j.seen[i].status \in Active => i \in Writes(j)
    BY <1>1 DEF Writes, Settles
  <2> QED BY <1>0, <1>3, <2>1, HolderConfirms, OtherConfirmations
<1>5. \A i \in Ids : IF j.seen[i].status \in Active THEN Turns(i, "CANCELLED")
                                                   ELSE bookings'[i] = bookings[i]
  BY <1>0, SetStatusWrites DEF MaintenanceCommit
<1>6. \A i \in Ids : paid'[i] = IF j.seen[i].status = "CONFIRMED" THEN paid[i] - j.seen[i].cost
                                                                ELSE paid[i]
  BY DEF MaintenanceCommit
<1>7. ASSUME NEW i \in Created, j.seen[i].status \in Active PROVE PaidRight(i)'
  <2>1. i \in Ids /\ PaidRight(i) /\ bookings[i] = j.seen[i] /\ j.seen[i].cost \in Nat
    BY <1>0, <1>1, <1>2, <1>7 DEF Created, CancelJob, Booking
  <2>2. paid[i] = IF j.seen[i].status = "CONFIRMED" THEN j.seen[i].cost ELSE 0
    BY <1>4, <1>7, <2>1 DEF PaidRight, Active
  <2>3. paid'[i] = 0
    BY <1>6, <1>7, <2>1, <2>2 DEF Active
  <2>4. bookings'[i].status = "CANCELLED"
    BY <1>5, <1>7, <2>1 DEF Turns
  <2>5. QED
    BY <2>3, <2>4 DEF PaidRight
<1>8. ASSUME NEW i \in Created, j.seen[i].status \notin Active PROVE PaidRight(i)'
  <2>1. i \in Ids /\ bookings'[i] = bookings[i] /\ paid'[i] = paid[i]
    BY <1>5, <1>6, <1>8 DEF Created, Active
  <2>2. QED
    BY <1>0, <1>4, <2>1, PaidKept
<1>9. Created' = Created
  <2>1. \A i \in Ids : j.seen[i].status \in Active => bookings[i].status # "none"
    BY <1>2 DEF Active
  <2>2. \A i \in Ids : bookings'[i].status = "none" <=> bookings[i].status = "none"
    BY <1>5, <2>1 DEF Turns
  <2>3. QED
    BY <2>2 DEF Created
<1>10. QED
  BY <1>7, <1>8, <1>9, PaidOneByOne

LEMMA CronPaid ==
  ASSUME PaidInv, OneWrites, AutoCancel \/ AutoCheckIn \/ AutoComplete
  PROVE  PaidAsStatusSays'
<1>0. RowsOK /\ WriterInv /\ SettleInv /\ \A i \in Created : PaidRight(i)
  BY PaidOneByOne DEF PaidInv, WriterInv, SettleInv
<1>1. job' = job /\ paid' = paid
  BY DEF AutoCancel, AutoCheckIn, AutoComplete
<1>2. PICK c \in Crons, to \in Statuses :
        /\ SetStatus(scan[c], to)
        /\ \/ c = "autoCancel" /\ to = "CANCELLED"
           \/ c = "autoCheckIn" /\ to = "CHECKED_IN"
           \/ c = "autoComplete" /\ to = "COMPLETED"
  BY DEF AutoCancel, AutoCheckIn, AutoComplete, Crons, Statuses
<1>3. \A i \in Ids : BeingConfirmed(i)' <=> BeingConfirmed(i)
  BY <1>1, ConfirmationsKept
<1>4. \A i \in scan[c] : ~BeingConfirmed(i)
  BY <1>0, CronConfirmsNone
<1>5. \A i \in Ids : IF i \in scan[c] THEN Turns(i, to) ELSE bookings'[i] = bookings[i]
  BY <1>0, <1>2, SetStatusWrites
<1>6. \A i \in scan[c] : i \in Ids /\ bookings[i].status = Selected(c)
  BY <1>0 DEF SettleInv, StillSelected, RowsOK
<1>7. ASSUME NEW i \in Ids, i \in scan[c] PROVE PaidRight(i)'
  <2>1. i \in Created /\ PaidRight(i)
    BY <1>0, <1>6, <1>7 DEF Created, Selected, Crons
  <2>2. bookings'[i].status = to /\ bookings'[i].cost = bookings[i].cost
    BY <1>5, <1>7 DEF Turns
  <2>3. CASE c = "autoCancel"
    <3>1. paid[i] = 0
      BY <1>4, <1>6, <1>7, <2>1, <2>3 DEF PaidRight, Selected
    <3>2. QED
      BY <1>1, <1>2, <2>2, <2>3, <3>1 DEF PaidRight
  <2>4. CASE c \in {"autoCheckIn", "autoComplete"}
    <3>1. paid[i] = bookings[i].cost
      BY <1>6, <1>7, <2>1, <2>4 DEF PaidRight, Selected
    <3>2. QED
      BY <1>1, <1>2, <2>2, <2>4, <3>1 DEF PaidRight
  <2>5. QED
    BY <2>3, <2>4 DEF Crons
<1>8. ASSUME NEW i \in Created', i \notin scan[c] PROVE PaidRight(i)'
  BY <1>0, <1>1, <1>3, <1>5, <1>8, PaidKept DEF Created
<1>9. QED
  BY <1>7, <1>8, PaidOneByOne DEF Created

\* The steps that neither write a booking nor charge.
LEMMA OthersPaid ==
  ASSUME ConfirmationCommits, PaidInv, [Next]_vars,
         \A w \in Workers : ~CreateCommit(w) /\ ~StatusCommit(w) /\ ~RescheduleCommit(w)
                            /\ ~MaintenanceCommit(w) /\ ~ConfirmCharge(w),
         ~AutoCancel, ~AutoCheckIn, ~AutoComplete
  PROVE  PaidAsStatusSays'
<1>0. RowsOK /\ \A i \in Created : PaidRight(i)
  BY PaidOneByOne DEF PaidInv, WriterInv, SettleInv
<1>1. bookings' = bookings
  BY OthersWriteNothing
<1>2. ASSUME paid' = paid, \A i \in Ids : BeingConfirmed(i)' <=> BeingConfirmed(i)
      PROVE  PaidAsStatusSays'
  BY <1>0, <1>1, <1>2, PaidKept, PaidOneByOne DEF Created
<1>3. ASSUME NEW w \in Workers, CreateStep(w) \/ RescheduleStep(w) \/ MaintenanceStep(w)
      PROVE  PaidAsStatusSays'
  <2>1. \A v \in Workers : job'[v] = job[v] \/ (job[v].op # "status" /\ job'[v].op # "status")
    BY <1>0, <1>3, CreateJobs, RescheduleJobs, MaintenanceJobs
  <2>2. paid' = paid
    BY <1>3 DEF CreateStep, CreateCheckSlot, CreateCheckCredits, RescheduleStep, RescheduleRead,
         RescheduleCheckSlot, RescheduleCheckCredits, MaintenanceStep, MaintenanceRead,
         MaintenanceFind, MaintenanceEnd
  <2>3. QED
    BY <1>2, <2>1, <2>2, ConfirmationsKept
<1>4. ASSUME NEW w \in Workers, StatusRead(w) PROVE PaidAsStatusSays'
  <2>1. PICK i \in Created, to \in Statuses, role \in Roles, step \in {"charge", "commit"} :
          /\ Start(w, [op |-> "status", step |-> step, id |-> i, seen |-> bookings[i],
                       to |-> to, role |-> role])
          /\ bookings[i].status = "PENDING" /\ to = "CONFIRMED" => step = "charge"
    BY <1>4 DEF StatusRead
  <2>2. /\ job[w].op = "idle"
        /\ job'[w] = [op |-> "status", step |-> step, id |-> i, seen |-> bookings[i],
                      to |-> to, role |-> role]
        /\ \A v \in Workers \ {w} : job'[v] = job[v]
    BY <1>0, <2>1, StartsAs
  <2>3. \A k \in Ids : BeingConfirmed(k)' <=> BeingConfirmed(k)
    BY <2>1, <2>2 DEF BeingConfirmed, At
  <2>4. QED
    BY <1>2, <1>4, <2>3 DEF StatusRead
<1>5. ASSUME \/ \E r \in Resources : UpdateResourceFlag(r)
             \/ \E c \in Crons : CronSelect(c) \/ CronFails(c)
             \/ Tick \/ UNCHANGED vars
      PROVE  PaidAsStatusSays'
  <2>1. job' = job /\ paid' = paid
    BY <1>5 DEF UpdateResourceFlag, CronSelect, CronFails, Tick, vars
  <2>2. QED
    BY <1>2, <2>1, ConfirmationsKept
<1>6. ASSUME NEW w \in Workers, RequestFails(w) PROVE PaidAsStatusSays'
  <2>1. job'[w].op = "idle" /\ \A v \in Workers \ {w} : job'[v] = job[v]
    BY <1>0, <1>6, FailsIdle
  <2>2. ~Charged(job[w]) /\ ~Charged(job'[w]) /\ paid' = paid
    BY <1>6, <2>1 DEF ConfirmationCommits, Charged, RequestFails
  <2> QED BY <1>2, <2>1, <2>2, OtherConfirmations
<1>7. QED
  BY <1>3, <1>4, <1>5, <1>6 DEF Next, StatusStep

\* What a user has paid for a booking is what its status says, when no two of
\* the handlers and crons that write existing bookings hold one row, bookings go
\* the ways the screens offer, and no confirmation fails between its charge,
\* which is committed on its own, and the rest of its transaction.
THEOREM PaidCorrect ==
  ASSUME LifecycleOnly
  PROVE  Spec /\ []OneWrites /\ [][ConfirmationCommits]_vars => []PaidAsStatusSays
<1>1. Init => PaidInv
  BY SettleInvInit DEF Init, PaidInv, WriterInv, RowAsRead, PaidAsStatusSays, Created, Unused, Idle
<1>2. PaidInv /\ OneWrites /\ [Next]_vars /\ [ConfirmationCommits]_vars => PaidInv'
  <2> SUFFICES ASSUME PaidInv, OneWrites, [Next]_vars, [ConfirmationCommits]_vars PROVE PaidInv'
    OBVIOUS
  <2>1. WriterInv'
    BY WriterInvStep DEF PaidInv
  <2>2. CASE UNCHANGED vars
    <3>1. bookings' = bookings /\ job' = job /\ paid' = paid
      BY <2>2 DEF vars
    <3>2. \A i \in Ids : BeingConfirmed(i)' <=> BeingConfirmed(i)
      BY <3>1, ConfirmationsKept
    <3>3. PaidAsStatusSays'
      BY <3>1, <3>2, PaidKept, PaidOneByOne DEF PaidInv, Created
    <3> QED BY <2>1, <3>3 DEF PaidInv
  <2>3. CASE ConfirmationCommits
    <3>1. PaidAsStatusSays'
      BY <2>3, CreatePaid, ReschedulePaid, ChargePaid, StatusPaid, MaintenancePaid, CronPaid, OthersPaid
    <3> QED BY <2>1, <3>1 DEF PaidInv
  <2> QED BY <2>2, <2>3
<1>3. PaidInv => PaidAsStatusSays
  BY DEF PaidInv
<1>4. QED
  BY <1>1, <1>2, <1>3, PTL DEF Spec

Writers == Settlers \cup {"reschedule"}

LEMMA LockedWrites == ASSUME Writers \subseteq Exclusive PROVE Spec => []OneWrites
<1>0. Writers \in SUBSET (Crons \cup Requests)
  BY DEF Writers, Settlers, Requests
<1>1. Init => RowsOK /\ OneOf(Writers)
  BY <1>0, RowsInit, OneOfInit
<1>2. RowsOK /\ OneOf(Writers) /\ [Next]_vars => RowsOK' /\ OneOf(Writers)'
  BY <1>0, RowsStep, OneOfStep
<1>3. OneOf(Writers) => OneWrites
  BY DEF OneOf, OneWrites, Writes, Settles, Writers, Settlers
<1> QED BY <1>1, <1>2, <1>3, PTL DEF Spec

\* Where nothing fails, charged confirmations commit.
LEMMA FaultlessCommits == ASSUME MaxFaults = 0 PROVE Spec => [][ConfirmationCommits]_vars
<1>1. RowsOK /\ [Next]_vars => [ConfirmationCommits]_vars
  BY DEF RowsOK, ConfirmationCommits, RequestFails
<1>2. RowsOK /\ [Next]_vars => RowsOK'
  BY RowsStep
<1> QED BY <1>1, <1>2, RowsInit, PTL DEF Spec

\* One lock around every handler and cron that writes existing bookings is
\* enough for each payment to be what its booking's status says, if nothing fails.
THEOREM PaidLocked ==
  ASSUME Writers \subseteq Exclusive, LifecycleOnly, MaxFaults = 0
  PROVE  Spec => []PaidAsStatusSays
  BY LockedWrites, FaultlessCommits, PaidCorrect, PTL

-----------------------------------------------------------------------------
(* No booking ahead on a resource under maintenance, when no handler       *)
(* decides on a resource while the switch is between finding and           *)
(* cancelling its bookings, and edits of the flag only open resources.     *)
(* Handlers that decide on one resource together, crons and failures may   *)
(* come between any two steps.                                             *)

\* The switch has found the bookings of a resource and is to close it.
Closing(j) == j.op = "maintenance" /\ j.step = "commit"

ClosesAlone ==
    \A v, w \in Workers :
        Closing(job[v]) /\ Deciding(job[w]) => ResourceOf(job[w]) # job[v].res

EditsOnlyOpen == \A r \in Resources : UpdateResourceFlag(r) => maintenance[r]

\* The resource handler w is about to book is not under maintenance, and one
\* that it is about to close has no booking ahead that w has not found.
OpenFor(w) ==
    /\ job[w].op \in {"reschedule", "status"} =>
         /\ bookings[job[w].id].status # "none"
         /\ bookings[job[w].id].res = job[w].seen.res
    /\ job[w].op = "create" => ~maintenance[job[w].res]
    /\ job[w].op = "reschedule" /\ job[w].step # "slot" =>
         ~maintenance[bookings[job[w].id].res]
    /\ job[w].op = "status" /\ job[w].to \in Active =>
         ~maintenance[bookings[job[w].id].res] \/ bookings[job[w].id].end < now
    /\ Closing(job[w]) =>
         \A i \in OnResource(job[w].res, Active) :
             bookings[i].end >= now => job[w].seen[i].status \in Active

ClearInv == RowsOK /\ (\A w \in Workers : OpenFor(w)) /\ MaintenanceIsClear

Instants == \A i \in Ids : bookings[i].end \in Int /\ bookings[i].res \in Resources

LEMMA RowsInstants == RowsOK => now \in Int /\ Instants
  BY BoundsAssumption DEF RowsOK, Booking, Slots, Times, Instants

\* Row i keeps its place in the calendar or leaves it ...
StaysOrLeaves(i) ==
    /\ bookings'[i].res = bookings[i].res /\ bookings'[i].end = bookings[i].end
    /\ \/ bookings'[i].status = bookings[i].status
       \/ bookings'[i].status \notin Active \cup {"none"}
\* ... or is written on a resource that is neither closed nor being closed.
\* (A status written back to a booking that is over is as harmless.)
Enters(i) ==
    /\ bookings'[i].status # "none"
    /\ bookings[i].status # "none" => bookings'[i].res = bookings[i].res
    /\ ~maintenance[bookings'[i].res] \/ bookings'[i].end < now'
    /\ \A v \in Workers : Closing(job[v]) => job[v].res # bookings'[i].res

\* A resource that a step closes has nothing ahead and nobody deciding on it.
Closes(r) ==
    /\ \A i \in OnResource(r, Active)' : bookings'[i].end < now'
    /\ \A v \in Workers : Deciding(job[v]) => ResourceOf(job[v]) # r

LEMMA StaysClear ==
  ASSUME ClearInv, RowsOK', now <= now',
         \A i \in Ids : StaysOrLeaves(i) \/ Enters(i),
         \A r \in Resources : maintenance'[r] => maintenance[r] \/ Closes(r),
         \A w \in Workers : job'[w] = job[w] \/ OpenFor(w)'
  PROVE  ClearInv'
<1>0. RowsOK /\ now \in Int /\ Instants /\ now' \in Int /\ Instants'
  <2>1. RowsOK
    BY DEF ClearInv
  <2>2. now' \in Int /\ Instants'
    BY BoundsAssumption DEF RowsOK, Times, Booking, Slots, Instants
  <2>3. QED
    BY <2>1, <2>2, RowsInstants
<1>1. ASSUME NEW r \in Resources, maintenance'[r],
             NEW i \in Ids, bookings'[i].status \in Active, bookings'[i].res = r
      PROVE  bookings'[i].end < now'
  <2>1. i \in OnResource(r, Active)'
    BY <1>1 DEF OnResource
  <2>2. CASE Closes(r)
    BY <2>1, <2>2 DEF Closes
  <2>3. CASE maintenance[r] /\ Enters(i)
    BY <1>1, <2>3 DEF Enters
  <2>4. CASE maintenance[r] /\ StaysOrLeaves(i)
    <3>1. bookings[i].end < now
      BY <1>1, <2>4 DEF StaysOrLeaves, ClearInv, MaintenanceIsClear, OnResource
    <3> QED BY <1>0, <2>4, <3>1 DEF StaysOrLeaves, Instants
  <2> QED BY <1>1, <2>2, <2>3, <2>4
<1>2. MaintenanceIsClear'
  BY <1>1 DEF MaintenanceIsClear, OnResource
<1>3. ASSUME NEW w \in Workers, job'[w] = job[w] PROVE OpenFor(w)'
  <2>1. job[w].op \in {"reschedule", "status"} => job[w].id \in Ids
    BY <1>0, JobKinds DEF RowsOK, RescheduleJob, StatusJob
  <2>2. OpenFor(w)
    BY DEF ClearInv
  <2>3. job[w].op \in {"reschedule", "status"} =>
          /\ bookings'[job[w].id].status # "none"
          /\ bookings'[job[w].id].res = job[w].seen.res
          /\ bookings[job[w].id].res = job[w].seen.res
    BY <2>1, <2>2 DEF OpenFor, StaysOrLeaves, Enters
  <2>4. job[w].op = "create" => ~maintenance'[job[w].res]
    <3>1. job[w].op = "create" => job[w].res \in Resources
      BY <1>0, JobKinds DEF RowsOK, CreateJob
    <3> QED BY <2>2, <3>1 DEF OpenFor, Closes, Deciding, ResourceOf
  <2>5. job[w].op = "reschedule" /\ job[w].step # "slot" => ~maintenance'[bookings'[job[w].id].res]
    BY <1>0, <2>1, <2>2, <2>3 DEF OpenFor, Closes, Deciding, ResourceOf, Instants
  <2>6. ASSUME job[w].op = "status", job[w].to \in Active
        PROVE  ~maintenance'[bookings'[job[w].id].res] \/ bookings'[job[w].id].end < now'
    <3> DEFINE i == job[w].id
    <3>1. i \in Ids /\ bookings[i].res \in Resources /\ bookings'[i].res = bookings[i].res
      BY <1>0, <2>1, <2>3, <2>6 DEF Instants
    <3>2. maintenance'[bookings[i].res] => maintenance[bookings[i].res]
      BY <2>3, <2>6, <3>1 DEF Closes, Deciding, ResourceOf
    <3>3. CASE Enters(i)
      BY <3>1, <3>2, <3>3 DEF Enters
    <3>4. CASE StaysOrLeaves(i)
      <4>1. bookings'[i].end = bookings[i].end /\ bookings[i].end \in Int
        BY <1>0, <3>1, <3>4 DEF StaysOrLeaves, Instants
      <4>2. ~maintenance[bookings[i].res] \/ bookings[i].end < now
        BY <2>2, <2>6 DEF OpenFor
      <4> QED BY <1>0, <3>1, <3>2, <4>1, <4>2
    <3> QED BY <3>1, <3>3, <3>4
  <2>7. ASSUME Closing(job[w]), NEW i \in Ids, bookings'[i].status \in Active,
               bookings'[i].res = job[w].res, bookings'[i].end >= now'
        PROVE  job[w].seen[i].status \in Active
    <3>1. ~Enters(i)
      BY <2>7 DEF Enters
    <3>2. StaysOrLeaves(i)
      BY <3>1
    <3>3. i \in OnResource(job[w].res, Active) /\ bookings[i].end >= now
      BY <1>0, <2>7, <3>2 DEF StaysOrLeaves, OnResource, Instants
    <3> QED BY <2>2, <2>7, <3>3 DEF OpenFor
  <2> QED BY <1>3, <2>3, <2>4, <2>5, <2>6, <2>7 DEF OpenFor, OnResource, Closing
<1>4. (\A w \in Workers : OpenFor(w))'
  BY <1>3
<1> QED BY <1>2, <1>4 DEF ClearInv

\* A handler that has ended or not begun holds nothing.
LEMMA IdleIsOpen == ASSUME NEW w \in Workers, job'[w].op = "idle" PROVE OpenFor(w)'
  BY DEF OpenFor, Closing

\* A handler that moves on, or begins, and writes nothing.
LEMMA HandlerStaysClear ==
  ASSUME ClearInv, RowsOK', bookings' = bookings, maintenance' = maintenance, now' = now,
         NEW w \in Workers, OpenFor(w)', \A v \in Workers \ {w} : job'[v] = job[v]
  PROVE  ClearInv'
<1>1. now <= now' /\ \A i \in Ids : StaysOrLeaves(i)
  BY RowsInstants DEF StaysOrLeaves, ClearInv
<1> QED BY <1>1, StaysClear

\* A handler that writes row i, on a resource nobody closes, and ends.
LEMMA WriterStaysClear ==
  ASSUME ClearInv, RowsOK', NEW i \in Ids, Enters(i) \/ StaysOrLeaves(i),
         \A k \in Ids \ {i} : bookings'[k] = bookings[k],
         maintenance' = maintenance, now' = now, NEW w \in Workers, Return(w)
  PROVE  ClearInv'
<1>1. now <= now' /\ \A k \in Ids \ {i} : StaysOrLeaves(k)
  BY RowsInstants DEF StaysOrLeaves, ClearInv
<1>2. OpenFor(w)' /\ \A v \in Workers \ {w} : job'[v] = job[v]
  BY Returns, IdleIsOpen DEF ClearInv
<1> QED BY <1>1, <1>2, StaysClear

LEMMA CreateKeepsClear ==
  ASSUME ClearInv, ClosesAlone, RowsOK', NEW w \in Workers, CreateStep(w)
  PROVE  ClearInv'
<1>0. RowsOK /\ \A v \in Workers \ {w} : job'[v] = job[v]
  BY CreateJobs DEF ClearInv
<1>1. CASE CreateCheckSlot(w)
  <2>1. PICK r, j :
          /\ r \in Resources
          /\ j.op = "create" /\ j.res = r /\ ~maintenance[r] /\ Start(w, j)
          /\ bookings' = bookings /\ maintenance' = maintenance /\ now' = now
    BY <1>1 DEF CreateCheckSlot, tables
  <2>2. OpenFor(w)'
    BY <1>0, <2>1, StartsAs DEF OpenFor, Closing
  <2> QED BY <1>0, <2>1, <2>2, HandlerStaysClear
<1>2. CASE CreateCheckCredits(w)
  <2>1. /\ job[w] \in CreateJob /\ job[w].op = "create"
        /\ bookings' = bookings /\ maintenance' = maintenance /\ now' = now
    BY <1>0, <1>2, JobKinds DEF CreateCheckCredits, At, RowsOK, tables
  <2>2. CASE Return(w)
    BY <1>0, <2>1, <2>2, HandlerStaysClear, IdleIsOpen, Returns
  <2>3. CASE Advance(w, "commit")
    <3>1. job'[w].op = "create" /\ job'[w].res = job[w].res
      BY <1>0, <2>1, <2>3, GoesOn DEF CreateJob
    <3>2. OpenFor(w)'
      BY <2>1, <3>1 DEF OpenFor, ClearInv, Closing
    <3> QED BY <1>0, <2>1, <3>2, HandlerStaysClear
  <2> QED BY <1>2, <2>2, <2>3 DEF CreateCheckCredits
<1>3. CASE CreateCommit(w)
  <2>1. job[w].op = "create" /\ Return(w) /\ maintenance' = maintenance /\ now' = now
    BY <1>3 DEF CreateCommit, At
  <2>2. /\ ~maintenance[job[w].res]
        /\ \A v \in Workers : Closing(job[v]) => job[v].res # job[w].res
    BY <2>1 DEF ClearInv, OpenFor, ClosesAlone, Deciding, ResourceOf
  <2>3. PICK i \in Ids :
          /\ bookings[i].status = "none"
          /\ \A k \in Ids \ {i} : bookings'[k] = bookings[k]
          /\ bookings'[i] = [status |-> job[w].status, user |-> job[w].user, res |-> job[w].res,
                             start |-> job[w].start, end |-> job[w].end,
                             cost |-> Cost(job[w].start, job[w].end)]
    BY <1>0, <1>3, CreateWrites
  <2>4. job[w].status # "none"
    BY <1>0, <1>3, CreateWrites DEF CreateJob, Active
  <2>5. Enters(i)
    BY <2>2, <2>3, <2>4 DEF Enters
  <2> QED BY <2>1, <2>3, <2>5, WriterStaysClear
<1> QED BY <1>1, <1>2, <1>3 DEF CreateStep

LEMMA StatusKeepsClear ==
  ASSUME NoRevival, ClearInv, ClosesAlone, RowsOK', NEW w \in Workers, StatusStep(w)
  PROVE  ClearInv'
<1>0. RowsOK /\ now \in Int /\ Instants /\ \A v \in Workers \ {w} : job'[v] = job[v]
  BY RowsInstants, StatusJobs DEF ClearInv
<1>1. CASE StatusRead(w)
  <2>1. PICK i \in Ids, to \in Statuses, role \in Roles, step \in {"charge", "commit"} :
          /\ bookings[i].status # "none" /\ <<bookings[i].status, to>> \in Transitions
          /\ Start(w, [op |-> "status", step |-> step, id |-> i, seen |-> bookings[i],
                       to |-> to, role |-> role])
          /\ bookings' = bookings /\ maintenance' = maintenance /\ now' = now
    BY <1>1 DEF StatusRead, Created, tables
  <2>2. job'[w] = [op |-> "status", step |-> step, id |-> i, seen |-> bookings[i],
                   to |-> to, role |-> role]
    BY <1>0, <2>1, StartsAs
  <2>3. to \in Active => bookings[i].status \in Active
    BY <1>0, <2>1 DEF NoRevival, RowsOK, Booking
  <2>4. to \in Active => ~maintenance[bookings[i].res] \/ bookings[i].end < now
    BY <1>0, <2>3 DEF ClearInv, MaintenanceIsClear, OnResource, Instants
  <2>5. OpenFor(w)'
    BY <2>1, <2>2, <2>4 DEF OpenFor, Closing
  <2> QED BY <1>0, <2>1, <2>5, HandlerStaysClear
<1>2. CASE ConfirmCharge(w)
  <2>1. /\ job[w] \in StatusJob /\ job[w].op = "status" /\ Advance(w, "commit")
        /\ bookings' = bookings /\ maintenance' = maintenance /\ now' = now
    BY <1>0, <1>2, JobKinds DEF ConfirmCharge, At, RowsOK
  <2>2. /\ job'[w].op = "status" /\ job'[w].id = job[w].id /\ job'[w].seen = job[w].seen
        /\ job'[w].to = job[w].to
    BY <1>0, <2>1, GoesOn DEF StatusJob
  <2>3. OpenFor(w)'
    BY <2>1, <2>2 DEF OpenFor, ClearInv, Closing
  <2> QED BY <1>0, <2>1, <2>3, HandlerStaysClear
<1>3. CASE StatusCommit(w)
  <2>1. job[w].op = "status" /\ Return(w) /\ maintenance' = maintenance /\ now' = now
    BY <1>3 DEF StatusCommit, At
  <2>2. PICK k \in Ids : k = job[w].id
    BY <1>0, <1>3, StatusWrites
  <2>3. /\ \A i \in Ids \ {k} : bookings'[i] = bookings[i]
        /\ Turns(k, job[w].to) \/ bookings' = bookings
        /\ job[w].to \in Statuses
    BY <1>0, <1>3, <2>2, StatusWrites DEF StatusJob
  <2>4. OpenFor(w)
    BY DEF ClearInv
  <2>5. ASSUME job[w].to \in Active, Turns(k, job[w].to) PROVE Enters(k)
    <3>1. \A v \in Workers : Closing(job[v]) => job[v].res # bookings[k].res
      BY <2>1, <2>2, <2>4, <2>5 DEF ClosesAlone, Deciding, ResourceOf, OpenFor
    <3>2. ~maintenance[bookings[k].res] \/ bookings[k].end < now
      BY <2>1, <2>2, <2>4, <2>5 DEF OpenFor
    <3> QED BY <2>1, <2>5, <3>1, <3>2 DEF Enters, Turns, Active
  <2>6. ASSUME job[w].to \notin Active, Turns(k, job[w].to) PROVE StaysOrLeaves(k)
    BY <2>3, <2>6 DEF StaysOrLeaves, Turns, Statuses
  <2>7. ASSUME bookings' = bookings PROVE StaysOrLeaves(k)
    BY <2>7 DEF StaysOrLeaves
  <2> QED BY <2>1, <2>3, <2>5, <2>6, <2>7, WriterStaysClear
<1> QED BY <1>1, <1>2, <1>3 DEF StatusStep

LEMMA RescheduleKeepsClear ==
  ASSUME ClearInv, ClosesAlone, RowsOK', NEW w \in Workers, RescheduleStep(w)
  PROVE  ClearInv'
<1>0. RowsOK /\ \A v \in Workers \ {w} : job'[v] = job[v]
  BY RescheduleJobs DEF ClearInv
<1>1. CASE RescheduleRead(w)
  <2>1. PICK i, j :
          /\ i \in Ids
          /\ bookings[i].status # "none" /\ j.op = "reschedule" /\ j.step = "slot"
          /\ j.id = i /\ j.seen = bookings[i] /\ Start(w, j)
          /\ bookings' = bookings /\ maintenance' = maintenance /\ now' = now
    BY <1>1 DEF RescheduleRead, Created, tables
  <2>2. OpenFor(w)'
    BY <1>0, <2>1, StartsAs DEF OpenFor, Closing
  <2> QED BY <1>0, <2>1, <2>2, HandlerStaysClear
<1>2. CASE RescheduleCheckSlot(w) \/ RescheduleCheckCredits(w)
  <2>1. /\ job[w] \in RescheduleJob /\ job[w].op = "reschedule"
        /\ bookings' = bookings /\ maintenance' = maintenance /\ now' = now
    BY <1>0, <1>2, JobKinds DEF RescheduleCheckSlot, RescheduleCheckCredits, At, RowsOK, tables
  <2>2. CASE Return(w)
    BY <1>0, <2>1, <2>2, HandlerStaysClear, IdleIsOpen, Returns
  <2>3. ASSUME NEW step \in {"credits", "commit"}, Advance(w, step),
               ~maintenance[bookings[job[w].id].res]
        PROVE  ClearInv'
    <3>1. job'[w].op = "reschedule" /\ job'[w].id = job[w].id /\ job'[w].seen = job[w].seen
      BY <1>0, <2>1, <2>3, GoesOn DEF RescheduleJob
    <3>2. OpenFor(w)'
      BY <2>1, <2>3, <3>1 DEF OpenFor, ClearInv, Closing
    <3> QED BY <1>0, <2>1, <3>2, HandlerStaysClear
  <2>4. CASE RescheduleCheckSlot(w) /\ ~Return(w)
    <3>1. Advance(w, "credits") /\ ~maintenance[job[w].seen.res]
      BY <2>4 DEF RescheduleCheckSlot
    <3>2. job[w].seen.res = bookings[job[w].id].res
      BY <2>1 DEF ClearInv, OpenFor
    <3> QED BY <2>3, <3>1, <3>2
  <2>5. CASE RescheduleCheckCredits(w) /\ ~Return(w)
    <3>1. Advance(w, "commit") /\ job[w].step = "credits"
      BY <2>5 DEF RescheduleCheckCredits, At
    <3>2. ~maintenance[bookings[job[w].id].res]
      BY <2>1, <3>1 DEF ClearInv, OpenFor
    <3> QED BY <2>3, <3>1, <3>2
  <2> QED BY <1>2, <2>2, <2>4, <2>5
<1>3. CASE RescheduleCommit(w)
  <2>1. /\ job[w].op = "reschedule" /\ job[w].step = "commit" /\ Return(w)
        /\ maintenance' = maintenance /\ now' = now
    BY <1>3 DEF RescheduleCommit, At
  <2>2. PICK k \in Ids : k = job[w].id
    BY <1>0, <1>3, RescheduleWrites
  <2>3. /\ bookings'[k].res = bookings[k].res /\ bookings'[k].status = bookings[k].status
        /\ \A i \in Ids \ {k} : bookings'[i] = bookings[i]
    BY <1>0, <1>3, <2>2, RescheduleWrites
  <2>4. /\ bookings[k].status # "none" /\ bookings[k].res = job[w].seen.res
        /\ ~maintenance[bookings[k].res]
    BY <2>1, <2>2 DEF ClearInv, OpenFor
  <2>5. \A v \in Workers : Closing(job[v]) => job[v].res # bookings[k].res
    BY <2>1, <2>4 DEF ClosesAlone, Deciding, ResourceOf
  <2>6. Enters(k)
    BY <2>3, <2>4, <2>5 DEF Enters
  <2> QED BY <2>1, <2>3, <2>6, WriterStaysClear
<1> QED BY <1>1, <1>2, <1>3 DEF RescheduleStep

LEMMA MaintenanceKeepsClear ==
  ASSUME ClearInv, ClosesAlone, RowsOK', NEW w \in Workers, MaintenanceStep(w)
  PROVE  ClearInv'
<1>0. RowsOK /\ now \in Int /\ Instants /\ \A v \in Workers \ {w} : job'[v] = job[v]
  BY RowsInstants, MaintenanceJobs DEF ClearInv
<1>1. CASE MaintenanceRead(w)
  <2>1. PICK j : /\ j.op = "maintenance" /\ j.step = "find" /\ Start(w, j)
                 /\ bookings' = bookings /\ maintenance' = maintenance /\ now' = now
    BY <1>1 DEF MaintenanceRead, tables
  <2>2. OpenFor(w)'
    BY <1>0, <2>1, StartsAs DEF OpenFor, Closing
  <2> QED BY <1>0, <2>1, <2>2, HandlerStaysClear
<1>2. CASE MaintenanceFind(w)
  <2>1. /\ bookings' = bookings /\ maintenance' = maintenance /\ now' = now
        /\ job'[w].op = "maintenance" /\ job'[w].res = job[w].res
        /\ job'[w].seen = [i \in Ids |-> IF i \in Upcoming(job[w].res) THEN bookings[i] ELSE Unused]
    BY <1>0, <1>2 DEF MaintenanceFind, At, RowsOK, tables
  <2>2. \A i \in OnResource(job[w].res, Active) :
          bookings[i].end >= now => job'[w].seen[i].status \in Active
    BY <2>1 DEF Upcoming, OnResource
  <2>3. OpenFor(w)'
    BY <2>1, <2>2 DEF OpenFor, OnResource, Closing
  <2> QED BY <1>0, <2>1, <2>3, HandlerStaysClear
<1>3. CASE MaintenanceCommit(w)
  <2>1. job[w] \in CancelJob /\ Closing(job[w]) /\ Return(w)
        /\ now' = now /\ job[w].res \in Resources
    BY <1>0, <1>3, JobKinds DEF MaintenanceCommit, At, RowsOK, CancelJob, Closing
  <2>2. \A i \in OnResource(job[w].res, Active) :
          bookings[i].end >= now => job[w].seen[i].status \in Active
    BY <2>1 DEF ClearInv, OpenFor
  <2>3. \A i \in Ids : IF job[w].seen[i].status \in Active THEN Turns(i, "CANCELLED")
                                                          ELSE bookings'[i] = bookings[i]
    BY <1>0, <1>3, SetStatusWrites DEF MaintenanceCommit
  <2>4. \A i \in Ids : StaysOrLeaves(i)
    BY <2>3 DEF StaysOrLeaves, Turns, Active
  <2>5. \A r \in Resources \ {job[w].res} : maintenance'[r] = maintenance[r]
    BY <1>0, <1>3 DEF MaintenanceCommit, RowsOK
  <2>6. ASSUME NEW i \in Ids, bookings'[i].status \in Active, bookings'[i].res = job[w].res
        PROVE  bookings'[i].end < now'
    <3>1. bookings'[i] = bookings[i] /\ job[w].seen[i].status \notin Active
      BY <2>3, <2>6 DEF Turns, Active
    <3>2. i \in OnResource(job[w].res, Active)
      BY <2>6, <3>1 DEF OnResource
    <3> QED BY <1>0, <2>1, <2>2, <3>1, <3>2 DEF Instants
  <2>7. \A v \in Workers : Deciding(job[v]) => ResourceOf(job[v]) # job[w].res
    BY <2>1 DEF ClosesAlone
  <2>8. \A r \in Resources : r = job[w].res => Closes(r)
    BY <2>6, <2>7 DEF Closes, OnResource
  <2>9. OpenFor(w)'
    BY <1>0, <2>1, Returns, IdleIsOpen
  <2> QED BY <1>0, <2>1, <2>4, <2>5, <2>8, <2>9, StaysClear
<1>4. CASE MaintenanceEnd(w)
  <2>1. Return(w) /\ bookings' = bookings /\ now' = now
    BY <1>4 DEF MaintenanceEnd
  <2>2. \A r \in Resources : maintenance'[r] => maintenance[r]
    BY <1>0, <1>4 DEF MaintenanceEnd, RowsOK
  <2>3. (\A i \in Ids : StaysOrLeaves(i)) /\ OpenFor(w)'
    BY <1>0, <2>1, Returns, IdleIsOpen DEF StaysOrLeaves
  <2> QED BY <1>0, <2>1, <2>2, <2>3, StaysClear
<1> QED BY <1>1, <1>2, <1>3, <1>4 DEF MaintenanceStep

LEMMA OthersKeepClear ==
  ASSUME EditsOnlyOpen, ClearInv, RowsOK',
         \/ \E w \in Workers : RequestFails(w)
         \/ \E r \in Resources : UpdateResourceFlag(r)
         \/ \E c \in Crons : CronSelect(c) \/ CronFails(c)
         \/ AutoCancel \/ AutoCheckIn \/ AutoComplete \/ Tick
  PROVE  ClearInv'
<1>0. RowsOK /\ now \in Int
  BY RowsInstants DEF ClearInv
<1>1. now <= now'
  BY <1>0 DEF RequestFails, UpdateResourceFlag, CronSelect, CronFails, AutoCancel, AutoCheckIn,
              AutoComplete, Tick, tables
<1>2. \A r \in Resources : maintenance'[r] => maintenance[r]
  BY <1>0 DEF RequestFails, UpdateResourceFlag, EditsOnlyOpen, CronSelect, CronFails, AutoCancel,
              AutoCheckIn, AutoComplete, Tick, tables, RowsOK
<1>3. \A w \in Workers : job'[w] = job[w] \/ OpenFor(w)'
  BY <1>0, FailsIdle, IdleIsOpen DEF UpdateResourceFlag, CronSelect, CronFails, AutoCancel,
                                     AutoCheckIn, AutoComplete, Tick
<1>4. \A i \in Ids : StaysOrLeaves(i)
  BY <1>0, OthersRelease DEF Releases, Withdraws, StaysOrLeaves
<1> QED BY <1>1, <1>2, <1>3, <1>4, StaysClear

LEMMA ClearInvStep ==
  ASSUME NoRevival, ClearInv, ClosesAlone, [Next]_vars, [EditsOnlyOpen]_vars
  PROVE  ClearInv'
<1>1. RowsOK'
  BY RowsStep DEF ClearInv
<1>2. ASSUME NEW w \in Workers,
             CreateStep(w) \/ StatusStep(w) \/ RescheduleStep(w) \/ MaintenanceStep(w)
      PROVE  ClearInv'
  BY <1>1, <1>2, CreateKeepsClear, StatusKeepsClear, RescheduleKeepsClear, MaintenanceKeepsClear
<1>3. CASE UNCHANGED vars
  <2>1. bookings' = bookings /\ maintenance' = maintenance /\ now' = now /\ job' = job
    BY <1>3 DEF vars
  <2>2. now <= now' /\ \A i \in Ids : StaysOrLeaves(i)
    BY <2>1, RowsInstants DEF StaysOrLeaves, ClearInv
  <2> QED BY <1>1, <2>1, <2>2, StaysClear
<1>4. CASE Next /\ EditsOnlyOpen
  BY <1>1, <1>2, <1>4, OthersKeepClear DEF Next
<1> QED BY <1>3, <1>4

\* A resource under maintenance has no booking ahead, for any number of
\* bookings, resources and handlers, when no handler decides on a resource while
\* the switch is cancelling its bookings, no client request revives a booking
\* and edits of the flag only open resources.
THEOREM MaintenanceCorrect ==
  ASSUME NoRevival
  PROVE  Spec /\ []ClosesAlone /\ [][EditsOnlyOpen]_vars => []MaintenanceIsClear
<1>1. Init => ClearInv
  BY RowsInit DEF Init, ClearInv, OpenFor, Closing, MaintenanceIsClear, Idle
<1>2. ClearInv /\ ClosesAlone /\ [Next]_vars /\ [EditsOnlyOpen]_vars => ClearInv'
  BY ClearInvStep
<1>3. ClearInv => MaintenanceIsClear
  BY DEF ClearInv
<1>4. QED
  BY <1>1, <1>2, <1>3, PTL DEF Spec

Openers == Bookers \cup {"maintenance"}

LEMMA LockedCloses == ASSUME Openers \subseteq Exclusive PROVE Spec => []ClosesAlone
<1>0. Openers \in SUBSET (Crons \cup Requests)
  BY DEF Openers, Bookers, Requests
<1>1. Init => RowsOK /\ OneOf(Openers)
  BY <1>0, RowsInit, OneOfInit
<1>2. RowsOK /\ OneOf(Openers) /\ [Next]_vars => RowsOK' /\ OneOf(Openers)'
  BY <1>0, RowsStep, OneOfStep
<1>3. OneOf(Openers) => ClosesAlone
  BY DEF OneOf, ClosesAlone, Closing, Deciding, Openers, Bookers
<1> QED BY <1>1, <1>2, <1>3, PTL DEF Spec

LEMMA NoEdits == ASSUME FlagEdits = FALSE PROVE Spec => [][EditsOnlyOpen]_vars
<1>1. [Next]_vars => [EditsOnlyOpen]_vars
  BY DEF EditsOnlyOpen, UpdateResourceFlag
<1> QED BY <1>1, PTL DEF Spec

\* One lock around booking requests and the switch is enough for a resource under
\* maintenance to have no booking ahead, if the flag is not edited past the switch.
THEOREM MaintenanceLocked ==
  ASSUME Openers \subseteq Exclusive, NoRevival, FlagEdits = FALSE
  PROVE  Spec => []MaintenanceIsClear
  BY LockedCloses, NoEdits, MaintenanceCorrect, PTL

-----------------------------------------------------------------------------
(* Balances cover the bookings that wait, when no two handlers spend the   *)
(* credits of one user at a time and no confirmation fails between its     *)
(* charge and its commit.  Handlers of other users, rejections,            *)
(* cancellations, crons, the maintenance switch and other failures may     *)
(* come between any two of their steps.                                    *)

NothingBackToPending == \A s \in Statuses : <<s, "PENDING">> \notin Transitions

\* A handler spends from its look at the balance to the commit, a confirmation
\* from its read of the booking.
Spending(j) ==
    \/ j.op \in {"create", "reschedule"} /\ j.step = "commit"
    \/ j.op = "status" /\ j.step = "charge"
    \/ Charged(j)
Payer(j) == IF j.op = "create" THEN j.user ELSE j.seen.user

\* What a lock on the user's balance would give.
OneSpends ==
    \A v, w \in Workers :
        Spending(job[v]) /\ Spending(job[w]) /\ Payer(job[v]) = Payer(job[w]) => v = w

\* PendingCredits of any rows, those of the next state included.
PendingOf(rows, u, skip) ==
    {i \in Ids \ skip : rows[i].status = "PENDING" /\ rows[i].user = u}
PendingSum(rows, u, skip) ==
    SumFunctionOnSet([i \in Ids |-> rows[i].cost], PendingOf(rows, u, skip))

\* The bookings whose confirmations have charged and not yet written.
Confirming == {i \in Ids : BeingConfirmed(i)}

\* The booking of a handler is its payer's; only confirmations charge before
\* their commit; a booking once confirmed does not wait again.
SeenUser(w) ==
    LET j == job[w]
    IN  /\ j.op \in {"reschedule", "status"} =>
             bookings[j.id].status # "none" /\ bookings[j.id].user = j.seen.user
        /\ j.op = "reschedule" /\ j.seen.status = "CONFIRMED" => bookings[j.id].status # "PENDING"
        /\ j.op = "status" => j.to # "PENDING"
        /\ j.op = "status" /\ j.step = "charge" => j.seen.status = "PENDING" /\ j.to = "CONFIRMED"

\* What handler w is about to take is covered on top of what waits.
CoveredFor(w) ==
    LET j == job[w]
    IN  /\ j.op = "create" /\ j.step = "commit" =>
             credits[j.user] >= Cost(j.start, j.end) + PendingSum(bookings, j.user, {})
        /\ j.op = "reschedule" /\ j.step = "commit" /\ HowMuchToPay(j) > 0 =>
             credits[j.seen.user] >= HowMuchToPay(j) + PendingSum(bookings, j.seen.user, {j.id})
        /\ j.op = "status" /\ j.step = "charge" =>
             credits[j.seen.user] >= j.seen.cost + PendingSum(bookings, j.seen.user, {j.id})

Backed(u) == credits[u] >= PendingSum(bookings, u, Confirming)

ReservedInv ==
    TypeOK /\ (\A w \in Workers : SeenUser(w) /\ CoveredFor(w)) /\ (\A u \in Users : Backed(u))

LEMMA ReservedIs == (\A u \in Users : Backed(u)) => Reserved
  BY DEF Reserved, Backed, PendingCredits, PendingSum, PendingOf, Confirming

\* With fewer bookings waiting at the same cost, less is reserved.
LEMMA PendingLess ==
  ASSUME NEW rows \in [Ids -> Booking], NEW then \in [Ids -> Booking],
         NEW u, NEW skip, NEW skipped,
         \A i \in PendingOf(then, u, skipped) :
            i \in PendingOf(rows, u, skip) /\ then[i].cost = rows[i].cost
  PROVE  /\ PendingSum(then, u, skipped) \in Nat /\ PendingSum(rows, u, skip) \in Nat
         /\ PendingSum(then, u, skipped) <= PendingSum(rows, u, skip)
<1> DEFINE f == [i \in Ids |-> rows[i].cost]
           g == [i \in Ids |-> then[i].cost]
           S == PendingOf(rows, u, skip)
           T == PendingOf(then, u, skipped)
<1>1. IsFiniteSet(S) /\ IsFiniteSet(T) /\ T \in SUBSET S /\ S \subseteq Ids
  BY FiniteAssumption, FS_Subset DEF PendingOf
<1>2. \A i \in S : f[i] \in Nat
  BY <1>1 DEF Booking
<1>3. \A i \in T : g[i] = f[i]
  BY <1>1
<1>4. PendingSum(rows, u, skip) = SumFunctionOnSet(f, S)
      /\ PendingSum(then, u, skipped) = SumFunctionOnSet(g, T)
  BY DEF PendingSum
<1> HIDE DEF f, g, S, T
<1>5. SumFunctionOnSet(g, T) = SumFunctionOnSet(f, T)
  BY <1>1, <1>3, SumSame
<1>6. QED
  BY <1>1, <1>2, <1>4, <1>5, SumOfPart

\* A booking that waits is reserved with its cost.
LEMMA PendingOne ==
  ASSUME NEW rows \in [Ids -> Booking], NEW u, NEW i \in PendingOf(rows, u, {})
  PROVE  /\ PendingSum(rows, u, {}) = rows[i].cost + PendingSum(rows, u, {i})
         /\ PendingSum(rows, u, {i}) \in Nat /\ rows[i].cost \in Nat
<1> DEFINE f == [k \in Ids |-> rows[k].cost]
           S == PendingOf(rows, u, {})
           T == PendingOf(rows, u, {i})
<1>1. IsFiniteSet(S) /\ S \subseteq Ids /\ i \in S /\ i \in Ids
  BY FiniteAssumption, FS_Subset DEF PendingOf
<1>2. \A k \in S : f[k] \in Int
  BY <1>1 DEF Booking
<1>3. T = S \ {i}
  BY DEF PendingOf
<1>4. f[i] = rows[i].cost /\ rows[i].cost \in Nat
  BY <1>1 DEF Booking
<1>5. PendingSum(rows, u, {}) = SumFunctionOnSet(f, S)
      /\ PendingSum(rows, u, {i}) = SumFunctionOnSet(f, T)
  BY DEF PendingSum
<1>6. PendingSum(rows, u, {i}) \in Nat
  BY PendingLess
<1> HIDE DEF f, S, T
<1>7. SumFunctionOnSet(f, S) = f[i] + SumFunctionOnSet(f, S \ {i})
  BY <1>1, <1>2, SumRemove
<1>8. QED
  BY <1>3, <1>4, <1>5, <1>6, <1>7

\* Where the booking that is left out does not wait, nothing is left out.
LEMMA PendingNone ==
  ASSUME NEW rows, NEW u, NEW i, i \notin PendingOf(rows, u, {})
  PROVE  PendingSum(rows, u, {}) = PendingSum(rows, u, {i})
<1>1. PendingOf(rows, u, {}) = PendingOf(rows, u, {i})
  BY DEF PendingOf
<1>2. QED
  BY <1>1 DEF PendingSum

\* What is left out of the sum only makes it smaller.
LEMMA PendingSkips ==
  ASSUME NEW rows \in [Ids -> Booking], NEW u, NEW skip, NEW c \in Int, c >= PendingSum(rows, u, {})
  PROVE  c >= PendingSum(rows, u, skip)
<1>1. \A i \in PendingOf(rows, u, skip) : i \in PendingOf(rows, u, {})
  BY DEF PendingOf
<1>2. /\ PendingSum(rows, u, skip) <= PendingSum(rows, u, {})
      /\ PendingSum(rows, u, skip) \in Nat /\ PendingSum(rows, u, {}) \in Nat
  BY <1>1, PendingLess
<1> QED BY <1>2

\* The rows and balances of the invariant, in both states.
LEMMA ReservedTypes ==
  ASSUME ReservedInv, TypeOK'
  PROVE  /\ RowsOK /\ bookings \in [Ids -> Booking] /\ bookings' \in [Ids -> Booking]
         /\ \A u \in Users : credits[u] \in Int /\ credits'[u] \in Int
  BY DEF ReservedInv, TypeOK, RowsOK

LEMMA SpenderTypes ==
  ASSUME RowsOK, NEW w \in Workers
  PROVE  /\ job[w].op = "create" => job[w].user \in Users /\ Cost(job[w].start, job[w].end) \in Nat
         /\ job[w].op \in {"reschedule", "status"} =>
              /\ job[w].id \in Ids /\ job[w].seen.user \in Users /\ job[w].seen.cost \in Nat
         /\ job[w].op = "reschedule" => HowMuchToPay(job[w]) \in Int
<1>1. ASSUME job[w].op = "create"
      PROVE  job[w].user \in Users /\ Cost(job[w].start, job[w].end) \in Nat
  <2>1. job[w] \in CreateJob
    BY <1>1, JobKinds DEF RowsOK
  <2> QED BY <1>1, <2>1, CostType DEF RowsOK, CreateJob
<1>2. ASSUME job[w].op \in {"reschedule", "status"}
      PROVE  job[w].id \in Ids /\ job[w].seen.user \in Users /\ job[w].seen.cost \in Nat
  BY <1>2, JobKinds DEF RowsOK, RescheduleJob, StatusJob, Booking
<1>3. ASSUME job[w].op = "reschedule" PROVE HowMuchToPay(job[w]) \in Int
  <2>1. job[w] \in RescheduleJob
    BY <1>3, JobKinds DEF RowsOK
  <2>2. Cost(job[w].start, job[w].end) \in Nat
    BY <1>3, <2>1, CostType DEF RowsOK, RescheduleJob
  <2> QED BY <1>2, <1>3, <2>2 DEF HowMuchToPay
<1> QED BY <1>1, <1>2, <1>3

\* A step takes nothing from user u: no credits, no new or dearer booking that
\* waits, no confirmation that is given up.
Spares(u) ==
    /\ credits'[u] >= credits[u]
    /\ \A i \in Ids : bookings'[i].status = "PENDING" /\ bookings'[i].user = u =>
         /\ bookings[i].status = "PENDING" /\ bookings[i].user = u
         /\ bookings'[i].cost = bookings[i].cost
         /\ i \in Confirming => i \in Confirming'

LEMMA SparedUser ==
  ASSUME ReservedInv, TypeOK', NEW u \in Users, Spares(u)
  PROVE  /\ Backed(u)'
         /\ \A skip : /\ PendingSum(bookings', u, skip) <= PendingSum(bookings, u, skip)
                      /\ PendingSum(bookings', u, skip) \in Nat /\ PendingSum(bookings, u, skip) \in Nat
<1>0. bookings \in [Ids -> Booking] /\ bookings' \in [Ids -> Booking]
      /\ credits[u] \in Int /\ credits'[u] \in Int
  BY ReservedTypes
<1>1. ASSUME NEW skip
      PROVE  /\ PendingSum(bookings', u, skip) <= PendingSum(bookings, u, skip)
             /\ PendingSum(bookings', u, skip) \in Nat /\ PendingSum(bookings, u, skip) \in Nat
  <2>1. \A i \in PendingOf(bookings', u, skip) :
          i \in PendingOf(bookings, u, skip) /\ bookings'[i].cost = bookings[i].cost
    BY DEF PendingOf, Spares
  <2> QED BY <1>0, <2>1, PendingLess
<1>2. /\ PendingSum(bookings', u, Confirming') <= PendingSum(bookings, u, Confirming)
      /\ PendingSum(bookings', u, Confirming') \in Nat /\ PendingSum(bookings, u, Confirming) \in Nat
  <2>1. \A i \in PendingOf(bookings', u, Confirming') :
          i \in PendingOf(bookings, u, Confirming) /\ bookings'[i].cost = bookings[i].cost
    BY DEF PendingOf, Spares
  <2> QED BY <1>0, <2>1, PendingLess
<1>3. credits'[u] >= PendingSum(bookings', u, Confirming')
  BY <1>0, <1>2 DEF ReservedInv, Backed, Spares
<1> QED BY <1>1, <1>3 DEF Backed

\* A handler that stays where it is remains covered, if its payer is spared.
LEMMA SparedHandler ==
  ASSUME ReservedInv, TypeOK', NEW w \in Workers, job'[w] = job[w],
         Spending(job[w]) => Spares(Payer(job[w]))
  PROVE  CoveredFor(w)'
<1>0. RowsOK /\ \A u \in Users : credits[u] \in Int /\ credits'[u] \in Int
  BY ReservedTypes
<1>1. CoveredFor(w)
  BY DEF ReservedInv
<1>2. CASE job[w].op = "create" /\ job[w].step = "commit"
  <2>1. Spares(job[w].user) /\ job[w].user \in Users /\ Cost(job[w].start, job[w].end) \in Nat
    BY <1>0, <1>2, SpenderTypes DEF Spending, Payer
  <2>2. PendingSum(bookings', job[w].user, {}) <= PendingSum(bookings, job[w].user, {})
        /\ PendingSum(bookings', job[w].user, {}) \in Nat /\ PendingSum(bookings, job[w].user, {}) \in Nat
    BY <2>1, SparedUser
  <2>3. credits'[job[w].user] >= credits[job[w].user]
    BY <2>1 DEF Spares
  <2>4. credits[job[w].user] >= Cost(job[w].start, job[w].end) + PendingSum(bookings, job[w].user, {})
    BY <1>1, <1>2 DEF CoveredFor
  <2>5. credits'[job[w].user] >= Cost(job[w].start, job[w].end) + PendingSum(bookings', job[w].user, {})
    BY <1>0, <2>1, <2>2, <2>3, <2>4
  <2> QED BY <1>2, <2>5 DEF CoveredFor
<1>3. CASE job[w].op = "reschedule" /\ job[w].step = "commit" /\ HowMuchToPay(job[w]) > 0
  <2> DEFINE u == job[w].seen.user
  <2>1. Spares(u) /\ u \in Users /\ HowMuchToPay(job[w]) \in Int
    BY <1>0, <1>3, SpenderTypes DEF Spending, Payer
  <2>2. PendingSum(bookings', u, {job[w].id}) <= PendingSum(bookings, u, {job[w].id})
        /\ PendingSum(bookings', u, {job[w].id}) \in Nat /\ PendingSum(bookings, u, {job[w].id}) \in Nat
    BY <2>1, SparedUser
  <2>3. credits'[u] >= credits[u]
    BY <2>1 DEF Spares
  <2>4. credits[u] >= HowMuchToPay(job[w]) + PendingSum(bookings, u, {job[w].id})
    BY <1>1, <1>3 DEF CoveredFor
  <2>5. credits'[u] >= HowMuchToPay(job[w]) + PendingSum(bookings', u, {job[w].id})
    BY <1>0, <2>1, <2>2, <2>3, <2>4
  <2> QED BY <1>3, <2>5 DEF CoveredFor
<1>4. CASE job[w].op = "status" /\ job[w].step = "charge"
  <2> DEFINE u == job[w].seen.user
  <2>1. Spares(u) /\ u \in Users /\ job[w].seen.cost \in Nat
    BY <1>0, <1>4, SpenderTypes DEF Spending, Payer
  <2>2. PendingSum(bookings', u, {job[w].id}) <= PendingSum(bookings, u, {job[w].id})
        /\ PendingSum(bookings', u, {job[w].id}) \in Nat /\ PendingSum(bookings, u, {job[w].id}) \in Nat
    BY <2>1, SparedUser
  <2>3. credits'[u] >= credits[u]
    BY <2>1 DEF Spares
  <2>4. credits[u] >= job[w].seen.cost + PendingSum(bookings, u, {job[w].id})
    BY <1>1, <1>4 DEF CoveredFor
  <2>5. credits'[u] >= job[w].seen.cost + PendingSum(bookings', u, {job[w].id})
    BY <1>0, <2>1, <2>2, <2>3, <2>4
  <2> QED BY <1>4, <2>5 DEF CoveredFor
<1> QED BY <1>2, <1>3, <1>4 DEF CoveredFor, HowMuchToPay, Cost

\* Existing bookings keep their user, and none goes back to waiting.
KeepsUser(i) ==
    bookings[i].status # "none" =>
      /\ bookings'[i].status # "none" /\ bookings'[i].user = bookings[i].user
      /\ bookings'[i].status = "PENDING" => bookings[i].status = "PENDING"

LEMMA SeenUserKept ==
  ASSUME RowsOK, NEW w \in Workers, job'[w] = job[w], SeenUser(w), \A i \in Ids : KeepsUser(i)
  PROVE  SeenUser(w)'
<1>1. job[w].op \in {"reschedule", "status"} => job[w].id \in Ids
  BY SpenderTypes
<1> QED BY <1>1 DEF SeenUser, KeepsUser

\* The handlers that moved are covered anew, the payers of the others are spared.
LEMMA StaysReserved ==
  ASSUME ReservedInv, TypeOK', \A i \in Ids : KeepsUser(i), \A u \in Users : Backed(u)',
         \A w \in Workers :
            \/ SeenUser(w)' /\ CoveredFor(w)'
            \/ job'[w] = job[w] /\ (Spending(job[w]) => Spares(Payer(job[w])))
  PROVE  ReservedInv'
<1>1. ASSUME NEW w \in Workers PROVE SeenUser(w)' /\ CoveredFor(w)'
  <2>1. CASE job'[w] = job[w] /\ (Spending(job[w]) => Spares(Payer(job[w])))
    BY <2>1, ReservedTypes, SeenUserKept, SparedHandler DEF ReservedInv
  <2> QED BY <2>1
<1> QED BY <1>1 DEF ReservedInv

\* A step that spares everyone.
LEMMA SparingAll ==
  ASSUME ReservedInv, TypeOK', \A i \in Ids : KeepsUser(i), \A u \in Users : Spares(u),
         \A w \in Workers : (SeenUser(w)' /\ CoveredFor(w)') \/ job'[w] = job[w]
  PROVE  ReservedInv'
<1>1. \A w \in Workers : Spending(job[w]) => Payer(job[w]) \in Users
  BY ReservedTypes, SpenderTypes DEF Spending, Charged, Payer
<1>2. \A u \in Users : Backed(u)'
  BY SparedUser
<1> QED BY <1>1, <1>2, StaysReserved

\* A handler that neither holds a booking it read nor spends.
LEMMA OutOfTheWay ==
  ASSUME NEW w \in Workers, job'[w].op \notin Bookers
  PROVE  SeenUser(w)' /\ CoveredFor(w)'
  BY DEF SeenUser, CoveredFor, Bookers

\* Confirmations on their way to the commit.
LEMMA ConfirmingIs ==
  /\ Confirming = {i \in Ids : \E w \in Workers : Charged(job[w]) /\ job[w].id = i}
  /\ Confirming' = {i \in Ids : \E w \in Workers : Charged(job'[w]) /\ job'[w].id = i}
<1>1. \A w \in Workers : Charged(job[w]) => job[w] # Idle
  BY DEF Charged, Idle
<1>2. \A w \in Workers : Charged(job'[w]) => job'[w] # Idle
  BY DEF Charged, Idle
<1> QED BY <1>1, <1>2 DEF Confirming, BeingConfirmed, At, Charged

\* Confirmations that are not given up stay on their way.
LEMMA StillConfirming ==
  ASSUME NEW w \in Workers, ~Charged(job[w]), \A v \in Workers \ {w} : job'[v] = job[v]
  PROVE  Confirming \subseteq Confirming'
  BY ConfirmingIs

\* A handler's step that writes no table.
LEMMA LookingStaysReserved ==
  ASSUME ReservedInv, TypeOK', bookings' = bookings, credits' = credits,
         NEW w \in Workers, \A v \in Workers \ {w} : job'[v] = job[v],
         ~Charged(job[w]), SeenUser(w)', CoveredFor(w)'
  PROVE  ReservedInv'
<1>1. Confirming \subseteq Confirming'
  BY StillConfirming
<1>2. \A u \in Users : Spares(u)
  BY <1>1, ReservedTypes DEF Spares
<1> QED BY <1>2, SparingAll DEF KeepsUser

\* Where the credits of u are spent by no handler but w, and w has charged
\* nothing, what waits at u's cost is all that u has waiting.
LEMMA NoneConfirming ==
  ASSUME \A v \in Workers : SeenUser(v), NEW w \in Workers, NEW u, ~Charged(job[w]),
         \A v \in Workers \ {w} : Spending(job[v]) => Payer(job[v]) # u
  PROVE  PendingSum(bookings, u, Confirming) = PendingSum(bookings, u, {})
<1>1. ASSUME NEW i \in Confirming PROVE bookings[i].user # u
  <2>1. PICK v \in Workers : Charged(job[v]) /\ job[v].id = i
    BY <1>1, ConfirmingIs
  <2>2. Payer(job[v]) = bookings[i].user /\ Spending(job[v])
    BY <2>1 DEF Charged, Payer, SeenUser, Spending
  <2> QED BY <2>1, <2>2
<1>2. PendingOf(bookings, u, Confirming) = PendingOf(bookings, u, {})
  BY <1>1 DEF PendingOf
<1> QED BY <1>2 DEF PendingSum

\* A handler that spends alone holds all of its payer's waiting bookings to account.
LEMMA SpendsAlone ==
  ASSUME ReservedInv, OneSpends, NEW w \in Workers, Spending(job[w]), ~Charged(job[w])
  PROVE  LET u == Payer(job[w])
         IN  /\ u \in Users /\ credits[u] \in Int
             /\ credits[u] >= PendingSum(bookings, u, {})
             /\ \A v \in Workers \ {w} : Spending(job[v]) => Payer(job[v]) # u
<1> DEFINE u == Payer(job[w])
<1>1. RowsOK /\ u \in Users /\ credits[u] \in Int
  BY SpenderTypes DEF ReservedInv, TypeOK, Spending, Charged, Payer
<1>2. \A v \in Workers \ {w} : Spending(job[v]) => Payer(job[v]) # u
  BY DEF OneSpends
<1>3. PendingSum(bookings, u, Confirming) = PendingSum(bookings, u, {})
  BY <1>2, NoneConfirming DEF ReservedInv
<1> QED BY <1>1, <1>2, <1>3 DEF ReservedInv, Backed

\* A commit of a spending handler: its payer is backed anew, all others spared.
LEMMA SpenderStaysReserved ==
  ASSUME ReservedInv, OneSpends, TypeOK', NEW w \in Workers, Spending(job[w]),
         \A v \in Workers \ {w} : job'[v] = job[v], \A i \in Ids : KeepsUser(i),
         \A u \in Users \ {Payer(job[w])} : Spares(u),
         credits'[Payer(job[w])] >= PendingSum(bookings', Payer(job[w]), Confirming'),
         SeenUser(w)' /\ CoveredFor(w)'
  PROVE  ReservedInv'
<1>1. \A v \in Workers \ {w} : Spending(job[v]) => Payer(job[v]) # Payer(job[w])
  BY DEF OneSpends
<1>2. \A v \in Workers : Spending(job[v]) => Payer(job[v]) \in Users
  BY ReservedTypes, SpenderTypes DEF Spending, Charged, Payer
<1>3. ASSUME NEW u \in Users PROVE Backed(u)'
  <2>1. CASE u = Payer(job[w])
    BY <2>1 DEF Backed
  <2>2. CASE u # Payer(job[w])
    BY <2>2, SparedUser
  <2> QED BY <2>1, <2>2
<1>4. ASSUME NEW v \in Workers \ {w} PROVE Spending(job[v]) => Spares(Payer(job[v]))
  BY <1>1, <1>2
<1> QED BY <1>3, <1>4, StaysReserved

LEMMA CreateKeepsReserved ==
  ASSUME ReservedInv, OneSpends, OneSpends', TypeOK', NEW w \in Workers, CreateStep(w)
  PROVE  ReservedInv'
<1>0. RowsOK /\ TypeOK /\ bookings \in [Ids -> Booking] /\ bookings' \in [Ids -> Booking]
  BY ReservedTypes DEF ReservedInv
<1>1. CASE CreateCheckSlot(w)
  <2>1. PICK j : /\ j.op = "create" /\ j.step = "credits" /\ Start(w, j)
                 /\ bookings' = bookings /\ credits' = credits
    BY <1>1 DEF CreateCheckSlot, tables
  <2>2. job[w].op = "idle" /\ job'[w] = j /\ \A v \in Workers \ {w} : job'[v] = job[v]
    BY <1>0, <2>1, StartsAs
  <2>3. SeenUser(w)' /\ CoveredFor(w)' /\ ~Charged(job[w])
    BY <2>1, <2>2 DEF SeenUser, CoveredFor, Charged
  <2> QED BY <2>1, <2>2, <2>3, LookingStaysReserved
<1>2. CASE CreateCheckCredits(w)
  <2>1. /\ job[w] \in CreateJob /\ job[w].op = "create" /\ job[w].step = "credits"
        /\ bookings' = bookings /\ credits' = credits /\ ~Charged(job[w])
    BY <1>0, <1>2, JobKinds DEF CreateCheckCredits, At, RowsOK, tables, CreateJob, Charged
  <2>2. CASE Return(w)
    <3>1. job'[w].op = "idle" /\ \A v \in Workers \ {w} : job'[v] = job[v]
      BY <1>0, <2>2, Returns
    <3>2. SeenUser(w)' /\ CoveredFor(w)'
      BY <3>1, OutOfTheWay DEF Bookers
    <3> QED BY <2>1, <3>1, <3>2, LookingStaysReserved
  <2>3. CASE ~Return(w)
    <3>1. /\ Advance(w, "commit")
          /\ credits[job[w].user] >= Cost(job[w].start, job[w].end) + PendingCredits(job[w].user, {})
      BY <1>2, <2>3 DEF CreateCheckCredits
    <3>2. credits[job[w].user] >= Cost(job[w].start, job[w].end) + PendingSum(bookings, job[w].user, {})
      BY <3>1 DEF PendingCredits, PendingSum, PendingOf
    <3>3. /\ job'[w].op = "create" /\ job'[w].user = job[w].user
          /\ job'[w].start = job[w].start /\ job'[w].end = job[w].end
          /\ \A v \in Workers \ {w} : job'[v] = job[v]
      BY <1>0, <2>1, <3>1, GoesOn DEF CreateJob
    <3>4. SeenUser(w)' /\ CoveredFor(w)'
      BY <2>1, <3>2, <3>3 DEF SeenUser, CoveredFor, Cost
    <3> QED BY <2>1, <3>3, <3>4, LookingStaysReserved
  <2> QED BY <2>2, <2>3
<1>3. CASE CreateCommit(w)
  <2> DEFINE cost == Cost(job[w].start, job[w].end)
             payer == job[w].user
  <2>1. /\ job[w] \in CreateJob /\ job[w].op = "create" /\ job[w].step = "commit" /\ Return(w)
        /\ payer \in Users /\ job[w].status \in Active /\ cost \in Nat
    BY <1>0, <1>3, CreateWrites DEF CreateCommit, At, CreateJob
  <2>2. PICK i \in Ids :
          /\ bookings[i].status = "none"
          /\ \A k \in Ids \ {i} : bookings'[k] = bookings[k]
          /\ bookings'[i] = [status |-> job[w].status, user |-> payer, res |-> job[w].res,
                             start |-> job[w].start, end |-> job[w].end, cost |-> cost]
    BY <1>0, <1>3, CreateWrites
  <2>3. credits' = [credits EXCEPT ![payer] = @ - (IF job[w].status = "CONFIRMED" THEN cost ELSE 0)]
    BY <1>3 DEF CreateCommit
  <2>4. Spending(job[w]) /\ ~Charged(job[w]) /\ Payer(job[w]) = payer
    BY <2>1 DEF Spending, Charged, Payer
  <2>5. credits[payer] >= cost + PendingSum(bookings, payer, {})
    BY <2>1 DEF ReservedInv, CoveredFor
  <2>6. job'[w].op = "idle" /\ \A v \in Workers \ {w} : job'[v] = job[v]
    BY <1>0, <2>1, Returns
  <2> HIDE DEF cost, payer
  <2>7. ASSUME NEW u \in Users \ {payer} PROVE Spares(u)
    <3>1. Confirming \subseteq Confirming'
      BY <2>4, <2>6, StillConfirming
    <3>2. credits'[u] = credits[u] /\ credits[u] \in Int
      BY <1>0, <2>3 DEF TypeOK
    <3> QED BY <2>2, <3>1, <3>2 DEF Spares
  <2>8. credits'[payer] >= PendingSum(bookings', payer, Confirming')
    <3>1. credits[payer] \in Int /\ credits[payer] >= PendingSum(bookings, payer, {})
      BY <2>4, SpendsAlone
    <3>2. credits'[payer] = IF job[w].status = "CONFIRMED" THEN credits[payer] - cost ELSE credits[payer]
      BY <1>0, <2>1, <2>3, <3>1 DEF TypeOK
    <3>3. \A k \in PendingOf(bookings', payer, {i}) :
            k \in PendingOf(bookings, payer, {}) /\ bookings'[k].cost = bookings[k].cost
      BY <2>2 DEF PendingOf
    <3>4. /\ PendingSum(bookings', payer, {i}) <= PendingSum(bookings, payer, {})
          /\ PendingSum(bookings', payer, {i}) \in Nat /\ PendingSum(bookings, payer, {}) \in Nat
      BY <1>0, <3>3, PendingLess
    <3>5. credits'[payer] >= PendingSum(bookings', payer, {})
      <4>1. CASE job[w].status = "PENDING"
        <5>1. i \in PendingOf(bookings', payer, {}) /\ bookings'[i].cost = cost
          BY <2>2, <4>1 DEF PendingOf
        <5>2. PendingSum(bookings', payer, {}) = cost + PendingSum(bookings', payer, {i})
          BY <1>0, <5>1, PendingOne
        <5> QED BY <2>1, <2>5, <3>1, <3>2, <3>4, <4>1, <5>2
      <4>2. CASE job[w].status # "PENDING"
        <5>1. i \notin PendingOf(bookings', payer, {})
          BY <2>2, <4>2 DEF PendingOf
        <5>2. PendingSum(bookings', payer, {}) = PendingSum(bookings', payer, {i})
          BY <5>1, PendingNone
        <5> QED BY <2>1, <2>5, <3>1, <3>2, <3>4, <5>2
      <4> QED BY <4>1, <4>2
    <3>6. credits'[payer] \in Int
      BY <2>1, <3>1, <3>2
    <3> QED BY <1>0, <3>5, <3>6, PendingSkips
  <2>9. SeenUser(w)' /\ CoveredFor(w)'
    BY <2>6, OutOfTheWay DEF Bookers
  <2>10. \A k \in Ids : KeepsUser(k)
    BY <2>2 DEF KeepsUser
  <2> QED BY <2>4, <2>6, <2>7, <2>8, <2>9, <2>10, SpenderStaysReserved
<1> QED BY <1>1, <1>2, <1>3 DEF CreateStep

LEMMA StatusKeepsReserved ==
  ASSUME NothingBackToPending, ReservedInv, OneSpends, OneSpends', TypeOK',
         NEW w \in Workers, StatusStep(w)
  PROVE  ReservedInv'
<1>0. RowsOK /\ TypeOK /\ bookings \in [Ids -> Booking] /\ bookings' \in [Ids -> Booking]
  BY ReservedTypes DEF ReservedInv
<1>1. CASE StatusRead(w)
  <2>1. PICK i \in Ids, to \in Statuses, role \in Roles, step \in {"charge", "commit"} :
          /\ bookings[i].status # "none" /\ <<bookings[i].status, to>> \in Transitions
          /\ step = "charge" => /\ bookings[i].status = "PENDING" /\ to = "CONFIRMED"
                                /\ credits[bookings[i].user] >= bookings[i].cost
          /\ step = "commit" => ~(bookings[i].status = "PENDING" /\ to = "CONFIRMED")
          /\ Start(w, [op |-> "status", step |-> step, id |-> i, seen |-> bookings[i],
                       to |-> to, role |-> role])
          /\ bookings' = bookings /\ credits' = credits
    BY <1>1 DEF StatusRead, Created, tables, MayConfirm
  <2> DEFINE u == bookings[i].user
  <2>2. /\ job'[w] = [op |-> "status", step |-> step, id |-> i, seen |-> bookings[i],
                      to |-> to, role |-> role]
        /\ job[w].op = "idle" /\ \A v \in Workers \ {w} : job'[v] = job[v]
    BY <1>0, <2>1, StartsAs
  <2>3. to # "PENDING" /\ ~Charged(job[w])
    BY <1>0, <2>1, <2>2 DEF NothingBackToPending, Booking, Charged
  <2>4. ASSUME step = "charge" PROVE credits[u] >= bookings[i].cost + PendingSum(bookings, u, {i})
    <3>1. u \in Users /\ i \in PendingOf(bookings, u, {})
      BY <1>0, <2>1, <2>4 DEF Booking, PendingOf
    <3>2. \A v \in Workers \ {w} : Spending(job[v]) => Payer(job[v]) # u
      <4>1. Spending(job'[w]) /\ Payer(job'[w]) = u
        BY <2>2, <2>4 DEF Spending, Payer
      <4> QED BY <2>2, <4>1 DEF OneSpends
    <3>3. PendingSum(bookings, u, Confirming) = PendingSum(bookings, u, {})
      BY <2>3, <3>2, NoneConfirming DEF ReservedInv
    <3>4. credits[u] \in Int /\ credits[u] >= PendingSum(bookings, u, {})
      BY <1>0, <3>1, <3>3 DEF ReservedInv, Backed, TypeOK
    <3>5. PendingSum(bookings, u, {}) = bookings[i].cost + PendingSum(bookings, u, {i})
      BY <1>0, <3>1, PendingOne
    <3> QED BY <3>4, <3>5
  <2>5. SeenUser(w)' /\ CoveredFor(w)'
    BY <2>1, <2>2, <2>3, <2>4 DEF SeenUser, CoveredFor
  <2> QED BY <2>1, <2>2, <2>3, <2>5, LookingStaysReserved
<1>2. CASE ConfirmCharge(w)
  <2> DEFINE payer == job[w].seen.user
             cost == job[w].seen.cost
             i == job[w].id
  <2>1. /\ job[w] \in StatusJob /\ job[w].op = "status" /\ job[w].step = "charge"
        /\ Advance(w, "commit") /\ bookings' = bookings
        /\ credits' = [credits EXCEPT ![payer] = @ - cost]
    BY <1>0, <1>2, JobKinds DEF ConfirmCharge, At, RowsOK
  <2>2. i \in Ids /\ payer \in Users /\ cost \in Nat
    BY <2>1 DEF StatusJob, Booking
  <2>3. SeenUser(w) /\ CoveredFor(w)
    BY DEF ReservedInv
  <2>4. /\ job'[w].op = "status" /\ job'[w].step = "commit" /\ job'[w].id = i
        /\ job'[w].seen = job[w].seen /\ job'[w].to = job[w].to
        /\ \A v \in Workers \ {w} : job'[v] = job[v]
    <3>1. job'[w] = [job[w] EXCEPT !.step = "commit"] /\ \A v \in Workers \ {w} : job'[v] = job[v]
      BY <1>0, <2>1, GoesOn
    <3> QED BY <2>1, <3>1 DEF StatusJob
  <2>5. Charged(job'[w]) /\ ~Charged(job[w]) /\ Spending(job[w]) /\ Payer(job[w]) = payer
    BY <2>1, <2>3, <2>4 DEF SeenUser, Charged, Spending, Payer
  <2>6. SeenUser(w)' /\ CoveredFor(w)'
    BY <2>1, <2>3, <2>4 DEF SeenUser, CoveredFor
  <2>7. credits[payer] >= cost + PendingSum(bookings, payer, {i})
    BY <2>1, <2>3 DEF CoveredFor
  <2>8. Confirming \subseteq Confirming' /\ i \in Confirming'
    BY <2>2, <2>4, <2>5, ConfirmingIs
  <2> HIDE DEF payer, cost, i
  <2>9. \A u \in Users \ {payer} : Spares(u)
    BY <1>0, <2>1, <2>8 DEF Spares, TypeOK
  <2>10. credits'[payer] >= PendingSum(bookings', payer, Confirming')
    <3>1. credits[payer] \in Int /\ credits'[payer] = credits[payer] - cost
      BY <1>0, <2>1, <2>2 DEF TypeOK
    <3>2. \A k \in PendingOf(bookings', payer, Confirming') :
            k \in PendingOf(bookings, payer, {i}) /\ bookings'[k].cost = bookings[k].cost
      BY <2>1, <2>8 DEF PendingOf
    <3>3. /\ PendingSum(bookings', payer, Confirming') <= PendingSum(bookings, payer, {i})
          /\ PendingSum(bookings', payer, Confirming') \in Nat
          /\ PendingSum(bookings, payer, {i}) \in Nat
      BY <1>0, <3>2, PendingLess
    <3> QED BY <2>2, <2>7, <3>1, <3>3
  <2>11. \A k \in Ids : KeepsUser(k)
    BY <2>1 DEF KeepsUser
  <2> QED BY <2>4, <2>5, <2>6, <2>9, <2>10, <2>11, SpenderStaysReserved
<1>3. CASE StatusCommit(w)
  <2>1. /\ job[w] \in StatusJob /\ job[w].op = "status" /\ job[w].step = "commit" /\ Return(w)
        /\ job[w].seen.user \in Users /\ job[w].seen.cost \in Nat
    BY <1>0, <1>3, StatusWrites DEF StatusCommit, At, StatusJob, Booking
  <2>2. PICK i \in Ids : i = job[w].id
    BY <2>1 DEF StatusJob
  <2>3. job[w].to # "PENDING" /\ job[w].to # "none"
    BY <2>1 DEF ReservedInv, SeenUser, StatusJob, Statuses
  <2>4. Refund(job[w]) \in Nat
    BY <2>1 DEF Refund
  <2>5. \A u \in Users : credits'[u] >= credits[u]
    BY <1>0, <1>3, <2>1, <2>4 DEF StatusCommit, TypeOK
  <2>6. /\ \A k \in Ids \ {i} : bookings'[k] = bookings[k]
        /\ bookings' = bookings \/ Turns(i, job[w].to)
        /\ RefundFits(job[w]) => Turns(i, job[w].to)
    BY <1>0, <1>3, <2>2, StatusWrites
  <2>7. job'[w].op = "idle" /\ \A v \in Workers \ {w} : job'[v] = job[v]
    BY <1>0, <2>1, Returns
  <2>8. SeenUser(w)' /\ CoveredFor(w)'
    BY <2>7, OutOfTheWay DEF Bookers
  <2>9. \A k \in Ids : KeepsUser(k)
    BY <2>3, <2>6 DEF KeepsUser, Turns
  <2>10. ASSUME NEW k \in Ids, bookings'[k].status = "PENDING", k \in Confirming
         PROVE  k \in Confirming'
    <3>1. PICK v \in Workers : Charged(job[v]) /\ job[v].id = k
      BY <2>10, ConfirmingIs
    <3>2. CASE v = w
      <4>1. RefundFits(job[w])
        BY <3>1, <3>2 DEF Charged, RefundFits
      <4> QED BY <2>2, <2>3, <2>6, <2>10, <3>1, <3>2, <4>1 DEF Turns
    <3>3. CASE v # w
      BY <2>7, <3>1, <3>3, ConfirmingIs
    <3> QED BY <3>2, <3>3
  <2>11. \A u \in Users : Spares(u)
    BY <2>3, <2>5, <2>6, <2>10 DEF Spares, Turns
  <2> QED BY <2>7, <2>8, <2>9, <2>11, SparingAll
<1> QED BY <1>1, <1>2, <1>3 DEF StatusStep

LEMMA RescheduleKeepsReserved ==
  ASSUME ReservedInv, OneSpends, TypeOK', NEW w \in Workers, RescheduleStep(w)
  PROVE  ReservedInv'
<1>0. RowsOK /\ TypeOK /\ bookings \in [Ids -> Booking] /\ bookings' \in [Ids -> Booking]
  BY ReservedTypes DEF ReservedInv
<1>1. CASE RescheduleRead(w)
  <2>1. PICK i \in Ids, s \in Slots, e \in Slots :
          /\ bookings[i].status \in Active
          /\ Start(w, [op |-> "reschedule", step |-> "slot", id |-> i, seen |-> bookings[i],
                       start |-> s, end |-> e])
          /\ bookings' = bookings /\ credits' = credits
    BY <1>1 DEF RescheduleRead, Created, tables
  <2>2. /\ job'[w] = [op |-> "reschedule", step |-> "slot", id |-> i, seen |-> bookings[i],
                      start |-> s, end |-> e]
        /\ job[w].op = "idle" /\ \A v \in Workers \ {w} : job'[v] = job[v]
    BY <1>0, <2>1, StartsAs
  <2>3. SeenUser(w)' /\ CoveredFor(w)' /\ ~Charged(job[w])
    BY <2>1, <2>2 DEF SeenUser, CoveredFor, Charged, Active
  <2> QED BY <2>1, <2>2, <2>3, LookingStaysReserved
<1>2. CASE RescheduleCheckSlot(w) \/ RescheduleCheckCredits(w)
  <2>1. /\ job[w] \in RescheduleJob /\ job[w].op = "reschedule" /\ ~Charged(job[w])
        /\ bookings' = bookings /\ credits' = credits
    BY <1>0, <1>2, JobKinds
       DEF RescheduleCheckSlot, RescheduleCheckCredits, At, RowsOK, tables, Charged
  <2>2. CASE Return(w)
    <3>1. job'[w].op = "idle" /\ \A v \in Workers \ {w} : job'[v] = job[v]
      BY <1>0, <2>2, Returns
    <3>2. SeenUser(w)' /\ CoveredFor(w)'
      BY <3>1, OutOfTheWay DEF Bookers
    <3> QED BY <2>1, <3>1, <3>2, LookingStaysReserved
  <2>3. ASSUME NEW step \in {"credits", "commit"}, Advance(w, step),
               step = "commit" /\ HowMuchToPay(job[w]) > 0 =>
                 credits[job[w].seen.user] >=
                   HowMuchToPay(job[w]) + PendingSum(bookings, job[w].seen.user, {job[w].id})
        PROVE  ReservedInv'
    <3>1. job'[w] = [job[w] EXCEPT !.step = step] /\ \A v \in Workers \ {w} : job'[v] = job[v]
      BY <1>0, <2>3, GoesOn
    <3>2. /\ job'[w].op = "reschedule" /\ job'[w].step = step /\ job'[w].id = job[w].id
          /\ job'[w].seen = job[w].seen /\ job'[w].start = job[w].start /\ job'[w].end = job[w].end
      BY <2>1, <3>1 DEF RescheduleJob
    <3>3. SeenUser(w)'
      BY <2>1, <3>2 DEF ReservedInv, SeenUser
    <3>4. CoveredFor(w)'
      BY <2>1, <2>3, <3>2 DEF CoveredFor, HowMuchToPay, Cost
    <3> QED BY <2>1, <3>1, <3>3, <3>4, LookingStaysReserved
  <2>4. CASE RescheduleCheckSlot(w) /\ ~Return(w)
    BY <2>3, <2>4 DEF RescheduleCheckSlot
  <2>5. CASE RescheduleCheckCredits(w) /\ ~Return(w)
    <3>1. /\ Advance(w, "commit")
          /\ HowMuchToPay(job[w]) > 0 =>
               credits[job[w].seen.user] >=
                 HowMuchToPay(job[w]) + PendingCredits(job[w].seen.user, {job[w].id})
      BY <2>5 DEF RescheduleCheckCredits
    <3>2. PendingCredits(job[w].seen.user, {job[w].id})
            = PendingSum(bookings, job[w].seen.user, {job[w].id})
      BY DEF PendingCredits, PendingSum, PendingOf
    <3> QED BY <2>3, <3>1, <3>2
  <2> QED BY <1>2, <2>2, <2>4, <2>5
<1>3. CASE RescheduleCommit(w)
  <2> DEFINE cost == Cost(job[w].start, job[w].end)
             more == HowMuchToPay(job[w])
             payer == job[w].seen.user
  <2>1. /\ job[w] \in RescheduleJob /\ job[w].op = "reschedule" /\ job[w].step = "commit"
        /\ Return(w) /\ payer \in Users /\ cost \in Nat /\ more \in Int
    BY <1>0, <1>3, RescheduleWrites DEF RescheduleCommit, At, RescheduleJob, Booking
  <2>2. PICK k \in Ids : k = job[w].id
    BY <2>1 DEF RescheduleJob
  <2>3. /\ \A i \in Ids \ {k} : bookings'[i] = bookings[i]
        /\ bookings'[k].status = bookings[k].status /\ bookings'[k].user = bookings[k].user
        /\ bookings'[k].cost = cost
    BY <1>0, <1>3, <2>2, RescheduleWrites
  <2>4. /\ bookings[k].user = payer
        /\ job[w].seen.status = "CONFIRMED" => bookings[k].status # "PENDING"
        /\ more > 0 => credits[payer] >= more + PendingSum(bookings, payer, {k})
    BY <2>1, <2>2 DEF ReservedInv, SeenUser, CoveredFor
  <2>5. job[w].seen.status # "CONFIRMED" => more = cost
    BY <2>1 DEF HowMuchToPay
  <2>6. credits' = [credits EXCEPT ![payer] =
                      @ - (IF job[w].seen.status = "CONFIRMED" THEN more ELSE 0)]
    BY <1>3 DEF RescheduleCommit
  <2>7. Spending(job[w]) /\ ~Charged(job[w]) /\ Payer(job[w]) = payer
    BY <2>1 DEF Spending, Charged, Payer
  <2>8. job'[w].op = "idle" /\ \A v \in Workers \ {w} : job'[v] = job[v]
    BY <1>0, <2>1, Returns
  <2> HIDE DEF cost, more, payer
  <2>9. ASSUME NEW u \in Users \ {payer} PROVE Spares(u)
    <3>1. Confirming \subseteq Confirming'
      BY <2>7, <2>8, StillConfirming
    <3>2. credits'[u] = credits[u] /\ credits[u] \in Int
      BY <1>0, <2>6 DEF TypeOK
    <3> QED BY <2>3, <2>4, <3>1, <3>2 DEF Spares
  <2>10. credits'[payer] >= PendingSum(bookings', payer, Confirming')
    <3>1. credits[payer] \in Int /\ credits[payer] >= PendingSum(bookings, payer, {})
      BY <2>7, SpendsAlone
    <3>2. credits'[payer] = IF job[w].seen.status = "CONFIRMED"
                            THEN credits[payer] - more ELSE credits[payer]
      BY <1>0, <2>1, <2>6, <3>1 DEF TypeOK
    <3>3. /\ PendingSum(bookings', payer, {k}) <= PendingSum(bookings, payer, {k})
          /\ PendingSum(bookings', payer, {k}) \in Nat /\ PendingSum(bookings, payer, {k}) \in Nat
      <4>1. \A i \in PendingOf(bookings', payer, {k}) :
              i \in PendingOf(bookings, payer, {k}) /\ bookings'[i].cost = bookings[i].cost
        BY <2>3 DEF PendingOf
      <4> QED BY <1>0, <4>1, PendingLess
    <3>4. credits[payer] >= PendingSum(bookings, payer, {k})
      BY <1>0, <3>1, PendingSkips
    <3>5. credits'[payer] >= PendingSum(bookings', payer, {})
      <4>1. CASE k \in PendingOf(bookings', payer, {})
        <5>1. job[w].seen.status # "CONFIRMED" /\ more = cost
          BY <2>3, <2>4, <2>5, <4>1 DEF PendingOf
        <5>2. PendingSum(bookings', payer, {}) = cost + PendingSum(bookings', payer, {k})
          BY <1>0, <2>3, <4>1, PendingOne
        <5> QED BY <2>1, <2>4, <3>1, <3>2, <3>3, <3>4, <5>1, <5>2
      <4>2. CASE k \notin PendingOf(bookings', payer, {})
        <5>1. PendingSum(bookings', payer, {}) = PendingSum(bookings', payer, {k})
          BY <4>2, PendingNone
        <5> QED BY <2>1, <2>4, <3>1, <3>2, <3>3, <3>4, <5>1
      <4> QED BY <4>1, <4>2
    <3>6. credits'[payer] \in Int
      BY <2>1, <3>1, <3>2
    <3> QED BY <1>0, <3>5, <3>6, PendingSkips
  <2>11. SeenUser(w)' /\ CoveredFor(w)'
    BY <2>8, OutOfTheWay DEF Bookers
  <2>12. \A i \in Ids : KeepsUser(i)
    BY <2>3 DEF KeepsUser
  <2> QED BY <2>7, <2>8, <2>9, <2>10, <2>11, <2>12, SpenderStaysReserved
<1> QED BY <1>1, <1>2, <1>3 DEF RescheduleStep

\* Maintenance, the crons and failures take bookings out of the calendar and
\* give credits back.
LEMMA OthersKeepReserved ==
  ASSUME ReservedInv, [ConfirmationCommits]_vars, TypeOK',
         \/ \E w \in Workers : MaintenanceStep(w) \/ RequestFails(w)
         \/ \E r \in Resources : UpdateResourceFlag(r)
         \/ \E c \in Crons : CronSelect(c) \/ CronFails(c)
         \/ AutoCancel \/ AutoCheckIn \/ AutoComplete \/ Tick \/ UNCHANGED vars
  PROVE  ReservedInv'
<1>0. TypeOK /\ RowsOK /\ \A u \in Users : credits[u] \in Int
  BY DEF ReservedInv, TypeOK
<1>1. ASSUME NEW w \in Workers, RequestFails(w) PROVE ReservedInv'
  <2>1. job'[w].op = "idle" /\ \A v \in Workers \ {w} : job'[v] = job[v]
    BY <1>0, <1>1, FailsIdle
  <2>2. ~Charged(job[w])
    <3>1. CASE ConfirmationCommits
      BY <1>1, <3>1 DEF ConfirmationCommits
    <3>2. CASE UNCHANGED vars
      <4>1. job'[w] = job[w]
        BY <3>2 DEF vars
      <4> QED BY <2>1, <4>1 DEF Charged
    <3> QED BY <3>1, <3>2
  <2>3. bookings' = bookings /\ credits' = credits
    BY <1>1 DEF RequestFails, tables
  <2>4. SeenUser(w)' /\ CoveredFor(w)'
    BY <2>1, OutOfTheWay DEF Bookers
  <2> QED BY <2>1, <2>2, <2>3, <2>4, LookingStaysReserved
<1>2. ASSUME NEW w \in Workers, MaintenanceStep(w) PROVE ReservedInv'
  <2>1. /\ \A v \in Workers \ {w} : job'[v] = job[v]
        /\ job[w].op \in {"idle", "maintenance"} /\ job'[w].op \in {"idle", "maintenance"}
    BY <1>0, <1>2, MaintenanceJobs
  <2>2. ~Charged(job[w]) /\ SeenUser(w)' /\ CoveredFor(w)'
    BY <2>1, OutOfTheWay DEF Bookers, Charged
  <2>3. CASE MaintenanceCommit(w)
    <3>1. \A i \in Ids : bookings'[i] = bookings[i] \/ Turns(i, "CANCELLED")
      BY <1>0, <2>3, SetStatusWrites DEF MaintenanceCommit
    <3>2. job[w] \in CancelJob
      BY <1>0, <2>3, JobKinds DEF MaintenanceCommit, At, RowsOK
    <3> DEFINE costs == [i \in Ids |-> job[w].seen[i].cost]
               of(u) == {i \in {i \in Ids : job[w].seen[i].status = "CONFIRMED"} :
                           job[w].seen[i].user = u}
    <3>3. ASSUME NEW u \in Users PROVE SumFunctionOnSet(costs, of(u)) \in Nat
      <4>1. \A i \in of(u) : costs[i] \in Nat
        BY <3>2 DEF CancelJob, Booking
      <4>2. IsFiniteSet(of(u))
        BY FiniteAssumption, FS_Subset
      <4> HIDE DEF costs, of
      <4> QED BY <4>1, <4>2, SumOfPart
    <3>4. credits' = [u \in Users |-> credits[u] + SumFunctionOnSet(costs, of(u))]
      BY <2>3 DEF MaintenanceCommit
    <3> HIDE DEF costs, of
    <3>5. \A u \in Users : credits'[u] >= credits[u]
      BY <1>0, <3>3, <3>4
    <3>6. Confirming \subseteq Confirming'
      BY <2>1, <2>2, StillConfirming
    <3>7. \A u \in Users : Spares(u)
      BY <3>1, <3>5, <3>6 DEF Spares, Turns
    <3>8. \A i \in Ids : KeepsUser(i)
      BY <3>1 DEF KeepsUser, Turns
    <3> QED BY <2>1, <2>2, <3>7, <3>8, SparingAll
  <2>4. CASE MaintenanceRead(w) \/ MaintenanceFind(w) \/ MaintenanceEnd(w)
    <3>1. bookings' = bookings /\ credits' = credits
      BY <2>4 DEF MaintenanceRead, MaintenanceFind, MaintenanceEnd, tables
    <3> QED BY <2>1, <2>2, <3>1, LookingStaysReserved
  <2> QED BY <1>2, <2>3, <2>4 DEF MaintenanceStep
<1>3. ASSUME \/ \E r \in Resources : UpdateResourceFlag(r)
             \/ \E c \in Crons : CronSelect(c) \/ CronFails(c)
             \/ AutoCancel \/ AutoCheckIn \/ AutoComplete \/ Tick \/ UNCHANGED vars
      PROVE  ReservedInv'
  <2>1. job' = job /\ credits' = credits
    BY <1>3 DEF UpdateResourceFlag, CronSelect, CronFails, AutoCancel, AutoCheckIn, AutoComplete,
                Tick, tables, vars
  <2>2. \A i \in Ids : \/ bookings'[i] = bookings[i]
                       \/ \E to \in Statuses \ Active : Turns(i, to)
    <3>1. CASE AutoCancel \/ AutoCheckIn \/ AutoComplete
      BY <1>0, <3>1, SetStatusWrites DEF AutoCancel, AutoCheckIn, AutoComplete, Statuses, Active
    <3>2. CASE bookings' = bookings
      BY <3>2
    <3> QED BY <1>3, <3>1, <3>2 DEF UpdateResourceFlag, CronSelect, CronFails, Tick, tables, vars
  <2>3. Confirming' = Confirming
    BY <2>1, ConfirmingIs
  <2>4. \A u \in Users : Spares(u)
    BY <1>0, <2>1, <2>2, <2>3 DEF Spares, Turns, Active
  <2>5. \A i \in Ids : KeepsUser(i)
    BY <2>2 DEF KeepsUser, Turns, Active, Statuses
  <2> QED BY <2>1, <2>4, <2>5, SparingAll
<1> QED BY <1>1, <1>2, <1>3

\* Every balance covers the bookings that wait on it, for any number of users
\* and bookings at any rate, when no two handlers spend the credits of one user
\* between their look at the balance and their commit, clients send no booking
\* back to PENDING and no confirmation fails between its charge and its commit.
THEOREM ReservedCorrect ==
  ASSUME NothingBackToPending
  PROVE  Spec /\ []OneSpends /\ [][ConfirmationCommits]_vars => []Reserved
<1>1. Init => ReservedInv
  <2> SUFFICES ASSUME Init PROVE ReservedInv
    OBVIOUS
  <2>1. TypeOK
    BY RowsInit, BoundsAssumption DEF Init, TypeOK
  <2>2. \A w \in Workers : SeenUser(w) /\ CoveredFor(w)
    BY DEF Init, SeenUser, CoveredFor, Idle
  <2>3. ASSUME NEW u \in Users PROVE Backed(u)
    <3>1. PendingOf(bookings, u, Confirming) = {}
      BY DEF PendingOf, Init, Unused
    <3>2. PendingSum(bookings, u, Confirming) = 0
      BY <3>1, SumOfNone DEF PendingSum
    <3> QED BY <3>2, BoundsAssumption DEF Init, Backed
  <2> QED BY <2>1, <2>2, <2>3 DEF ReservedInv
<1>2. ReservedInv /\ OneSpends /\ OneSpends' /\ [Next]_vars /\ [ConfirmationCommits]_vars
        => ReservedInv'
  <2> SUFFICES ASSUME ReservedInv, OneSpends, OneSpends', [Next]_vars, [ConfirmationCommits]_vars
               PROVE  ReservedInv'
    OBVIOUS
  <2>1. TypeOK'
    BY TypeStep DEF ReservedInv
  <2>2. ASSUME NEW w \in Workers, CreateStep(w) \/ StatusStep(w) \/ RescheduleStep(w)
        PROVE  ReservedInv'
    BY <2>1, <2>2, CreateKeepsReserved, StatusKeepsReserved, RescheduleKeepsReserved
  <2> QED BY <2>1, <2>2, OthersKeepReserved DEF Next
<1>3. ReservedInv => Reserved
  BY ReservedIs DEF ReservedInv
<1> QED BY <1>1, <1>2, <1>3, PTL DEF Spec

LEMMA LockedSpends == ASSUME Bookers \subseteq Exclusive PROVE Spec => []OneSpends
<1>0. Bookers \in SUBSET (Crons \cup Requests)
  BY DEF Bookers, Requests
<1>1. Init => RowsOK /\ OneOf(Bookers)
  BY <1>0, RowsInit, OneOfInit
<1>2. RowsOK /\ OneOf(Bookers) /\ [Next]_vars => RowsOK' /\ OneOf(Bookers)'
  BY <1>0, RowsStep, OneOfStep
<1>3. OneOf(Bookers) => OneSpends
  BY DEF OneOf, OneSpends, Spending, Charged, Bookers
<1> QED BY <1>1, <1>2, <1>3, PTL DEF Spec

\* One lock around every booking request is enough for balances to cover what
\* waits on them, if nothing fails and clients send no booking back to PENDING.
THEOREM ReservedLocked ==
  ASSUME Bookers \subseteq Exclusive, NothingBackToPending, MaxFaults = 0
  PROVE  Spec => []Reserved
  BY LockedSpends, FaultlessCommits, ReservedCorrect, PTL
=============================================================================
