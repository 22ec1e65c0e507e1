--------------------------- MODULE ServicesProofs --------------------------
(***************************************************************************)
(* Theorems about Catalog, for any resources, plans, limits and rules: its *)
(* types; that the number of resources stays within the limit of the plan; *)
(* and that the slots and days shown are those that can be booked.  About  *)
(* Inbox, for any users, settings and number of calls and of failures:     *)
(* that failures stay local.  About Pool, for any requests and number of   *)
(* connections: that no more connections are in use than there are.        *)
(***************************************************************************)
EXTENDS Services, FiniteSetTheorems, TLAPS

-----------------------------------------------------------------------------
(* Catalog.                                                                *)

LEMMA StartType ==
    ASSUME TypeOK, NEW w \in Workers, NEW j, Start(w, j),
           j \in [op : {"create"}] \cup [op : {"delete"}, resource : Resources]
    PROVE  job' \in [Workers -> {Idle} \cup [op : {"create"}] \cup [op : {"delete"}, resource : Resources]]
  BY DEF TypeOK, Start

LEMMA ReturnType ==
    ASSUME TypeOK, NEW w \in Workers, Return(w)
    PROVE  job' \in [Workers -> {Idle} \cup [op : {"create"}] \cup [op : {"delete"}, resource : Resources]]
  BY DEF TypeOK, Return

\* A resource that is not deleted has rules.
LEMMA LiveHasRules ==
    ASSUME TypeOK
    PROVE  \A r \in Live : r \in Resources /\ resource[r] \in [deleted : BOOLEAN, rules : Rules]
  BY DEF TypeOK, Live, NoResource

LEMMA Deletion ==
    ASSUME TypeOK, NEW w \in Workers, DeleteResourceCommit(w)
    PROVE  \E r \in Resources, gone \in {NoResource} \cup [deleted : BOOLEAN, rules : Rules] :
              gone.deleted /\ resource' = [resource EXCEPT ![r] = gone]
  <1> DEFINE r == job[w].resource
             gone == [resource[r] EXCEPT !.deleted = TRUE]
  <1>1. r \in Resources
    BY DEF TypeOK, DeleteResourceCommit, Idle
  <1>2. CASE resource[r] = NoResource
    <2>1. gone = NoResource /\ gone.deleted
      <3>1. gone = [NoResource EXCEPT !.deleted = TRUE]
        BY <1>2
      <3>2. gone \in [deleted : {TRUE}]
        BY <3>1 DEF NoResource
      <3> HIDE DEF gone
      <3>3. gone = [deleted |-> TRUE]
        BY <3>2, Zenon
      <3> QED BY <3>3 DEF NoResource
    <2>2. resource' = [resource EXCEPT ![r] = gone]
      BY DEF DeleteResourceCommit, TypeOK
    <2> QED BY <1>1, <2>1, <2>2
  <1>3. CASE resource[r] \in [deleted : BOOLEAN, rules : Rules]
    <2>1. gone \in [deleted : BOOLEAN, rules : Rules] /\ gone.deleted
      BY <1>3
    <2>2. resource' = [resource EXCEPT ![r] = gone]
      BY DEF DeleteResourceCommit, TypeOK
    <2> QED BY <1>1, <2>1, <2>2
  <1> QED BY <1>1, <1>2, <1>3 DEF TypeOK

LEMMA ResourceType ==
    ASSUME TypeOK,
           \/ \E w \in Workers : \/ CreateResourceRead(w) \/ CreateResourceCommit(w)
                                 \/ DeleteResourceRead(w) \/ DeleteResourceCommit(w)
           \/ \E r \in Resources : CreateResourceRule(r)
    PROVE  TypeOK'
  <1> DEFINE Row == [deleted : BOOLEAN, rules : Rules]
  <1>1. ASSUME NEW w \in Workers, CreateResourceRead(w) PROVE TypeOK'
    <2>1. job' \in [Workers -> {Idle} \cup [op : {"create"}] \cup [op : {"delete"}, resource : Resources]]
      BY <1>1, StartType DEF CreateResourceRead
    <2> QED BY <1>1, <2>1 DEF TypeOK, CreateResourceRead
  <1>2. ASSUME NEW w \in Workers, CreateResourceCommit(w) PROVE TypeOK'
    <2>1. job' \in [Workers -> {Idle} \cup [op : {"create"}] \cup [op : {"delete"}, resource : Resources]]
      BY <1>2, ReturnType DEF CreateResourceCommit
    <2>2. [deleted |-> FALSE, rules |-> DefaultRules] \in Row
      BY DEF Rules
    <2> QED BY <1>2, <2>1, <2>2 DEF TypeOK, CreateResourceCommit
  <1>3. ASSUME NEW w \in Workers, DeleteResourceRead(w) PROVE TypeOK'
    <2>1. PICK r \in Live : Start(w, [op |-> "delete", resource |-> r])
      BY <1>3 DEF DeleteResourceRead
    <2>2. job' \in [Workers -> {Idle} \cup [op : {"create"}] \cup [op : {"delete"}, resource : Resources]]
      BY <2>1, StartType, LiveHasRules
    <2> QED BY <1>3, <2>2 DEF TypeOK, DeleteResourceRead
  <1>4. ASSUME NEW w \in Workers, DeleteResourceCommit(w) PROVE TypeOK'
    <2>1. job' \in [Workers -> {Idle} \cup [op : {"create"}] \cup [op : {"delete"}, resource : Resources]]
      BY <1>4, ReturnType DEF DeleteResourceCommit
    <2>2. PICK r \in Resources, gone \in {NoResource} \cup Row :
             resource' = [resource EXCEPT ![r] = gone]
      BY <1>4, Deletion
    <2>3. resource' \in [Resources -> {NoResource} \cup Row]
      BY <2>2 DEF TypeOK
    <2> QED BY <1>4, <2>1, <2>3 DEF TypeOK, DeleteResourceCommit
  <1>5. ASSUME NEW r \in Resources, CreateResourceRule(r) PROVE TypeOK'
    <2>1. PICK rules \in CustomRules : resource' = [resource EXCEPT ![r].rules = rules]
      BY <1>5 DEF CreateResourceRule
    <2>2. resource[r] \in Row /\ rules \in Rules
      BY <1>5, LiveHasRules DEF CreateResourceRule, Rules
    <2>3. [resource[r] EXCEPT !.rules = rules] \in Row
      BY <2>2
    <2>4. resource' = [resource EXCEPT ![r] = [resource[r] EXCEPT !.rules = rules]]
      BY <2>1 DEF TypeOK
    <2>5. resource' \in [Resources -> {NoResource} \cup Row]
      BY <2>3, <2>4 DEF TypeOK
    <2> QED BY <1>5, <2>5 DEF TypeOK, CreateResourceRule
  <1> QED BY <1>1, <1>2, <1>3, <1>4, <1>5

LEMMA BookingType ==
    ASSUME CatalogAssumption, TypeOK, NEW b \in Bookings,
           CreateBooking(b) \/ CheckIn(b) \/ EndBooking(b)
    PROVE  TypeOK'
  <1> DEFINE Row == [resource : Resources, start : 0 .. MaxTime, end : 0 .. MaxTime + MaxLength,
                     held : BOOLEAN]
  <1>1. CASE CreateBooking(b)
    <2>1. PICK r \in Existing, start \in now .. MaxTime, length \in 1 .. MaxLength :
             booking' = [booking EXCEPT ![b] = [resource |-> r, start |-> start,
                                                end |-> start + length, held |-> TRUE]]
      BY <1>1 DEF CreateBooking
    <2>2. [resource |-> r, start |-> start, end |-> start + length, held |-> TRUE] \in Row
      BY DEF TypeOK, CatalogAssumption, Existing
    <2> QED BY <1>1, <2>1, <2>2 DEF TypeOK, CreateBooking
  <1>2. CASE CheckIn(b)
    <2>1. booking[b] \in Row
      BY <1>2 DEF TypeOK, CheckIn, Rows
    <2>2. [booking[b] EXCEPT !.held = FALSE] \in Row
      BY <2>1
    <2>3. booking' = [booking EXCEPT ![b] = [booking[b] EXCEPT !.held = FALSE]]
      BY <1>2 DEF CheckIn, TypeOK
    <2>4. booking' \in [Bookings -> {NoBooking} \cup Row]
      BY <2>2, <2>3 DEF TypeOK
    <2> QED BY <1>2, <2>4 DEF TypeOK, CheckIn
  <1>3. CASE EndBooking(b)
    BY <1>3 DEF TypeOK, EndBooking
  <1> QED BY <1>1, <1>2, <1>3

\* Zone, plan, resources, bookings and handlers' locals keep their types.
THEOREM TypeCorrect == ASSUME CatalogAssumption PROVE Spec => []TypeOK
  <1>1. Init => TypeOK
    BY DEF Init, TypeOK, CatalogAssumption, NoResource, NoBooking, Idle
  <1>2. TypeOK /\ [Next]_vars => TypeOK'
    <2> SUFFICES ASSUME TypeOK, [Next]_vars PROVE TypeOK'
      OBVIOUS
    <2>1. CASE UNCHANGED vars
      BY <2>1 DEF TypeOK, vars
    <2>2. CASE ChangePlan
      BY <2>2 DEF TypeOK, ChangePlan
    <2>3. CASE Tick
      BY <2>3 DEF TypeOK, Tick, CatalogAssumption
    <2> QED BY <2>1, <2>2, <2>3, ResourceType, BookingType DEF Next
  <1> QED BY <1>1, <1>2, PTL DEF Spec

-----------------------------------------------------------------------------
(* The limit of the plan.                                                   *)

Creating(w) == job[w].op = "create"

\* What is supposed of creations: that no two are in progress, and that the plan is
\* not changed for one that allows less while one is.
OneCreates == \A v, w \in Workers : Creating(v) /\ Creating(w) => v = w
PlanLasts == (\E w \in Workers : Creating(w)) => MaxResources[plan'] >= MaxResources[plan]

\* There is room for a creation that is in progress.
RoomInv ==
    /\ IsFiniteSet(Live)
    /\ \A w \in Workers : Creating(w) => Cardinality(Live) < MaxResources[plan]

LEMMA StartJobs ==
    ASSUME TypeOK, NEW w \in Workers, NEW j, Start(w, j)
    PROVE  \A v \in Workers : job'[v] = IF v = w THEN j ELSE job[v]
  BY DEF TypeOK, Start

LEMMA ReturnJobs ==
    ASSUME TypeOK, NEW w \in Workers, Return(w)
    PROVE  \A v \in Workers : job'[v] = IF v = w THEN Idle ELSE job[v]
  BY DEF TypeOK, Return

\* What was live and is deleted or keeps its row: no more are live than before.
LEMMA FewerLive ==
    ASSUME CatalogAssumption, TypeOK, RoomInv, Live' \subseteq Live, plan' = plan,
           \A w \in Workers : Creating(w)' => Creating(w)
    PROVE  RoomInv' /\ AddsWithinLimit
  <1>1. /\ IsFiniteSet(Live') /\ Cardinality(Live') <= Cardinality(Live)
        /\ Cardinality(Live) \in Nat /\ Cardinality(Live') \in Nat
    BY FS_Subset, FS_CardinalityType DEF RoomInv
  <1>2. MaxResources[plan] \in Nat
    BY DEF CatalogAssumption, TypeOK
  <1> QED BY <1>1, <1>2 DEF RoomInv, AddsWithinLimit

LEMMA StepKeepsRoom ==
    ASSUME CatalogAssumption, TypeOK, TypeOK', RoomInv, OneCreates, [Next]_vars, [PlanLasts]_vars
    PROVE  RoomInv' /\ (AddsWithinLimit \/ UNCHANGED vars)
  <1>1. CASE UNCHANGED <<resource, plan, job>>
    <2>1. Live' = Live /\ \A w \in Workers : Creating(w)' => Creating(w)
      BY <1>1 DEF Live, Creating
    <2> QED BY <1>1, <2>1, FewerLive
  <1>2. ASSUME NEW w \in Workers, CreateResourceRead(w) PROVE RoomInv' /\ AddsWithinLimit
    <2>1. UNCHANGED <<resource, plan>> /\ Cardinality(Live) \in Nat /\ MaxResources[plan] \in Nat
      BY <1>2, FS_CardinalityType DEF CreateResourceRead, RoomInv, CatalogAssumption, TypeOK
    <2>2. Live' = Live
      BY <2>1 DEF Live
    <2>3. Cardinality(Live) < MaxResources[plan]
      BY <1>2, <2>1 DEF CreateResourceRead, LimitReached
    <2> QED BY <2>1, <2>2, <2>3 DEF RoomInv, AddsWithinLimit
  <1>3. ASSUME NEW w \in Workers, CreateResourceCommit(w) PROVE RoomInv' /\ AddsWithinLimit
    <2>1. PICK r \in Resources \ Existing :
             resource' = [resource EXCEPT ![r] = [deleted |-> FALSE, rules |-> DefaultRules]]
      BY <1>3 DEF CreateResourceCommit
    <2>2. Live' = Live \cup {r} /\ r \notin Live
      BY <2>1 DEF Live, Existing, TypeOK, NoResource
    <2>3. IsFiniteSet(Live') /\ Cardinality(Live') = Cardinality(Live) + 1 /\ Cardinality(Live) \in Nat
      BY <2>2, FS_AddElement, FS_CardinalityType DEF RoomInv
    <2>4. plan' = plan /\ Creating(w) /\ Return(w)
      BY <1>3 DEF CreateResourceCommit, Creating
    <2>5. Cardinality(Live) < MaxResources[plan] /\ MaxResources[plan] \in Nat
      BY <2>4 DEF RoomInv, CatalogAssumption, TypeOK
    <2>6. \A v \in Workers : ~Creating(v)'
      BY <2>4, ReturnJobs DEF OneCreates, Creating, Idle
    <2> QED BY <2>3, <2>4, <2>5, <2>6 DEF RoomInv, AddsWithinLimit
  <1>4. ASSUME NEW w \in Workers, DeleteResourceRead(w) PROVE RoomInv' /\ AddsWithinLimit
    <2>1. PICK r \in Live : Start(w, [op |-> "delete", resource |-> r])
      BY <1>4 DEF DeleteResourceRead
    <2>2. \A v \in Workers : Creating(v)' => Creating(v)
      BY <2>1, StartJobs DEF Creating
    <2>3. plan' = plan /\ Live' = Live
      BY <1>4 DEF DeleteResourceRead, Live
    <2> QED BY <2>2, <2>3, FewerLive
  <1>5. ASSUME NEW w \in Workers, DeleteResourceCommit(w) PROVE RoomInv' /\ AddsWithinLimit
    <2>1. \A r \in Resources : resource'[r].deleted = resource[r].deleted \/ resource'[r].deleted
      <3>1. PICK r \in Resources, gone \in {NoResource} \cup [deleted : BOOLEAN, rules : Rules] :
               gone.deleted /\ resource' = [resource EXCEPT ![r] = gone]
        BY <1>5, Deletion
      <3> QED BY <3>1 DEF TypeOK
    <2>2. Live' \subseteq Live /\ plan' = plan
      BY <1>5, <2>1 DEF Live, DeleteResourceCommit
    <2>3. \A v \in Workers : Creating(v)' => Creating(v)
      BY <1>5, ReturnJobs DEF DeleteResourceCommit, Creating, Idle
    <2> QED BY <2>2, <2>3, FewerLive
  <1>6. ASSUME NEW r \in Resources, CreateResourceRule(r) PROVE RoomInv' /\ AddsWithinLimit
    <2>1. PICK rules \in CustomRules : resource' = [resource EXCEPT ![r].rules = rules]
      BY <1>6 DEF CreateResourceRule
    <2>2. \A q \in Resources : q # r => resource'[q] = resource[q]
      BY <2>1 DEF TypeOK
    <2>3. resource'[r].deleted = resource[r].deleted
      BY <1>6, <2>1, LiveHasRules DEF TypeOK, CreateResourceRule
    <2>4. Live' \subseteq Live
      BY <2>2, <2>3 DEF Live
    <2>5. plan' = plan /\ \A v \in Workers : Creating(v)' => Creating(v)
      BY <1>6 DEF CreateResourceRule, Creating
    <2> QED BY <2>4, <2>5, FewerLive
  <1>7. CASE ChangePlan
    <2>1. Live' = Live /\ \A v \in Workers : Creating(v)' = Creating(v)
      BY <1>7 DEF ChangePlan, Live, Creating
    <2>2. /\ Cardinality(Live) \in Nat
          /\ MaxResources[plan] \in Nat /\ MaxResources[plan'] \in Nat
      BY FS_CardinalityType DEF RoomInv, CatalogAssumption, TypeOK
    <2>3. (\E w \in Workers : Creating(w)) => MaxResources[plan'] >= MaxResources[plan]
      BY <2>2 DEF PlanLasts, vars
    <2> QED BY <2>1, <2>2, <2>3 DEF RoomInv, AddsWithinLimit
  <1> QED BY <1>1, <1>2, <1>3, <1>4, <1>5, <1>6, <1>7
          DEF Next, vars, CreateBooking, CheckIn, EndBooking, Tick

\* createResource, isSubscriptionLimitReached: if no two creations are in progress at a
\* time and the plan is not changed for a smaller one meanwhile, no resource is added
\* beyond the limit of the plan in force, however resources are deleted, plans
\* upgraded, and rules and bookings made.
THEOREM LimitCorrect ==
    ASSUME CatalogAssumption
    PROVE  Spec /\ []OneCreates /\ [][PlanLasts]_vars => LimitKept
  <1>1. Init => RoomInv
    <2> SUFFICES ASSUME Init PROVE RoomInv
      OBVIOUS
    <2>1. Live = {}
      BY DEF Init, Live, NoResource
    <2>2. IsFiniteSet(Live)
      BY <2>1, FS_EmptySet
    <2>3. \A w \in Workers : ~Creating(w)
      BY DEF Init, Creating, Idle
    <2> QED BY <2>2, <2>3 DEF RoomInv
  <1>2. TypeOK /\ TypeOK' /\ RoomInv /\ OneCreates /\ [Next]_vars /\ [PlanLasts]_vars
          => RoomInv' /\ [AddsWithinLimit]_vars
    BY StepKeepsRoom
  <1> QED BY <1>1, <1>2, TypeCorrect, PTL DEF Spec, LimitKept

\* A creation may begin only where none is in progress.
LEMMA OneCreatesStep ==
    ASSUME CatalogAssumption, TypeOK, OneCreates, NEW lock \in Locks, {"create", "plan"} \subseteq lock,
           [Next]_vars
    PROVE  OneCreates'
  <1>1. ASSUME \A v \in Workers : Creating(v)' => Creating(v) PROVE OneCreates'
    BY <1>1 DEF OneCreates
  <1>2. ASSUME NEW w \in Workers, CreateResourceRead(w) PROVE OneCreates'
    <2>1. \A v \in Workers : ~Creating(v)
      BY <1>2 DEF CreateResourceRead, Start, Excluded, Creating
    <2>2. \A v \in Workers : v # w => ~Creating(v)'
      BY <1>2, <2>1, StartJobs DEF CreateResourceRead, Creating
    <2> QED BY <2>2 DEF OneCreates
  <1>3. ASSUME NEW w \in Workers, NEW r \in Live, Start(w, [op |-> "delete", resource |-> r])
        PROVE  \A v \in Workers : Creating(v)' => Creating(v)
    BY <1>3, StartJobs DEF Creating
  <1>4. ASSUME NEW w \in Workers, Return(w) PROVE \A v \in Workers : Creating(v)' => Creating(v)
    BY <1>4, ReturnJobs DEF Creating, Idle
  <1>5. CASE job' = job
    BY <1>1, <1>5 DEF Creating
  <1>6. ASSUME NEW w \in Workers, DeleteResourceRead(w) \/ CreateResourceCommit(w) \/ DeleteResourceCommit(w)
        PROVE  OneCreates'
    BY <1>1, <1>3, <1>4, <1>6 DEF DeleteResourceRead, CreateResourceCommit, DeleteResourceCommit
  <1> QED BY <1>2, <1>5, <1>6
          DEF Next, vars, CreateResourceRule, CreateBooking, CheckIn, EndBooking, ChangePlan, Tick

\* So it is enough that creations exclude one another and changes of the plan.
THEOREM LimitLocked ==
    ASSUME CatalogAssumption, NEW lock \in Locks, {"create", "plan"} \subseteq lock
    PROVE  Spec => LimitKept
  <1>1. Init => OneCreates
    BY DEF Init, OneCreates, Creating, Idle
  <1>2. TypeOK /\ OneCreates /\ [Next]_vars => OneCreates'
    BY OneCreatesStep
  <1>3. ASSUME TypeOK, [Next]_vars PROVE PlanLasts
    <2>1. CASE plan' = plan
      <3>1. MaxResources[plan] \in Nat
        BY <1>3 DEF CatalogAssumption, TypeOK
      <3>2. MaxResources[plan'] >= MaxResources[plan]
        BY <2>1, <3>1
      <3> QED BY <3>2 DEF PlanLasts
    <2>2. CASE ChangePlan
      <3>1. \A v \in Workers : ~Creating(v)
        BY <2>2 DEF ChangePlan, Excluded, Creating
      <3> QED BY <3>1 DEF PlanLasts
    <2> QED BY <1>3, <2>1, <2>2
            DEF Next, vars, CreateResourceRead, CreateResourceCommit, DeleteResourceRead,
                DeleteResourceCommit, CreateResourceRule, CreateBooking, CheckIn, EndBooking, Tick
  <1> QED BY <1>1, <1>2, <1>3, TypeCorrect, LimitCorrect, PTL DEF Spec

-----------------------------------------------------------------------------
(* The slots and the calendar.                                              *)

LEMMA ClocksAreIntegers ==
    ASSUME TimesAssumption, NEW z \in Zones, NEW clock \in Int
    PROVE  zonedDateTimeToUtc(z, clock) \in Int
  <1>1. Offset(z, clock) \in Int /\ Second \in Nat \ {0}
    BY DEF TimesAssumption, CalendarAssumption, Offset
  <1>2. Shown(z, clock) \in Int
    BY <1>1 DEF Shown
  <1>3. Shown(z, clock) % Second \in Int
    BY <1>1, <1>2
  <1> QED BY <1>1, <1>3 DEF zonedDateTimeToUtc, getOffsetMsAtInstant

\* The times of a live resource's rules and of its bookings.
LEMMA TimesAreIntegers ==
    ASSUME CatalogAssumption, TimesAssumption, TypeOK, NEW r \in Live, NEW date \in Dates
    PROVE  /\ r \in Resources /\ RulesOf(r) \in Rules
           /\ RulesOf(r).slot \in Nat \ {0} /\ RulesOf(r).buffer \in Nat
           /\ WorkStart(r, date) \in Int /\ WorkEnd(r, date) \in Int
           /\ \A b \in Rows : booking[b].start \in Int /\ booking[b].end \in Int
  <1>1. r \in Resources /\ RulesOf(r) \in Rules
    BY LiveHasRules DEF RulesOf
  <1>2. /\ RulesOf(r).slot \in Nat \ {0} /\ RulesOf(r).buffer \in Nat
        /\ RulesOf(r).opening \in Int /\ RulesOf(r).closing \in Int
    BY <1>1 DEF TimesAssumption
  <1>3. date \in Int /\ Day \in Int /\ zone \in Zones
    BY DEF TimesAssumption, CalendarAssumption, TypeOK
  <1>4. date * Day + RulesOf(r).opening \in Int /\ date * Day + RulesOf(r).closing \in Int
    BY <1>2, <1>3
  <1>5. WorkStart(r, date) \in Int /\ WorkEnd(r, date) \in Int
    BY <1>3, <1>4, ClocksAreIntegers DEF WorkStart, WorkEnd
  <1>6. \A b \in Rows : booking[b].start \in Int /\ booking[b].end \in Int
    BY DEF TypeOK, Rows, CatalogAssumption
  <1> QED BY <1>1, <1>2, <1>5, <1>6

\* getAvailableSlotsByResource tests a slot against the bookings it has fetched as
\* createBooking tests it against all of them.
LEMMA SameTest ==
    ASSUME CatalogAssumption, TimesAssumption, TypeOK, NEW r \in Live, NEW date \in Dates,
           MarginsClear(r, date), NEW s \in Visited(r, date)
    PROVE  SlotFree(r, s, s + RulesOf(r).slot) <=>
              ~\E b \in Fetched(r, date) : /\ s < booking[b].end + RulesOf(r).buffer
                                           /\ s + RulesOf(r).slot > booking[b].start - RulesOf(r).buffer
  <1> DEFINE slot == RulesOf(r).slot
             buffer == RulesOf(r).buffer
             open == WorkStart(r, date)
             close == WorkEnd(r, date)
             Mine(b) == b \in Rows /\ booking[b].resource = r /\ booking[b].held
             Near(b) == s < booking[b].end + buffer /\ s + slot > booking[b].start - buffer
  <1>1. /\ slot \in Nat \ {0} /\ buffer \in Nat /\ open \in Int /\ close \in Int
        /\ \A b \in Rows : booking[b].start \in Int /\ booking[b].end \in Int
    BY TimesAreIntegers
  <1>2. s \in Int /\ open <= s /\ s <= close - slot
    BY <1>1 DEF Visited
  <1>3. SlotFree(r, s, s + slot) <=> ~\E b \in Rows : Mine(b) /\ Near(b)
    <2>1. ASSUME NEW b \in Rows
          PROVE  Near(b) <=> /\ booking[b].start < (s + slot) + buffer
                             /\ booking[b].end > s - buffer
      BY <1>1, <1>2
    <2> QED BY <2>1 DEF SlotFree
  <1>4. \A b \in Fetched(r, date) : Mine(b)
    BY DEF Fetched
  <1>5. ASSUME NEW b \in Rows, Mine(b), Near(b) PROVE b \in Fetched(r, date)
    <2>1. SUFFICES ASSUME b \notin Fetched(r, date) PROVE FALSE
      OBVIOUS
    <2>2. booking[b].start >= close + buffer \/ booking[b].end <= open - buffer
      BY <1>5, <2>1 DEF MarginsClear
    <2> QED BY <1>1, <1>2, <1>5, <2>2
  <1> QED BY <1>3, <1>4, <1>5

\* A slot begins on its date by the zone's clocks: createBooking finds the weekday
\* available exactly if the slot list finds the date so.
LEMMA SameWeekday ==
    ASSUME CatalogAssumption, TimesAssumption, SlotsKeepTheirDate, TypeOK, zone.before >= 0, zone.after >= 0,
           NEW r \in Live, NEW date \in Dates, NEW s \in Visited(r, date)
    PROVE  AvailableOn(r, getWeekday(zone, s)) <=> OpenOn(r, date)
  <1>1. RulesOf(r) \in Rules /\ zone \in Zones
    BY TimesAreIntegers DEF TypeOK
  <1>2. s \in WorkStart(r, date) .. WorkEnd(r, date) - RulesOf(r).slot
    BY DEF Visited
  <1>3. getWeekday(zone, s) = WeekdayOfDate(zone, date)
    BY <1>1, <1>2 DEF SlotsKeepTheirDate, WorkStart, WorkEnd
  <1> QED BY <1>3 DEF OpenOn

LEMMA SlotsAgree ==
    ASSUME CatalogAssumption, TimesAssumption, SlotsKeepTheirDate, TypeOK
    PROVE  OffersAgree
  <1> SUFFICES ASSUME zone.before >= 0, zone.after >= 0,
                      NEW r \in Live, NEW date \in Dates, MarginsClear(r, date)
               PROVE  LET free == {s \in Visited(r, date) : SlotFree(r, s, s + RulesOf(r).slot)}
                          bookable == {s \in free : AvailableOn(r, getWeekday(zone, s))}
                          accepted == {s \in free : RulesAllow(r, s, s + RulesOf(r).slot)}
                      IN  /\ Offered(r, date) = bookable
                          /\ accepted = {s \in Offered(r, date) :
                                           UnlistedRulesAllow(r, s, s + RulesOf(r).slot)}
                          /\ DayStatus(r, date) = "PARTIALLY_BOOKED" <=> bookable # {}
    BY DEF OffersAgree
  <1> DEFINE free == {s \in Visited(r, date) : SlotFree(r, s, s + RulesOf(r).slot)}
             bookable == {s \in free : AvailableOn(r, getWeekday(zone, s))}
             accepted == {s \in free : RulesAllow(r, s, s + RulesOf(r).slot)}
             Unlisted(s) == UnlistedRulesAllow(r, s, s + RulesOf(r).slot)
  <1>1. Offered(r, date) = {s \in free : OpenOn(r, date)}
    <2>1. \A s \in Visited(r, date) :
             SlotFree(r, s, s + RulesOf(r).slot) <=>
                ~\E b \in Fetched(r, date) : /\ s < booking[b].end + RulesOf(r).buffer
                                             /\ s + RulesOf(r).slot > booking[b].start - RulesOf(r).buffer
      BY SameTest
    <2> QED BY <2>1, Zenon DEF Offered
  <1>2. \A s \in free : AvailableOn(r, getWeekday(zone, s)) <=> OpenOn(r, date)
    BY SameWeekday
  <1>3. \A s \in free : RulesAllow(r, s, s + RulesOf(r).slot) <=>
                           Unlisted(s) /\ AvailableOn(r, getWeekday(zone, s))
    BY DEF RulesAllow
  <1> HIDE DEF free, Unlisted
  <1>4. Offered(r, date) = bookable
    BY <1>1, <1>2
  <1>5. accepted = {s \in Offered(r, date) : Unlisted(s)}
    BY <1>3, <1>4
  <1>6. DayStatus(r, date) = "PARTIALLY_BOOKED" <=> bookable # {}
    BY <1>4 DEF DayStatus
  <1> QED BY <1>4, <1>5, <1>6 DEF free, Unlisted

\* getAvailableSlotsByResource, getBookingsByResourceAndMonth: in zones not behind
\* UTC, whatever the rules and however resources, bookings and the clock change, the
\* slots shown are the free ones of an available day, createBooking refuses none of
\* them but by its rules on weekends, lengths and lead times and takes no other slot of
\* the date, and a day is shown open exactly if a slot of it is shown; unless a booking
\* outside the working hours reaches into them, and provided that slots begin on their
\* date by the zone's clocks.
THEOREM OffersCorrect ==
    ASSUME CatalogAssumption, TimesAssumption, SlotsKeepTheirDate
    PROVE  Spec => []OffersAgree
  <1>1. TypeOK => OffersAgree
    BY SlotsAgree
  <1> QED BY <1>1, TypeCorrect, PTL

\* What the theorem supposes holds where the clocks are never changed, are less than
\* a day ahead of UTC, and are looked at for working hours within a day, in slots of
\* a second at least.
THEOREM SteadyZonesKeepDates ==
    ASSUME TimesAssumption,
           \A z \in Zones : z.before = z.after /\ z.before < Day,
           \A rules \in Rules : 0 <= rules.opening /\ rules.closing <= Day /\ rules.slot >= Second
    PROVE  SlotsKeepTheirDate
  <1> SUFFICES ASSUME NEW z \in Zones, NEW rules \in Rules, NEW date \in Dates,
                      z.before >= 0, z.after >= 0,
                      NEW s \in zonedDateTimeToUtc(z, date * Day + rules.opening) ..
                                  zonedDateTimeToUtc(z, date * Day + rules.closing) - rules.slot
               PROVE  getWeekday(z, s) = WeekdayOfDate(z, date)
    BY DEF SlotsKeepTheirDate
  <1> DEFINE o == z.before
             start == date * Day
             first == start + rules.opening
             last == start + rules.closing
  <1>1. /\ Day \in Nat \ {0} /\ Second \in Nat \ {0} /\ date \in Int /\ o \in Int
        /\ rules.opening \in Int /\ rules.closing \in Int /\ rules.slot \in Nat \ {0}
        /\ 0 <= o /\ o < Day /\ 0 <= rules.opening /\ rules.closing <= Day /\ rules.slot >= Second
    BY DEF TimesAssumption, CalendarAssumption
  <1>2. \A t : Offset(z, t) = o
    BY DEF Offset
  <1>3. ASSUME NEW k \in 0 .. Day - 1 PROVE (start + k) \div Day = date
    BY <1>1
  <1>4. start \in Int /\ first \in Int /\ last \in Int
    BY <1>1
  <1>5. getDateKey(z, start) = date
    <2>1. getDateKey(z, start) = (start + o) \div Day
      BY <1>2 DEF getDateKey, Shown
    <2>2. o \in 0 .. Day - 1
      BY <1>1
    <2> HIDE DEF start, o
    <2> QED BY <1>3, <2>1, <2>2
  <1>6. /\ zonedDateTimeToUtc(z, first) = first - (o - ((first + o) % Second))
        /\ zonedDateTimeToUtc(z, last) = last - (o - ((last + o) % Second))
    BY <1>2 DEF zonedDateTimeToUtc, getOffsetMsAtInstant, Shown
  <1>7. /\ (first + o) % Second \in 0 .. Second - 1
        /\ (last + o) % Second \in 0 .. Second - 1
    BY <1>1, <1>4
  <1>8. s \in Int /\ zonedDateTimeToUtc(z, first) <= s /\ s <= zonedDateTimeToUtc(z, last) - rules.slot
    BY <1>1, <1>4, <1>6, <1>7
  <1> DEFINE k == s + o - start
  <1>9. first <= s + o /\ s + o < last
    <2> HIDE DEF first, last, o
    <2> QED BY <1>1, <1>4, <1>6, <1>7, <1>8
  <1>10. k \in 0 .. Day - 1 /\ s + o = start + k
    <2> HIDE DEF start, o
    <2> QED BY <1>1, <1>4, <1>8, <1>9
  <1>11. getDateKey(z, s) = date
    <2>1. getDateKey(z, s) = (s + o) \div Day
      BY <1>2 DEF getDateKey, Shown
    <2> HIDE DEF start, o, k
    <2> QED BY <1>3, <1>10, <2>1
  <1> QED BY <1>5, <1>11 DEF getWeekday, WeekdayOfDate

-----------------------------------------------------------------------------
(* Inbox: each call, at whichever of its deliveries it is, has an outcome  *)
(* for each of its channels or recipients.                                 *)

\* A channel of a send() goes unused exactly if it is switched off or the organization
\* was not found.  A recipient of an announcement is still to come, told, or one whose
\* own notification failed.
Told(j) ==
    \/ j = In!NoSend
    \/ j \in In!SendJob /\ \A c \in {"inApp", "email"} : j[c] = "off" <=> ~j.found \/ c \notin j.on
    \/ /\ j \in In!BroadcastJob
       /\ j.left \cap j.sent = {} /\ j.left \cap j.failed = {} /\ j.sent \cap j.failed = {}
       /\ j.targets = j.left \cup j.sent \cup j.failed

AllTold == sends \in [Senders -> {j \in {In!NoSend} \cup In!SendJob \cup In!BroadcastJob : Told(j)}]

LEMMA OneMoreTold ==
    ASSUME AllTold, NEW s \in Senders, NEW j, sends' = [sends EXCEPT ![s] = j], Told(j)
    PROVE  AllTold'
  <1>1. j \in {In!NoSend} \cup In!SendJob \cup In!BroadcastJob
    BY DEF Told
  <1> QED BY <1>1 DEF AllTold

LEMMA DeliverTells ==
    ASSUME In!InboxAssumption, AllTold, NEW s \in Senders, In!Deliver(s)
    PROVE  AllTold'
  <1> DEFINE j == sends[s]
  <1>1. Told(j)
    BY DEF AllTold
  <1>2. ASSUME NEW u \in Users, NEW found \in BOOLEAN, NEW on \in SUBSET {"inApp", "email"},
               on = {} \/ found, sends' = [sends EXCEPT ![s] = In!SendTo(u, found, on)]
        PROVE  AllTold'
    <2>1. Told(In!SendTo(u, found, on))
      BY <1>2 DEF Told, In!SendTo, In!SendJob, In!Outcomes
    <2> QED BY <1>2, <2>1, OneMoreTold
  <1>3. CASE In!SendStart(s)
    <2>1. \A settings \in Preferences : In!ParsePreferences(settings) \in SUBSET {"inApp", "email"}
      BY DEF In!ParsePreferences, In!InboxAssumption
    <2> QED BY <1>2, <1>3, <2>1 DEF In!SendStart
  <1>4. CASE In!SendStartFails(s)
    BY <1>2, <1>4 DEF In!SendStartFails
  <1>5. ASSUME j.op = "send", NEW c \in {"inApp", "email"}, j[c] = "open",
               NEW outcome \in {"sent", "failed"}, sends' = [sends EXCEPT ![s] = [j EXCEPT ![c] = outcome]]
        PROVE  AllTold'
    <2>1. j \in In!SendJob /\ \A d \in {"inApp", "email"} : j[d] = "off" <=> ~j.found \/ d \notin j.on
      BY <1>1, <1>5 DEF Told, In!NoSend, In!BroadcastJob
    <2>2. Told([j EXCEPT ![c] = outcome])
      <3> HIDE DEF j
      <3> QED BY <1>5, <2>1 DEF Told, In!SendJob, In!Outcomes
    <2> QED BY <1>5, <2>2, OneMoreTold
  <1>6. CASE In!SendInApp(s) \/ In!SendInAppFails(s) \/ In!SendEmail(s)
    <2>1. s \in DOMAIN sends
      BY DEF AllTold
    <2> QED BY <1>5, <1>6, <2>1 DEF In!SendInApp, In!SendInAppFails, In!SendEmail, In!Sending
  <1>7. CASE In!BroadcastStart(s)
    <2> PICK targets \in SUBSET Users :
          sends' = [sends EXCEPT ![s] = [op |-> "broadcast", left |-> targets, sent |-> {},
                                         failed |-> {}, targets |-> targets]]
      BY <1>7 DEF In!BroadcastStart
    <2>1. Told([op |-> "broadcast", left |-> targets, sent |-> {}, failed |-> {}, targets |-> targets])
      BY DEF Told, In!BroadcastJob
    <2> QED BY <2>1, OneMoreTold
  <1>8. CASE In!BroadcastChunk(s)
    <2>1. /\ j \in In!BroadcastJob
          /\ j.left \cap j.sent = {} /\ j.left \cap j.failed = {} /\ j.sent \cap j.failed = {}
          /\ j.targets = j.left \cup j.sent \cup j.failed
      BY <1>1, <1>8 DEF In!BroadcastChunk, Told, In!NoSend, In!SendJob
    <2> PICK chunk \in SUBSET j.left, failing \in SUBSET j.left :
          /\ failing \subseteq chunk
          /\ sends' = [sends EXCEPT ![s].left = @ \ chunk, ![s].sent = @ \cup (chunk \ failing),
                                    ![s].failed = @ \cup failing]
      BY <1>8 DEF In!BroadcastChunk
    <2> DEFINE k == [j EXCEPT !.left = @ \ chunk, !.sent = @ \cup (chunk \ failing), !.failed = @ \cup failing]
    <2>2. sends' = [sends EXCEPT ![s] = k]
      BY DEF AllTold
    <2>3. Told(k)
      <3> HIDE DEF j
      <3>1. /\ k.left = j.left \ chunk /\ k.sent = j.sent \cup (chunk \ failing)
            /\ k.failed = j.failed \cup failing /\ k.targets = j.targets /\ k.op = j.op
            /\ k \in In!BroadcastJob
        BY <2>1 DEF In!BroadcastJob
      <3> HIDE DEF k
      <3> QED BY <2>1, <3>1 DEF Told
    <2> HIDE DEF k
    <2> QED BY <2>2, <2>3, OneMoreTold
  <1> QED BY <1>3, <1>4, <1>6, <1>7, <1>8 DEF In!Deliver

\* Of NotificationManager.send and broadcastAnnouncement, whichever deliveries fail
\* and however their calls interleave: a channel goes unused exactly if it is switched
\* off or the organization could not be looked up, and an announcement misses none but
\* those whose own notification failed.  It holds of Inbox alone and of the run's
\* specification, Inbox beside Catalog and Pool.
THEOREM FailuresStayLocalCorrect ==
    ASSUME In!InboxAssumption
    PROVE  /\ In!Spec => []FailuresStayLocal
           /\ ServicesSpec => []FailuresStayLocal
  <1>1. In!Init => AllTold
    BY DEF In!Init, AllTold, Told
  <1>2. AllTold /\ [In!Next]_(In!vars) => AllTold'
    <2>1. ASSUME AllTold, UNCHANGED sends PROVE AllTold'
      BY <2>1 DEF AllTold
    <2> QED BY <2>1, DeliverTells
          DEF In!Next, In!vars, In!ByOwner, In!MarkAsRead, In!MarkAllAsRead, In!DeleteNotification,
              In!DeleteAllNotifications, In!CleanUpOldData, In!Age
  <1>3. AllTold => FailuresStayLocal
    <2> SUFFICES ASSUME AllTold, NEW s \in Senders, In!Finished(s), sends[s] # In!NoSend
                 PROVE  IF sends[s].op = "send"
                        THEN \A c \in {"inApp", "email"} :
                               sends[s][c] = "off" <=> ~sends[s].found \/ c \notin sends[s].on
                        ELSE sends[s].sent = sends[s].targets \ sends[s].failed
      BY DEF FailuresStayLocal, In!FailuresStayLocal
    <2>1. Told(sends[s])
      BY DEF AllTold
    <2> QED BY <2>1 DEF Told, In!Finished, In!SendJob, In!BroadcastJob
  \* Side by side with Catalog and Pool, Inbox takes its own steps only.
  <1>4. ServicesInit => In!Init
    BY DEF ServicesInit
  <1>5. [ServicesNext]_services => [In!Next]_(In!vars)
    BY DEF ServicesNext, CatalogNext, InboxNext, PoolNext, services, In!vars
  <1> QED BY <1>1, <1>2, <1>3, <1>4, <1>5, PTL DEF In!Spec, ServicesSpec

-----------------------------------------------------------------------------
(* Pool: each connection in use is a transaction's own or a statement's    *)
(* around one, of a request that is running.                               *)

\* No more connections are in use than the pool has.
WithinSize ==
    /\ IsFiniteSet(Con!Holding) /\ IsFiniteSet(Con!Asking)
    /\ Cardinality(Con!Holding) + Cardinality(Con!Asking) <= Size
\* What a request has open ends before it is answered: the statement it waits for is
\* one of those it still has to make.
UsesEnd ==
    \A r \in Requests :
        /\ request[r].open => Con!Running(r)
        /\ request[r].aside => Con!Running(r) /\ request[r].left > 0

PoolInv == Con!TypeOK /\ WithinSize /\ UsesEnd

LEMMA StepWithinSize ==
    ASSUME Con!PoolAssumption, PoolInv, NEW r \in Requests, Con!Step(r)
    PROVE  PoolInv'
  <1> DEFINE a == request[r]
             b == request'[r]
  <1> USE DEF Con!Request, Con!Resting, Con!Running
  <1>1. request \in [Requests -> Con!Request] /\ Aside[r] \in Nat /\ Size \in Nat
    BY DEF PoolInv, Con!TypeOK, Con!PoolAssumption
  <1>2. /\ request' = [request EXCEPT ![r] = b] /\ b \in Con!Request
        /\ b.open => b.at = "running"
        /\ b.aside => b.at = "running" /\ b.left > 0
        /\ \/ Con!Free > 0 /\ b.open /\ ~a.open /\ ~b.aside
           \/ Con!Free > 0 /\ b.aside /\ ~a.aside /\ b.open = a.open
           \/ (b.open => a.open) /\ (b.aside => a.aside)
    <2>1. a.open => a.at = "running"
      BY DEF PoolInv, UsesEnd
    <2>2. a.aside => a.at = "running" /\ a.left > 0
      BY DEF PoolInv, UsesEnd
    <2>3. CASE Con!Arrive(r)
      BY <1>1, <2>1, <2>2, <2>3 DEF Con!Arrive
    <2>4. CASE Con!Begin(r)
      BY <1>1, <2>1, <2>2, <2>4 DEF Con!Begin
    <2>5. CASE Con!GiveUp(r)
      BY <1>1, <2>1, <2>2, <2>5 DEF Con!GiveUp
    <2>6. CASE Con!GoAside(r)
      BY <1>1, <2>1, <2>2, <2>6 DEF Con!GoAside
    <2>7. CASE Con!Return(r)
      BY <1>1, <2>1, <2>2, <2>7 DEF Con!Return
    <2>8. CASE Con!Expire(r)
      BY <1>1, <2>1, <2>2, <2>8 DEF Con!Expire
    <2>9. CASE Con!Answer(r)
      BY <1>1, <2>1, <2>2, <2>9 DEF Con!Answer
    <2> QED BY <2>3, <2>4, <2>5, <2>6, <2>7, <2>8, <2>9 DEF Con!Step
  <1>3. Con!TypeOK' /\ UsesEnd'
    <2> HIDE DEF b
    <2> QED BY <1>1, <1>2 DEF PoolInv, Con!TypeOK, UsesEnd
  <1>4. WithinSize'
    <2> DEFINE H == Con!Holding
               A == Con!Asking
    <2>1. IsFiniteSet(H) /\ IsFiniteSet(A) /\ Cardinality(H) + Cardinality(A) <= Size
      BY DEF PoolInv, WithinSize
    <2>2. Cardinality(H) \in Nat /\ Cardinality(A) \in Nat
      BY <2>1, FS_CardinalityType
    <2>3. (r \in H <=> a.open) /\ (r \in A <=> a.aside)
      BY DEF Con!Holding, Con!Asking
    <2>4. /\ H' = IF b.open THEN H \cup {r} ELSE H \ {r}
          /\ A' = IF b.aside THEN A \cup {r} ELSE A \ {r}
      <3> HIDE DEF b
      <3> QED BY <1>1, <1>2 DEF Con!Holding, Con!Asking
    <2>5. Con!Free = Size - Cardinality(H) - Cardinality(A)
      BY DEF Con!Free, Con!Cardinality, Cardinality, Con!IsFiniteSet, IsFiniteSet
    <2> HIDE DEF H, A, a, b
    <2>6. ASSUME NEW S, IsFiniteSet(S)
          PROVE  /\ IsFiniteSet(S \cup {r}) /\ IsFiniteSet(S \ {r})
                 /\ Cardinality(S \ {r}) \in Nat /\ Cardinality(S \ {r}) <= Cardinality(S)
                 /\ Cardinality(S \cup {r}) = IF r \in S THEN Cardinality(S) ELSE Cardinality(S) + 1
      <3>1. Cardinality(S) \in Nat
        BY <2>6, FS_CardinalityType
      <3>2. /\ IsFiniteSet(S \cup {r})
            /\ Cardinality(S \cup {r}) = IF r \in S THEN Cardinality(S) ELSE Cardinality(S) + 1
        BY <2>6, FS_AddElement, Zenon
      <3>3. /\ IsFiniteSet(S \ {r})
            /\ Cardinality(S \ {r}) = IF r \in S THEN Cardinality(S) - 1 ELSE Cardinality(S)
        BY <2>6, FS_RemoveElement, Zenon
      <3>4. Cardinality(S \ {r}) \in Nat
        BY <3>3, FS_CardinalityType
      <3> QED BY <3>1, <3>2, <3>3, <3>4
    <2>7. IsFiniteSet(H') /\ IsFiniteSet(A')
      BY <2>1, <2>4, <2>6
    <2>8. /\ Cardinality(H') <= Cardinality(H) \/ (b.open /\ ~a.open /\ Cardinality(H') = Cardinality(H) + 1)
          /\ Cardinality(A') <= Cardinality(A) \/ (b.aside /\ ~a.aside /\ Cardinality(A') = Cardinality(A) + 1)
      BY <2>1, <2>2, <2>3, <2>4, <2>6
    <2>9. Cardinality(H') \in Nat /\ Cardinality(A') \in Nat
      BY <2>7, FS_CardinalityType
    <2>10. Cardinality(H') + Cardinality(A') <= Size
      BY <1>1, <1>2, <2>1, <2>2, <2>5, <2>8, <2>9
    <2> QED BY <2>7, <2>10 DEF WithinSize, H, A
  <1> QED BY <1>3, <1>4 DEF PoolInv

\* However requests begin, wait, go around their transactions and run out of time, no
\* connection is given to two of them, and none is kept by one that was answered.
THEOREM PoolCorrect ==
    ASSUME Con!PoolAssumption
    PROVE  Con!Spec => [](Con!TypeOK /\ WithinSize /\ UsesEnd)
  <1>1. Con!Init => PoolInv
    <2> SUFFICES ASSUME Con!Init PROVE PoolInv
      OBVIOUS
    <2>1. Con!Holding = {} /\ Con!Asking = {}
      BY DEF Con!Init, Con!Resting, Con!Holding, Con!Asking
    <2>2. WithinSize
      BY <2>1, FS_EmptySet DEF WithinSize, Con!PoolAssumption
    <2> QED BY <2>2 DEF Con!Init, Con!Resting, PoolInv, Con!TypeOK, Con!Request, UsesEnd
  <1>2. PoolInv /\ [Con!Next]_(Con!vars) => PoolInv'
    <2>1. ASSUME PoolInv, UNCHANGED request PROVE PoolInv'
      BY <2>1 DEF PoolInv, Con!TypeOK, WithinSize, UsesEnd, Con!Holding, Con!Asking, Con!Running
    <2> QED BY <2>1, StepWithinSize DEF Con!Next, Con!vars
  <1> QED BY <1>1, <1>2, PTL DEF Con!Spec, PoolInv
=============================================================================
