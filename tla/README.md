# A verification project for the Allocate server

Allocate is a multi-tenant booking back end (NestJS, Prisma, PostgreSQL).
Organizations own resources; their staff book windows of time on them and pay
with personal credits, which organization admins hand out of a pool that a
subscription fills. This directory holds TLA+ models of that code, the TLC
configurations that check them on small instances, and theorems that TLAPS
proves for every instance.

Run `tlc -config <run>.cfg <module>` for a run (`MCBookings`, `MCStaff`, `MCSubscription`,
`MCCommunity`, `MCAccounts`, `MCReports`, `MCServices`; section 4 says which), and `tlapm` on
`Sums`, `BookingsProofs`, `StaffProofs`, `SubscriptionProofs`, `AccountsProofs`, `CommunityProofs`,
`ServicesProofs` and `ReportsProofs` for the proofs. `PROJECT.json` lists the runs, the mutants each property
catches, the source lines every definition models, the hazards and the findings.

## 1. Inventory

The state that outlives a request is in PostgreSQL; the process keeps none. Every
handler is an async function, so between two awaits any other handler, or a cron
of the same process, may run. Transactions are Prisma interactive transactions
at PostgreSQL's default level, READ COMMITTED: writes appear together at commit,
updates of one row wait for each other, but a value that was read may be stale
when it is used.

| Component | State it keeps | Operations | What is hard | What makes it correct |
|---|---|---|---|---|
| **Booking engine** `bookings.service.ts` | `Bookings`, `User.personal_credits` | create, change of status, reschedule, notes | overlap query and insert are two steps; credits checked on a stale read; charge outside the transaction | no two active bookings of a resource closer than the buffer; credits behind pending bookings stay there; paid = what the status says |
| **Booking crons** `scheduler.service.ts` 25-200 | `Bookings.status`, `Resources.is_occupied/currentBookingId` | auto-cancel, auto-check-in, auto-complete, every minute | select, then update by id | terminal states are final; occupant is checked in; everything settles |
| **Resources, maintenance, rules** `resources.service.ts`, `resources-rule.service.ts` | `Resources`, `ResourcesRule` | create, update, maintenance switch, delete, rules | mass cancellation with refunds races everything above; two writers of the flag | under maintenance means nothing booked ahead; one refund per booking |
| **Staff and credits** `staff.service.ts` | `User`, `Organizations.credit_pool` | create, update, delete, allocate, revoke, bulk allocate | pool checked before the transaction | pool + balances conserved; pending credits not revoked |
| **Subscription, payments** `payments.service.ts`, `scheduler.service.ts` 325-749 | `Subscription`, pool, frozen credits, trial flags | checkout, Stripe webhook, SSLCommerz IPN, trial, reminders, downgrade, monthly reset | webhooks are delivered again and out of order; absolute writes of the pool | each payment is credited once; an expired plan ends |
| **Platform admin** `admin.service.ts` | all of the above | update, delete, restore, top up organizations, announcements, reports | reads outside the transaction; chunks of recipients | restore undoes delete; nobody gets in from a deleted organization; a top-up is not lost |
| **Accounts** `auth.service.ts`, guards | `User` tokens, flags | register, login, verify, reset | a row is reused after a password was hashed; links expire and are replaced | an account in use does not move; the newest link works |
| **Notifications, inbox** `notification.manager.ts`, dispatcher | `Notification`, preferences | send, announce, read, clear, clean up | fire-and-forget over several channels | a delivery that fails keeps no other from being made |
| **Community hub** `community.service.ts` | posts; comments and acknowledgements in JSON columns; notifications of posts | post, edit, comment, acknowledge, delete, restore | read-modify-write of a column; who publishes is decided on a stale status | no comment is lost or comes back; a publication is announced once |
| **Slots and time zones** `timezone.util.ts`, `bookings.service.ts` 780-960 | none | slot list, calendar, bounds of dates | offsets, changes of clocks, buffers at the edges; rules that only one of the list and create looks at | what is offered is what create accepts |
| **Ledger, activity log, listings** | `CreditTransaction`, `ActivityLog` | append, list, sum, clean up | pages shift while rows are added, changed and deleted; statements of one report see different moments | pages miss nothing; parts add up to sums |
| **Connection pool** `prisma.service.ts` | connections | transactions, statements around them | a transaction waits for a second connection | everyone is answered |
| Dashboard | read-only | | | the revenue trend and the month's credits are in `Reports` |
| Organization profile, sales inquiries, HTTP shell | independent CRUD, or none | | | not modelled |

How they interact: bookings read resources, rules, users and the organization, and
write users' credits; the crons and the maintenance switch write what bookings
wrote; staff credits move credits between the organization's pool and the users
bookings charge; subscriptions fill the pool. All of it is shared state in
the database. Notifications are side effects: `send` catches its errors.

## 2. Modules and plan

There is one module per component, operators that do not recurse wherever a theorem is
planned, and few runs: each answers one question.

| Modules | Component | Composes |
|---|---|---|
| `Bookings`, `Schedule`, `MCBookings`, `BookingsProofs` | booking engine, its crons, maintenance; `Schedule` is what it promises about windows | `Schedule` by refinement |
| `Staff`, `MCStaff`, `StaffProofs` | members, pool and balances | booking requests as single steps |
| `Subscription`, `MCSubscription`, `SubscriptionProofs` | payments, trial, top-ups, subscription crons | the staff's side of the pool as single steps |
| `Accounts`, `MCAccounts`, `AccountsProofs` | registration, joining, verification, life of organizations | |
| `Community`, `Board`, `MCCommunity`, `CommunityProofs` | community hub; `Board` is what it promises about threads | `Board` by refinement |
| `Calendar` | time zones, a module of pure operators | |
| `Catalog` | resources under the plan's limit, rules, slots | extends `Calendar`; bookings as single steps |
| `Reports`, `MCReports`, `ReportsProofs` | listings, statistics, overviews | extends `Calendar` |
| `Inbox` | notifications | |
| `Pool` | database connections | |
| `Services`, `MCServices`, `ServicesProofs` | `Catalog`, `Inbox` and `Pool` side by side, for one run and the theorems about them | extends `Catalog`, instances of the others; each behaviour is one of one of them |
| `Sums` | lemmas about sums over finite sets, for the proofs | |

What is left, in this order: an account that every payment is added to once, as an abstract
specification of `Subscription`; password reset and refresh tokens in `Accounts`.

The project keeps to a dozen runs. Runs that only showed one divergence gave way to
runs that show a component correct; section 6 keeps what they showed.

## 3. The model of the booking engine

`Bookings.tla` keeps the tables' columns that a handler decides on, and what each
running handler has read and not used yet:

| Variable | Code |
|---|---|
| `bookings` | table `Bookings`: status, user, resource, window, `total_cost`; `"none"` is a row not created |
| `credits` | `User.personal_credits` |
| `current` | `Resources.currentBookingId`; `is_occupied` is written with it everywhere and is `current # NoId` |
| `maintenance` | `Resources.is_maintenance` |
| `job[w]` | locals of a request handler between its awaits |
| `scan[c]` | the ids a cron selected and has not updated |
| `now` | `new Date()`, in units the windows are multiples of |
| `paid` | history variable: what was taken for a booking and not given back |
| `faults` | handlers that failed, to bound them |

A handler is a chain of actions, one for each check that rests on a read, and one
for its commit (the writes of a transaction are visible together). Reads that
follow each other for one check are one action: resource row and overlap query;
user row and sum of the pending costs. A refused request is the absence of the
first action, or a `Return` later on.

| Actions | Code |
|---|---|
| `CreateCheckSlot`, `CreateCheckCredits`, `CreateCommit` | `createBooking` |
| `StatusRead`, `ConfirmCharge`, `StatusCommit` | `updateBookingStatus`; the charge is an action of its own because it goes through `this.prisma` and not `tx` |
| `RescheduleRead`, `RescheduleCheckSlot`, `RescheduleCheckCredits`, `RescheduleCommit` | `rescheduleBooking` |
| `MaintenanceRead`, `MaintenanceFind`, `MaintenanceCommit`, `MaintenanceEnd` | `markResourceUnderMaintenance` |
| `UpdateResourceFlag` | the flag in `updateResource` |
| `CronSelect`, `AutoCancel`, `AutoCheckIn`, `AutoComplete` | the three minute crons |
| `RequestFails`, `CronFails` | an exception, a lost connection, a restart before the commit |
| `Tick` | time |

Abstracted: the rules of a resource are the constants `Buffer`, `MaxHours`,
`LeadTime`, `OpenTimes` (weekday and weekend rules say which starts are open).
One organization, active. The FREE-plan refusal of `createBooking` only refuses
and is `OverPlan` in `Catalog`. A STAFF caller changes only bookings of their own; a
status change names its caller by role alone. Credits are integers as in the
schema; the refund of half an odd cost is not one, and the transaction fails
(`RefundFits`). Notifications, activity log and ledger rows are left out.

`Schedule.tla` is what the engine promises about windows: `Book`, `Move`, `Release` and `Retake` on the
windows there are and the bookings that hold theirs, each one step. The mapping reads both off the rows
(`Window`, `Held`). `Retake` is needed: a confirmation that read a pending booking writes its
status although a cron has cancelled it since.

### Assumptions a run makes

The code protects nothing by locks and no status by a transition table, so what holds
depends on what clients do and on which handlers meet. Each is a constant:

- `Exclusive`, the handlers that never run at the same time as one another.
  `Everything` (crons and requests one after the other), `BookingRequests`
  (create, reschedule and status exclude one another; crons, maintenance and
  flag edits do not), or none.
- `Transitions`, the status changes that are asked for. `Lifecycle` is the life
  of a booking, `Decisions` the same with crons alone checking in and
  completing, `AnyTransition` all the endpoint accepts.
- `FlagEdits`, whether `is_maintenance` is also edited by `PATCH /resources/update`.
  A comment there (`resources.service.ts:184`) announces that upcoming bookings are
  cancelled; no code follows it. `MaintenanceIsClear` needs the switch to be the only
  writer, so `bookings_serial` leaves the edits out and `bookings_live` has them.

The assumptions are not properties of the code. A passing run says what
the handlers achieve if they are met; `double_booking` and section 6 show that the
code does not enforce them and what follows.

### The model of staff and credits

`Staff.tla` is one organization of `staff.service.ts`: `pool` is
`Organizations.credit_pool`, `credits[u]` is `User.personal_credits`, `membership[u]` says
whether the user's row exists, has the organization's id and is not deleted, and
`job[w]` is as above. `bookings` and the history `spent` are the part of the
booking engine that this service reads: a booking request is one step here, since
its interleavings are the subject of `Bookings`, and windows do not matter.

| Actions | Code |
|---|---|
| `CreateRead`, `CreateCommit` | `createStaff`: the plan's limit is counted, a password hashed, the row inserted |
| `DeleteRead`, `DeleteCheck`, `DeleteCommit` | `deleteStaff`: the row with its balance, the count of its bookings, the soft deletion |
| `AllocateRead`, `AllocateCommit` | `manageSingleStaffCredits` |
| `BulkRead`, `BulkCommit` | `manageMultipleStaffCredits`, with the same member possibly named twice |
| `RevokeRead`, `RevokeCheck`, `RevokeCommit` | `revokeStaffCredits` |
| `RequestFails` | an exception or a restart before the commit |
| `Book`, `Confirm`, `CancelConfirmed`, `Progress` | what `bookings.service.ts` and the crons do to balances |

All writes of credits in this service are increments inside a transaction, and every
check is made before the transaction. A commit may therefore find the pool
smaller, the member gone or a booking made since. Its `Exclusive` is used in two ways:
`Everything`, and `LimitTakers` (create, allocate, bulk and revoke exclude one
another; deletion, bookings and failures meet them freely). Revocation is in the
second set because two of them, run together, take a balance below zero and put
into the pool what the member did not have, again and again, so the state space
has no end; the theorems do not need it there.

### The model of the subscription

`Subscription.tla` is one organization, with everything that writes its plan or its
pool of credits. Most of it writes the pool as an absolute value, computed from a row read
earlier, where `Staff` increments and decrements.

| Variable | Code |
|---|---|
| `sub` | table `Subscription`: plan, `left` = `end_date` - now, `payment_status`, `external_id`, `quiet` = now - `last_reminder_sent` |
| `org` | table `Organizations`: plan, `credit_pool`, `frozen_credits`, `isTrialAllowed`, `hasUsedTrial` |
| `out` | the members' balances and what they spent: what left the pool (module `Staff`) |
| `due` | the hourly crons that have not run in this hour |
| `job[p]` | what a request handler or a cron has read and not yet used |
| `granted`, `credited`, `trials` | history variables: credits given in all, how often each payment was credited, trials |
| `faults` | handlers that failed, to bound them |

| Actions | Code |
|---|---|
| `PayCheck`, `PayRead`, `PayCommit` | `handleStripeWebhook`; `handleSSLIPN` does the same once the provider has validated the payment |
| `TrialRead`, `TrialCommit` | `activateTrial` |
| `TopUpRead`, `TopUpCheck`, `TopUpCommit` | `topUpOrganizationCredits`: organization, subscription, writes |
| `UpdateOrganization` | `updateOrganization`: one transaction that decides on nothing it read |
| `HourlySelect`, `RemindCommit`, `DowngradeCommit` | `sendSubscriptionRenewalReminders`, `sendExpiredSubscriptionNotifications` |
| `MonthlySelect`, `RemindCommit`, `ResetCommit` | `sendFreeUserUpgradeNotifications`, `resetFreeUserCredits` |
| `Allocate`, `Revoke` | the pool's side of `staff.service.ts`, one step each |
| `Fails` | an exception or a restart before the commit |
| `Tick` | an hour |

Time. Dates are relative to now and saturate where no guard tells them apart (`Expired`,
`Never`), so that the hours can pass without bound in a finite state space. An hour
passes when the hourly crons have run and nothing is in progress: the code's handlers
take seconds. The monthly crons run on any day, which includes the calendar's.

Abstracted: `is_active` of the subscription, true from the start and cleared by
nothing; `trialEndsAt`, since whatever sets it also sets `hasUsedTrial` (a payment clears
it, but after a payment no trial is possible); `hasUsedTrial` in the request of
`updateOrganization`, which the code overwrites by `undefined`; prices and
currencies; the row of the credit ledger. The upgrade reminder's first week is left
out: it is sent earlier in the model than in the code. `Dates` are now or later: the
endpoints would accept a past one, and an admin who sets it ends the plan at once.

Its assumptions: `Exclusive` is `Everything`, or `Activations` (a payment and a trial exclude
one another, and two of either; top-ups, edits, crons and failures meet them freely).
`LateRetries` says whether a provider reports a payment again after a later one was
processed. Providers promise neither order nor a single delivery, so FALSE is an assumption;
section 6 says what happens without it.

### The model of accounts

`Accounts.tla` knows a row of `User` by its e-mail address, which is unique, and an
organization by whether it is active and deleted.

| Variable | Code |
|---|---|
| `user` | table `User`: organization, role (admin or not), `deletedAt`, `is_verified`, `verification_token`, whether `token_expiry` is past |
| `org` | table `Organizations`: `is_active`, `deletedAt` |
| `job[w]` | what a request has read: the row to reuse, the step it is at, the token it mails |
| `opened` | links that were delivered and may be opened |
| `newest` | history: the newest of them, until it is used or a later one is not delivered |

| Actions | Code |
|---|---|
| `RegisterRead`, `RegisterCommit` | `register`: the row is looked up, a password hashed, everything written in one transaction |
| `StaffRead`, `StaffFind`, `StaffCommit` | `createStaff`: the organization, the row, the write; the limit is in `Staff` |
| `SendToken`, `SendMail` | `sendVerificationEmail`: the token replaces the last one, then the mail is delivered or not |
| `VerifyRead`, `VerifyCommit`, `Expire` | `verifyEmail`, `token_expiry` |
| `DeleteOrganization`, `RestoreOrganization`, `SwitchOrganization` | `deleteOrganization`, `restoreOrganization`, `is_active` in `updateOrganization` |

Abstracted: passwords and their hashes, names, the content of mails. Assumed: `Locks`, sets of
handlers that exclude one another on an address (or, for staff and deletion, on an
organization), and `SwitchDeleted`, whether `is_active` of a deleted organization is
edited. The code has no such lock, and the endpoint accepts such an edit.

### The model of the community hub

`Community.tla` keeps a post's row (author, status, `isPrivate`, the roles that see it,
`allowComments`, `deletedAt`, the two JSON columns as sets) and who was
notified of it. `job[w]` is the copy of a column, or of the status, that a handler
read and has not used.

| Actions | Code |
|---|---|
| `CreatePost`, `UpdateRead`, `UpdateCommit`, `Announce` | `createPostCommunity`, `updatePostCommunity`, and `sendBroadcastNotification`, which runs after the commit |
| `DeletePost`, `RestorePost` | `deletePostCommunity`, for good or by `deletedAt`, and `restorePostCommunity` |
| `CommentRead`, `CommentCommit`, `UncommentRead`, `UncommentCommit` | `commentOnPostCommunity`, `deleteComment` |
| `AcknowledgeRead`, `AcknowledgeCommit` | `toggleAcknowledgePostCommunity` |
| `TrialEnds`, `Upgrade` | what `checkCommunityTrial` looks at |
| `Listed` | `getPostCommunity` |

`Board.tla` is what the hub promises about threads: comments are made once, one step
each, and stay until they are deleted or the post is; an acknowledgement stays until its user
takes it back. The mapping reads `thread` and `acked` off the rows (`Thread`, `Acked`);
`KeepsThreads` is the specification of `Board` under it. It holds where handlers that
rewrite one column of a post exclude one another (`Locks`), which the code does not
see to: without them, of two comments made at once one is lost.

Abstracted: title, text, image and type of posts, and the text of comments. The socket messages only refresh screens.

### The model of slots, resources and reports

`Calendar.tla` has no state: it is `timezone.util.ts` for a zone with one change of
clocks. `getOffsetMsAtInstant` formats an instant to the second and subtracts, so the
milliseconds are lost; `zonedDateTimeToUtc` looks at the offset once, at the clock time
read as UTC. Both are modelled by what they do, with `Second`, `Day`, `Week` and `Month` as
constants so that small ones can be checked.

`Catalog.tla` has the resources with their rules, the plan, and bookings made in one
step. `CreateResourceRead` counts what exists and `CreateResourceCommit` adds;
`DeleteResourceRead`, `DeleteResourceCommit` are the soft deletion; `CreateResourceRule` is the
upsert, in one step because it decides on nothing another handler writes; `CreateBooking`,
`CheckIn`, `EndBooking`, `ChangePlan` and `Tick` are the environment. `Offered` and
`DayStatus` are the slot list and the month's calendar, translated from their loops. They look at
`availableDays` only (`OpenOn`), while `createBooking` checks besides (`UnlistedRulesAllow`) the weekend
rule, the longest duration and the lead time; the two sets of rules are kept apart, so that
where they disagree can be said. The plan's limit is safe where creations exclude one another
and changes of the plan. Of the FREE-plan refusal (`OverPlan`) the count of the staff is left out: it is
the business of `Staff`, and refuses only.

`Reports.tla` is a table of rows (bookings, ledger or activity log) with a date each, and one report
at a time over it, in the statements the code makes: a walk through the pages of a listing
(`WalkStart`, `WalkRows`, `WalkCount`, for the where-clause of five services), revenue
analytics (`RevenueStart`, `RevenueStatement`), booking statistics (`getBookingStats`), the
revenue trend of the admin's overview (`OverviewStart`, `OverviewQuery`, `OverviewTrend`) and the
credits of a month (`MonthStart`, `MonthRead`). Between any two of them time passes and rows change:

| Actions | Code |
|---|---|
| `AddRow` | a row is inserted, in the order of `createdAt`; a booking has its start time as date |
| `updateBookingStatus` | the status of a booking, on which listings filter, becomes any other: by a request, a cron or maintenance |
| `rescheduleBooking` | its start time, on which `getAllBookings` filters, and its cost |
| `cleanUpOldData` | activity logs older than `Retention` days are deleted, by the nightly cron |

Ledger rows are neither changed nor deleted by any code. `report.gone` notes, for the property only, which
rows left the listing that is walked. Reports write nothing, so one at a time is enough. Filters by
free text are left out; that by resource is like the one by user.

### The model of notifications and of the connection pool

`Inbox.tla`: `send` looks the organization up (`SendStart`), and if it is not found or the lookup
throws, answers with an error and uses no channel (`SendStartFails`). Else it goes through the channels
that are switched on, one after the other, each of which may fail (`SendInApp`, `SendInAppFails`, `SendEmail`); an
announcement goes through chunks of recipients (`BroadcastStart`, `BroadcastChunk`); the owner
reads and deletes, the nightly clean-up takes read rows of 90 days (`CleanUpOldData`).
`ParsePreferences` finds the flags under two keys of the settings or in the settings themselves, and takes
those under any other key for "all on".

`Pool.tla`: a request waits for a connection, holds it for its transaction, and for each
statement it makes through `this.prisma` needs a second one (`GoAside`), which it waits for
without limit. `Expire` is the transaction's time limit: it gives back the connection of the
transaction, and the statement around it still waits, and counts, but nobody waits for
ever. `Aside` says how many such statements a request makes: a confirmation two, a
creation one.

`Services` puts both and `Catalog` in one specification, for one run: each behaviour is one of one of them. They
share no state, so no interleaving is lost.

## 4. Runs

| Run | Question | Answer |
|---|---|---|
| `bookings_serial` | is each handler right by itself? `Everything` exclusive, two resources, one auto-confirmed, buffer 1 | `TypeOK`, `NoOverlap`, `Reserved`, `PaidAsStatusSays`, `MaintenanceIsClear`, `OccupantIsCheckedIn`, `TerminalIsFinal` hold |
| `bookings_locked` | is it enough that create, reschedule and status exclude one another? two handlers, crons and maintenance at any moment | `CheckedSlotStaysFree`, `Reserved` and `KeepsSchedule` hold; `NoOverlap` with them, which section 5 proves from less |
| `bookings_live` | does every booking end? nothing exclusive, flag edits, one failure | `EventuallySettled` holds under `FairSpec` |
| `double_booking` | do two creates need the exclusion? | yes, `NoOverlap` fails |
| `staff_serial` | is each staff handler right by itself? `Everything` exclusive, three users, two bookings | `TypeOK`, `NothingLost`, `PendingCovered`, `DeletedIsSettled` hold |
| `staff_locked` | is it enough that the handlers that use up a limit exclude one another? two handlers, deletion and bookings at any moment | `Conserved`, `PoolCovered`, `WithinLimit` hold |
| `subscription_serial` | is each handler that writes plan or pool right by itself? `Everything` exclusive, two payments of two plans | `TypeOK`, `Conserved`, `PlansAgree`, `GraceIsShort`, `PlanIsKept`, `TrialIsFirst` hold |
| `subscription_live` | is it enough that payments and trials exclude one another? two handlers, two payments of one plan, one failure, no staff | `CreditedOnce` and `ExpiredEnds` hold under `FairSpec` |
| `community` | what do two requests on one post do to it, if those that rewrite one column exclude one another? an admin and a staff member | `TakenDownStaysDown`, `AnnouncedOnce`, `KeepsThreads` hold |
| `accounts` | do registration, joining and verification survive each other and the end of an organization? two requests, two addresses, two organizations | `ShutOut`, `NewestLinkWorks`, `AccountStays` hold |
| `reports` | do listings, sums and trends agree with the dates of the zone while rows are added, changed and deleted? | `PagesMissNothing`, `NumbersAgree`, `FollowsCalendar` hold |
| `services` | is what is offered accepted but for rules the list ignores, do failed deliveries stay local, and does the pool come unstuck? | `OffersAgree`, `LimitKept`, `FailuresStayLocal` hold, and `EveryoneAnswered` under `Fairness` |

Other interleavings of the booking engine and the subscription fail without the exclusion
and have no run of their own: two confirmations pass the check on one balance and
overdraw it; maintenance and a cancellation both refund a booking; a cancellation that
commits after the check-in cron's update leaves the resource occupied; a payment
that commits between the selection and the update of the downgrade cron is
downgraded at once, and of the pool what the payment brought is neither kept nor frozen.

What the properties say:

- `NoOverlap`: no two PENDING or CONFIRMED bookings of a resource closer than the
  buffer. `CheckedSlotStaysFree` is the reason: from a handler's overlap query
  to its commit the window stays free.
- `KeepsSchedule`: the refinement of `Schedule`. A booking takes its window, moves it, or takes it again
  after losing it, only in a step that itself finds the window free, and keeps its resource; the chain
  of steps from overlap query to commit is as good as such a step.
- `Reserved`: a balance covers the pending bookings that were accepted on it,
  through reschedules, confirmations and cancellations.
- `PaidAsStatusSays`: what was taken for a booking and not given back is all of
  its cost while it stands or was used, nothing while it waits, and after a cancellation
  nothing or half.
- `MaintenanceIsClear`: a resource under maintenance has no active booking ahead.
- `OccupantIsCheckedIn`: what occupies a resource is a checked-in booking of it.
- `TerminalIsFinal`: a booking that ended stays ended.
- `EventuallySettled`: every booking comes to rest rejected, cancelled or completed.
- `Conserved`, `NothingLost`: what is in the pool, in balances and spent on bookings is
  what the organization started with, counted over all users or, with handlers
  one after the other, over the members who are still there.
- `PendingCovered`: no allocation, revocation or deletion leaves a pending booking
  without the credits it was accepted on. `DeletedIsSettled`: nothing is booked, confirmed, cancelled,
  charged or refunded for a deleted member; a booking they are still using is completed, no more.
- `PoolCovered`, `WithinLimit`: the pool is not handed out beyond what it holds, nor
  the plan's limit of members passed.
- `Subscription!Conserved`: the pool, the frozen credits and what the staff holds are what
  was granted. A downgrade freezes what it takes and a payment restores it, once.
- `PlansAgree`: the plan is kept in two tables and is the same in both.
- `GraceIsShort`, `ExpiredEnds`: a reminder delays the downgrade by its gap at most, and
  a plan that is over is renewed or downgraded whatever fails once. `PlanIsKept`: not before.
- `TrialIsFirst`: at most one trial, and none after a payment, whatever an admin edits.
- `CreditedOnce`: however often a payment is reported, its credits come once.
- `KeepsThreads`: the refinement of `Board`. `TakenDownStaysDown`: whatever is done to a
  post while it is deleted, no step lists it for anybody, and the one that restores it makes it a
  draft. `AnnouncedOnce`: when users are notified, the post was published since they last were.
- `ShutOut`: nobody acts for or logs in to a deleted organization. `AccountStays`: an account
  in use never changes its organization, although deleted rows are reused. `NewestLinkWorks`:
  the newest link a user holds is the one their row knows, however often mails are sent or fail.
- `OffersAgree`: the slots shown are exactly the free ones of an available day, a day is shown as open
  exactly if it has one, and `createBooking` takes of the slots of the date exactly those shown that its
  rules on weekends, lengths and lead times allow. `LimitKept`: no resource
  beyond the limit of the plan in force; what a better plan left is kept.
- `PagesMissNothing`: who walks through the pages sees every row there was at the start
  that falls on the dates asked for, although new rows shift the pages; but for rows that left the
  listing meanwhile, and rows behind a newer one that left it, which move up to a page already
  read. Of activity logs only those that were deleted are missed: the oldest go first.
  `NumbersAgree`: periods add up to summaries. `FollowsCalendar`: trend and month are
  those of the zone's dates.
- `FailuresStayLocal`, `EveryoneAnswered`: as their runs say.

Bounds of the booking runs: two bookings, as every property relates at most two of them; one user, as
balances do not interact, and it is the only way for two bookings to meet
on one; two handlers where handlers meet; a clock of three to five units, which lets a
booking start, end and be followed by another. Windows of one and two units, costs
odd and even. `CHECK_DEADLOCK FALSE` in all of them: clock and rows are bounded, so a run
really stops when they are used up.

Bounds of the staff runs: three users of whom one is a member at the start and two may
be, so that a limit is met and a deletion makes room; a pool of three and amounts
of one and two, so that two requests can each fit the pool and not together, and a
cost can be halved or not; two bookings where their sum counts.

Bounds of the subscription runs: two payments, of two plans or of one, as the idempotency
check tells the last from the others; a plan of two hours, a reminder two hours ahead and a gap
of one hour, so that a reminder falls between any two of purchase, end and downgrade; a free
limit of 1, below and above which the pool comes; amounts of 1, top-ups up to a pool of 3.
Deadlock is checked: an hour can always pass. The live run leaves out top-ups and the staff,
whose credits decide nothing it asks, and keeps the admin's edits.

Bounds of `community`: one post, since no handler relates two; two handlers, of which one can be
between its read and its write while the other does anything; two comments, so that one can be
lost to the other; an admin and a staff member of an organization, so that a notification
has a recipient and the one handler that treats admins differently is met both ways; a public
post and a private draft; edits that publish, unpublish, and make public.

Bounds of `accounts`: two addresses, so that an organization has a member who is not its founder;
two organizations, so that an account can move; three tokens, one delivered, one replaced and
one on its way; two requests.

Bounds of `reports`: days of two seconds of two units, weeks and months of two days, and a range
that is one date, with rows before, on and after it; a zone ahead of UTC whose clocks go forward in
the night of that date, one whose clocks go forward by day, and one behind UTC; two rows and pages of
one row, so that a page shifts either way; bookings of two statuses, so that one can leave a
listing and come back; a second of two units, so that the lost milliseconds show; a clock of five units and
logs kept for one, so that a log of the first date is deleted while later ones are listed.

Bounds of `services`: for the catalog, days of four units and weeks of two days, in which opening
hours, slots and buffers of one and two units meet every boundary; rules that leave weekends out and
rules of the weekend only, the latter with slots longer than a booking may be; a zone with and one without a
change of clocks, neither behind UTC, where `OffersAgree` claims nothing; two resources, where the
plans allow one and two; one booking, since the slot list asks for each booking by itself; two
requests. For the inbox, three recipients in chunks of two, so that there is a last, smaller chunk; two
failures, of lookups or deliveries; settings under each key; one call at a time, since calls touch only
rows they add. For the pool, two connections
and three requests, of which two fill it and want more.

`CHECK_DEADLOCK FALSE` in these four: the rows and the clock are bounded and used up.

Fairness of `Subscription` (`FairSpec`): the hourly crons run in each hour (`@Cron(EVERY_HOUR)`) and
finish, as requests do that began; hours pass (strongly fair, as each request in progress
holds the hour up for a moment). None for payments, trials, top-ups or the monthly crons.

Fairness of `Bookings` (`FairSpec`): time passes; each cron is scheduled every minute by
`@Cron(EVERY_MINUTE)` and finishes what it began; a request that began is run to its
end. A failure cancels what a handler had begun; it is bounded by `MaxFaults`, as
the next minute retries. No fairness is assumed for new requests.

Fairness of `Pool` (`Fairness`): time limits pass, statements and answers return (weak
fairness); a waiter for a connection is served in turn, as the queue of the `pg` pool is
first come, first served, which is strong fairness of `GoAside`, enabled again and again as
connections come back. None for arrivals, nor for a transaction that waits to begin: it may give up.

Every property of a passing run is shown to depend on the code by a mutant: the
definition with a likely bug (a status missing in the overlap query, a buffer
ignored, a check against the new cost only, a cron that selects any status, ...)
violates it in the same run.

## 5. Proofs

Each theorem is about `Spec` for every value of the constants: any number of bookings, users,
resources, handlers, amounts and dates. Which handlers meet and what clients ask for are
hypotheses (section 3 says why they are assumptions and not properties of the code); each theorem
has only those it needs, and TLC checks the property with at least those.

An invariant here is seldom inductive by itself: a commit preserves it because of what the handler
checked some steps earlier. The strengthening says, in each module, two things: the types; and that what
a handler has read and relies on is still so. The second holds because no other handler in between
writes it. Steps of all other handlers are then shown not to touch what was read, most of them at
once, by a lemma about steps that only release, only add, or leave the rows alone.

In the proofs about `Bookings`, `Staff`, `Subscription` and `Catalog` that nobody else writes it is a
hypothesis on the behaviour, as weak as the proof allows, and not on a constant: it says of a state that
no two handlers are between their read and their write *of the same thing*, be it a resource, a booking,
a member or a payment, or of a step that it changes nothing that a handler in progress has read and
relies on. A row lock or an advisory lock on that thing would give it; the models take no position on
which. That handlers of one kind exclude one another altogether, as the runs have it with `Exclusive`, is
a special case, which a `...Locked` theorem derives: of the handlers of a set of kinds within `Exclusive`
at most one is in progress (`OneOf`, `OneOfStep`; `Alone`, `AloneStep` of `Subscription`), so no two of
them hold one thing. Each `...Locked` theorem shows too that its hypotheses can be met, and by what. In
`Accounts` and `Community` the hypotheses are on a constant, `Locks`, whose exclusion is per row already,
and the invariant includes that at most one of the handlers that exclude one another is in progress.

`Sums.tla` has the facts about sums that the accounts rest on: the sum over a finite set changes by
what one element of it does, is monotone, splits over a partition and over keys. They are proved by
well-founded induction on finite subsets. The bounds of the sets are assumptions of the modules
(`FiniteAssumption` of `Bookings`, `UsersAssumption`, `BookingsAssumption` of `Staff`).

`BookingsProofs.tla`, with crons, failures, flag edits and every handler that a hypothesis does
not name interleaving without limit:

| Theorem | States | Assuming of the behaviour | of the clients | Inductive invariant |
|---|---|---|---|---|
| `RowsCorrect`, `TypeCorrect` | rows and locals of all handlers are well formed, no window is empty; credits stay integers | nothing | nothing | `RowsOK`, `TypeOK` |
| `NoOverlapCorrect`, `CheckedSlotCorrect` | `[]NoOverlap`, `[]CheckedSlotStaysFree` | `OneDecides`: no two handlers decide on one resource, from their overlap query to their commit | `NoRevival` | `IInv`: both, and `SeenResource` (the booking that a handler holds did not change its resource) |
| `KeepsScheduleCorrect` | `KeepsSchedule` | the same | the same | `ScheduleInv`: `IInv`, `KnownRows` (what crons and maintenance selected exists) |
| `TerminalIsFinalCorrect` | `TerminalIsFinal` | `OneSettles`: no booking is to be given a status by two of the handlers and crons under way | `NothingAfterTheEnd` | `SettleInv`: `AsRead` and `StillSelected` (the status that was read is the row's) |
| `OccupantCorrect` | `[]OccupantIsCheckedIn` | the same | `CheckedInOnlyCompletes` | `OccupantInv`: `SettleInv` and the property |
| `PaidCorrect` | `[]PaidAsStatusSays` | `OneWrites`: the same, rescheduling included; `ConfirmationCommits` | `LifecycleOnly` | `PaidInv`: `WriterInv` (`RowAsRead`: the whole row is as it was read) and the property |
| `MaintenanceCorrect` | `[]MaintenanceIsClear` | `ClosesAlone`: a resource is not closed while a handler decides on it; `EditsOnlyOpen`: edits of the flag only clear it | `NoRevival` | `ClearInv`: `OpenFor` (a resource about to be booked is open; one about to be closed has no booking ahead but those found) and the property |
| `ReservedCorrect` | `[]Reserved` | `OneSpends`: no two handlers spend the credits of one user, from their look at the balance to their commit; `ConfirmationCommits` | `NothingBackToPending` | `ReservedInv`: `SeenUser` and `CoveredFor` of every handler (what it is about to take is there on top of what waits), `Backed` of every user |

`ConfirmationCommits` says that no confirmation fails after its charge. It is needed because the charge is
made outside the transaction: if the handler fails after it, the credits are gone and the booking still
waits. Any other failure is allowed.

| With one lock around | hold | by |
|---|---|---|
| create, reschedule, status (`Bookers`) | `NoOverlap`, `CheckedSlotStaysFree`, `KeepsSchedule` | `NoOverlapLocked`, `CheckedSlotLocked`, `KeepsScheduleLocked` |
| the same, and no failures | `Reserved` | `ReservedLocked` |
| status, maintenance, crons (`Settlers`) | `TerminalIsFinal`, `OccupantIsCheckedIn` | `TerminalIsFinalLocked`, `OccupantLocked` |
| the same and reschedule (`Writers`), and no failures | `PaidAsStatusSays` | `PaidLocked` |
| `Bookers` and maintenance (`Openers`), and no `FlagEdits` | `MaintenanceIsClear` | `MaintenanceLocked` |

`StaffProofs.tla`:

- `TypeCorrect`: `[]TypeOK`. `ConservedCorrect`: `[]Conserved`, with no assumption on which handlers
  meet: every write moves credits within one transaction. The sum runs over all users, deleted ones too.
- `PoolCorrect`: `[]PoolCovered`, if no two allocations, single or in bulk, are in progress at a time
  (`OneTakes`). `PoolInv` adds that what a handler is about to take is there.
- `LimitCorrect`: `[]WithinLimit`, if no two creations are (`OneCreates`). `LimitInv` adds that there is still
  room for the member of a creation in progress.
- `PendingCoveredCorrect`: `[]PendingCovered`, if no two revocations of one member meet (`OneRevokes`) and
  no booking of his is made or confirmed during one (`RevokesUndisturbed`). `CoveredInv` adds
  `RevokeFresh`: what a revocation is about to take is still free of pending costs. Everything about other
  members, allocations, creations and deletions interleave.
- `NothingLostCorrect`: `[]NothingLost`, if besides a member is given nothing while he is being deleted, neither
  credits nor a refund nor a booking (`DeletesUndisturbed`). Deletions may meet one another and
  revocations: these only take. `LostInv` adds `DeleteFresh` (the balance a deletion read has not grown,
  and once it has seen no booking there is none) and `LeftNothing` of every deleted member.
- `SettledCorrect`: `DeletedIsSettled`, under the same and if 0 is not among `Amounts`. From `LostInv` who is
  no member has no open booking (`NoneOpen`), before a step and after it, so that the step
  makes none, decides none and moves none of their credits. The condition is needed: `createBooking` finds
  its user without looking at `deletedAt` (`bookings.service.ts:212`), so only the empty balance keeps a deleted member from booking.

`SubscriptionProofs.tla`:

- `TypeCorrect`: `[]TypeOK`; pool and frozen credits are never negative.
- `CreditedOnceCorrect`: `[]CreditedOnce`, if no two handlers of one payment are in progress (`OneDelivery`), no
  payment is activated while a trial is in progress (`TrialsUndisturbed`), and `LateRetries` is FALSE. The
  invariant `OnceInv` adds that a payment in progress is not credited yet, that a trial in
  progress means no payment so far, and that after a payment the trial is used up and the
  status stays COMPLETED: otherwise the idempotency check would miss the last session.
- `TrialIsFirstCorrect`: `TrialIsFirst`, if no two trials are in progress (`OneTrial`) and no payment is
  activated meanwhile (`TrialInv`), late retries included.
- `PlansAgreeCorrect`, `PlanIsKeptCorrect`: `[]PlansAgree`, and every step is one `PlanIsKept` allows, if
  nobody changes the end date that a downgrade found to be over, nor the plan that a top-up read and is about to
  repeat (`PlanStays`). `PlanInv` adds `PlanFresh`: what they read is what the row holds. Payments and
  trials write both copies of the plan whatever they were, and need no hypothesis.
- `ConservedCorrect`: `[]Conserved`, if nobody writes the pool or the frozen credits while a handler is in
  progress that computed its write from them (`PoolStays`). `MovedInv` adds
  `Fresh`: the pool and the frozen credits that a handler read are those of the rows, so
  that the absolute values it writes are increments after all.
- `GraceIsShortCorrect`: `[]GraceIsShort`, if no handler fails, with no exclusion at all. `GraceInv` adds
  that an hourly cron that is due or in progress still comes before the next hour, and that of the
  subscriptions that a downgrade passes over each was reminded less than a gap ago.

Of staff and subscriptions, too, one lock is enough:

| With one lock around | hold | by |
|---|---|---|
| allocations, single and in bulk (`Takers`) | `PoolCovered` | `PoolLocked` |
| creations | `WithinLimit` | `LimitLocked` |
| revocations and bookings | `PendingCovered` | `PendingCoveredLocked` |
| those, allocations and deletions (`Losers`) | `NothingLost`, and `DeletedIsSettled` if no booking is free | `NothingLostLocked`, `SettledLocked` |
| payments and trials | `TrialIsFirst`, and `CreditedOnce` without late retries | `TrialIsFirstLocked`, `CreditedOnceLocked` |
| payments, trials, top-ups, admin edits, downgrades (`Planners`) | `PlansAgree`, `PlanIsKept` | `PlansAgreeLocked`, `PlanIsKeptLocked` |
| payments, trials, top-ups, downgrades, monthly resets, the staff's handlers (`Movers`) | `Conserved` | `ConservedLocked` |

`AccountsProofs.tla`:

- `TypeCorrect`: `Spec => [](TypeOK)`, and rows of `User` are never taken away.
- `ShutOutCorrect`: `Spec => []ShutOut`, assuming that `staff` and `delete` exclude one another on an
  organization and that `SwitchDeleted` is FALSE. `ShutInv` adds that a deleted organization is
  inactive, its members are not live, and no request that joins it is in progress.
- `AccountStaysCorrect`: `Spec => AccountStays`, assuming that `register`, `staff` and
  `restore` exclude one another on a row. `StayInv` adds that at most one of them is in progress
  on a row (`Alone`) and that a row that is about to be reused is still deleted.
- `NewestLinkCorrect`: `Spec => []NewestLinkWorks`, assuming that `register`, `send` and `verify` exclude
  one another on an address. `LinkInv` follows the token from the row to the mail.

`CommunityProofs.tla`:

- `TypeCorrect`: `Spec => []TypeOK`, for any posts, bodies, users and number of handlers.
- `TakenDownCorrect`: `Spec => TakenDownStaysDown`, with no assumption on which handlers meet. It
  needs the types alone: each step leaves a deleted post deleted or makes it a draft.
- `AnnouncedOnceCorrect`: `Spec => AnnouncedOnce`, assuming that `create` and `update` exclude one another on
  a post. `FreshInv` adds that a post about to be announced is not announced yet, and that a post
  that was read unpublished is still unpublished, or gone, when the update is written.
- `KeepsThreadsCorrect`: `Spec => KeepsThreads`, the refinement of `Board`, assuming that `comment`
  and `uncomment` exclude one another on a post, and `acknowledge` itself. Posts are edited,
  published, announced, deleted and restored meanwhile without limit. `ThreadInv` (`Fits` for every
  handler) says that the copy a handler holds of a column is what the row holds, that a comment about
  to be made is new and nobody else's, and one about to be deleted is there. There is one
  lemma for each handler, which shows both that `ThreadInv` is kept and that the step is a step of
  `Board` or leaves what it sees alone.

`ServicesProofs.tla`, of `Catalog`:

- `TypeCorrect`: `Spec => []TypeOK`.
- `LimitCorrect`: `LimitKept`, if no two creations are in progress at a time (`OneCreates`) and the plan is not
  changed for a smaller one during a creation (`PlanLasts`). `RoomInv` adds that
  the live resources are finite and that there is room for a creation in progress. `LimitLocked`: a lock
  around both is enough.
- `OffersCorrect`: `[]OffersAgree`, assuming `SlotsKeepTheirDate`, which TLC evaluates for the run's
  zones. It needs no induction: that what is offered is what is free is arithmetic, of
  the four orders in which a slot, a booking and the margins may lie (`SameTest`), and that both ask for the
  same weekday is the assumption (`SameWeekday`).
- `SteadyZonesKeepDates`: a zone without changes of clocks and less than a day ahead of UTC satisfies
  that assumption, for rules whose hours are within the day.

of `Inbox` and `Pool`, as instances of them:

- `FailuresStayLocalCorrect`: `[]FailuresStayLocal` of `Inbox` alone and of `ServicesSpec`, for any senders,
  recipients, chunks and failures. `AllTold` follows each call under way: of the recipients it has dealt with it told all but those
  whose own notification failed, and of the channels those are unused that are off, or all if the
  organization was not found.
- `PoolCorrect`: the connections in use are never more than the pool's, and those of a request that was
  answered are back. `PoolInv` counts holders and askers as two disjoint finite sets.

`ReportsProofs.tla`, for any rows, zones, page sizes, dates and lengths of a day:

- `TypeCorrect`: `[]TypeOK`.
- `PagesCorrect`: `[]PagesMissNothing`. `PagesInv` says that of the rows selected at the start with no row
  gone from before them those whose rank is below what the pages covered have been seen: additions, and
  rows that come back, only raise the ranks of others (`PagesPushedBack`). `LogInv` says that the
  logs are in the order of their dates, so that the ones deleted are the last of any listing.
- `NumbersCorrect`: `[]NumbersAgree`. `RevenueInv` bounds each answer so far by the rows there
  are now, as ledger rows are only added (`RowsOnlyAdded`); `GroupsAddUp` is the sum over groups, from which
  the statistics of bookings follow at any moment (`StatsRight`).
- `CalendarCorrect`: `[]FollowsCalendar`. `OverviewInv` says what each query of the overview has
  taken, `MonthInv` the same of the month; the rest is about dates: `TrendRight`, `WeeksOfTrend`, `MonthRight`.

The last proof corrected two statements that no bounded run had refuted: `Late` allowed no row for a range
that ends the day before it begins, and `TrendFollowsDates` did not exclude a change of clocks
next to the midnight of its first or last day.

Assumptions: `SessionsAssumption`, `WorkersAssumption`, `CreditsAssumption`, `TimesAssumption`
and `ExclusiveAssumption` of `Subscription`, `UsersAssumption`, `BookingsAssumption`, `LimitAssumption`,
`AmountsAssumption`, `ExclusiveAssumption` of `Staff`, `BoundsAssumption`, `FiniteAssumption`,
`NoIdAssumption`, `NonEmptyAssumption`, `ClientAssumption`, `ResourceAssumption` of `Bookings`,
`AccountsAssumption`, `CommunityAssumption`, `CatalogAssumption` and `TimesAssumption` of `Catalog`,
`InboxAssumption` of `Inbox`, `PoolAssumption` of `Pool`,
`ReportsAssumption` and `ZonesAssumption` of `Reports`, which TLC evaluates in every run of theirs; and
the exclusions and clients' behaviour named above, which are hypotheses of the theorems.

Only model-checked: the liveness properties `EventuallySettled`, `ExpiredEnds` and `EveryoneAnswered`,
as fairness and ENABLED are out of the prover's reach.

## 6. What the code does that a reader may not expect

`double_booking` is the finding with a run. The following were met while modelling, and are how the models
are; none is hidden by an assumption unless it says so.

Bookings (`bookings.service.ts`, `scheduler.service.ts`, `resources.service.ts`):
- The overlap query (line 193) looks at PENDING and CONFIRMED only: a booking that is checked in
  does not hold its window, and one can be made in what is left of it.
- Only `PENDING -> CONFIRMED` is checked for the role (line 358): a STAFF user may confirm a
  cancelled booking of theirs. No property restricts who confirms: under `Lifecycle`, which has no such
  change, one would only repeat the guard.
- `updateBookingStatus` (line 344) decides on the status it read before its transaction: a booking that the cron
  cancels in between is confirmed all the same. Its window is still free then if booking requests exclude one another.
- With back-to-back bookings, auto-complete (scheduler, line 166) frees a resource whose next booking
  is already checked in; maintenance (resources, line 252) is then accepted while it is in use.
- `createBooking` knows no opening hours and takes a deleted resource; its check of the plan
  counts soft-deleted resources too (line 86), unlike the one of `createResource`.
- After a transaction has timed out, a statement around it (the charge, line 380) is still executed.

Staff (`staff.service.ts`):
- The comment above the check of `deleteStaff` (line 384) says that a member with "any pending and confirmed and
  checked-in bookings" is not deleted; the query (lines 385-390) counts PENDING and CONFIRMED only, and so does
  the message. A member whose booking is CHECKED_IN can be deleted. It does no harm to credits: charges are made from
  PENDING and refunds from CONFIRMED, and `DeletedIsSettled` says what becomes of such a booking.

Slots and time zones (`bookings.service.ts` 780-960, `timezone.util.ts`):
- The slot list and the calendar look at `availableDays` only (lines 866-872, 1126), not at `is_weekend_allowed`
  (151-156), `max_booking_hours` (169-177) or `min_lead_time` (179-184): they show slots that `createBooking`
  refuses, weekends of a resource that is closed on them included. `OffersAgree` says that these are all.
- With empty `availableDays`, every day is available, but one that is full is shown as OFF_DAY.
- The slot list ignores bookings outside the working hours whose buffer reaches into them
  (`MarginsClear` is the hypothesis of `OffersAgree`), and maintenance; days gone by are FULLY_BOOKED.
- The weekday of a date without time is that of its midnight in UTC, so in a zone behind UTC
  closed days are off by one (`OffersAgree` is for the others).
- The offset is looked up once, so a bound near midnight is wrong if clocks change there (`ClearOfMidnight`),
  and the end of a date falls 0.998 s into the next (`Late`), since milliseconds are lost.
- `hour12: false` may show midnight as 24 with some ICU versions; the model assumes 00.

Reports (`admin.service.ts`, `dashboard.service.ts`, `staff.service.ts`):
- The trend steps 24 hours, so a change of clocks within it makes it skip a date or lose one. Ahead of UTC, on the day
  the clocks go forward in the night, the start of today is found with the offset of midnight read as UTC
  (`timezone.util.ts:91`), an hour before midnight: `buildRevenueTrend` (`dashboard.utils.ts:19-25`, "Start from today
  and go back") then shows each day one too early and drops today's payments. TLC finds it in the second zone of
  `MCReports` if `TrendFollowsDates` is asked of such days: with today 1, the trend has the dates -1 and 0.
- The month of the staff's overview is the server's, not the user's.
- The statements of an overview or of revenue analytics do not see one snapshot.
- Lists are ordered by `createdAt` alone, so rows of one instant may change places between pages. In `Reports`
  rows have an order.
- Pages are cut by position: while a client goes through bookings of a status or of some dates, one that leaves the
  listing (a cron changes its status, a request its time) moves the older ones up, and one of them is never
  shown, although it was there all the time. `PagesMissNothing` excepts exactly these.
- `getStaffCreditLogsForFreeUser` never advances its page, and its sums are the organization's.
  `totalHours` of the organization overview is that of the 20 most recent bookings; `avgDailyBurn` divides by
  periods that have a booking; `utilizationRate` counts bookings of admins and of deleted users.

Subscription (`payments.service.ts`, `scheduler.service.ts`):
- Only the last session is remembered (`payments.service.ts:121`): payments A, B and A again credit
  A twice. `LateRetries = FALSE` assumes it away in `subscription_live`, and `CreditedOnceCorrect` needs it.
- `sendWeeklyReports` selects `orgsToNotify` and then goes through all of `organizations` (scheduler, line 816).

Accounts (`auth.service.ts`, `admin.service.ts`):
- `updateOrganization` sets `is_active` of a deleted organization, and then staff can be created in it:
  with `SwitchDeleted = TRUE`, `ShutOut` fails.
- A row that was reused by `register` moves; if its old organization is restored afterwards, that one may be
  left without its founder.
- Two verification mails at once can leave the user with a newest link whose token was replaced.
- `register` writes preferences under the key `notification_preferences` (`auth.service.ts:64`), which
  `parsePreferences` does not know: they are never used.

Community (`community.service.ts`):
- Only non-admins are kept from publishing a private draft, and only if the request says again that it is
  private (lines 146-155): otherwise it is published and announced.
- Each update broadcasts a second time, without condition (191-198); this only refreshes screens.
- An admin of the platform has no organization and `Notification.org_id` may not be null: their posts
  notify nobody, and the error is caught.
- Anyone may restore any post, and soft-deleted posts take comments.

## 7. Not modelled

Of `community.service.ts`: the page of one post, the statistics of authors and the list of one's own
posts, which read only. Of `auth.service.ts` and `admin.service.ts`: passwords and their reset, refresh tokens,
profiles. Of the dashboard: everything but the trend and the month's credits, which are counts at one moment. Listings of
notifications, posts, resources and staff. Of `payments.service.ts`: checkout sessions, prices and currency
conversion. Of the scheduler: reminders of bookings and weekly reports, which only send mail. Of
`staff.service.ts`: edits of a profile; of `bookings.service.ts`: notes. The organization profile, sales inquiries,
the templates of mails, controllers and the HTTP shell keep no state that a decision elsewhere rests
on, and stay out. Row locks and isolation anomalies finer than the merged reads of section 3 are
left out as well.
