---------------------------- MODULE Subscription ----------------------------
(***************************************************************************)
(* One organization's subscription: payments that providers report by      *)
(* webhooks, the free trial, the platform admin's top-ups, and the crons   *)
(* that remind, downgrade and refill.  All of them write the credit pool   *)
(* that staff credits are handed out of (module Staff), most of them as an *)
(* absolute value computed from an earlier read.                           *)
(*                                                                         *)
(* Dates are kept relative to now, in hours, and saturate once they make   *)
(* no difference, so that time is unbounded: sub.left is end_date - now,   *)
(* sub.quiet is now - last_reminder_sent.  subscription.is_active is true  *)
(* from the start and nothing clears it.                                   *)
(***************************************************************************)
EXTENDS Integers, FiniteSets

CONSTANTS
    Sessions,     \* checkouts that were paid
    NoSession,    \* external_id null
    PlanOf,       \* the plan a session bought
    LengthOf,     \* and the time it bought
    Workers,      \* handlers that may be in progress at once
    FreeCredits,  \* SUBSCRIPTION_LIMITS.FREE.INITIAL_CREDITS
    Credits,      \* INITIAL_CREDITS of the paid plans
    TrialCredits, \* SUBSCRIPTION_LIMITS.TRIAL.INITIAL_CREDITS
    FreeTime,     \* 30 days, the end date of a free plan
    TrialTime,    \* FREE_TRIAL_DAYS
    RemindAhead,  \* 7 days
    RemindGap,    \* 24 hours
    Amounts,      \* credits of a request (bounds the run)
    Dates,        \* end dates an admin sets, none in the past (bounds the run)
    MaxCredits,   \* bound on what top-ups bring to the organization
    MaxOut,       \* bound on what is handed out to the staff
    MaxFaults,    \* bound on handlers that fail
    LateRetries,  \* may a session be delivered again after another was processed?
    Exclusive     \* handlers assumed never to run at the same time as one another

PaidPlans == {"PRO", "ENTERPRISE"}
Plans == {"FREE"} \cup PaidPlans
Hourly == {"remind", "downgrade"}
Crons == Hourly \cup {"upgrade", "reset"}
Requests == {"pay", "trial", "topUp", "update"}
None == "none" \* planType absent
NoDate == -1  \* extendDate or trialEndsAt absent

ASSUME SessionsAssumption ==
    /\ NoSession \notin Sessions
    /\ PlanOf \in [Sessions -> PaidPlans] /\ LengthOf \in [Sessions -> Nat]
ASSUME WorkersAssumption == Workers \cap Crons = {}
ASSUME CreditsAssumption ==
    /\ FreeCredits \in Nat /\ TrialCredits \in Nat /\ Credits \in [PaidPlans -> Nat]
    /\ Amounts \subseteq Nat /\ MaxCredits \in Nat /\ MaxOut \in Nat /\ MaxFaults \in Nat
ASSUME TimesAssumption ==
    /\ FreeTime \in Nat /\ TrialTime \in Nat /\ RemindAhead \in Nat /\ RemindGap \in Nat
    /\ Dates \subseteq Nat
ASSUME ExclusiveAssumption ==
    LateRetries \in BOOLEAN /\ Exclusive \subseteq Requests \cup Crons \cup {"staff"}

VARIABLES
    sub,      \* Subscription: plan_name, end_date, payment_status, external_id, last_reminder_sent
    org,      \* Organizations: plan_type, credit_pool, frozen_credits and the trial's flags
    out,      \* credits handed out to the staff
    due,      \* the hourly crons that have not run in this hour
    job,      \* what each handler and cron in progress has read and not yet used
    faults,   \* handlers that failed
    granted,  \* history: credits the organization was given, less those a reset dropped
    credited, \* history: how often each session was credited
    trials    \* history: trials activated

vars == <<sub, org, out, due, job, faults, granted, credited, trials>>
history == <<granted, credited, trials>>

Idle == [op |-> "idle"]
PayJob == [op : {"pay"}, step : {"read", "commit"}, session : Sessions, pool : Nat, left : Int]
TrialJob == [op : {"trial"}, step : {"commit"}, pool : Nat, frozen : Nat]
TopUpJob == [op : {"topUp"}, step : {"check", "commit"}, amount : Amounts, pool : Nat,
             extendDate : Dates \cup {NoDate}, planType : Plans \cup {None},
             left : Int, plan : Plans]
CronJob == [op : Crons, step : {"commit"}, pool : Nat]
Job == {Idle} \cup PayJob \cup TrialJob \cup TopUpJob \cup CronJob
Processes == Workers \cup Crons

Expired == -(RemindGap + 2) \* where sub.left saturates: longer ago is all the same
Never == RemindGap + 1      \* where sub.quiet saturates: a reminder may be sent

SubRow == [plan : Plans, left : Int, status : {"COMPLETED", "TRIAL"},
           externalId : Sessions \cup {NoSession}, quiet : Nat]
OrgRow == [plan : Plans, pool : Nat, frozen : Nat, trialAllowed : BOOLEAN,
           usedTrial : BOOLEAN]

TypeOK ==
    /\ sub \in SubRow
    /\ org \in OrgRow
    /\ out \in Nat
    /\ due \subseteq Hourly
    /\ job \in [Processes -> Job]
    /\ faults \in Nat
    /\ granted \in Int /\ credited \in [Sessions -> Nat] /\ trials \in Nat

\* What register creates.
Init ==
    /\ sub = [plan |-> "FREE", left |-> FreeTime, status |-> "COMPLETED",
              externalId |-> NoSession, quiet |-> Never]
    /\ org = [plan |-> "FREE", pool |-> FreeCredits, frozen |-> 0, trialAllowed |-> TRUE,
              usedTrial |-> FALSE]
    /\ out = 0
    /\ due = Hourly
    /\ job = [p \in Processes |-> Idle]
    /\ faults = 0
    /\ granted = FreeCredits /\ credited = [s \in Sessions |-> 0] /\ trials = 0

-----------------------------------------------------------------------------
Busy(kinds) == \E p \in Processes : job[p].op \in kinds
MayStart(o) == o \in Exclusive => ~Busy(Exclusive)

Start(p, j) == job[p] = Idle /\ MayStart(j.op) /\ job' = [job EXCEPT ![p] = j]
At(p, op, step) == job[p] # Idle /\ job[p].op = op /\ job[p].step = step
Return(p) == job' = [job EXCEPT ![p] = Idle]

-----------------------------------------------------------------------------
(* handleStripeWebhook, and handleSSLIPN once the provider validated the id *)

\* A provider delivers the report of a payment at any time, and again.
Delivered(s) == LateRetries \/ credited[s] = 0 \/ sub.externalId = s

Processed(s) == sub.externalId = s /\ sub.status = "COMPLETED"

MutantNoCheck(w) ==
    \E s \in Sessions :
        /\ Delivered(s)
        /\ Start(w, [op |-> "pay", step |-> "read", session |-> s, pool |-> 0, left |-> 0])
        /\ UNCHANGED <<sub, org, out, due, faults, history>>
\* The idempotency check: the last session processed is skipped.
PayCheck(w) ==
    \E s \in Sessions :
        /\ Delivered(s)
        /\ ~Processed(s)
        /\ Start(w, [op |-> "pay", step |-> "read", session |-> s, pool |-> 0, left |-> 0])
        /\ UNCHANGED <<sub, org, out, due, faults, history>>

\* The new balance and the new expiry, from the rows read now.
PayRead(w) ==
    /\ At(w, "pay", "read")
    /\ LET s == job[w].session
           extends == sub.plan = PlanOf[s] /\ sub.left > 0
       IN  job' = [job EXCEPT ![w].step = "commit",
                     ![w].pool = org.pool + Credits[PlanOf[s]] + org.frozen,
                     ![w].left = (IF extends THEN sub.left ELSE 0) + LengthOf[s]]
    /\ UNCHANGED <<sub, org, out, due, faults, history>>

MutantKeepFrozen(j) ==
    /\ sub' = [sub EXCEPT !.plan = PlanOf[j.session], !.left = j.left, !.status = "COMPLETED",
                          !.externalId = j.session]
    /\ org' = [org EXCEPT !.plan = PlanOf[j.session], !.pool = j.pool,
                          !.trialAllowed = FALSE, !.usedTrial = TRUE]
MutantTrialUnused(j) ==
    /\ sub' = [sub EXCEPT !.plan = PlanOf[j.session], !.left = j.left, !.status = "COMPLETED",
                          !.externalId = j.session]
    /\ org' = [org EXCEPT !.plan = PlanOf[j.session], !.pool = j.pool, !.frozen = 0,
                          !.trialAllowed = FALSE]
\* Both updates of the transaction.
Activate(j) ==
    /\ sub' = [sub EXCEPT !.plan = PlanOf[j.session], !.left = j.left, !.status = "COMPLETED",
                          !.externalId = j.session]
    /\ org' = [org EXCEPT !.plan = PlanOf[j.session], !.pool = j.pool, !.frozen = 0,
                          !.trialAllowed = FALSE, !.usedTrial = TRUE]

PayCommit(w) ==
    /\ At(w, "pay", "commit")
    /\ Activate(job[w])
    /\ LET s == job[w].session
       IN  /\ granted' = granted + Credits[PlanOf[s]]
           /\ credited' = [credited EXCEPT ![s] = @ + 1]
    /\ Return(w)
    /\ UNCHANGED <<out, due, faults, trials>>

-----------------------------------------------------------------------------
(* activateTrial                                                           *)

\* trialEndsAt is null here: whatever sets it also sets hasUsedTrial.
TrialRead(w) ==
    /\ org.trialAllowed /\ ~org.usedTrial
    /\ Start(w, [op |-> "trial", step |-> "commit", pool |-> org.pool + TrialCredits,
                 frozen |-> org.frozen])
    /\ UNCHANGED <<sub, org, out, due, faults, history>>

TrialCommit(w) ==
    /\ At(w, "trial", "commit")
    /\ sub' = [sub EXCEPT !.plan = "PRO", !.left = TrialTime, !.status = "TRIAL"]
    /\ org' = [org EXCEPT !.plan = "PRO", !.pool = job[w].pool, !.frozen = job[w].frozen,
                          !.usedTrial = TRUE]
    /\ granted' = granted + TrialCredits /\ trials' = trials + 1
    /\ Return(w)
    /\ UNCHANGED <<out, due, faults, credited>>

-----------------------------------------------------------------------------
(* The platform admin: topUpOrganizationCredits, updateOrganization        *)

\* The organization is read before the transaction.
TopUpRead(w) ==
    \E c \in Amounts, date \in Dates \cup {NoDate}, plan \in Plans \cup {None} :
        /\ org.pool + org.frozen + c <= MaxCredits
        /\ Start(w, [op |-> "topUp", step |-> "check", amount |-> c, pool |-> org.pool + c,
                     extendDate |-> date, planType |-> plan, left |-> 0, plan |-> "FREE"])
        /\ UNCHANGED <<sub, org, out, due, faults, history>>

\* The subscription is read in it.  Refused when expired with no new date, or when
\* the date would bring the end forward.
TopUpCheck(w) ==
    /\ At(w, "topUp", "check")
    /\ LET j == job[w]
           end == IF j.extendDate = NoDate THEN sub.left ELSE j.extendDate
       IN  IF (sub.left < 0 /\ j.extendDate = NoDate) \/ end < sub.left
           THEN Return(w)
           ELSE job' = [job EXCEPT ![w].step = "commit", ![w].left = end,
                          ![w].plan = IF j.planType = None THEN sub.plan ELSE j.planType]
    /\ UNCHANGED <<sub, org, out, due, faults, history>>

MutantSaysDate(j) == j.extendDate # NoDate
\* The subscription is updated only when the request says something about it.
SaysPlanOrDate(j) == j.extendDate # NoDate \/ j.planType # None

TopUpCommit(w) ==
    /\ At(w, "topUp", "commit")
    /\ org' = [org EXCEPT !.pool = job[w].pool, !.plan = job[w].plan]
    /\ IF SaysPlanOrDate(job[w])
       THEN sub' = [sub EXCEPT !.left = job[w].left, !.plan = job[w].plan]
       ELSE UNCHANGED sub
    /\ granted' = granted + job[w].amount
    /\ Return(w)
    /\ UNCHANGED <<out, due, faults, credited, trials>>

\* One transaction that decides on nothing it reads.  hasUsedTrial of the request is
\* overwritten by undefined, so it can only become true, with a trialEndsAt.
UpdateOrganization ==
    /\ MayStart("update")
    /\ \E allowed \in BOOLEAN, date \in Dates \cup {NoDate} :
         IF date = NoDate
         THEN org' = [org EXCEPT !.trialAllowed = allowed] /\ UNCHANGED sub
         ELSE /\ org' = [org EXCEPT !.trialAllowed = allowed, !.usedTrial = TRUE]
              /\ sub' = [sub EXCEPT !.left = date]
    /\ UNCHANGED <<out, due, job, faults, history>>

-----------------------------------------------------------------------------
(* The crons.  Each finds subscriptions, then updates them by id.          *)

MayRemind == sub.quiet > RemindGap

MutantRemindExpired == sub.plan # "FREE" /\ sub.left < RemindAhead /\ MayRemind
RemindFinds == sub.plan # "FREE" /\ sub.left \in 0..(RemindAhead - 1) /\ MayRemind

MutantAnyPaid == sub.plan # "FREE" /\ MayRemind
MutantNoTrials == sub.plan # "FREE" /\ sub.left < 0 /\ MayRemind /\ sub.status # "TRIAL"
DowngradeFinds == sub.plan # "FREE" /\ sub.left < 0 /\ MayRemind

\* sendSubscriptionRenewalReminders and sendExpiredSubscriptionNotifications, once an hour.
HourlySelect(c) ==
    /\ c \in due /\ due' = due \ {c}
    /\ IF (c = "remind" /\ RemindFinds) \/ (c = "downgrade" /\ DowngradeFinds)
       THEN Start(c, [op |-> c, step |-> "commit", pool |-> org.pool])
       ELSE MayStart(c) /\ UNCHANGED job
    /\ UNCHANGED <<sub, org, out, faults, history>>

\* sendFreeUserUpgradeNotifications (it skips the reminded, too; that it leaves out the
\* first week is not modelled) and resetFreeUserCredits, on calendar days.
MonthlySelect(c) ==
    /\ c \in Crons \ Hourly
    /\ sub.plan = "FREE" /\ (c = "upgrade" => MayRemind)
    /\ Start(c, [op |-> c, step |-> "commit", pool |-> org.pool])
    /\ UNCHANGED <<sub, org, out, due, faults, history>>

RemindCommit(c) ==
    /\ At(c, "remind", "commit") \/ At(c, "upgrade", "commit")
    /\ sub' = [sub EXCEPT !.quiet = 0]
    /\ Return(c)
    /\ UNCHANGED <<org, out, due, faults, history>>

MutantExcess(p) == p - FreeCredits
\* The credits of a pool beyond the free limit.
Excess(p) == IF p > FreeCredits THEN p - FreeCredits ELSE 0

DowngradeCommit(c) ==
    /\ At(c, "downgrade", "commit")
    /\ sub' = [sub EXCEPT !.plan = "FREE", !.quiet = 0, !.left = FreeTime, !.status = "COMPLETED"]
    /\ org' = [org EXCEPT !.plan = "FREE", !.pool = FreeCredits,
                          !.frozen = @ + Excess(job[c].pool)]
    /\ granted' = IF org.pool < FreeCredits THEN granted + (FreeCredits - org.pool) ELSE granted
    /\ Return(c)
    /\ UNCHANGED <<out, due, faults, credited, trials>>

ResetCommit(c) ==
    /\ At(c, "reset", "commit")
    /\ org' = [org EXCEPT !.pool = FreeCredits]
    /\ granted' = granted + (FreeCredits - org.pool)
    /\ Return(c)
    /\ UNCHANGED <<sub, out, due, faults, credited, trials>>

-----------------------------------------------------------------------------
\* A query throws or the process stops before the commit.
Fails(p) ==
    /\ job[p] # Idle /\ faults < MaxFaults
    /\ faults' = faults + 1
    /\ Return(p)
    /\ UNCHANGED <<sub, org, out, due, history>>

\* StaffService, one step each: see module Staff.
Allocate ==
    /\ MayStart("staff")
    /\ \E c \in Amounts :
         /\ org.pool >= c /\ out + c <= MaxOut
         /\ org' = [org EXCEPT !.pool = @ - c] /\ out' = out + c
    /\ UNCHANGED <<sub, due, job, faults, history>>

Revoke ==
    /\ MayStart("staff")
    /\ \E c \in Amounts :
         /\ out >= c
         /\ org' = [org EXCEPT !.pool = @ + c] /\ out' = out - c
    /\ UNCHANGED <<sub, due, job, faults, history>>

\* An hour passes, long enough for what began in it to have ended.
Tick ==
    /\ due = {} /\ \A p \in Processes : job[p] = Idle
    /\ due' = Hourly
    /\ sub' = [sub EXCEPT !.left = IF @ > Expired THEN @ - 1 ELSE @,
                          !.quiet = IF @ < Never THEN @ + 1 ELSE @]
    /\ UNCHANGED <<org, out, job, faults, history>>

RequestFinish(w) ==
    PayRead(w) \/ PayCommit(w) \/ TrialCommit(w) \/ TopUpCheck(w) \/ TopUpCommit(w)
CronFinish(c) == RemindCommit(c) \/ DowngradeCommit(c) \/ ResetCommit(c)

WorkerStep(w) == PayCheck(w) \/ TrialRead(w) \/ TopUpRead(w) \/ RequestFinish(w) \/ Fails(w)
CronStep(c) == HourlySelect(c) \/ MonthlySelect(c) \/ CronFinish(c) \/ Fails(c)

Next ==
    \/ \E w \in Workers : WorkerStep(w)
    \/ \E c \in Crons : CronStep(c)
    \/ UpdateOrganization \/ Allocate \/ Revoke \/ Tick

Spec == Init /\ [][Next]_vars

\* The hours pass, the hourly crons run in each, and what began ends.
FairSpec ==
    /\ Spec
    /\ SF_vars(Tick)
    /\ \A c \in Hourly : WF_vars(HourlySelect(c))
    /\ \A c \in Crons : WF_vars(CronFinish(c))
    /\ \A w \in Workers : WF_vars(RequestFinish(w))

-----------------------------------------------------------------------------
(* Properties.                                                             *)

\* The pool, the frozen credits and what the staff holds are what was granted:
\* a downgrade freezes what it takes, a payment restores it once.
Conserved == org.pool + org.frozen + out = granted

\* The two copies of the plan, on the subscription and on the organization, agree.
PlansAgree == sub.plan = org.plan

\* A plan that was not renewed ends within RemindGap and an hour: the downgrade
\* waits for the gap after a reminder, and no reminder is sent after the end.
GraceIsShort == sub.plan # "FREE" => sub.left >= -(RemindGap + 1)

\* A paid plan is not taken away before its end, unless an admin's top-up says so.
PlanIsKept ==
    [][sub.plan # "FREE" /\ sub'.plan = "FREE" =>
         \/ sub.left < 0
         \/ \E w \in Workers : job[w].op = "topUp" /\ job[w].planType = "FREE"]_vars

\* A trial comes at most once and never after a payment.
TrialIsFirst ==
    [][trials' # trials => trials = 0 /\ \A s \in Sessions : credited[s] = 0]_vars

\* However often a payment is reported, it is credited once.
CreditedOnce == \A s \in Sessions : credited[s] <= 1

\* A plan that is over is renewed or downgraded in the end.
ExpiredEnds ==
    (sub.plan # "FREE" /\ sub.left < 0) ~> (sub.plan = "FREE" \/ sub.left >= 0)
=============================================================================
