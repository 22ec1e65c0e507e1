------------------------- MODULE SubscriptionProofs -------------------------
(* Theorems about Subscription, for every value of its constants: types,   *)
(* that a payment is credited once, that a paid plan is kept and its two   *)
(* copies agree, that credits are conserved, that a trial comes first, and *)
(* that the grace after the end of a plan is short.                        *)
EXTENDS Subscription, TLAPS

LEMMA TypeInit == Init => TypeOK
  BY CreditsAssumption, TimesAssumption
     DEF Init, TypeOK, SubRow, OrgRow, Job, Plans, Never

\* A job of some kind is a record of that kind.
LEMMA JobKinds ==
  ASSUME NEW j \in Job
  PROVE  /\ j.op = "pay" => j \in PayJob
         /\ j.op = "trial" => j \in TrialJob
         /\ j.op = "topUp" => j \in TopUpJob
         /\ j.op \in Crons => j \in CronJob
  BY DEF Job, Idle, PayJob, TrialJob, TopUpJob, CronJob, Crons, Hourly

LEMMA ReturnType ==
  ASSUME TypeOK, NEW p \in Processes, Return(p)
  PROVE  job' \in [Processes -> Job]
  BY DEF TypeOK, Return, Job

LEMMA PayType ==
  ASSUME TypeOK, NEW w \in Workers, PayCheck(w) \/ PayRead(w) \/ PayCommit(w)
  PROVE  TypeOK'
<1>1. w \in Processes
  BY DEF Processes
<1>2. CASE PayCheck(w)
  BY <1>1, <1>2 DEF PayCheck, Start, TypeOK, Job, PayJob, history
<1>3. CASE PayRead(w)
  <2>1. job[w] \in PayJob
    BY <1>1, <1>3, JobKinds DEF PayRead, At, TypeOK
  <2>2. PICK s \in Sessions : s = job[w].session
    BY <2>1 DEF PayJob
  <2>3. Credits[PlanOf[s]] \in Nat /\ LengthOf[s] \in Nat
    BY SessionsAssumption, CreditsAssumption
  <2> DEFINE pool == org.pool + Credits[PlanOf[s]] + org.frozen
             left == (IF sub.plan = PlanOf[s] /\ sub.left > 0 THEN sub.left ELSE 0) + LengthOf[s]
  <2>4. pool \in Nat /\ left \in Int
    BY <2>3 DEF TypeOK, SubRow, OrgRow
  <2>5. [job[w] EXCEPT !.step = "commit", !.pool = pool, !.left = left] \in Job
    BY <2>1, <2>4 DEF PayJob, Job
  <2>6. job' = [job EXCEPT ![w] = [job[w] EXCEPT !.step = "commit", !.pool = pool, !.left = left]]
    BY <1>1, <1>3, <2>2 DEF PayRead, TypeOK
  <2>7. job' \in [Processes -> Job]
    BY <2>5, <2>6 DEF TypeOK
  <2>8. QED
    BY <1>3, <2>7 DEF PayRead, TypeOK, history
<1>4. CASE PayCommit(w)
  <2>1. job[w] \in PayJob
    BY <1>1, <1>4, JobKinds DEF PayCommit, At, TypeOK
  <2>2. PICK s \in Sessions : s = job[w].session
    BY <2>1 DEF PayJob
  <2>3. PlanOf[s] \in PaidPlans /\ Credits[PlanOf[s]] \in Nat
    BY SessionsAssumption, CreditsAssumption
  <2>4. sub' \in SubRow
    BY <1>4, <2>1, <2>2, <2>3 DEF PayCommit, Activate, TypeOK, SubRow, PayJob, Plans
  <2>5. org' \in OrgRow
    BY <1>4, <2>1, <2>2, <2>3 DEF PayCommit, Activate, TypeOK, OrgRow, PayJob, Plans
  <2>6. granted' \in Int /\ credited' \in [Sessions -> Nat]
    BY <1>4, <2>2, <2>3 DEF PayCommit, TypeOK
  <2>7. job' \in [Processes -> Job]
    BY <1>1, <1>4, ReturnType DEF PayCommit
  <2>8. QED
    BY <1>4, <2>4, <2>5, <2>6, <2>7 DEF PayCommit, TypeOK
<1>5. QED
  BY <1>2, <1>3, <1>4

LEMMA TrialType ==
  ASSUME TypeOK, NEW w \in Workers, TrialRead(w) \/ TrialCommit(w)
  PROVE  TypeOK'
<1>1. w \in Processes
  BY DEF Processes
<1>2. CASE TrialRead(w)
  BY <1>1, <1>2, CreditsAssumption DEF TrialRead, Start, TypeOK, SubRow, OrgRow, Job, TrialJob, history
<1>3. CASE TrialCommit(w)
  <2>1. job[w] \in TrialJob
    BY <1>1, <1>3, JobKinds DEF TrialCommit, At, TypeOK
  <2>2. job' \in [Processes -> Job]
    BY <1>1, <1>3, ReturnType DEF TrialCommit
  <2>3. sub' \in SubRow
    <3>1. "PRO" \in Plans /\ TrialTime \in Int
      BY TimesAssumption DEF Plans, PaidPlans
    <3>2. QED
      BY <1>3, <3>1 DEF TrialCommit, TypeOK, SubRow
  <2>4. org' \in OrgRow
    BY <1>3, <2>1 DEF TrialCommit, TypeOK, OrgRow, TrialJob, Plans, PaidPlans
  <2>5. granted' \in Int /\ trials' \in Nat
    BY <1>3, CreditsAssumption DEF TrialCommit, TypeOK
  <2>6. QED
    BY <1>3, <2>2, <2>3, <2>4, <2>5 DEF TrialCommit, TypeOK
<1>4. QED
  BY <1>2, <1>3

LEMMA TopUpType ==
  ASSUME TypeOK, NEW w \in Workers, TopUpRead(w) \/ TopUpCheck(w) \/ TopUpCommit(w)
  PROVE  TypeOK'
<1>1. w \in Processes
  BY DEF Processes
<1>2. CASE TopUpRead(w)
  <2>1. PICK c \in Amounts, date \in Dates \cup {NoDate}, plan \in Plans \cup {None} :
          Start(w, [op |-> "topUp", step |-> "check", amount |-> c, pool |-> org.pool + c,
                    extendDate |-> date, planType |-> plan, left |-> 0, plan |-> "FREE"])
    BY <1>2 DEF TopUpRead
  <2>2. org.pool + c \in Nat
    BY CreditsAssumption DEF TypeOK, SubRow, OrgRow
  <2>3. job' \in [Processes -> Job]
    BY <1>1, <2>1, <2>2 DEF Start, TypeOK, Job, TopUpJob, Plans
  <2>4. QED
    BY <1>2, <2>3 DEF TopUpRead, TypeOK, history
<1>3. CASE TopUpCheck(w)
  <2>1. job[w] \in TopUpJob
    BY <1>1, <1>3, JobKinds DEF TopUpCheck, At, TypeOK
  <2> DEFINE end == IF job[w].extendDate = NoDate THEN sub.left ELSE job[w].extendDate
             plan == IF job[w].planType = None THEN sub.plan ELSE job[w].planType
  <2>2. end \in Int /\ plan \in Plans
    <3>1. end \in Int
      <4>1. job[w].extendDate \in Dates \cup {NoDate} /\ sub.left \in Int
        BY <2>1 DEF TopUpJob, TypeOK, SubRow
      <4>2. Dates \subseteq Int
        BY TimesAssumption
      <4>3. QED
        BY <4>1, <4>2, Zenon
    <3>2. plan \in Plans
      BY <2>1 DEF TopUpJob, TypeOK, SubRow
    <3>3. QED
      BY <3>1, <3>2
  <2>3. [job[w] EXCEPT !.step = "commit", !.left = end, !.plan = plan] \in TopUpJob
    BY <2>1, <2>2 DEF TopUpJob
  <2>4. \/ Return(w)
        \/ job' = [job EXCEPT ![w] = [job[w] EXCEPT !.step = "commit", !.left = end, !.plan = plan]]
    BY <1>1, <1>3 DEF TopUpCheck, TypeOK
  <2>5. job' \in [Processes -> Job]
    BY <1>1, <2>3, <2>4, ReturnType DEF TypeOK, Job
  <2>6. QED
    BY <1>3, <2>5 DEF TopUpCheck, TypeOK, history
<1>4. CASE TopUpCommit(w)
  <2>1. job[w] \in TopUpJob
    BY <1>1, <1>4, JobKinds DEF TopUpCommit, At, TypeOK
  <2>2. job' \in [Processes -> Job]
    BY <1>1, <1>4, ReturnType DEF TopUpCommit
  <2>3. granted' \in Int
    BY <1>4, <2>1, CreditsAssumption DEF TopUpCommit, TypeOK, TopUpJob
  <2>4. QED
    BY <1>4, <2>1, <2>2, <2>3 DEF TopUpCommit, TypeOK, SubRow, OrgRow, TopUpJob
<1>5. QED
  BY <1>2, <1>3, <1>4

LEMMA CronType ==
  ASSUME TypeOK, NEW c \in Crons,
         \/ HourlySelect(c) \/ MonthlySelect(c)
         \/ RemindCommit(c) \/ DowngradeCommit(c) \/ ResetCommit(c)
  PROVE  TypeOK'
<1>1. c \in Processes
  BY DEF Processes
<1>2. [op |-> c, step |-> "commit", pool |-> org.pool] \in Job
  BY DEF Job, CronJob, TypeOK, SubRow, OrgRow
<1>3. CASE HourlySelect(c) \/ MonthlySelect(c)
  <2>1. job' \in [Processes -> Job]
    BY <1>1, <1>2, <1>3 DEF HourlySelect, MonthlySelect, Start, TypeOK
  <2>2. QED
    BY <1>3, <2>1 DEF HourlySelect, MonthlySelect, TypeOK, history
<1>4. CASE RemindCommit(c)
  BY <1>1, <1>4, ReturnType DEF RemindCommit, TypeOK, SubRow, OrgRow, history
<1>5. CASE DowngradeCommit(c)
  <2>1. job[c] \in CronJob
    BY <1>1, <1>5, JobKinds DEF DowngradeCommit, At, TypeOK, Crons, Hourly
  <2>2. Excess(job[c].pool) \in Nat
    BY <2>1, CreditsAssumption DEF CronJob, Excess
  <2>3. job' \in [Processes -> Job]
    BY <1>1, <1>5, ReturnType DEF DowngradeCommit
  <2>4. granted' \in Int
    BY <1>5, CreditsAssumption DEF DowngradeCommit, TypeOK, SubRow, OrgRow
  <2>5. sub' \in SubRow
    <3>1. "FREE" \in Plans /\ FreeTime \in Int
      BY TimesAssumption DEF Plans
    <3>2. QED
      BY <1>5, <3>1 DEF DowngradeCommit, TypeOK, SubRow
  <2>6. org' \in OrgRow
    <3>1. "FREE" \in Plans /\ FreeCredits \in Nat
      BY CreditsAssumption DEF Plans
    <3>2. org.frozen + Excess(job[c].pool) \in Nat
      BY <2>2 DEF TypeOK, OrgRow
    <3>3. QED
      BY <1>5, <3>1, <3>2 DEF DowngradeCommit, TypeOK, OrgRow
  <2>7. QED
    BY <1>5, <2>3, <2>4, <2>5, <2>6 DEF DowngradeCommit, TypeOK
<1>6. CASE ResetCommit(c)
  <2>1. job' \in [Processes -> Job]
    BY <1>1, <1>6, ReturnType DEF ResetCommit
  <2>2. QED
    BY <1>6, <2>1, CreditsAssumption DEF ResetCommit, TypeOK, SubRow, OrgRow
<1>7. QED
  BY <1>3, <1>4, <1>5, <1>6

LEMMA OtherType ==
  ASSUME TypeOK,
         (\E p \in Processes : Fails(p)) \/ UpdateOrganization \/ Allocate \/ Revoke \/ Tick
  PROVE  TypeOK'
<1>1. ASSUME NEW p \in Processes, Fails(p) PROVE TypeOK'
  BY <1>1, ReturnType DEF Fails, TypeOK, history
<1>2. CASE UpdateOrganization
  <2>1. PICK allowed \in BOOLEAN, date \in Dates \cup {NoDate} :
          IF date = NoDate
          THEN org' = [org EXCEPT !.trialAllowed = allowed] /\ UNCHANGED sub
          ELSE /\ org' = [org EXCEPT !.trialAllowed = allowed, !.usedTrial = TRUE]
               /\ sub' = [sub EXCEPT !.left = date]
    BY <1>2 DEF UpdateOrganization
  <2>2. org' \in OrgRow
    BY <2>1 DEF TypeOK, OrgRow
  <2>3. sub' \in SubRow
    <3>1. CASE date = NoDate
      BY <2>1, <3>1 DEF TypeOK, SubRow
    <3>2. CASE date # NoDate
      BY <2>1, <3>2, TimesAssumption DEF TypeOK, SubRow
    <3>3. QED
      BY <3>1, <3>2
  <2>4. QED
    BY <1>2, <2>2, <2>3 DEF UpdateOrganization, TypeOK, history
<1>3. CASE Allocate
  BY <1>3, CreditsAssumption DEF Allocate, TypeOK, SubRow, OrgRow, history
<1>4. CASE Revoke
  BY <1>4, CreditsAssumption DEF Revoke, TypeOK, SubRow, OrgRow, history
<1>5. CASE Tick
  <2>1. /\ (IF sub.left > Expired THEN sub.left - 1 ELSE sub.left) \in Int
        /\ (IF sub.quiet < Never THEN sub.quiet + 1 ELSE sub.quiet) \in Nat
    BY TimesAssumption DEF TypeOK, SubRow, OrgRow, Expired, Never
  <2>2. \E left \in Int, quiet \in Nat : sub' = [sub EXCEPT !.left = left, !.quiet = quiet]
    BY <1>5, <2>1 DEF Tick
  <2>3. QED
    BY <1>5, <2>2 DEF Tick, TypeOK, SubRow, OrgRow, history
<1>6. QED
  BY <1>1, <1>2, <1>3, <1>4, <1>5

LEMMA TypeStep == ASSUME TypeOK, [Next]_vars PROVE TypeOK'
<1>1. CASE UNCHANGED vars
  BY <1>1 DEF vars, TypeOK
<1>2. CASE Next
  BY <1>2, PayType, TrialType, TopUpType, CronType, OtherType
     DEF Next, WorkerStep, RequestFinish, CronStep, CronFinish, Processes
<1>3. QED
  BY <1>1, <1>2

\* Rows, balances and handlers' locals are well formed, however the handlers and the
\* crons interleave; in particular no pool and no frozen credits become negative.
THEOREM TypeCorrect == Spec => []TypeOK
<1>1. TypeOK /\ [Next]_vars => TypeOK'
  BY TypeStep
<1>2. QED
  BY TypeInit, <1>1, PTL DEF Spec

-----------------------------------------------------------------------------
(* Handlers that exclude one another.  What the theorems suppose is stated *)
(* of behaviours; that handlers exclude one another brings it about.       *)

\* p alone moves: it stays in its handler, ends it, or begins one it may begin.
Moves(p) ==
    /\ \A q \in Processes \ {p} : job'[q] = job[q]
    /\ \/ job'[p].op \in {"idle", job[p].op}
       \/ job[p] = Idle /\ MayStart(job'[p].op)

Alone(kinds) ==
    \A p, q \in Processes : job[p].op \in kinds /\ job[q].op \in kinds => p = q

LEMMA StartMoves ==
  ASSUME TypeOK, NEW p \in Processes, NEW j, Start(p, j)
  PROVE  Moves(p) /\ job'[p] = j
  BY DEF TypeOK, Start, Moves

LEMMA ReturnMoves ==
  ASSUME TypeOK, NEW p \in Processes, Return(p)
  PROVE  Moves(p) /\ job'[p] = Idle
  BY DEF TypeOK, Return, Moves, Idle

LEMMA RequestMoves ==
  ASSUME TypeOK, TypeOK', NEW w \in Workers, WorkerStep(w)
  PROVE  Moves(w)
<1>1. w \in Processes
  BY DEF Processes
<1>2. CASE PayCheck(w) \/ TrialRead(w) \/ TopUpRead(w)
  BY <1>1, <1>2, StartMoves DEF PayCheck, TrialRead, TopUpRead
<1>3. CASE PayCommit(w) \/ TrialCommit(w) \/ TopUpCommit(w) \/ Fails(w)
  BY <1>1, <1>3, ReturnMoves DEF PayCommit, TrialCommit, TopUpCommit, Fails
<1>4. CASE PayRead(w)
  <2>1. job[w] \in PayJob
    BY <1>1, <1>4, JobKinds DEF PayRead, At, TypeOK
  <2>2. QED
    BY <1>1, <1>4, <2>1 DEF PayRead, TypeOK, PayJob, Moves
<1>5. CASE TopUpCheck(w)
  <2>1. job[w] \in TopUpJob
    BY <1>1, <1>5, JobKinds DEF TopUpCheck, At, TypeOK
  <2>2. QED
    BY <1>1, <1>5, <2>1, ReturnMoves DEF TopUpCheck, TypeOK, TopUpJob, Moves
<1>6. QED
  BY <1>2, <1>3, <1>4, <1>5 DEF WorkerStep, RequestFinish

LEMMA CronMoves ==
  ASSUME TypeOK, NEW c \in Crons, CronStep(c)
  PROVE  job' = job \/ Moves(c)
<1>1. c \in Processes
  BY DEF Processes
<1>2. CASE HourlySelect(c) \/ MonthlySelect(c)
  BY <1>1, <1>2, StartMoves DEF HourlySelect, MonthlySelect
<1>3. CASE CronFinish(c) \/ Fails(c)
  BY <1>1, <1>3, ReturnMoves DEF CronFinish, RemindCommit, DowngradeCommit, ResetCommit, Fails
<1>4. QED
  BY <1>2, <1>3 DEF CronStep

\* At most one handler of kinds that exclude one another is in progress.
LEMMA AloneStep ==
  ASSUME TypeOK, TypeOK', [Next]_vars, NEW kinds, kinds \subseteq Exclusive, "idle" \notin kinds,
         Alone(kinds)
  PROVE  Alone(kinds)'
<1>1. ASSUME NEW p \in Processes, Moves(p) PROVE Alone(kinds)'
  <2>1. CASE job'[p].op \in {"idle", job[p].op}
    BY <1>1, <2>1 DEF Moves, Alone
  <2>2. CASE job[p] = Idle /\ MayStart(job'[p].op)
    BY <1>1, <2>2 DEF Moves, Alone, MayStart, Busy
  <2>3. QED
    BY <1>1, <2>1, <2>2 DEF Moves
<1>2. CASE job' = job
  BY <1>2 DEF Alone
<1>3. CASE \E w \in Workers : WorkerStep(w)
  BY <1>1, <1>3, RequestMoves DEF Processes
<1>4. CASE \E c \in Crons : CronStep(c)
  BY <1>1, <1>2, <1>4, CronMoves DEF Processes
<1>5. QED
  BY <1>2, <1>3, <1>4 DEF Next, UpdateOrganization, Allocate, Revoke, Tick, vars

-----------------------------------------------------------------------------
(* CreditedOnce.                                                           *)

\* What is supposed of payments and trials: no two handlers of one payment are in
\* progress, and no payment is activated while a trial is.
OneDelivery ==
    \A p, q \in Processes :
        job[p].op = "pay" /\ job[q].op = "pay" /\ job[p].session = job[q].session => p = q
TrialsUndisturbed ==
    (\E p \in Processes : job[p].op = "trial") => \A w \in Workers : ~PayCommit(w)

\* Why a payment is credited once: the row names the last session, so that session
\* is refused; one in progress was not credited; and a trial, which would undo
\* the COMPLETED that the check asks for, cannot follow a payment.
OnceInv ==
    /\ TypeOK
    /\ CreditedOnce
    /\ sub.externalId # NoSession => org.usedTrial /\ sub.status = "COMPLETED"
    /\ \A p \in Processes : job[p].op = "pay" => credited[job[p].session] = 0
    /\ \A p \in Processes : job[p].op = "trial" => sub.externalId = NoSession

LEMMA OnceInit == Init => OnceInv
  BY TypeInit DEF Init, OnceInv, CreditedOnce, Idle

\* What keeps the sessions and lets no payment and no trial begin keeps OnceInv.
LEMMA OthersKeepOnce ==
  ASSUME OnceInv, TypeOK', UNCHANGED credited, sub'.externalId = sub.externalId,
         sub'.status \in {"COMPLETED", sub.status}, org'.usedTrial \in {TRUE, org.usedTrial},
         \A p \in Processes : \/ job'[p].op \notin {"pay", "trial"}
                              \/ job'[p].op = job[p].op /\ job'[p].session = job[p].session
                              \/ job'[p] = job[p]
  PROVE  OnceInv'
<1>1. CreditedOnce'
  BY DEF OnceInv, CreditedOnce
<1>2. \A p \in Processes : job'[p].op = "pay" => credited'[job'[p].session] = 0
  BY DEF OnceInv
<1>3. \A p \in Processes : job'[p].op = "trial" => sub'.externalId = NoSession
  BY DEF OnceInv
<1>4. QED
  BY <1>1, <1>2, <1>3 DEF OnceInv

LEMMA PayKeepsOnce ==
  ASSUME OnceInv, TypeOK', OneDelivery, TrialsUndisturbed, ~LateRetries, NEW w \in Workers, PayCheck(w) \/ PayCommit(w)
  PROVE  OnceInv'
<1> w \in Processes
  BY DEF Processes
<1>1. CASE PayCheck(w)
  <2>1. PICK s \in Sessions :
          /\ Delivered(s) /\ ~Processed(s)
          /\ Start(w, [op |-> "pay", step |-> "read", session |-> s, pool |-> 0, left |-> 0])
    BY <1>1 DEF PayCheck
  <2>2. credited[s] = 0
    BY <2>1, SessionsAssumption DEF Delivered, Processed, OnceInv
  <2>3. \A p \in Processes : job'[p].op = "pay" => credited[job'[p].session] = 0
    BY <2>1, <2>2 DEF Start, OnceInv, TypeOK
  <2>4. \A p \in Processes : job'[p].op = "trial" => sub.externalId = NoSession
    BY <2>1 DEF Start, OnceInv, TypeOK
  <2>5. QED
    BY <1>1, <2>3, <2>4 DEF PayCheck, OnceInv, CreditedOnce, history
<1>2. CASE PayCommit(w)
  <2>1. job[w] \in PayJob /\ job[w].op = "pay"
    BY <1>2, JobKinds DEF PayCommit, At, OnceInv, TypeOK
  <2>2. PICK s \in Sessions : s = job[w].session
    BY <2>1 DEF PayJob
  <2>3. CreditedOnce'
    BY <1>2, <2>1, <2>2 DEF PayCommit, OnceInv, CreditedOnce, TypeOK
  <2>4. ASSUME NEW p \in Processes, job'[p].op = "pay" PROVE credited'[job'[p].session] = 0
    <3>1. job'[p] = job[p] /\ p # w
      BY <1>2, <2>4 DEF PayCommit, Return, OnceInv, TypeOK, Idle
    <3>2. job[p] \in PayJob
      BY <2>4, <3>1, JobKinds DEF OnceInv, TypeOK
    <3>3. job[p].session \in Sessions /\ job[p].session # s
      BY <2>1, <2>2, <2>4, <3>1, <3>2 DEF OneDelivery, PayJob
    <3>4. credited'[job[p].session] = credited[job[p].session]
      BY <1>2, <2>2, <3>3 DEF PayCommit, OnceInv, TypeOK
    <3>5. QED
      BY <2>4, <3>1, <3>4 DEF OnceInv
  <2>5. org'.usedTrial /\ sub'.status = "COMPLETED"
    BY <1>2 DEF PayCommit, Activate, OnceInv, TypeOK, SubRow, OrgRow
  <2>6. \A p \in Processes : job'[p].op # "trial"
    BY <1>2 DEF TrialsUndisturbed, PayCommit, Return, OnceInv, TypeOK, Idle
  <2>7. QED
    BY <2>3, <2>4, <2>5, <2>6 DEF OnceInv
<1>3. QED
  BY <1>1, <1>2

LEMMA TrialKeepsOnce ==
  ASSUME OnceInv, TypeOK', NEW w \in Workers, TrialRead(w) \/ TrialCommit(w)
  PROVE  OnceInv'
<1> w \in Processes
  BY DEF Processes
<1>1. CASE TrialRead(w)
  <2>1. sub.externalId = NoSession
    BY <1>1 DEF TrialRead, OnceInv
  <2>2. \A p \in Processes : job'[p].op = "pay" => credited[job'[p].session] = 0
    BY <1>1 DEF TrialRead, Start, OnceInv, TypeOK
  <2>3. QED
    BY <1>1, <2>1, <2>2 DEF TrialRead, OnceInv, CreditedOnce, history
<1>2. CASE TrialCommit(w)
  <2>1. job[w].op = "trial" /\ sub.externalId = NoSession
    BY <1>2 DEF TrialCommit, At, OnceInv
  <2>2. \A p \in Processes : job'[p].op \in {"pay", "trial"} => job'[p] = job[p]
    BY <1>2 DEF TrialCommit, Return, OnceInv, TypeOK, Idle
  <2>3. sub'.externalId = NoSession
    BY <1>2, <2>1 DEF TrialCommit, OnceInv, TypeOK, SubRow
  <2>4. QED
    BY <1>2, <2>2, <2>3 DEF TrialCommit, OnceInv, CreditedOnce
<1>3. QED
  BY <1>1, <1>2

LEMMA OnceStep ==
  ASSUME OnceInv, [Next]_vars, OneDelivery, [TrialsUndisturbed]_vars, ~LateRetries
  PROVE  OnceInv'
<1> USE DEF OnceInv
<1>0. TypeOK'
  BY TypeStep
<1>1. CASE UNCHANGED vars
  BY <1>0, <1>1, OthersKeepOnce DEF vars
<1>2. ASSUME NEW w \in Workers, WorkerStep(w) PROVE OnceInv'
  <2> w \in Processes
    BY DEF Processes
  <2>1. CASE PayCheck(w) \/ PayCommit(w)
    <3>1. CASE TrialsUndisturbed
      BY <1>0, <2>1, <3>1, PayKeepsOnce
    <3>2. QED
      BY <1>1, <3>1
  <2>2. CASE TrialRead(w) \/ TrialCommit(w)
    BY <1>0, <2>2, TrialKeepsOnce
  <2>3. CASE PayRead(w)
    <3>1. job[w] \in PayJob
      BY <2>3, JobKinds DEF PayRead, At, TypeOK
    <3>2. job'[w].op = job[w].op /\ job'[w].session = job[w].session
      BY <2>3, <3>1 DEF PayRead, TypeOK, PayJob
    <3>3. \A p \in Processes \ {w} : job'[p] = job[p]
      BY <2>3 DEF PayRead, TypeOK
    <3>4. QED
      BY <1>0, <2>3, <3>2, <3>3, OthersKeepOnce DEF PayRead, history
  <2>4. CASE TopUpRead(w)
    <3>1. \A p \in Processes : job'[p].op \notin {"pay", "trial"} \/ job'[p] = job[p]
      BY <2>4 DEF TopUpRead, Start, TypeOK
    <3>2. QED
      BY <1>0, <2>4, <3>1, OthersKeepOnce DEF TopUpRead, history
  <2>5. CASE TopUpCheck(w) \/ TopUpCommit(w) \/ Fails(w)
    <3>1. \A p \in Processes : job'[p].op \notin {"pay", "trial"} \/ job'[p] = job[p]
      <4>1. CASE TopUpCheck(w)
        <5>1. job[w] \in TopUpJob
          BY <4>1, JobKinds DEF TopUpCheck, At, TypeOK
        <5>2. QED
          BY <4>1, <5>1 DEF TopUpCheck, Return, Idle, TypeOK, TopUpJob
      <4>2. CASE TopUpCommit(w) \/ Fails(w)
        BY <4>2 DEF TopUpCommit, Fails, Return, Idle, TypeOK
      <4>3. QED
        BY <2>5, <4>1, <4>2
    <3>2. /\ sub'.externalId = sub.externalId /\ sub'.status = sub.status
          /\ org'.usedTrial = org.usedTrial /\ UNCHANGED credited
      BY <2>5 DEF TopUpCheck, TopUpCommit, Fails, TypeOK, SubRow, OrgRow, history
    <3>3. QED
      BY <1>0, <3>1, <3>2, OthersKeepOnce
  <2>6. QED
    BY <1>2, <2>1, <2>2, <2>3, <2>4, <2>5 DEF WorkerStep, RequestFinish
<1>3. ASSUME NEW c \in Crons, CronStep(c) PROVE OnceInv'
  <2> c \in Processes
    BY DEF Processes
  <2>1. \A p \in Processes : job'[p].op \notin {"pay", "trial"} \/ job'[p] = job[p]
    BY <1>3 DEF CronStep, CronFinish, HourlySelect, MonthlySelect, RemindCommit, DowngradeCommit,
                ResetCommit, Fails, Start, Return, Idle, TypeOK, Crons, Hourly
  <2>2. /\ sub'.externalId = sub.externalId /\ sub'.status \in {"COMPLETED", sub.status}
        /\ org'.usedTrial = org.usedTrial /\ UNCHANGED credited
    BY <1>3 DEF CronStep, CronFinish, HourlySelect, MonthlySelect, RemindCommit, DowngradeCommit,
                ResetCommit, Fails, TypeOK, SubRow, OrgRow, history
  <2>3. QED
    BY <1>0, <2>1, <2>2, OthersKeepOnce
<1>4. CASE UpdateOrganization \/ Allocate \/ Revoke \/ Tick
  <2>1. job' = job /\ UNCHANGED credited
    BY <1>4 DEF UpdateOrganization, Allocate, Revoke, Tick, history
  <2>2. /\ sub'.externalId = sub.externalId /\ sub'.status = sub.status
        /\ org'.usedTrial \in {TRUE, org.usedTrial}
    BY <1>4 DEF UpdateOrganization, Allocate, Revoke, Tick, TypeOK, SubRow, OrgRow
  <2>3. QED
    BY <1>0, <2>1, <2>2, OthersKeepOnce
<1>5. QED
  BY <1>1, <1>2, <1>3, <1>4 DEF Next

\* However often a provider reports a payment, it is credited once, if no two reports
\* of one payment are handled at a time, none while a trial is being activated, and no
\* report comes again after that of a later payment; reports of different payments,
\* top-ups, edits, crons and failures interleave without limit.
THEOREM CreditedOnceCorrect ==
  ASSUME ~LateRetries
  PROVE  Spec /\ []OneDelivery /\ [][TrialsUndisturbed]_vars => []CreditedOnce
<1>1. OnceInv /\ OneDelivery /\ [Next]_vars /\ [TrialsUndisturbed]_vars => OnceInv'
  BY OnceStep
<1>2. OnceInv => CreditedOnce
  BY DEF OnceInv
<1>3. QED
  BY OnceInit, <1>1, <1>2, PTL DEF Spec

OneTrial == Alone({"trial"})

LEMMA LockedPayments ==
  ASSUME {"pay", "trial"} \subseteq Exclusive
  PROVE  Spec => []OneDelivery /\ []OneTrial /\ [][TrialsUndisturbed]_vars
<1>1. Init => TypeOK /\ Alone({"pay", "trial"})
  BY TypeInit DEF Init, Alone, Idle
<1>2. TypeOK /\ Alone({"pay", "trial"}) /\ [Next]_vars => TypeOK' /\ Alone({"pay", "trial"})'
  BY TypeStep, AloneStep
<1>3. Alone({"pay", "trial"}) => OneDelivery /\ OneTrial /\ TrialsUndisturbed
  BY DEF Alone, OneDelivery, OneTrial, TrialsUndisturbed, PayCommit, At, Processes
<1>4. QED
  BY <1>1, <1>2, <1>3, PTL DEF Spec

\* So it is enough, for a payment to be credited once, that payments and trials exclude
\* one another and no report comes again after that of a later payment.
THEOREM CreditedOnceLocked ==
  ASSUME {"pay", "trial"} \subseteq Exclusive, ~LateRetries PROVE Spec => []CreditedOnce
  BY LockedPayments, CreditedOnceCorrect, PTL

-----------------------------------------------------------------------------
(* PlansAgree and PlanIsKept.                                              *)

\* What is supposed of the plan: that nobody changes what a handler in progress read
\* of it and relies on, the end date that a downgrade found to be over and the plan that
\* a top-up is about to repeat.
PlanStays ==
    \A p \in Processes : job'[p] = job[p] =>
        /\ job[p].op = "downgrade" => sub'.left = sub.left
        /\ job[p].op = "topUp" /\ job[p].step = "commit" => sub'.plan = sub.plan

\* What a handler read of the subscription still holds when it commits.
PlanFresh(p) ==
    LET j == job[p]
    IN  /\ j.op = "downgrade" => sub.left < 0
        /\ j.op = "topUp" /\ j.step = "commit" =>
             j.plan = IF j.planType = None THEN sub.plan ELSE j.planType

PlanInv ==
    /\ TypeOK
    /\ PlansAgree
    /\ \A p \in Processes : PlanFresh(p)

LEMMA PlanInit == Init => PlanInv
  BY TypeInit DEF Init, PlanInv, PlanFresh, PlansAgree, Idle

\* A step that leaves the plans equal, and each handler with what it read, or with
\* something that is so.
LEMMA PlanKept ==
  ASSUME PlanInv, TypeOK', PlanStays, PlansAgree',
         \A p \in Processes : \/ job'[p] = job[p]
                              \/ job'[p].op \notin {"downgrade", "topUp"}
                              \/ PlanFresh(p)'
  PROVE  PlanInv'
<1>1. ASSUME NEW p \in Processes PROVE PlanFresh(p)'
  <2>1. CASE job'[p] = job[p]
    BY <2>1 DEF PlanInv, PlanFresh, PlanStays
  <2>2. CASE job'[p].op \notin {"downgrade", "topUp"}
    BY <2>2 DEF PlanFresh
  <2>3. QED
    BY <2>1, <2>2
<1>2. QED
  BY <1>1 DEF PlanInv

\* A step that leaves the plans alone.
LEMMA OthersKeepPlan ==
  ASSUME PlanInv, TypeOK', PlanStays, sub'.plan = sub.plan, org'.plan = org.plan,
         \A p \in Processes : job'[p] = job[p] \/ job'[p].op \notin {"downgrade", "topUp"}
  PROVE  PlanInv'
<1>1. PlansAgree'
  BY DEF PlanInv, PlansAgree
<1>2. QED
  BY <1>1, PlanKept

\* A commit that leaves the plans equal.
LEMMA PlannerEnds ==
  ASSUME PlanInv, TypeOK', PlanStays, NEW p \in Processes, Return(p), PlansAgree'
  PROVE  PlanInv'
<1>1. \A q \in Processes : job'[q] = job[q] \/ job'[q].op \notin {"downgrade", "topUp"}
  BY DEF PlanInv, Return, Idle, TypeOK
<1>2. QED
  BY <1>1, PlanKept

LEMMA TopUpKeepsPlan ==
  ASSUME PlanInv, TypeOK', PlanStays, NEW w \in Workers,
         TopUpRead(w) \/ TopUpCheck(w) \/ TopUpCommit(w)
  PROVE  PlanInv'
<1> w \in Processes
  BY DEF Processes
<1>1. CASE TopUpRead(w)
  <2>1. /\ job'[w].op = "topUp" /\ job'[w].step = "check"
        /\ \A p \in Processes \ {w} : job'[p] = job[p]
    BY <1>1 DEF TopUpRead, Start, PlanInv, TypeOK
  <2>2. PlanFresh(w)' /\ PlansAgree'
    BY <1>1, <2>1 DEF TopUpRead, PlanFresh, PlanInv, PlansAgree
  <2>3. QED
    BY <2>1, <2>2, PlanKept
<1>2. CASE TopUpCheck(w)
  <2>1. job[w] \in TopUpJob
    BY <1>2, JobKinds DEF TopUpCheck, At, PlanInv, TypeOK
  <2>2. \A p \in Processes \ {w} : job'[p] = job[p]
    BY <1>2 DEF TopUpCheck, Return, PlanInv, TypeOK
  <2>3. \/ job'[w] = Idle
        \/ /\ job'[w].op = "topUp" /\ job'[w].planType = job[w].planType
           /\ job'[w].plan = IF job[w].planType = None THEN sub.plan ELSE job[w].planType
    BY <1>2, <2>1 DEF TopUpCheck, Return, PlanInv, TypeOK, TopUpJob
  <2>4. PlanFresh(w)' /\ PlansAgree'
    BY <1>2, <2>3 DEF TopUpCheck, PlanFresh, PlanInv, PlansAgree, Idle
  <2>5. QED
    BY <2>2, <2>4, PlanKept
<1>3. CASE TopUpCommit(w)
  <2>1. job[w].op = "topUp" /\ job[w].step = "commit"
    BY <1>3 DEF TopUpCommit, At
  <2>2. job[w].plan = IF job[w].planType = None THEN sub.plan ELSE job[w].planType
    BY <2>1 DEF PlanInv, PlanFresh
  <2>3. org'.plan = job[w].plan
    BY <1>3 DEF TopUpCommit, PlanInv, TypeOK, OrgRow
  <2>4. CASE SaysPlanOrDate(job[w])
    <3>1. sub'.plan = job[w].plan
      BY <1>3, <2>4 DEF TopUpCommit, PlanInv, TypeOK, SubRow
    <3>2. QED
      BY <1>3, <2>1, <2>3, <3>1, PlannerEnds DEF TopUpCommit, PlansAgree
  <2>5. CASE ~SaysPlanOrDate(job[w])
    <3>1. sub'.plan = job[w].plan
      BY <1>3, <2>2, <2>5 DEF TopUpCommit, SaysPlanOrDate
    <3>2. QED
      BY <1>3, <2>1, <2>3, <3>1, PlannerEnds DEF TopUpCommit, PlansAgree
  <2>6. QED
    BY <2>4, <2>5
<1>4. QED
  BY <1>1, <1>2, <1>3

LEMMA RequestKeepsPlan ==
  ASSUME PlanInv, TypeOK', PlanStays, NEW w \in Workers, WorkerStep(w)
  PROVE  PlanInv'
<1> w \in Processes
  BY DEF Processes
<1>1. CASE TopUpRead(w) \/ TopUpCheck(w) \/ TopUpCommit(w)
  BY <1>1, TopUpKeepsPlan
<1>2. CASE PayCheck(w) \/ PayRead(w) \/ TrialRead(w) \/ Fails(w)
  <2>1. CASE PayRead(w)
    <3>1. job[w] \in PayJob
      BY <2>1, JobKinds DEF PayRead, At, PlanInv, TypeOK
    <3>2. QED
      BY <2>1, <3>1, OthersKeepPlan DEF PayRead, PlanInv, TypeOK, PayJob
  <2>2. CASE PayCheck(w) \/ TrialRead(w) \/ Fails(w)
    BY <2>2, OthersKeepPlan DEF PayCheck, TrialRead, Fails, Start, Return, Idle, PlanInv, TypeOK
  <2>3. QED
    BY <1>2, <2>1, <2>2
<1>3. CASE PayCommit(w)
  <2>1. PlansAgree'
    BY <1>3 DEF PayCommit, Activate, PlansAgree, PlanInv, TypeOK, SubRow, OrgRow
  <2>2. QED
    BY <1>3, <2>1, PlannerEnds DEF PayCommit
<1>4. CASE TrialCommit(w)
  <2>1. PlansAgree'
    BY <1>4 DEF TrialCommit, PlansAgree, PlanInv, TypeOK, SubRow, OrgRow
  <2>2. QED
    BY <1>4, <2>1, PlannerEnds DEF TrialCommit
<1>5. QED
  BY <1>1, <1>2, <1>3, <1>4 DEF WorkerStep, RequestFinish

LEMMA CronKeepsPlan ==
  ASSUME PlanInv, TypeOK', PlanStays, NEW c \in Crons, CronStep(c)
  PROVE  PlanInv'
<1> c \in Processes
  BY DEF Processes
<1>1. CASE HourlySelect(c) \/ MonthlySelect(c)
  <2>1. \A p \in Processes \ {c} : job'[p] = job[p]
    BY <1>1 DEF HourlySelect, MonthlySelect, Start, PlanInv, TypeOK
  <2>2. \/ job'[c] = job[c]
        \/ job'[c].op \notin {"downgrade", "topUp"}
        \/ job'[c].op = "downgrade" /\ sub.left < 0
    <3>1. job' = job \/ job'[c].op = c
      BY <1>1 DEF HourlySelect, MonthlySelect, Start, PlanInv, TypeOK
    <3>2. job' = job \/ c # "downgrade" \/ sub.left < 0
      BY <1>1 DEF HourlySelect, MonthlySelect, Hourly, DowngradeFinds
    <3>3. c # "topUp"
      BY DEF Crons, Hourly
    <3>4. QED
      BY <3>1, <3>2, <3>3
  <2>3. UNCHANGED <<sub, org>>
    BY <1>1 DEF HourlySelect, MonthlySelect
  <2>4. PlansAgree'
    BY <2>3 DEF PlanInv, PlansAgree
  <2>5. job'[c] = job[c] \/ job'[c].op \notin {"downgrade", "topUp"} \/ PlanFresh(c)'
    BY <2>2, <2>3 DEF PlanFresh
  <2>6. QED
    BY <2>1, <2>4, <2>5, PlanKept
<1>2. CASE DowngradeCommit(c)
  <2>1. PlansAgree'
    BY <1>2 DEF DowngradeCommit, PlansAgree, PlanInv, TypeOK, SubRow, OrgRow
  <2>2. QED
    BY <1>2, <2>1, PlannerEnds DEF DowngradeCommit
<1>3. CASE RemindCommit(c) \/ ResetCommit(c) \/ Fails(c)
  BY <1>3, OthersKeepPlan
     DEF RemindCommit, ResetCommit, Fails, Return, Idle, PlanInv, TypeOK, SubRow, OrgRow
<1>4. QED
  BY <1>1, <1>2, <1>3 DEF CronStep, CronFinish

LEMMA PlanStep ==
  ASSUME PlanInv, [Next]_vars, [PlanStays]_vars
  PROVE  PlanInv'
<1>1. TypeOK'
  BY TypeStep DEF PlanInv
<1>2. CASE UNCHANGED vars
  BY <1>2 DEF vars, PlanInv, PlanFresh, PlansAgree, TypeOK
<1>3. ASSUME NEW w \in Workers, WorkerStep(w), PlanStays PROVE PlanInv'
  BY <1>1, <1>3, RequestKeepsPlan
<1>4. ASSUME NEW c \in Crons, CronStep(c), PlanStays PROVE PlanInv'
  BY <1>1, <1>4, CronKeepsPlan
<1>5. ASSUME UpdateOrganization \/ Allocate \/ Revoke \/ Tick, PlanStays PROVE PlanInv'
  <2>1. job' = job
    BY <1>5 DEF UpdateOrganization, Allocate, Revoke, Tick
  <2>2. sub'.plan = sub.plan /\ org'.plan = org.plan
    BY <1>5 DEF UpdateOrganization, Allocate, Revoke, Tick, PlanInv, TypeOK, SubRow, OrgRow
  <2>3. QED
    BY <1>1, <1>5, <2>1, <2>2, OthersKeepPlan
<1>6. QED
  BY <1>2, <1>3, <1>4, <1>5 DEF Next

\* A step that takes a paid plan away is a downgrade after its end or a top-up that
\* says FREE.
LEMMA KeptByStep ==
  ASSUME PlanInv, [Next]_vars, sub.plan # "FREE", sub'.plan = "FREE"
  PROVE  \/ sub.left < 0
         \/ \E w \in Workers : job[w].op = "topUp" /\ job[w].planType = "FREE"
<1>1. ASSUME NEW w \in Workers, WorkerStep(w)
      PROVE  job[w].op = "topUp" /\ job[w].planType = "FREE"
  <2> w \in Processes
    BY DEF Processes
  <2>1. CASE PayCommit(w)
    <3>1. job[w].session \in Sessions
      BY <2>1, JobKinds DEF PayCommit, At, PlanInv, TypeOK, PayJob
    <3>2. sub'.plan \in PaidPlans
      BY <2>1, <3>1, SessionsAssumption DEF PayCommit, Activate, PlanInv, TypeOK, SubRow
    <3>3. QED
      BY <3>2 DEF PaidPlans
  <2>2. CASE TrialCommit(w)
    BY <2>2 DEF TrialCommit, PlanInv, TypeOK, SubRow
  <2>3. CASE TopUpCommit(w)
    <3>1. sub'.plan \in {sub.plan, job[w].plan}
      BY <2>3 DEF TopUpCommit, PlanInv, TypeOK, SubRow
    <3>2. job[w].plan = IF job[w].planType = None THEN sub.plan ELSE job[w].planType
      BY <2>3 DEF TopUpCommit, At, PlanInv, PlanFresh
    <3>3. QED
      BY <2>3, <3>1, <3>2 DEF TopUpCommit, At
  <2>4. QED
    BY <1>1, <2>1, <2>2, <2>3
       DEF WorkerStep, RequestFinish, PayCheck, PayRead, TrialRead, TopUpRead, TopUpCheck, Fails
<1>2. ASSUME NEW c \in Crons, CronStep(c) PROVE sub.left < 0
  <2> c \in Processes
    BY DEF Processes
  <2>1. CASE DowngradeCommit(c)
    BY <2>1 DEF DowngradeCommit, At, PlanInv, PlanFresh
  <2>2. CASE RemindCommit(c)
    BY <2>2 DEF RemindCommit, PlanInv, TypeOK, SubRow
  <2>3. QED
    BY <1>2, <2>1, <2>2 DEF CronStep, CronFinish, HourlySelect, MonthlySelect, ResetCommit, Fails
<1>3. ~(UpdateOrganization \/ Allocate \/ Revoke \/ Tick \/ UNCHANGED vars)
  BY DEF UpdateOrganization, Allocate, Revoke, Tick, vars, PlanInv, TypeOK, SubRow
<1>4. QED
  BY <1>1, <1>2, <1>3 DEF Next

\* The plan is the same on the subscription and on the organization, if nobody changes
\* what a handler in progress read of it and relies on.
THEOREM PlansAgreeCorrect == Spec /\ [][PlanStays]_vars => []PlansAgree
<1>1. PlanInv /\ [Next]_vars /\ [PlanStays]_vars => PlanInv'
  BY PlanStep
<1>2. PlanInv => PlansAgree
  BY DEF PlanInv
<1>3. QED
  BY PlanInit, <1>1, <1>2, PTL DEF Spec

\* A paid plan is not taken away before its end but by a top-up that says so, under
\* the same assumption.
THEOREM PlanIsKeptCorrect == Spec /\ [][PlanStays]_vars => PlanIsKept
<1>1. PlanInv /\ [Next]_vars /\ [PlanStays]_vars => PlanInv'
  BY PlanStep
<1>2. PlanInv /\ [Next]_vars =>
        [sub.plan # "FREE" /\ sub'.plan = "FREE" =>
           \/ sub.left < 0
           \/ \E w \in Workers : job[w].op = "topUp" /\ job[w].planType = "FREE"]_vars
  BY KeptByStep
<1>3. QED
  BY PlanInit, <1>1, <1>2, PTL DEF Spec, PlanIsKept

\* The handlers that write the plan or bring the end date forward.
Planners == {"pay", "trial", "topUp", "update", "downgrade"}

\* One of them changes the plan or its date as it commits, or time does.
LEMMA PlannersWrite ==
  ASSUME TypeOK, Planners \subseteq Exclusive, Next, NEW p \in Processes,
         job[p].op \in Planners, sub'.plan # sub.plan \/ sub'.left # sub.left
  PROVE  \E q \in Processes : job[q].op \in Planners /\ job'[q] = Idle
<1>1. ASSUME NEW w \in Workers, WorkerStep(w)
      PROVE  job[w].op \in Planners /\ job'[w] = Idle
  <2>1. PayCommit(w) \/ TrialCommit(w) \/ TopUpCommit(w)
    BY <1>1 DEF WorkerStep, RequestFinish, PayCheck, PayRead, TrialRead, TopUpRead, TopUpCheck,
                Fails
  <2>2. QED
    BY <2>1 DEF PayCommit, TrialCommit, TopUpCommit, At, Return, Planners, Processes, TypeOK
<1>2. ASSUME NEW c \in Crons, CronStep(c)
      PROVE  job[c].op \in Planners /\ job'[c] = Idle
  <2>1. CASE RemindCommit(c)
    BY <2>1 DEF RemindCommit, TypeOK, SubRow
  <2>2. CASE DowngradeCommit(c)
    BY <2>2 DEF DowngradeCommit, At, Return, Planners, Processes, TypeOK
  <2>3. QED
    BY <1>2, <2>1, <2>2 DEF CronStep, CronFinish, HourlySelect, MonthlySelect, ResetCommit, Fails
<1>3. ~(UpdateOrganization \/ Allocate \/ Revoke \/ Tick)
  <2>1. ~UpdateOrganization
    BY DEF UpdateOrganization, MayStart, Busy, Planners
  <2>2. ~Tick
    BY DEF Tick, Idle, Planners
  <2>3. QED
    BY <2>1, <2>2 DEF Allocate, Revoke
<1>4. QED
  BY <1>1, <1>2, <1>3 DEF Next, Processes

LEMMA LockedPlans ==
  ASSUME Planners \subseteq Exclusive
  PROVE  Spec => [][PlanStays]_vars
<1>1. Init => TypeOK /\ Alone(Planners)
  BY TypeInit DEF Init, Alone, Idle, Planners
<1>2. TypeOK /\ Alone(Planners) /\ [Next]_vars => TypeOK' /\ Alone(Planners)'
  BY TypeStep, AloneStep DEF Planners
<1>3. TypeOK /\ Alone(Planners) /\ [Next]_vars => [PlanStays]_vars
  <2> SUFFICES ASSUME TypeOK, Alone(Planners), Next, NEW p \in Processes, job'[p] = job[p],
                      job[p].op \in Planners
               PROVE  sub'.plan = sub.plan /\ sub'.left = sub.left
    BY DEF PlanStays, Planners
  <2>1. ASSUME NEW q \in Processes, job[q].op \in Planners, job'[q] = Idle PROVE FALSE
    <3>1. q = p
      BY <2>1 DEF Alone
    <3>2. QED
      BY <2>1, <3>1 DEF Idle, Planners
  <2>2. QED
    BY <2>1, PlannersWrite
<1>4. QED
  BY <1>1, <1>2, <1>3, PTL DEF Spec

\* So it is enough, for the two copies of the plan to agree, that the handlers that
\* write the plan or its end exclude one another.
THEOREM PlansAgreeLocked == ASSUME Planners \subseteq Exclusive PROVE Spec => []PlansAgree
  BY LockedPlans, PlansAgreeCorrect, PTL

\* The same exclusion is enough for a paid plan to be kept until its end.
THEOREM PlanIsKeptLocked == ASSUME Planners \subseteq Exclusive PROVE Spec => PlanIsKept
  BY LockedPlans, PlanIsKeptCorrect, PTL

-----------------------------------------------------------------------------
(* Conserved: the handlers that write the pool write what they computed    *)
(* from a read of it, which still holds if nobody wrote the pool since.    *)

\* What is supposed of the pool: that nobody changes it, or what is frozen of it, while
\* a handler is in progress that computed what it writes from it.  A reset computes
\* nothing.
HasRead(p) ==
    \/ job[p].op = "pay" /\ job[p].step = "commit"
    \/ job[p].op \in {"trial", "topUp", "downgrade"}
PoolStays ==
    \A p \in Processes : HasRead(p) /\ job'[p] = job[p] =>
        org'.pool = org.pool /\ org'.frozen = org.frozen

\* What a handler is about to write is computed from the pool as it is.
Fresh(p) ==
    LET j == job[p]
    IN  /\ j.op = "pay" /\ j.step = "commit" =>
             j.pool = org.pool + Credits[PlanOf[j.session]] + org.frozen
        /\ j.op = "trial" => j.pool = org.pool + TrialCredits /\ j.frozen = org.frozen
        /\ j.op = "topUp" => j.pool = org.pool + j.amount
        /\ j.op = "downgrade" => j.pool = org.pool

MovedInv ==
    /\ TypeOK
    /\ Conserved
    /\ \A p \in Processes : Fresh(p)

LEMMA MovedInit == Init => MovedInv
<1> SUFFICES ASSUME Init PROVE MovedInv
  OBVIOUS
<1>1. \A p \in Processes : Fresh(p)
  BY DEF Init, Fresh, Idle
<1>2. Conserved
  BY CreditsAssumption DEF Init, Conserved
<1>3. QED
  BY TypeInit, <1>1, <1>2 DEF MovedInv

\* A step that conserves the credits, and leaves each handler with what it read, or
\* with something read now.
LEMMA MovedKept ==
  ASSUME MovedInv, TypeOK', PoolStays, Conserved',
         \A p \in Processes : job'[p] = job[p] \/ job'[p] = Idle \/ Fresh(p)'
  PROVE  MovedInv'
<1>1. ASSUME NEW p \in Processes PROVE Fresh(p)'
  <2>1. CASE job'[p] = job[p] /\ HasRead(p)
    <3>1. org'.pool = org.pool /\ org'.frozen = org.frozen
      BY <2>1 DEF PoolStays
    <3>2. QED
      BY <2>1, <3>1 DEF MovedInv, Fresh
  <2>2. CASE job'[p] = job[p] /\ ~HasRead(p)
    BY <2>2 DEF Fresh, HasRead
  <2>3. CASE job'[p] = Idle
    BY <2>3 DEF Fresh, Idle
  <2>4. QED
    BY <1>1, <2>1, <2>2, <2>3
<1>2. QED
  BY <1>1 DEF MovedInv

\* A step that moves no credits.
LEMMA OthersKeepMoved ==
  ASSUME MovedInv, TypeOK', PoolStays,
         org'.pool = org.pool, org'.frozen = org.frozen, out' = out, granted' = granted,
         \A p \in Processes : job'[p] = job[p] \/ job'[p] = Idle \/ Fresh(p)'
  PROVE  MovedInv'
<1>1. Conserved'
  BY DEF MovedInv, Conserved
<1>2. QED
  BY <1>1, MovedKept

\* A commit that conserves the credits.
LEMMA MoverEnds ==
  ASSUME MovedInv, TypeOK', PoolStays, NEW p \in Processes, Return(p), Conserved'
  PROVE  MovedInv'
<1>1. \A q \in Processes : job'[q] = job[q] \/ job'[q] = Idle
  BY DEF MovedInv, Return, TypeOK
<1>2. QED
  BY <1>1, MovedKept

LEMMA ReadsKeepMoved ==
  ASSUME MovedInv, TypeOK', PoolStays, NEW w \in Workers,
         PayCheck(w) \/ PayRead(w) \/ TrialRead(w) \/ TopUpRead(w) \/ TopUpCheck(w) \/ Fails(w)
  PROVE  MovedInv'
<1> w \in Processes
  BY DEF Processes
<1>0. TypeOK /\ org' = org /\ out' = out /\ granted' = granted
  BY DEF MovedInv, PayCheck, PayRead, TrialRead, TopUpRead, TopUpCheck, Fails, history
<1>1. ASSUME \A p \in Processes \ {w} : job'[p] = job[p],
             job'[w] = Idle \/ Fresh(w)'
      PROVE  MovedInv'
  BY <1>0, <1>1, OthersKeepMoved
<1>2. CASE PayCheck(w)
  <2>1. PICK s \in Sessions :
          Start(w, [op |-> "pay", step |-> "read", session |-> s, pool |-> 0, left |-> 0])
    BY <1>2 DEF PayCheck
  <2>2. QED
    BY <1>0, <1>1, <2>1 DEF Start, TypeOK, Fresh
<1>3. CASE PayRead(w)
  <2>1. job[w] \in PayJob
    BY <1>0, <1>3, JobKinds DEF PayRead, At, TypeOK
  <2>2. PICK s \in Sessions : s = job[w].session
    BY <2>1 DEF PayJob
  <2>3. /\ job'[w].op = "pay" /\ job'[w].session = s
        /\ job'[w].pool = org.pool + Credits[PlanOf[s]] + org.frozen
        /\ \A p \in Processes \ {w} : job'[p] = job[p]
    BY <1>0, <1>3, <2>1, <2>2 DEF PayRead, At, TypeOK, PayJob
  <2>4. QED
    BY <1>0, <1>1, <2>3 DEF Fresh
<1>4. CASE TrialRead(w)
  BY <1>0, <1>1, <1>4 DEF TrialRead, Start, TypeOK, Fresh
<1>5. CASE TopUpRead(w)
  <2>1. PICK c \in Amounts, date \in Dates \cup {NoDate}, plan \in Plans \cup {None} :
          Start(w, [op |-> "topUp", step |-> "check", amount |-> c, pool |-> org.pool + c,
                    extendDate |-> date, planType |-> plan, left |-> 0, plan |-> "FREE"])
    BY <1>5 DEF TopUpRead
  <2>2. QED
    BY <1>0, <1>1, <2>1 DEF Start, TypeOK, Fresh
<1>6. CASE TopUpCheck(w)
  <2>1. job[w] \in TopUpJob /\ job[w].op = "topUp"
    BY <1>0, <1>6, JobKinds DEF TopUpCheck, At, TypeOK
  <2>2. \A p \in Processes \ {w} : job'[p] = job[p]
    BY <1>0, <1>6 DEF TopUpCheck, Return, TypeOK
  <2>3. \/ job'[w] = Idle
        \/ /\ job'[w].op = "topUp" /\ job'[w].pool = job[w].pool
           /\ job'[w].amount = job[w].amount
    BY <1>0, <1>6, <2>1 DEF TopUpCheck, Return, TypeOK, TopUpJob
  <2>4. job[w].pool = org.pool + job[w].amount
    BY <2>1 DEF MovedInv, Fresh
  <2>5. QED
    BY <1>0, <1>1, <2>2, <2>3, <2>4 DEF Fresh
<1>7. CASE Fails(w)
  BY <1>0, <1>1, <1>7 DEF Fails, Return, TypeOK
<1>8. QED
  BY <1>2, <1>3, <1>4, <1>5, <1>6, <1>7

LEMMA CommitsKeepMoved ==
  ASSUME MovedInv, TypeOK', PoolStays, NEW w \in Workers,
         PayCommit(w) \/ TrialCommit(w) \/ TopUpCommit(w)
  PROVE  MovedInv'
<1> w \in Processes
  BY DEF Processes
<1>0. /\ TypeOK /\ org.pool \in Nat /\ org.frozen \in Nat /\ out \in Nat /\ granted \in Int
      /\ org.pool + org.frozen + out = granted /\ out' = out /\ Fresh(w)
  BY DEF MovedInv, Conserved, TypeOK, OrgRow, PayCommit, TrialCommit, TopUpCommit
<1>1. CASE PayCommit(w)
  <2>1. job[w] \in PayJob /\ job[w].op = "pay" /\ job[w].step = "commit"
    BY <1>0, <1>1, JobKinds DEF PayCommit, At, TypeOK
  <2>2. PICK s \in Sessions : s = job[w].session
    BY <2>1 DEF PayJob
  <2>3. PICK c \in Nat : c = Credits[PlanOf[s]]
    BY SessionsAssumption, CreditsAssumption
  <2>4. job[w].pool = org.pool + c + org.frozen
    BY <1>0, <2>1, <2>2, <2>3 DEF Fresh
  <2>5. org'.pool = job[w].pool /\ org'.frozen = 0 /\ granted' = granted + c
    BY <1>0, <1>1, <2>2, <2>3 DEF PayCommit, Activate, TypeOK, OrgRow
  <2>6. Conserved'
    BY <1>0, <2>4, <2>5 DEF Conserved
  <2>7. QED
    BY <1>1, <2>1, <2>6, MoverEnds DEF PayCommit
<1>2. CASE TrialCommit(w)
  <2>1. job[w].op = "trial"
    BY <1>2 DEF TrialCommit, At
  <2>2. /\ org'.pool = org.pool + TrialCredits /\ org'.frozen = org.frozen
        /\ granted' = granted + TrialCredits
    BY <1>0, <1>2, <2>1 DEF TrialCommit, TypeOK, OrgRow, Fresh
  <2>3. Conserved'
    BY <1>0, <2>2, CreditsAssumption DEF Conserved
  <2>4. QED
    BY <1>2, <2>1, <2>3, MoverEnds DEF TrialCommit
<1>3. CASE TopUpCommit(w)
  <2>1. job[w] \in TopUpJob /\ job[w].op = "topUp"
    BY <1>0, <1>3, JobKinds DEF TopUpCommit, At, TypeOK
  <2>2. PICK c \in Nat : c = job[w].amount
    BY <2>1, CreditsAssumption DEF TopUpJob
  <2>3. org'.pool = org.pool + c /\ org'.frozen = org.frozen /\ granted' = granted + c
    BY <1>0, <1>3, <2>1, <2>2 DEF TopUpCommit, TypeOK, OrgRow, Fresh
  <2>4. Conserved'
    BY <1>0, <2>3 DEF Conserved
  <2>5. QED
    BY <1>3, <2>1, <2>4, MoverEnds DEF TopUpCommit
<1>4. QED
  BY <1>1, <1>2, <1>3

LEMMA CronsKeepMoved ==
  ASSUME MovedInv, TypeOK', PoolStays, NEW c \in Crons, CronStep(c)
  PROVE  MovedInv'
<1> c \in Processes
  BY DEF Processes
<1>0. /\ TypeOK /\ org.pool \in Nat /\ org.frozen \in Nat /\ out \in Nat /\ granted \in Int
      /\ org.pool + org.frozen + out = granted /\ Fresh(c) /\ FreeCredits \in Nat
  BY CreditsAssumption DEF MovedInv, Conserved, TypeOK, OrgRow
<1>1. CASE HourlySelect(c) \/ MonthlySelect(c)
  <2>1. /\ \A p \in Processes \ {c} : job'[p] = job[p]
        /\ job'[c] = job[c] \/ job'[c] = [op |-> c, step |-> "commit", pool |-> org.pool]
        /\ org' = org /\ out' = out /\ granted' = granted
    BY <1>0, <1>1 DEF HourlySelect, MonthlySelect, Start, TypeOK, history
  <2>2. job'[c] = job[c] \/ Fresh(c)'
    BY <2>1 DEF Fresh, Crons, Hourly
  <2>3. QED
    BY <2>1, <2>2, OthersKeepMoved
<1>2. CASE RemindCommit(c) \/ Fails(c)
  <2>1. /\ \A p \in Processes : job'[p] = job[p] \/ job'[p] = Idle
        /\ org' = org /\ out' = out /\ granted' = granted
    BY <1>0, <1>2 DEF RemindCommit, Fails, Return, TypeOK, history
  <2>2. QED
    BY <2>1, OthersKeepMoved
<1>3. CASE DowngradeCommit(c)
  <2>1. job[c].op = "downgrade" /\ job[c].pool = org.pool
    BY <1>0, <1>3 DEF DowngradeCommit, At, Fresh
  <2>2. /\ org'.pool = FreeCredits /\ org'.frozen = org.frozen + Excess(org.pool) /\ out' = out
        /\ granted' = IF org.pool < FreeCredits THEN granted + (FreeCredits - org.pool)
                      ELSE granted
    BY <1>0, <1>3, <2>1 DEF DowngradeCommit, TypeOK, OrgRow
  <2>3. Conserved'
    BY <1>0, <2>2 DEF Conserved, Excess
  <2>4. QED
    BY <1>3, <2>1, <2>3, MoverEnds DEF DowngradeCommit
<1>4. CASE ResetCommit(c)
  <2>1. job[c].op = "reset"
    BY <1>4 DEF ResetCommit, At
  <2>2. /\ org'.pool = FreeCredits /\ org'.frozen = org.frozen /\ out' = out
        /\ granted' = granted + (FreeCredits - org.pool)
    BY <1>0, <1>4 DEF ResetCommit, TypeOK, OrgRow
  <2>3. Conserved'
    BY <1>0, <2>2 DEF Conserved
  <2>4. QED
    BY <1>4, <2>1, <2>3, MoverEnds DEF ResetCommit
<1>5. QED
  BY <1>1, <1>2, <1>3, <1>4 DEF CronStep, CronFinish

LEMMA MovedStep ==
  ASSUME MovedInv, [Next]_vars, [PoolStays]_vars
  PROVE  MovedInv'
<1>1. TypeOK /\ TypeOK'
  BY TypeStep DEF MovedInv
<1>2. CASE UNCHANGED vars
  BY <1>2 DEF vars, MovedInv, Fresh, Conserved, TypeOK
<1>3. ASSUME NEW w \in Workers, WorkerStep(w), PoolStays PROVE MovedInv'
  BY <1>1, <1>3, ReadsKeepMoved, CommitsKeepMoved DEF WorkerStep, RequestFinish
<1>4. ASSUME NEW c \in Crons, CronStep(c), PoolStays PROVE MovedInv'
  BY <1>1, <1>4, CronsKeepMoved
<1>5. ASSUME UpdateOrganization \/ Tick, PoolStays PROVE MovedInv'
  <2>1. /\ job' = job /\ out' = out /\ granted' = granted
        /\ org'.pool = org.pool /\ org'.frozen = org.frozen
    BY <1>1, <1>5 DEF UpdateOrganization, Tick, TypeOK, OrgRow, history
  <2>2. QED
    BY <1>1, <1>5, <2>1, OthersKeepMoved
<1>6. ASSUME Allocate \/ Revoke, PoolStays PROVE MovedInv'
  <2>1. job' = job
    BY <1>6 DEF Allocate, Revoke
  <2>2. PICK c \in Amounts :
          \/ org' = [org EXCEPT !.pool = @ - c] /\ out' = out + c
          \/ org' = [org EXCEPT !.pool = @ + c] /\ out' = out - c
    BY <1>6 DEF Allocate, Revoke
  <2>3. c \in Nat /\ granted' = granted
    BY <1>6, CreditsAssumption DEF Allocate, Revoke, history
  <2>4. Conserved'
    BY <1>1, <2>2, <2>3 DEF MovedInv, Conserved, TypeOK, OrgRow
  <2>5. QED
    BY <1>1, <1>6, <2>1, <2>4, MovedKept
<1>7. QED
  BY <1>2, <1>3, <1>4, <1>5, <1>6 DEF Next

\* The pool, the frozen credits and what the staff holds are what was granted, if no
\* write of the pool comes between the read and the write of another handler: a
\* downgrade freezes what it takes and a payment restores it once, with any failures,
\* reminders and edits between.
THEOREM ConservedCorrect == Spec /\ [][PoolStays]_vars => []Conserved
<1>1. MovedInv /\ [Next]_vars /\ [PoolStays]_vars => MovedInv'
  BY MovedStep
<1>2. MovedInv => Conserved
  BY DEF MovedInv
<1>3. QED
  BY MovedInit, <1>1, <1>2, PTL DEF Spec

\* The handlers that read the pool and write it, and those that move its credits.
Movers == {"pay", "trial", "topUp", "downgrade", "reset", "staff"}

\* One of them changes the pool as it commits.
LEMMA MoversWrite ==
  ASSUME TypeOK, Movers \subseteq Exclusive, Next, NEW p \in Processes,
         job[p].op \in Movers, org'.pool # org.pool \/ org'.frozen # org.frozen
  PROVE  \E q \in Processes : job[q].op \in Movers /\ job'[q] = Idle
<1>1. ASSUME NEW w \in Workers, WorkerStep(w)
      PROVE  job[w].op \in Movers /\ job'[w] = Idle
  <2>1. PayCommit(w) \/ TrialCommit(w) \/ TopUpCommit(w)
    BY <1>1 DEF WorkerStep, RequestFinish, PayCheck, PayRead, TrialRead, TopUpRead, TopUpCheck,
                Fails
  <2>2. QED
    BY <2>1 DEF PayCommit, TrialCommit, TopUpCommit, At, Return, Movers, Processes, TypeOK
<1>2. ASSUME NEW c \in Crons, CronStep(c)
      PROVE  job[c].op \in Movers /\ job'[c] = Idle
  <2>1. DowngradeCommit(c) \/ ResetCommit(c)
    BY <1>2 DEF CronStep, CronFinish, HourlySelect, MonthlySelect, RemindCommit, Fails
  <2>2. QED
    BY <2>1 DEF DowngradeCommit, ResetCommit, At, Return, Movers, Processes, TypeOK
<1>3. ~(UpdateOrganization \/ Allocate \/ Revoke \/ Tick)
  <2>1. ~(Allocate \/ Revoke)
    BY DEF Allocate, Revoke, MayStart, Busy, Movers
  <2>2. QED
    BY <2>1 DEF UpdateOrganization, Tick, TypeOK, OrgRow
<1>4. QED
  BY <1>1, <1>2, <1>3 DEF Next, Processes

LEMMA LockedPool ==
  ASSUME Movers \subseteq Exclusive
  PROVE  Spec => [][PoolStays]_vars
<1>1. Init => TypeOK /\ Alone(Movers)
  BY TypeInit DEF Init, Alone, Idle, Movers
<1>2. TypeOK /\ Alone(Movers) /\ [Next]_vars => TypeOK' /\ Alone(Movers)'
  BY TypeStep, AloneStep DEF Movers
<1>3. TypeOK /\ Alone(Movers) /\ [Next]_vars => [PoolStays]_vars
  <2> SUFFICES ASSUME TypeOK, Alone(Movers), Next, NEW p \in Processes, job'[p] = job[p],
                      job[p].op \in Movers
               PROVE  org'.pool = org.pool /\ org'.frozen = org.frozen
    BY DEF PoolStays, HasRead, Movers
  <2>1. ASSUME NEW q \in Processes, job[q].op \in Movers, job'[q] = Idle PROVE FALSE
    <3>1. q = p
      BY <2>1 DEF Alone
    <3>2. QED
      BY <2>1, <3>1 DEF Idle, Movers
  <2>2. QED
    BY <2>1, MoversWrite
<1>4. QED
  BY <1>1, <1>2, <1>3, PTL DEF Spec

\* So it is enough, for credits to be conserved, that the handlers that write the pool
\* exclude one another.
THEOREM ConservedLocked == ASSUME Movers \subseteq Exclusive PROVE Spec => []Conserved
  BY LockedPool, ConservedCorrect, PTL

-----------------------------------------------------------------------------
(* TrialIsFirst.                                                           *)

\* A trial or a payment leaves usedTrial set, which nothing clears; a trial that is
\* being activated found it clear, and no payment meets it.
TrialInv ==
    /\ TypeOK
    /\ trials # 0 => org.usedTrial
    /\ \A s \in Sessions : credited[s] # 0 => org.usedTrial
    /\ \A p \in Processes : job[p].op = "trial" =>
         trials = 0 /\ \A s \in Sessions : credited[s] = 0

LEMMA TrialInit == Init => TrialInv
  BY TypeInit DEF Init, TrialInv, Idle

LEMMA OthersKeepTrial ==
  ASSUME TrialInv, TypeOK', credited' = credited, trials' = trials,
         org'.usedTrial \in {TRUE, org.usedTrial},
         \A p \in Processes : job'[p] = job[p] \/ job'[p].op # "trial"
  PROVE  TrialInv'
  BY DEF TrialInv

LEMMA TrialWorkerStep ==
  ASSUME TrialInv, TypeOK', OneTrial, TrialsUndisturbed, NEW w \in Workers, WorkerStep(w)
  PROVE  TrialInv'
<1> w \in Processes
  BY DEF Processes
<1>0. TypeOK
  BY DEF TrialInv
<1>1. CASE PayCommit(w)
  <2>1. job[w] \in PayJob /\ job[w].op = "pay"
    BY <1>0, <1>1, JobKinds DEF PayCommit, At, TypeOK
  <2>2. \A p \in Processes : job'[p].op # "trial"
    BY <1>0, <1>1, <2>1 DEF TrialsUndisturbed, PayCommit, Return, TypeOK, Idle
  <2>3. org'.usedTrial
    BY <1>0, <1>1 DEF PayCommit, Activate, TypeOK, OrgRow
  <2>4. QED
    BY <2>2, <2>3 DEF TrialInv
<1>2. CASE TrialCommit(w)
  <2>1. job[w].op = "trial"
    BY <1>2 DEF TrialCommit, At
  <2>2. \A p \in Processes : job'[p].op # "trial"
    BY <1>0, <1>2, <2>1 DEF TrialCommit, Return, OneTrial, Alone, TypeOK, Idle
  <2>3. org'.usedTrial
    BY <1>0, <1>2 DEF TrialCommit, TypeOK, OrgRow
  <2>4. QED
    BY <2>2, <2>3 DEF TrialInv
<1>3. CASE TrialRead(w)
  <2>1. trials = 0 /\ \A s \in Sessions : credited[s] = 0
    BY <1>3 DEF TrialRead, TrialInv
  <2>2. org' = org /\ trials' = trials /\ credited' = credited
    BY <1>3 DEF TrialRead, history
  <2>3. QED
    BY <2>1, <2>2 DEF TrialInv
<1>4. CASE \/ PayCheck(w) \/ PayRead(w) \/ TopUpRead(w) \/ TopUpCheck(w) \/ TopUpCommit(w)
           \/ Fails(w)
  <2>1. credited' = credited /\ trials' = trials /\ org'.usedTrial = org.usedTrial
    BY <1>0, <1>4 DEF PayCheck, PayRead, TopUpRead, TopUpCheck, TopUpCommit, Fails, history,
                      TypeOK, OrgRow
  <2>2. \A p \in Processes : job'[p] = job[p] \/ job'[p].op # "trial"
    <3>1. CASE PayRead(w)
      <4>1. job[w] \in PayJob
        BY <1>0, <3>1, JobKinds DEF PayRead, At, TypeOK
      <4>2. QED
        BY <1>0, <3>1, <4>1 DEF PayRead, TypeOK, PayJob
    <3>2. CASE TopUpCheck(w)
      <4>1. job[w] \in TopUpJob
        BY <1>0, <3>2, JobKinds DEF TopUpCheck, At, TypeOK
      <4>2. QED
        BY <1>0, <3>2, <4>1 DEF TopUpCheck, Return, Idle, TypeOK, TopUpJob
    <3>3. CASE PayCheck(w) \/ TopUpRead(w) \/ TopUpCommit(w) \/ Fails(w)
      BY <1>0, <3>3 DEF PayCheck, TopUpRead, TopUpCommit, Fails, Start, Return, Idle, TypeOK
    <3>4. QED
      BY <1>4, <3>1, <3>2, <3>3
  <2>3. QED
    BY <2>1, <2>2, OthersKeepTrial
<1>5. QED
  BY <1>1, <1>2, <1>3, <1>4 DEF WorkerStep, RequestFinish

LEMMA TrialStep ==
  ASSUME TrialInv, [Next]_vars, OneTrial, [TrialsUndisturbed]_vars
  PROVE  TrialInv'
<1>1. TypeOK /\ TypeOK'
  BY TypeStep DEF TrialInv
<1>2. CASE UNCHANGED vars
  BY <1>1, <1>2, OthersKeepTrial DEF vars
<1>3. ASSUME NEW w \in Workers, WorkerStep(w) PROVE TrialInv'
  BY <1>1, <1>2, <1>3, TrialWorkerStep
<1>4. ASSUME NEW c \in Crons, CronStep(c) PROVE TrialInv'
  <2>1. \A p \in Processes : job'[p] = job[p] \/ job'[p].op # "trial"
    BY <1>1, <1>4 DEF CronStep, CronFinish, HourlySelect, MonthlySelect, RemindCommit,
                      DowngradeCommit, ResetCommit, Fails, Start, Return, Idle, TypeOK,
                      Processes, Crons, Hourly
  <2>2. credited' = credited /\ trials' = trials /\ org'.usedTrial = org.usedTrial
    BY <1>1, <1>4 DEF CronStep, CronFinish, HourlySelect, MonthlySelect, RemindCommit,
                      DowngradeCommit, ResetCommit, Fails, TypeOK, OrgRow, history
  <2>3. QED
    BY <1>1, <2>1, <2>2, OthersKeepTrial
<1>5. CASE UpdateOrganization \/ Allocate \/ Revoke \/ Tick
  <2>1. job' = job /\ credited' = credited /\ trials' = trials
    BY <1>5 DEF UpdateOrganization, Allocate, Revoke, Tick, history
  <2>2. org'.usedTrial \in {TRUE, org.usedTrial}
    BY <1>1, <1>5 DEF UpdateOrganization, Allocate, Revoke, Tick, TypeOK, OrgRow
  <2>3. QED
    BY <1>1, <2>1, <2>2, OthersKeepTrial
<1>6. QED
  BY <1>2, <1>3, <1>4, <1>5 DEF Next

\* A step that activates a trial is the first and follows no payment.
LEMMA FirstByStep ==
  ASSUME TrialInv, [Next]_vars, trials' # trials
  PROVE  trials = 0 /\ \A s \in Sessions : credited[s] = 0
<1>1. PICK w \in Workers : TrialCommit(w)
  BY DEF Next, WorkerStep, CronStep, RequestFinish, CronFinish, PayCheck, PayRead, PayCommit,
         TrialRead, TopUpRead, TopUpCheck, TopUpCommit, UpdateOrganization, HourlySelect,
         MonthlySelect, RemindCommit, DowngradeCommit, ResetCommit, Fails, Allocate, Revoke,
         Tick, history, vars
<1>2. job[w].op = "trial" /\ w \in Processes
  BY <1>1 DEF TrialCommit, At, Processes
<1>3. QED
  BY <1>2 DEF TrialInv

\* A trial comes at most once and never after a payment, if no two trials are in
\* progress at a time and no payment is activated meanwhile; reports may come again at
\* any time, an admin may allow the trial again.
THEOREM TrialIsFirstCorrect ==
  Spec /\ []OneTrial /\ [][TrialsUndisturbed]_vars => TrialIsFirst
<1>1. TrialInv /\ OneTrial /\ [Next]_vars /\ [TrialsUndisturbed]_vars => TrialInv'
  BY TrialStep
<1>2. TrialInv /\ [Next]_vars =>
        [trials' # trials => trials = 0 /\ \A s \in Sessions : credited[s] = 0]_vars
  BY FirstByStep
<1>3. QED
  BY TrialInit, <1>1, <1>2, PTL DEF Spec, TrialIsFirst

\* So it is enough, for a trial to come once and before any payment, that payments and
\* trials exclude one another.
THEOREM TrialIsFirstLocked ==
  ASSUME {"pay", "trial"} \subseteq Exclusive PROVE Spec => TrialIsFirst
  BY LockedPayments, TrialIsFirstCorrect, PTL

-----------------------------------------------------------------------------
(* GraceIsShort: whatever interleaves, a plan that is over is downgraded   *)
(* in the hour in which the gap after its last reminder has passed, if the *)
(* cron does not fail.                                                     *)

\* What a handler is about to write, or has found, is a date that is not over; no
\* reminder comes between the end of a plan and its downgrade.
Ahead(p) ==
    LET j == job[p]
    IN  /\ j.op = "pay" => j.left >= 0
        /\ j.op = "topUp" /\ j.step = "commit" => j.left >= 0
        /\ j.op = "remind" => sub.left >= 0
        /\ j.op = "upgrade" => sub.plan = "FREE" \/ sub.left >= 0

\* For every hour since the end an hour of quiet; and once the cron ran in an hour,
\* what is over was reminded too recently for it.
Waits ==
    sub.plan # "FREE" /\ sub.left < 0 =>
      /\ sub.quiet >= -sub.left \/ sub.quiet >= Never
      /\ "downgrade" \in due \/ job["downgrade"] # Idle \/ sub.quiet <= RemindGap

\* The cron runs nothing else in its place.
OwnCron == job["downgrade"].op \in {"idle", "downgrade"}

GraceInv ==
    /\ TypeOK
    /\ OwnCron
    /\ GraceIsShort
    /\ Waits
    /\ \A p \in Processes : Ahead(p)

LEMMA GraceInit == Init => GraceInv
<1> SUFFICES ASSUME Init PROVE GraceInv
  OBVIOUS
<1>1. "downgrade" \in Processes
  BY DEF Processes, Crons, Hourly
<1>2. OwnCron /\ GraceIsShort /\ Waits /\ \A p \in Processes : Ahead(p)
  BY <1>1 DEF Init, OwnCron, GraceIsShort, Waits, Ahead, Idle
<1>3. QED
  BY TypeInit, <1>2 DEF GraceInv

LEMMA OwnStep ==
  ASSUME TypeOK, OwnCron, [Next]_vars
  PROVE  OwnCron'
<1>0. "downgrade" \in Processes /\ "downgrade" \notin Workers
  BY WorkersAssumption DEF Processes, Crons, Hourly
<1>1. CASE job'["downgrade"] = job["downgrade"]
  BY <1>1 DEF OwnCron
<1>2. ASSUME NEW w \in Workers, WorkerStep(w) PROVE job'["downgrade"] = job["downgrade"]
  BY <1>0, <1>2 DEF WorkerStep, RequestFinish, PayCheck, PayRead, PayCommit, TrialRead, TrialCommit,
                    TopUpRead, TopUpCheck, TopUpCommit, Fails, Start, Return, TypeOK
<1>3. ASSUME NEW c \in Crons, CronStep(c)
      PROVE  job'["downgrade"] = job["downgrade"] \/ job'["downgrade"].op \in {"idle", "downgrade"}
  BY <1>0, <1>3 DEF CronStep, CronFinish, HourlySelect, MonthlySelect, RemindCommit,
                    DowngradeCommit, ResetCommit, Fails, Start, Return, Idle, TypeOK
<1>4. ASSUME UNCHANGED vars \/ UpdateOrganization \/ Allocate \/ Revoke \/ Tick
      PROVE  job' = job
  BY <1>4 DEF UpdateOrganization, Allocate, Revoke, Tick, vars
<1>5. QED
  BY <1>1, <1>2, <1>3, <1>4 DEF Next, OwnCron

\* A step that leaves the subscription with a plan that is not over.
LEMMA RenewalKeepsGrace ==
  ASSUME GraceInv, TypeOK', OwnCron', sub'.plan = "FREE" \/ sub'.left >= 0,
         \A p \in Processes : Ahead(p)'
  PROVE  GraceInv'
<1>1. sub'.left >= 0 => sub'.left >= -(RemindGap + 1)
  BY TimesAssumption DEF TypeOK, SubRow
<1>2. sub'.left >= 0 => ~(sub'.left < 0)
  BY DEF TypeOK, SubRow
<1>3. QED
  BY <1>1, <1>2 DEF GraceInv, GraceIsShort, Waits

\* A step that leaves the subscription alone and, if the plan is over, the cron too.
LEMMA OthersKeepGrace ==
  ASSUME GraceInv, TypeOK', OwnCron', sub' = sub,
         \/ job'["downgrade"] = job["downgrade"] /\ ("downgrade" \in due => "downgrade" \in due')
         \/ job'["downgrade"] # Idle
         \/ ~DowngradeFinds,
         \A p \in Processes : job'[p] = job[p] \/ Ahead(p)'
  PROVE  GraceInv'
<1>1. GraceIsShort'
  BY DEF GraceInv, GraceIsShort
<1>2. Waits'
  BY TimesAssumption DEF GraceInv, Waits, DowngradeFinds, MayRemind, TypeOK, SubRow
<1>3. \A p \in Processes : Ahead(p)'
  BY DEF GraceInv, Ahead
<1>4. QED
  BY <1>1, <1>2, <1>3 DEF GraceInv

LEMMA GraceWorkerStep ==
  ASSUME GraceInv, TypeOK', OwnCron', MaxFaults = 0, NEW w \in Workers, WorkerStep(w)
  PROVE  GraceInv'
<1> w \in Processes
  BY DEF Processes
<1>0. TypeOK /\ w # "downgrade" /\ "downgrade" \in Processes
  BY WorkersAssumption DEF GraceInv, Processes, Crons, Hourly
<1>1. ASSUME sub' = sub, due' = due, \A p \in Processes \ {w} : job'[p] = job[p], Ahead(w)'
      PROVE  GraceInv'
  BY <1>0, <1>1, OthersKeepGrace
<1>2. ASSUME sub'.left >= 0, job' = [job EXCEPT ![w] = Idle]
      PROVE  GraceInv'
  <2>1. \A p \in Processes : Ahead(p)'
    BY <1>0, <1>2 DEF GraceInv, Ahead, Idle, TypeOK
  <2>2. QED
    BY <1>2, <2>1, RenewalKeepsGrace
<1>3. CASE PayCheck(w)
  <2>1. PICK s \in Sessions :
          Start(w, [op |-> "pay", step |-> "read", session |-> s, pool |-> 0, left |-> 0])
    BY <1>3 DEF PayCheck
  <2>2. QED
    BY <1>0, <1>1, <1>3, <2>1 DEF PayCheck, Start, TypeOK, Ahead
<1>4. CASE PayRead(w)
  <2>1. job[w] \in PayJob /\ job[w].op = "pay"
    BY <1>0, <1>4, JobKinds DEF PayRead, At, TypeOK
  <2>2. PICK s \in Sessions : s = job[w].session
    BY <2>1 DEF PayJob
  <2>3. PICK n \in Nat : n = LengthOf[s]
    BY SessionsAssumption
  <2>4. /\ job'[w].op = "pay"
        /\ job'[w].left = (IF sub.plan = PlanOf[s] /\ sub.left > 0 THEN sub.left ELSE 0) + n
        /\ \A p \in Processes \ {w} : job'[p] = job[p]
    BY <1>0, <1>4, <2>1, <2>2, <2>3 DEF PayRead, TypeOK, PayJob
  <2>5. job'[w].left >= 0
    BY <1>0, <2>4 DEF TypeOK, SubRow
  <2>6. QED
    BY <1>1, <1>4, <2>4, <2>5 DEF PayRead, Ahead
<1>5. CASE PayCommit(w)
  <2>1. job[w].op = "pay"
    BY <1>5 DEF PayCommit, At
  <2>2. sub'.left = job[w].left
    BY <1>0, <1>5 DEF PayCommit, Activate, TypeOK, SubRow
  <2>3. QED
    BY <1>2, <1>5, <2>1, <2>2 DEF PayCommit, Return, GraceInv, Ahead
<1>6. CASE TrialRead(w)
  BY <1>0, <1>1, <1>6 DEF TrialRead, Start, TypeOK, Ahead
<1>7. CASE TrialCommit(w)
  <2>1. sub'.left = TrialTime
    BY <1>0, <1>7 DEF TrialCommit, TypeOK, SubRow
  <2>2. QED
    BY <1>2, <1>7, <2>1, TimesAssumption DEF TrialCommit, Return
<1>8. CASE TopUpRead(w)
  <2>1. PICK c \in Amounts, date \in Dates \cup {NoDate}, plan \in Plans \cup {None} :
          Start(w, [op |-> "topUp", step |-> "check", amount |-> c, pool |-> org.pool + c,
                    extendDate |-> date, planType |-> plan, left |-> 0, plan |-> "FREE"])
    BY <1>8 DEF TopUpRead
  <2>2. QED
    BY <1>0, <1>1, <1>8, <2>1 DEF TopUpRead, Start, TypeOK, Ahead
<1>9. CASE TopUpCheck(w)
  <2>1. job[w] \in TopUpJob /\ job[w].op = "topUp"
    BY <1>0, <1>9, JobKinds DEF TopUpCheck, At, TypeOK
  <2>2. \A p \in Processes \ {w} : job'[p] = job[p]
    BY <1>0, <1>9 DEF TopUpCheck, Return, TypeOK
  <2> DEFINE date == job[w].extendDate
             end == IF date = NoDate THEN sub.left ELSE date
  <2>3. \/ job'[w] = Idle
        \/ /\ ~((sub.left < 0 /\ date = NoDate) \/ end < sub.left)
           /\ job'[w].op = "topUp" /\ job'[w].left = end
    BY <1>0, <1>9, <2>1 DEF TopUpCheck, Return, TypeOK, TopUpJob
  <2>4. date \in Nat \cup {NoDate} /\ sub.left \in Int
    <3>1. date \in Dates \cup {NoDate} /\ sub.left \in Int
      BY <1>0, <2>1 DEF TopUpJob, TypeOK, SubRow
    <3>2. Dates \subseteq Nat
      BY TimesAssumption
    <3>3. QED
      BY <3>1, <3>2, Zenon
  <2> HIDE DEF date
  <2>5. job'[w] = Idle \/ (job'[w].op = "topUp" /\ job'[w].left >= 0)
    BY <2>3, <2>4
  <2>6. QED
    BY <1>1, <1>9, <2>2, <2>5 DEF TopUpCheck, Ahead, Idle
<1>10. CASE TopUpCommit(w)
  <2>1. job[w].left >= 0
    BY <1>10 DEF TopUpCommit, At, GraceInv, Ahead
  <2>2. CASE SaysPlanOrDate(job[w])
    <3>1. sub'.left = job[w].left
      BY <1>0, <1>10, <2>2 DEF TopUpCommit, TypeOK, SubRow
    <3>2. QED
      BY <1>2, <1>10, <2>1, <3>1 DEF TopUpCommit, Return
  <2>3. CASE ~SaysPlanOrDate(job[w])
    BY <1>0, <1>1, <1>10, <2>3 DEF TopUpCommit, Return, Idle, TypeOK, Ahead
  <2>4. QED
    BY <2>2, <2>3
<1>11. ~Fails(w)
  BY <1>0 DEF Fails, TypeOK
<1>12. QED
  BY <1>3, <1>4, <1>5, <1>6, <1>7, <1>8, <1>9, <1>10, <1>11 DEF WorkerStep, RequestFinish

LEMMA GraceCronStep ==
  ASSUME GraceInv, TypeOK', OwnCron', MaxFaults = 0, NEW c \in Crons, CronStep(c)
  PROVE  GraceInv'
<1> c \in Processes
  BY DEF Processes
<1>0. TypeOK /\ "downgrade" \in Processes
  BY DEF GraceInv, Processes, Crons, Hourly
<1>1. CASE HourlySelect(c)
  <2>1. /\ sub' = sub /\ c \in Hourly /\ due' = due \ {c}
        /\ \A p \in Processes \ {c} : job'[p] = job[p]
        /\ \/ job' = job /\ ~(c = "remind" /\ RemindFinds) /\ ~(c = "downgrade" /\ DowngradeFinds)
           \/ /\ job'[c] = [op |-> c, step |-> "commit", pool |-> org.pool]
              /\ (c = "remind" /\ RemindFinds) \/ (c = "downgrade" /\ DowngradeFinds)
    BY <1>0, <1>1 DEF HourlySelect, Start, TypeOK
  <2>2. \/ job'["downgrade"] = job["downgrade"] /\ ("downgrade" \in due => "downgrade" \in due')
        \/ job'["downgrade"] # Idle
        \/ ~DowngradeFinds
    BY <1>0, <2>1 DEF Hourly, Idle
  <2>3. job'[c] = job[c] \/ Ahead(c)'
    BY <1>0, <2>1 DEF Ahead, Hourly, RemindFinds, TypeOK, SubRow
  <2>4. QED
    BY <2>1, <2>2, <2>3, OthersKeepGrace
<1>2. CASE MonthlySelect(c)
  <2>1. /\ sub' = sub /\ due' = due /\ sub.plan = "FREE" /\ c \notin Hourly
        /\ \A p \in Processes \ {c} : job'[p] = job[p]
        /\ job'[c] = [op |-> c, step |-> "commit", pool |-> org.pool]
    BY <1>0, <1>2 DEF MonthlySelect, Start, TypeOK
  <2>2. Ahead(c)' /\ c # "downgrade"
    BY <2>1 DEF Ahead, Crons, Hourly
  <2>3. QED
    BY <1>0, <2>1, <2>2, OthersKeepGrace
<1>3. ASSUME \A p \in Processes : job'[p] = job[p] \/ job'[p] = Idle, sub'.left = sub.left,
             sub'.plan = sub.plan, sub.plan = "FREE" \/ sub.left >= 0
      PROVE  GraceInv'
  <2>1. \A p \in Processes : Ahead(p)'
    BY <1>3 DEF GraceInv, Ahead, Idle
  <2>2. QED
    BY <1>3, <2>1, RenewalKeepsGrace
<1>4. CASE RemindCommit(c)
  <2>1. sub.plan = "FREE" \/ sub.left >= 0
    BY <1>4 DEF RemindCommit, At, GraceInv, Ahead
  <2>2. /\ \A p \in Processes : job'[p] = job[p] \/ job'[p] = Idle
        /\ sub'.left = sub.left /\ sub'.plan = sub.plan
    BY <1>0, <1>4 DEF RemindCommit, Return, TypeOK, SubRow
  <2>3. QED
    BY <1>3, <2>1, <2>2
<1>5. CASE DowngradeCommit(c)
  <2>1. sub'.plan = "FREE" /\ sub'.left = FreeTime /\ FreeTime >= 0
    BY <1>0, <1>5, TimesAssumption DEF DowngradeCommit, TypeOK, SubRow
  <2>2. \A p \in Processes : job'[p] = job[p] \/ job'[p] = Idle
    BY <1>0, <1>5 DEF DowngradeCommit, Return, TypeOK
  <2>3. \A p \in Processes : Ahead(p)'
    BY <2>1, <2>2 DEF GraceInv, Ahead, Idle
  <2>4. QED
    BY <2>1, <2>3, RenewalKeepsGrace
<1>6. CASE ResetCommit(c)
  <2>1. /\ sub' = sub /\ due' = due /\ job[c].op = "reset"
        /\ \A p \in Processes : job'[p] = job[p] \/ (p = c /\ job'[p] = Idle)
    BY <1>0, <1>6 DEF ResetCommit, At, Return, TypeOK
  <2>2. \A p \in Processes : job'[p] = job[p] \/ Ahead(p)'
    BY <2>1 DEF Ahead, Idle
  <2>3. c # "downgrade"
    BY <2>1 DEF GraceInv, OwnCron
  <2>4. QED
    BY <1>0, <2>1, <2>2, <2>3, OthersKeepGrace
<1>7. ~Fails(c)
  BY <1>0 DEF Fails, TypeOK
<1>8. QED
  BY <1>1, <1>2, <1>4, <1>5, <1>6, <1>7 DEF CronStep, CronFinish

LEMMA TickKeepsGrace ==
  ASSUME GraceInv, TypeOK', OwnCron', Tick
  PROVE  GraceInv'
<1>0. TypeOK /\ "downgrade" \in Processes /\ sub.left \in Int /\ sub.quiet \in Nat
      /\ RemindGap \in Nat
  BY TimesAssumption DEF GraceInv, Processes, Crons, Hourly, TypeOK, SubRow
<1>1. /\ \A p \in Processes : job'[p].op = "idle" /\ job[p] = Idle
      /\ "downgrade" \notin due /\ "downgrade" \in due'
  BY DEF Tick, Idle, Hourly
<1>2. /\ sub'.plan = sub.plan
      /\ sub'.left = IF sub.left > Expired THEN sub.left - 1 ELSE sub.left
      /\ sub'.quiet = IF sub.quiet < Never THEN sub.quiet + 1 ELSE sub.quiet
  BY <1>0 DEF Tick, TypeOK, SubRow
<1>3. CASE sub.plan = "FREE"
  BY <1>1, <1>2, <1>3 DEF GraceInv, GraceIsShort, Waits, Ahead
<1>4. CASE sub.plan # "FREE" /\ sub.left >= 0
  <2>1. sub'.left = sub.left - 1 /\ (sub'.quiet >= 1 \/ sub'.quiet >= Never)
    BY <1>0, <1>2, <1>4 DEF Expired, Never
  <2>2. GraceIsShort' /\ Waits'
    BY <1>0, <1>1, <1>4, <2>1 DEF GraceIsShort, Waits
  <2>3. QED
    BY <1>1, <2>2 DEF GraceInv, Ahead
<1>5. CASE sub.plan # "FREE" /\ sub.left < 0
  <2>1. sub.quiet >= -sub.left /\ sub.quiet <= RemindGap
    BY <1>0, <1>1, <1>5 DEF GraceInv, Waits, Never
  <2>2. sub'.left = sub.left - 1 /\ sub'.quiet = sub.quiet + 1
    BY <1>0, <1>2, <2>1 DEF Expired, Never
  <2>3. GraceIsShort' /\ Waits'
    BY <1>0, <1>1, <2>1, <2>2 DEF GraceIsShort, Waits
  <2>4. QED
    BY <1>1, <2>3 DEF GraceInv, Ahead
<1>6. QED
  BY <1>0, <1>3, <1>4, <1>5

LEMMA GraceStep ==
  ASSUME GraceInv, [Next]_vars, MaxFaults = 0
  PROVE  GraceInv'
<1>1. TypeOK /\ TypeOK' /\ OwnCron'
  BY TypeStep, OwnStep DEF GraceInv
<1>2. CASE UNCHANGED vars
  BY <1>1, <1>2, OthersKeepGrace DEF vars
<1>3. ASSUME NEW w \in Workers, WorkerStep(w) PROVE GraceInv'
  BY <1>1, <1>3, GraceWorkerStep
<1>4. ASSUME NEW c \in Crons, CronStep(c) PROVE GraceInv'
  BY <1>1, <1>4, GraceCronStep
<1>5. CASE UpdateOrganization
  <2>1. job' = job /\ due' = due
    BY <1>5 DEF UpdateOrganization
  <2>2. sub' = sub \/ \E date \in Dates : sub' = [sub EXCEPT !.left = date]
    BY <1>5 DEF UpdateOrganization
  <2>3. CASE sub' = sub
    BY <1>1, <2>1, <2>3, OthersKeepGrace
  <2>4. ASSUME NEW date \in Dates, sub' = [sub EXCEPT !.left = date] PROVE GraceInv'
    <3>1. sub'.left >= 0
      BY <1>1, <2>4, TimesAssumption DEF TypeOK, SubRow
    <3>2. \A p \in Processes : Ahead(p)'
      BY <2>1, <3>1 DEF GraceInv, Ahead
    <3>3. QED
      BY <1>1, <3>1, <3>2, RenewalKeepsGrace
  <2>5. QED
    BY <2>2, <2>3, <2>4
<1>6. CASE Allocate \/ Revoke
  BY <1>1, <1>6, OthersKeepGrace DEF Allocate, Revoke
<1>7. CASE Tick
  BY <1>1, <1>7, TickKeepsGrace
<1>8. QED
  BY <1>2, <1>3, <1>4, <1>5, <1>6, <1>7 DEF Next

\* A plan that was not renewed ends within RemindGap and an hour, if nothing fails:
\* however handlers and crons interleave, however often the plan is bought, extended
\* and ends again.
THEOREM GraceIsShortCorrect ==
  ASSUME MaxFaults = 0
  PROVE  Spec => []GraceIsShort
<1>1. GraceInv /\ [Next]_vars => GraceInv'
  BY GraceStep
<1>2. GraceInv => GraceIsShort
  BY DEF GraceInv
<1>3. QED
  BY GraceInit, <1>1, <1>2, PTL DEF Spec
=============================================================================
