------------------------------- MODULE Staff --------------------------------
(***************************************************************************)
(* StaffService: members of one organization join and leave it, and its    *)
(* admins hand the credits of its pool out to them, one by one or in bulk, *)
(* and take them back.  The bookings that lock and spend those credits are *)
(* modelled as far as this service reads them: each of their requests is   *)
(* one step here, module Bookings has their interleavings.                 *)
(*                                                                         *)
(* A handler reads with this.prisma, decides, and then writes in one       *)
(* transaction of increments and decrements: one action for each of its    *)
(* reads, one for its commit.                                              *)
(***************************************************************************)
EXTENDS Integers, FiniteSets, Functions

CONSTANTS
    Users,       \* accounts, each with an e-mail address of its own
    Founders,    \* members of the organization at the start
    Bookings,    \* booking rows that may be created (bounds the run)
    Workers,     \* request handlers that may be in progress at once
    InitialPool, \* credit_pool at the start
    MaxUsers,    \* MAX_USERS of the organization's plan
    Amounts,     \* credits of a request and costs of a booking (bounds the run)
    Exclusive    \* handlers assumed never to run at the same time as one another

StaffRequests == {"create", "delete", "allocate", "bulk", "revoke"}
Memberships == {"none", "member", "deleted"}
BookingStatuses == {"none", "PENDING", "CONFIRMED", "CHECKED_IN", "REJECTED",
                    "CANCELLED", "COMPLETED"}

ASSUME UsersAssumption == IsFiniteSet(Users) /\ Founders \subseteq Users /\ Founders # {}
ASSUME BookingsAssumption == IsFiniteSet(Bookings)
ASSUME LimitAssumption == MaxUsers \in Nat /\ Cardinality(Founders) <= MaxUsers
ASSUME AmountsAssumption == InitialPool \in Nat /\ Amounts \subseteq Nat
ASSUME ExclusiveAssumption == Exclusive \subseteq StaffRequests \cup {"book"}

VARIABLES
    pool,       \* Organizations.credit_pool
    membership, \* User: a member has org_id set and deletedAt null
    credits,    \* User.personal_credits
    bookings,   \* table Bookings
    job,        \* what each request handler has read and not yet used
    spent       \* history: credits bookings took and did not give back

vars == <<pool, membership, credits, bookings, job, spent>>

Idle == [op |-> "idle"]
CreateJob == [op : {"create"}, step : {"commit"}, user : Users]
DeleteJob == [op : {"delete"}, step : {"check", "commit"}, user : Users, balance : Int]
AllocateJob == [op : {"allocate"}, step : {"commit"}, user : Users, amount : Amounts]
BulkJob == [op : {"bulk"}, step : {"commit"}, user : Users, amount : Amounts,
            user2 : Users, amount2 : Amounts]
RevokeJob == [op : {"revoke"}, step : {"check", "commit"}, user : Users, amount : Amounts,
              balance : Int]
Job == {Idle} \cup CreateJob \cup DeleteJob \cup AllocateJob \cup BulkJob \cup RevokeJob

TypeOK ==
    /\ pool \in Int
    /\ membership \in [Users -> Memberships]
    /\ credits \in [Users -> Int]
    /\ bookings \in [Bookings -> [status : BookingStatuses, user : Users, cost : Nat]]
    /\ job \in [Workers -> Job]
    /\ spent \in Int

Members == {u \in Users : membership[u] = "member"}

Init ==
    /\ pool = InitialPool
    /\ membership = [u \in Users |-> IF u \in Founders THEN "member" ELSE "none"]
    /\ credits = [u \in Users |-> 0]
    /\ bookings = [b \in Bookings |-> [status |-> "none", user |-> CHOOSE u \in Users : TRUE,
                                       cost |-> 0]]
    /\ job = [w \in Workers |-> Idle]
    /\ spent = 0

-----------------------------------------------------------------------------
\* Any handler of these kinds is in progress; a booking request is one step.
Busy(kinds) == \E w \in Workers : job[w].op \in kinds
MayStart(o) == o \in Exclusive => ~Busy(Exclusive)

Start(w, j) == job[w] = Idle /\ MayStart(j.op) /\ job' = [job EXCEPT ![w] = j]
At(w, op, step) == job[w] # Idle /\ job[w].op = op /\ job[w].step = step
Return(w) == job' = [job EXCEPT ![w] = Idle]
\* The next step when ok, else the request is refused.
ContinueIf(w, ok) == IF ok THEN job' = [job EXCEPT ![w].step = "commit"] ELSE Return(w)

OfUser(u, statuses) == {b \in Bookings : bookings[b].user = u /\ bookings[b].status \in statuses}
\* The sum of total_cost over the PENDING bookings of u.
Pending(u) ==
    SumFunctionOnSet([b \in Bookings |-> bookings[b].cost], OfUser(u, {"PENDING"}))

-----------------------------------------------------------------------------
(* createStaff, deleteStaff                                                *)

MutantLimitReached == Cardinality(Members) > MaxUsers
\* isSubscriptionLimitReached of the members counted now.
LimitReached == Cardinality(Members) >= MaxUsers

CreateRead(w) ==
    \E u \in Users :
        /\ ~LimitReached
        /\ Start(w, [op |-> "create", step |-> "commit", user |-> u])
        /\ UNCHANGED <<pool, membership, credits, bookings, spent>>

\* After the password is hashed.  An address in use is refused, by the lookup or
\* by the column's unique index; deleteStaff renames the address of whom it
\* deletes, so a new account for it starts as a new row.
CreateCommit(w) ==
    /\ At(w, "create", "commit")
    /\ membership' = IF membership[job[w].user] = "none"
                     THEN [membership EXCEPT ![job[w].user] = "member"] ELSE membership
    /\ Return(w)
    /\ UNCHANGED <<pool, credits, bookings, spent>>

DeleteRead(w) ==
    \E u \in Members :
        /\ Start(w, [op |-> "delete", step |-> "check", user |-> u, balance |-> credits[u]])
        /\ UNCHANGED <<pool, membership, credits, bookings, spent>>

MutantForgetConfirmed(w) ==
    /\ At(w, "delete", "check")
    /\ ContinueIf(w, OfUser(job[w].user, {"PENDING"}) = {} /\ job[w].balance <= 0)
    /\ UNCHANGED <<pool, membership, credits, bookings, spent>>
MutantForgetBalance(w) ==
    /\ At(w, "delete", "check")
    /\ ContinueIf(w, OfUser(job[w].user, {"PENDING", "CONFIRMED"}) = {})
    /\ UNCHANGED <<pool, membership, credits, bookings, spent>>
DeleteCheck(w) ==
    /\ At(w, "delete", "check")
    /\ ContinueIf(w, /\ OfUser(job[w].user, {"PENDING", "CONFIRMED"}) = {}
                     /\ job[w].balance <= 0)
    /\ UNCHANGED <<pool, membership, credits, bookings, spent>>

DeleteCommit(w) ==
    /\ At(w, "delete", "commit")
    /\ membership' = IF job[w].user \in Members
                     THEN [membership EXCEPT ![job[w].user] = "deleted"] ELSE membership
    /\ Return(w)
    /\ UNCHANGED <<pool, credits, bookings, spent>>

-----------------------------------------------------------------------------
(* manageSingleStaffCredits, manageMultipleStaffCredits, revokeStaffCredits *)

\* The staff member and the pool are read together.
AllocateRead(w) ==
    \E u \in Members, c \in Amounts :
        /\ pool >= c
        /\ Start(w, [op |-> "allocate", step |-> "commit", user |-> u, amount |-> c])
        /\ UNCHANGED <<pool, membership, credits, bookings, spent>>

\* The update of a user who left the organization finds no row: all is rolled back.
AllocateCommit(w) ==
    /\ At(w, "allocate", "commit")
    /\ IF job[w].user \in Members
       THEN /\ pool' = pool - job[w].amount
            /\ credits' = [credits EXCEPT ![job[w].user] = @ + job[w].amount]
       ELSE UNCHANGED <<pool, credits>>
    /\ Return(w)
    /\ UNCHANGED <<membership, bookings, spent>>

\* A request names two members, or one of them twice.  Who they are is looked up
\* in the transaction only.
MutantCheckEach(w) ==
    \E u, v \in Users, c, d \in Amounts :
        /\ pool >= c /\ pool >= d
        /\ Start(w, [op |-> "bulk", step |-> "commit", user |-> u, amount |-> c,
                     user2 |-> v, amount2 |-> d])
        /\ UNCHANGED <<pool, membership, credits, bookings, spent>>
BulkRead(w) ==
    \E u, v \in Users, c, d \in Amounts :
        /\ pool >= c + d
        /\ Start(w, [op |-> "bulk", step |-> "commit", user |-> u, amount |-> c,
                     user2 |-> v, amount2 |-> d])
        /\ UNCHANGED <<pool, membership, credits, bookings, spent>>

MutantOncePerMember(w) ==
    /\ At(w, "bulk", "commit")
    /\ LET j == job[w]
       IN  IF {j.user, j.user2} \subseteq Members
           THEN /\ pool' = pool - (j.amount + j.amount2)
                /\ credits' = [credits EXCEPT ![j.user] = credits[j.user] + j.amount,
                                              ![j.user2] = credits[j.user2] + j.amount2]
           ELSE UNCHANGED <<pool, credits>>
    /\ Return(w)
    /\ UNCHANGED <<membership, bookings, spent>>
BulkCommit(w) ==
    /\ At(w, "bulk", "commit")
    /\ LET j == job[w]
       IN  IF {j.user, j.user2} \subseteq Members
           THEN /\ pool' = pool - (j.amount + j.amount2)
                /\ credits' = [[credits EXCEPT ![j.user] = @ + j.amount]
                                         EXCEPT ![j.user2] = @ + j.amount2]
           ELSE UNCHANGED <<pool, credits>>
    /\ Return(w)
    /\ UNCHANGED <<membership, bookings, spent>>

MutantRevokeRest(w) ==
    \E u \in Members, c \in Amounts :
        /\ credits[u] >= c
        /\ Start(w, [op |-> "revoke", step |-> "check", user |-> u, amount |-> credits[u] - c,
                     balance |-> credits[u]])
        /\ UNCHANGED <<pool, membership, credits, bookings, spent>>
RevokeRead(w) ==
    \E u \in Members, c \in Amounts :
        /\ credits[u] >= c
        /\ Start(w, [op |-> "revoke", step |-> "check", user |-> u, amount |-> c,
                     balance |-> credits[u]])
        /\ UNCHANGED <<pool, membership, credits, bookings, spent>>

\* withdrawableBalance: the balance read first less the pending costs read now.
MutantCheckBalance(w) ==
    /\ At(w, "revoke", "check")
    /\ ContinueIf(w, job[w].balance >= job[w].amount)
    /\ UNCHANGED <<pool, membership, credits, bookings, spent>>
RevokeCheck(w) ==
    /\ At(w, "revoke", "check")
    /\ ContinueIf(w, job[w].balance - Pending(job[w].user) >= job[w].amount)
    /\ UNCHANGED <<pool, membership, credits, bookings, spent>>

RevokeCommit(w) ==
    /\ At(w, "revoke", "commit")
    /\ IF job[w].user \in Members
       THEN /\ pool' = pool + job[w].amount
            /\ credits' = [credits EXCEPT ![job[w].user] = @ - job[w].amount]
       ELSE UNCHANGED <<pool, credits>>
    /\ Return(w)
    /\ UNCHANGED <<membership, bookings, spent>>

\* A query throws or the process stops: the handler has written nothing yet.
RequestFails(w) ==
    /\ job[w] # Idle
    /\ Return(w)
    /\ UNCHANGED <<pool, membership, credits, bookings, spent>>

-----------------------------------------------------------------------------
(* BookingsService and the crons, one step each: what they do to balances. *)

\* An ORG_ADMIN's booking, or one of an auto-confirmed resource, is CONFIRMED at once.
\* The user is looked up by id, deleted or not.
Book(u, cost) ==
    \E b \in Bookings, status \in {"PENDING", "CONFIRMED"} :
        /\ MayStart("book")
        /\ membership[u] # "none" /\ bookings[b].status = "none"
        /\ credits[u] >= cost + Pending(u)
        /\ bookings' = [bookings EXCEPT ![b] = [status |-> status, user |-> u, cost |-> cost]]
        /\ LET charge == IF status = "CONFIRMED" THEN cost ELSE 0
           IN  /\ credits' = [credits EXCEPT ![u] = @ - charge]
               /\ spent' = spent + charge
        /\ UNCHANGED <<pool, membership, job>>

Confirm(b) ==
    /\ MayStart("book")
    /\ bookings[b].status = "PENDING" /\ credits[bookings[b].user] >= bookings[b].cost
    /\ bookings' = [bookings EXCEPT ![b].status = "CONFIRMED"]
    /\ credits' = [credits EXCEPT ![bookings[b].user] = @ - bookings[b].cost]
    /\ spent' = spent + bookings[b].cost
    /\ UNCHANGED <<pool, membership, job>>

\* Refunded in full, or half of it shortly before the start.
CancelConfirmed(b) ==
    /\ MayStart("book")
    /\ bookings[b].status = "CONFIRMED"
    /\ bookings' = [bookings EXCEPT ![b].status = "CANCELLED"]
    /\ \E refund \in {bookings[b].cost} \cup {c \in Amounts : 2 * c = bookings[b].cost} :
         /\ credits' = [credits EXCEPT ![bookings[b].user] = @ + refund]
         /\ spent' = spent - refund
    /\ UNCHANGED <<pool, membership, job>>

\* The changes of status that move no credits.
Progress(b) ==
    /\ MayStart("book")
    /\ \E to \in BookingStatuses :
         /\ <<bookings[b].status, to>> \in {<<"PENDING", "REJECTED">>, <<"PENDING", "CANCELLED">>,
                <<"CONFIRMED", "CHECKED_IN">>, <<"CHECKED_IN", "COMPLETED">>}
         /\ bookings' = [bookings EXCEPT ![b].status = to]
    /\ UNCHANGED <<pool, membership, credits, job, spent>>

StaffStep(w) ==
    \/ CreateRead(w) \/ CreateCommit(w)
    \/ DeleteRead(w) \/ DeleteCheck(w) \/ DeleteCommit(w)
    \/ AllocateRead(w) \/ AllocateCommit(w)
    \/ BulkRead(w) \/ BulkCommit(w)
    \/ RevokeRead(w) \/ RevokeCheck(w) \/ RevokeCommit(w)
    \/ RequestFails(w)

BookingStep ==
    \/ \E u \in Users, cost \in Amounts : Book(u, cost)
    \/ \E b \in Bookings : Confirm(b) \/ CancelConfirmed(b) \/ Progress(b)

Next == (\E w \in Workers : StaffStep(w)) \/ BookingStep

Spec == Init /\ [][Next]_vars

-----------------------------------------------------------------------------
(* Properties.                                                             *)

\* No credit is made or lost between the pool, the balances and the bookings,
\* however the handlers interleave (their writes are increments).
Conserved == pool + SumFunctionOnSet(credits, Users) + spent = InitialPool

\* Nor does one go with a member who is deleted: what is not spent is in the
\* pool or with a member.
NothingLost == pool + SumFunctionOnSet(credits, Members) + spent = InitialPool

\* The pool is never handed out beyond what it holds.
PoolCovered == pool >= 0

\* The organization has no more members than its plan allows.
WithinLimit == Cardinality(Members) <= MaxUsers

\* A balance covers the pending bookings accepted on it: revocation takes
\* nothing of what they lock.
PendingCovered == \A u \in Users : credits[u] >= Pending(u)

\* Who was deleted is done with: nothing is booked, confirmed, cancelled, charged or
\* refunded for them any more; a booking that is in use is completed, no more.  The
\* comment at deleteStaff's check has checked-in bookings prevent the deletion too; its
\* query does not count them, and this is what it leaves.
SettledStep ==
    \A u \in Users : membership[u] = "deleted" =>
        /\ credits'[u] = credits[u]
        /\ \A b \in Bookings : bookings'[b] # bookings[b] /\ bookings'[b].user = u =>
               bookings[b].status = "CHECKED_IN" /\ bookings'[b].status = "COMPLETED"
DeletedIsSettled == [][SettledStep]_vars
=============================================================================
