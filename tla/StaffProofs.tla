---------------------------- MODULE StaffProofs -----------------------------
(* Theorems about Staff, for every value of its constants: types, that the *)
(* pool is never handed out beyond what it holds, that the plan's member   *)
(* limit is kept, that credits only move, that what pending bookings lock  *)
(* is not revoked, and that nothing goes with a member who is deleted.     *)
EXTENDS Staff, Sums, TLAPS

LEMMA TypeInit == Init => TypeOK
<1> SUFFICES ASSUME Init PROVE TypeOK
  OBVIOUS
<1>1. (CHOOSE u \in Users : TRUE) \in Users
  BY UsersAssumption
<1>2. QED
  BY <1>1, AmountsAssumption DEF Init, TypeOK, Job, Memberships, BookingStatuses

\* A job of some kind is a record of that kind.
LEMMA JobKinds ==
  ASSUME NEW j \in Job
  PROVE  /\ j.op = "create" => j \in CreateJob
         /\ j.op = "delete" => j \in DeleteJob
         /\ j.op = "allocate" => j \in AllocateJob
         /\ j.op = "bulk" => j \in BulkJob
         /\ j.op = "revoke" => j \in RevokeJob
  BY DEF Job, Idle, CreateJob, DeleteJob, AllocateJob, BulkJob, RevokeJob

\* Idle handlers, and handlers that went on to their commit.
LEMMA JobMoves ==
  ASSUME TypeOK, NEW w \in Workers
  PROVE  /\ Return(w) => job' \in [Workers -> Job]
         /\ \A ok \in BOOLEAN : ContinueIf(w, ok) /\ job[w] \in DeleteJob \cup RevokeJob
                                  => job' \in [Workers -> Job]
<1>1. Return(w) => job' \in [Workers -> Job]
  BY DEF TypeOK, Return, Job
<1>2. ASSUME NEW ok \in BOOLEAN, ContinueIf(w, ok), job[w] \in DeleteJob \cup RevokeJob
      PROVE  job' \in [Workers -> Job]
  <2>1. [job[w] EXCEPT !.step = "commit"] \in DeleteJob \cup RevokeJob
    BY <1>2 DEF DeleteJob, RevokeJob
  <2>2. QED
    BY <1>1, <1>2, <2>1 DEF TypeOK, ContinueIf, Job
<1>3. QED
  BY <1>1, <1>2

LEMMA MembersType ==
  ASSUME TypeOK, NEW w \in Workers,
         \/ CreateRead(w) \/ CreateCommit(w) \/ DeleteRead(w)
         \/ DeleteCheck(w) \/ DeleteCommit(w) \/ RequestFails(w)
  PROVE  TypeOK'
<1>1. CASE CreateRead(w)
  BY <1>1 DEF CreateRead, Start, TypeOK, Job, CreateJob
<1>2. CASE CreateCommit(w)
  BY <1>2, JobMoves DEF CreateCommit, TypeOK, Memberships
<1>3. CASE DeleteRead(w)
  BY <1>3 DEF DeleteRead, Start, TypeOK, Job, DeleteJob, Members
<1>4. CASE DeleteCheck(w)
  <2>1. job[w] \in DeleteJob
    BY <1>4, JobKinds DEF DeleteCheck, At, TypeOK
  <2>2. job' \in [Workers -> Job]
    BY <1>4, <2>1, JobMoves DEF DeleteCheck
  <2>3. QED
    BY <1>4, <2>2 DEF DeleteCheck, TypeOK
<1>5. CASE DeleteCommit(w)
  BY <1>5, JobMoves DEF DeleteCommit, TypeOK, Memberships
<1>6. CASE RequestFails(w)
  BY <1>6, JobMoves DEF RequestFails, TypeOK
<1>7. QED
  BY <1>1, <1>2, <1>3, <1>4, <1>5, <1>6

LEMMA CreditsType ==
  ASSUME TypeOK, NEW w \in Workers,
         \/ AllocateRead(w) \/ AllocateCommit(w) \/ BulkRead(w) \/ BulkCommit(w)
         \/ RevokeRead(w) \/ RevokeCheck(w) \/ RevokeCommit(w)
  PROVE  TypeOK'
<1>1. CASE AllocateRead(w)
  BY <1>1 DEF AllocateRead, Start, TypeOK, Job, AllocateJob, Members
<1>2. CASE AllocateCommit(w)
  <2>1. job[w].amount \in Int
    BY <1>2, JobKinds, AmountsAssumption DEF AllocateCommit, At, TypeOK, AllocateJob
  <2>2. QED
    BY <1>2, <2>1, JobMoves DEF AllocateCommit, TypeOK
<1>3. CASE BulkRead(w)
  BY <1>3 DEF BulkRead, Start, TypeOK, Job, BulkJob
<1>4. CASE BulkCommit(w)
  <2>1. job[w].amount \in Int /\ job[w].amount2 \in Int
    BY <1>4, JobKinds, AmountsAssumption DEF BulkCommit, At, TypeOK, BulkJob
  <2>2. QED
    BY <1>4, <2>1, JobMoves DEF BulkCommit, TypeOK
<1>5. CASE RevokeRead(w)
  BY <1>5 DEF RevokeRead, Start, TypeOK, Job, RevokeJob, Members
<1>6. CASE RevokeCheck(w)
  <2>1. job[w] \in RevokeJob
    BY <1>6, JobKinds DEF RevokeCheck, At, TypeOK
  <2>2. job' \in [Workers -> Job]
    BY <1>6, <2>1, JobMoves DEF RevokeCheck, ContinueIf
  <2>3. QED
    BY <1>6, <2>2 DEF RevokeCheck, TypeOK
<1>7. CASE RevokeCommit(w)
  <2>1. job[w].amount \in Int
    BY <1>7, JobKinds, AmountsAssumption DEF RevokeCommit, At, TypeOK, RevokeJob
  <2>2. QED
    BY <1>7, <2>1, JobMoves DEF RevokeCommit, TypeOK
<1>8. QED
  BY <1>1, <1>2, <1>3, <1>4, <1>5, <1>6, <1>7

LEMMA BookingType == ASSUME TypeOK, BookingStep PROVE TypeOK'
<1> USE DEF TypeOK
<1>1. ASSUME NEW u \in Users, NEW cost \in Amounts, Book(u, cost) PROVE TypeOK'
  BY <1>1, AmountsAssumption DEF Book, BookingStatuses
<1>2. ASSUME NEW b \in Bookings, Confirm(b) PROVE TypeOK'
  BY <1>2 DEF Confirm, BookingStatuses
<1>3. ASSUME NEW b \in Bookings, CancelConfirmed(b) PROVE TypeOK'
  <2> DEFINE refunds == {bookings[b].cost} \cup {c \in Amounts : 2 * c = bookings[b].cost}
  <2>1. refunds \subseteq Int
    <3>1. bookings[b].cost \in Int
      BY <1>3
    <3>2. {c \in Amounts : 2 * c = bookings[b].cost} \subseteq Amounts
      BY Zenon
    <3>3. Amounts \subseteq Int
      BY AmountsAssumption
    <3>4. QED
      BY <3>1, <3>2, <3>3, Zenon
  <2>2. ASSUME NEW refund \in refunds,
               credits' = [credits EXCEPT ![bookings[b].user] = @ + refund],
               spent' = spent - refund
        PROVE  credits' \in [Users -> Int] /\ spent' \in Int
    BY <2>1, <2>2
  <2>3. credits' \in [Users -> Int] /\ spent' \in Int
    BY <1>3, <2>2 DEF CancelConfirmed
  <2>4. QED
    BY <1>3, <2>3 DEF CancelConfirmed, BookingStatuses
<1>4. ASSUME NEW b \in Bookings, Progress(b) PROVE TypeOK'
  BY <1>4 DEF Progress
<1>5. QED
  BY <1>1, <1>2, <1>3, <1>4 DEF BookingStep

LEMMA TypeStep == ASSUME TypeOK, [Next]_vars PROVE TypeOK'
<1>1. CASE UNCHANGED vars
  BY <1>1 DEF vars, TypeOK
<1>2. CASE Next
  BY <1>2, MembersType, CreditsType, BookingType DEF Next, StaffStep
<1>3. QED
  BY <1>1, <1>2

\* Tables and handlers' locals are well formed, however the handlers interleave.
THEOREM TypeCorrect == Spec => []TypeOK
<1>1. TypeOK /\ [Next]_vars => TypeOK'
  BY TypeStep
<1>2. QED
  BY TypeInit, <1>1, PTL DEF Spec

\* A step that does not begin a request ends it or takes a deletion or a
\* revocation on to its commit.
LEMMA GoesOn ==
  ASSUME TypeOK, NEW w \in Workers,
         \/ CreateCommit(w) \/ DeleteCheck(w) \/ DeleteCommit(w)
         \/ AllocateCommit(w) \/ BulkCommit(w)
         \/ RevokeCheck(w) \/ RevokeCommit(w) \/ RequestFails(w)
  PROVE  \A v \in Workers : job'[v] = job[v] \/ job'[v].op \in {"idle", "delete", "revoke"}
<1>1. ASSUME Return(w)
      PROVE  \A v \in Workers : job'[v] = job[v] \/ job'[v].op = "idle"
  BY <1>1 DEF Return, Idle, TypeOK
<1>2. CASE DeleteCheck(w) \/ RevokeCheck(w)
  <2>1. CASE Return(w)
    BY <1>1, <2>1
  <2>2. CASE job' = [job EXCEPT ![w].step = "commit"]
    <3>1. job[w] \in DeleteJob \cup RevokeJob
      BY <1>2, JobKinds DEF DeleteCheck, RevokeCheck, At, TypeOK
    <3>2. [job[w] EXCEPT !.step = "commit"].op \in {"delete", "revoke"}
      BY <3>1 DEF DeleteJob, RevokeJob
    <3>3. QED
      BY <2>2, <3>2 DEF TypeOK
  <2>3. QED
    BY <1>2, <2>1, <2>2 DEF DeleteCheck, RevokeCheck, ContinueIf
<1>3. CASE ~(DeleteCheck(w) \/ RevokeCheck(w))
  <2>1. Return(w)
    BY <1>3 DEF CreateCommit, DeleteCommit, AllocateCommit, BulkCommit, RevokeCommit, RequestFails
  <2>2. QED
    BY <1>1, <2>1
<1>4. QED
  BY <1>2, <1>3

\* A step that begins a request begins one of that kind.
LEMMA Begins ==
  ASSUME TypeOK, NEW w \in Workers
  PROVE  /\ CreateRead(w) => \A v \in Workers : job'[v] = job[v] \/ job'[v].op = "create"
         /\ DeleteRead(w) => \A v \in Workers : job'[v] = job[v] \/ job'[v].op = "delete"
         /\ AllocateRead(w) => \A v \in Workers : job'[v] = job[v] \/ job'[v].op = "allocate"
         /\ BulkRead(w) => \A v \in Workers : job'[v] = job[v] \/ job'[v].op = "bulk"
         /\ RevokeRead(w) => \A v \in Workers : job'[v] = job[v] \/ job'[v].op = "revoke"
<1>1. CreateRead(w) => \A v \in Workers : job'[v] = job[v] \/ job'[v].op = "create"
  BY DEF CreateRead, Start, TypeOK
<1>2. DeleteRead(w) => \A v \in Workers : job'[v] = job[v] \/ job'[v].op = "delete"
  BY DEF DeleteRead, Start, TypeOK
<1>3. AllocateRead(w) => \A v \in Workers : job'[v] = job[v] \/ job'[v].op = "allocate"
  BY DEF AllocateRead, Start, TypeOK
<1>4. BulkRead(w) => \A v \in Workers : job'[v] = job[v] \/ job'[v].op = "bulk"
  BY DEF BulkRead, Start, TypeOK
<1>5. RevokeRead(w) => \A v \in Workers : job'[v] = job[v] \/ job'[v].op = "revoke"
  BY DEF RevokeRead, Start, TypeOK
<1>6. QED
  BY <1>1, <1>2, <1>3, <1>4, <1>5

\* Only allocations and revocations change the pool, only creations and
\* deletions the membership.
LEMMA Leaves ==
  ASSUME NEW w \in Workers
  PROVE  /\ CreateRead(w) \/ DeleteRead(w) \/ RevokeRead(w) => pool' = pool
         /\ CreateCommit(w) \/ DeleteCheck(w) \/ DeleteCommit(w) => pool' = pool
         /\ RevokeCheck(w) \/ RequestFails(w) => pool' = pool
         /\ AllocateRead(w) \/ BulkRead(w) \/ RevokeRead(w) => membership' = membership
         /\ AllocateCommit(w) \/ BulkCommit(w) \/ RevokeCommit(w) => membership' = membership
         /\ DeleteRead(w) \/ DeleteCheck(w) => membership' = membership
         /\ RevokeCheck(w) \/ RequestFails(w) => membership' = membership
<1>1. CreateRead(w) \/ DeleteRead(w) \/ RevokeRead(w) => pool' = pool
  BY DEF CreateRead, DeleteRead, RevokeRead
<1>2. CreateCommit(w) \/ DeleteCheck(w) \/ DeleteCommit(w) => pool' = pool
  BY DEF CreateCommit, DeleteCheck, DeleteCommit
<1>3. RevokeCheck(w) \/ RequestFails(w) => pool' = pool /\ membership' = membership
  BY DEF RevokeCheck, RequestFails
<1>4. AllocateRead(w) \/ BulkRead(w) \/ RevokeRead(w) => membership' = membership
  BY DEF AllocateRead, BulkRead, RevokeRead
<1>5. AllocateCommit(w) \/ BulkCommit(w) \/ RevokeCommit(w) => membership' = membership
  BY DEF AllocateCommit, BulkCommit, RevokeCommit
<1>6. DeleteRead(w) \/ DeleteCheck(w) => membership' = membership
  BY DEF DeleteRead, DeleteCheck
<1>7. QED
  BY <1>1, <1>2, <1>3, <1>4, <1>5, <1>6

-----------------------------------------------------------------------------
(* What the theorems suppose of the handlers is stated of behaviours.  A   *)
(* lock, as Exclusive describes one, is a way to bring it about.           *)

\* At most one handler of these kinds is in progress.
OneOf(kinds) == \A v, x \in Workers : job[v].op \in kinds /\ job[x].op \in kinds => v = x

\* A handler that is in progress stays of its kind until it returns.
LEMMA KeepsKind ==
  ASSUME TypeOK, NEW w \in Workers,
         \/ CreateCommit(w) \/ DeleteCheck(w) \/ DeleteCommit(w)
         \/ AllocateCommit(w) \/ BulkCommit(w)
         \/ RevokeCheck(w) \/ RevokeCommit(w) \/ RequestFails(w)
  PROVE  /\ \A v \in Workers \ {w} : job'[v] = job[v]
         /\ job'[w].op \in {"idle", job[w].op}
         /\ job'[w].op = "idle" \/ DeleteCheck(w) \/ RevokeCheck(w)
<1>1. ASSUME Return(w)
      PROVE  job'[w].op = "idle" /\ \A v \in Workers \ {w} : job'[v] = job[v]
  BY <1>1 DEF Return, Idle, TypeOK
<1>2. CASE DeleteCheck(w) \/ RevokeCheck(w)
  <2>1. CASE Return(w)
    BY <1>1, <2>1
  <2>2. CASE job' = [job EXCEPT ![w].step = "commit"]
    <3>1. job[w] \in DeleteJob \cup RevokeJob
      BY <1>2, JobKinds DEF DeleteCheck, RevokeCheck, At, TypeOK
    <3>2. [job[w] EXCEPT !.step = "commit"].op = job[w].op
      BY <3>1 DEF DeleteJob, RevokeJob
    <3>3. QED
      BY <1>2, <2>2, <3>2 DEF TypeOK
  <2>3. QED
    BY <1>2, <2>1, <2>2 DEF DeleteCheck, RevokeCheck, ContinueIf
<1>3. CASE ~(DeleteCheck(w) \/ RevokeCheck(w))
  <2>1. Return(w)
    BY <1>3 DEF CreateCommit, DeleteCommit, AllocateCommit, BulkCommit, RevokeCommit, RequestFails
  <2>2. QED
    BY <1>1, <2>1
<1>4. QED
  BY <1>2, <1>3

LEMMA OneOfInit == ASSUME NEW kinds \in SUBSET StaffRequests PROVE Init => OneOf(kinds)
  BY DEF Init, OneOf, Idle, StaffRequests

\* Kinds that exclude one another have one handler in progress at most, and none
\* while a booking request of theirs is served.
LEMMA OneOfStep ==
  ASSUME TypeOK, NEW kinds \in SUBSET (StaffRequests \cup {"book"}), kinds \subseteq Exclusive,
         OneOf(kinds), [Next]_vars
  PROVE  OneOf(kinds)'
<1>0. "idle" \notin kinds
  BY DEF StaffRequests
<1>1. CASE UNCHANGED vars
  BY <1>1 DEF vars, OneOf
<1>2. ASSUME NEW w \in Workers,
             \/ CreateCommit(w) \/ DeleteCheck(w) \/ DeleteCommit(w)
             \/ AllocateCommit(w) \/ BulkCommit(w)
             \/ RevokeCheck(w) \/ RevokeCommit(w) \/ RequestFails(w)
      PROVE  OneOf(kinds)'
  <2>1. \A v \in Workers : job'[v].op \in {"idle", job[v].op}
    BY <1>2, KeepsKind
  <2>2. QED
    BY <1>0, <2>1 DEF OneOf
<1>3. ASSUME NEW w \in Workers,
             \/ CreateRead(w) \/ DeleteRead(w) \/ AllocateRead(w) \/ BulkRead(w) \/ RevokeRead(w)
      PROVE  OneOf(kinds)'
  <2>1. PICK j : Start(w, j)
    BY <1>3 DEF CreateRead, DeleteRead, AllocateRead, BulkRead, RevokeRead
  <2>2. job'[w] = j /\ \A v \in Workers \ {w} : job'[v] = job[v]
    BY <2>1 DEF Start, TypeOK
  <2>3. CASE j.op \in kinds
    <3>1. \A v \in Workers : job[v].op \notin kinds
      BY <2>1, <2>3 DEF Start, MayStart, Busy
    <3>2. QED
      BY <2>2, <3>1 DEF OneOf
  <2>4. CASE j.op \notin kinds
    BY <2>2, <2>4 DEF OneOf
  <2>5. QED
    BY <2>3, <2>4
<1>4. CASE BookingStep
  <2>1. job' = job
    BY <1>4 DEF BookingStep, Book, Confirm, CancelConfirmed, Progress
  <2>2. QED
    BY <2>1 DEF OneOf
<1>5. QED
  BY <1>1, <1>2, <1>3, <1>4 DEF Next, StaffStep

-----------------------------------------------------------------------------
(* The pool is covered when one request at a time hands it out: what it    *)
(* found there is there when it commits.                                   *)

Takers == {"allocate", "bulk"}
OneTakes == OneOf(Takers)

\* The credits a handler is about to take from the pool.
Taking(w) == CASE job[w].op = "allocate" -> job[w].amount
               [] job[w].op = "bulk" -> job[w].amount + job[w].amount2
               [] OTHER -> 0

PoolInv ==
    /\ TypeOK
    /\ PoolCovered
    /\ \A w \in Workers : Taking(w) <= pool

\* A step that takes nothing from the pool and starts no handler that will.
LEMMA GivesKeepPoolInv ==
  ASSUME PoolInv, TypeOK', pool' >= pool,
         \A w \in Workers : job'[w] = job[w] \/ job'[w].op \notin Takers
  PROVE  PoolInv'
<1>1. PoolCovered'
  BY DEF PoolInv, PoolCovered, TypeOK
<1>2. ASSUME NEW w \in Workers PROVE Taking(w)' <= pool'
  <2>1. CASE job'[w] = job[w]
    <3>1. Taking(w)' = Taking(w)
      BY <2>1 DEF Taking
    <3>2. Taking(w) \in Int
      BY JobKinds, AmountsAssumption DEF Taking, PoolInv, TypeOK, AllocateJob, BulkJob
    <3>3. QED
      BY <3>1, <3>2 DEF PoolInv, TypeOK
  <2>2. CASE job'[w].op \notin Takers
    BY <1>1, <2>2 DEF Taking, Takers, PoolCovered
  <2>3. QED
    BY <2>1, <2>2
<1>3. QED
  BY <1>1, <1>2 DEF PoolInv, Takers

\* A handler that starts to take from the pool finds there what it takes.
LEMMA TakersStart ==
  ASSUME PoolInv, TypeOK', NEW w \in Workers, AllocateRead(w) \/ BulkRead(w)
  PROVE  PoolInv'
<1>1. pool' = pool /\ \A v \in Workers \ {w} : job'[v] = job[v]
  BY DEF AllocateRead, BulkRead, Start, PoolInv, TypeOK
<1>2. Taking(w)' <= pool
  BY AmountsAssumption DEF AllocateRead, BulkRead, Start, PoolInv, TypeOK, Taking
<1>3. \A v \in Workers \ {w} : Taking(v)' <= pool
  BY <1>1 DEF Taking, PoolInv
<1>4. QED
  BY <1>1, <1>2, <1>3 DEF PoolInv, PoolCovered

\* A handler that is alone in taking from the pool takes what it found and is done.
LEMMA TakersCommit ==
  ASSUME PoolInv, TypeOK', OneTakes, NEW w \in Workers, AllocateCommit(w) \/ BulkCommit(w)
  PROVE  PoolInv'
<1>1. job[w].op \in Takers /\ pool' \in {pool, pool - Taking(w)} /\ Taking(w) \in Nat
  BY JobKinds, AmountsAssumption
     DEF AllocateCommit, BulkCommit, At, Takers, Taking, PoolInv, TypeOK, AllocateJob, BulkJob
<1>2. job' = [job EXCEPT ![w] = Idle]
  BY DEF AllocateCommit, BulkCommit, Return
<1>3. \A v \in Workers : job'[v].op \notin Takers
  BY <1>1, <1>2 DEF PoolInv, OneTakes, OneOf, Takers, Idle, TypeOK
<1>4. pool' >= 0
  BY <1>1 DEF PoolInv, PoolCovered, TypeOK
<1>5. QED
  BY <1>3, <1>4 DEF PoolInv, PoolCovered, Taking, Takers

LEMMA PoolStep ==
  ASSUME PoolInv, TypeOK', OneTakes, [Next]_vars
  PROVE  PoolInv'
<1> USE DEF Takers
<1>1. CASE UNCHANGED vars
  BY <1>1, GivesKeepPoolInv DEF vars, PoolInv, TypeOK
<1>2. ASSUME NEW w \in Workers,
             \/ CreateRead(w) \/ DeleteRead(w) \/ RevokeRead(w)
             \/ CreateCommit(w) \/ DeleteCheck(w) \/ DeleteCommit(w) \/ RevokeCheck(w)
             \/ RevokeCommit(w) \/ RequestFails(w)
      PROVE  PoolInv'
  <2>1. pool' >= pool
    <3>1. CASE RevokeCommit(w)
      <4>1. job[w].amount \in Nat
        BY <3>1, JobKinds, AmountsAssumption DEF RevokeCommit, At, PoolInv, TypeOK, RevokeJob
      <4>2. QED
        BY <3>1, <4>1 DEF RevokeCommit, PoolInv, TypeOK
    <3>2. QED
      BY <1>2, <3>1, Leaves DEF PoolInv, TypeOK
  <2>2. \A v \in Workers : job'[v] = job[v] \/ job'[v].op \notin Takers
    BY <1>2, GoesOn, Begins DEF PoolInv
  <2>3. QED
    BY <2>1, <2>2, GivesKeepPoolInv
<1>3. ASSUME NEW w \in Workers, AllocateRead(w) \/ BulkRead(w) PROVE PoolInv'
  BY <1>3, TakersStart
<1>4. ASSUME NEW w \in Workers, AllocateCommit(w) \/ BulkCommit(w) PROVE PoolInv'
  BY <1>4, TakersCommit
<1>5. CASE BookingStep
  <2>1. pool' = pool /\ job' = job
    BY <1>5 DEF BookingStep, Book, Confirm, CancelConfirmed, Progress
  <2>2. QED
    BY <2>1, GivesKeepPoolInv DEF PoolInv, TypeOK
<1>6. QED
  BY <1>1, <1>2, <1>3, <1>4, <1>5 DEF Next, StaffStep

\* The pool is never handed out beyond what it holds if one allocation, single or
\* in bulk, is in progress at a time, whatever else interleaves with it.
THEOREM PoolCorrect == Spec /\ []OneTakes => []PoolCovered
<1>1. Init => PoolInv
  BY TypeInit, AmountsAssumption DEF Init, PoolInv, PoolCovered, Taking, Takers, Idle
<1>2. PoolInv /\ OneTakes /\ [Next]_vars => PoolInv'
  BY TypeStep, PoolStep DEF PoolInv
<1>3. PoolInv => PoolCovered
  BY DEF PoolInv
<1>4. QED
  BY <1>1, <1>2, <1>3, PTL DEF Spec

\* So it is enough that they exclude one another.
THEOREM PoolLocked == ASSUME Takers \subseteq Exclusive PROVE Spec => []PoolCovered
<1>0. Takers \in SUBSET StaffRequests
  BY DEF Takers, StaffRequests
<1>1. Init => TypeOK /\ OneTakes
  BY <1>0, TypeInit, OneOfInit DEF OneTakes
<1>2. TypeOK /\ OneTakes /\ [Next]_vars => TypeOK' /\ OneTakes'
  BY <1>0, TypeStep, OneOfStep DEF OneTakes
<1>3. QED
  BY <1>1, <1>2, PoolCorrect, PTL DEF Spec

-----------------------------------------------------------------------------
(* The member limit is kept when one request at a time creates a member:   *)
(* the place it counted is free when it commits.                           *)

OneCreates == OneOf({"create"})

LimitInv ==
    /\ TypeOK
    /\ WithinLimit
    /\ \A w \in Workers : job[w].op = "create" => ~LimitReached

LEMMA MembersFinite ==
  /\ IsFiniteSet(Members) /\ Cardinality(Members) \in Nat
  /\ \A S \in SUBSET Members : Cardinality(S) \in Nat /\ Cardinality(S) <= Cardinality(Members)
<1>1. Members \subseteq Users
  BY DEF Members
<1>2. IsFiniteSet(Members)
  BY <1>1, UsersAssumption, FS_Subset
<1>3. QED
  BY <1>2, FS_Subset, FS_CardinalityType

\* A step that adds no member and starts no handler that will.
LEMMA StaysKeepLimitInv ==
  ASSUME LimitInv, TypeOK', Members' \subseteq Members,
         \A w \in Workers : job'[w] = job[w] \/ job'[w].op # "create"
  PROVE  LimitInv'
<1>1. /\ Cardinality(Members)' \in Nat /\ Cardinality(Members) \in Nat
      /\ Cardinality(Members)' <= Cardinality(Members)
  BY MembersFinite
<1>2. QED
  BY <1>1, LimitAssumption DEF LimitInv, WithinLimit, LimitReached

LEMMA LimitStep ==
  ASSUME LimitInv, TypeOK', OneCreates, [Next]_vars
  PROVE  LimitInv'
<1>1. CASE UNCHANGED vars
  BY <1>1, StaysKeepLimitInv DEF vars, Members
<1>2. ASSUME NEW w \in Workers, CreateRead(w) PROVE LimitInv'
  <2>1. Members' = Members /\ ~LimitReached
    BY <1>2 DEF CreateRead, Members
  <2>2. QED
    BY <2>1 DEF LimitInv, WithinLimit, LimitReached
<1>3. ASSUME NEW w \in Workers, CreateCommit(w) PROVE LimitInv'
  <2>1. job[w].op = "create" /\ job' = [job EXCEPT ![w] = Idle]
    BY <1>3 DEF CreateCommit, At, Return
  <2>2. \A v \in Workers : job'[v].op # "create"
    BY <2>1 DEF LimitInv, OneCreates, OneOf, Idle, TypeOK
  <2>3. PICK u \in Users : Members' \subseteq Members \cup {u}
    <3>1. job[w].user \in Users
      BY <2>1, JobKinds DEF LimitInv, TypeOK, CreateJob
    <3>2. Members' \subseteq Members \cup {job[w].user}
      BY <1>3 DEF CreateCommit, Members, LimitInv, TypeOK
    <3>3. QED
      BY <3>1, <3>2
  <2>4. Cardinality(Members \cup {u}) \in Nat /\ Cardinality(Members \cup {u}) <= Cardinality(Members) + 1
        /\ IsFiniteSet(Members \cup {u})
    <3>1. IsFiniteSet(Members) /\ Cardinality(Members) \in Nat
      BY MembersFinite
    <3>2. IsFiniteSet(Members \cup {u}) /\ Cardinality(Members \cup {u}) =
            IF u \in Members THEN Cardinality(Members) ELSE Cardinality(Members) + 1
      BY <3>1, FS_AddElement
    <3>3. QED
      BY <3>1, <3>2
  <2>5. Cardinality(Members') <= Cardinality(Members \cup {u}) /\ Cardinality(Members') \in Nat
    BY <2>3, <2>4, FS_Subset, FS_CardinalityType
  <2>6. Cardinality(Members) < MaxUsers
    BY <2>1, MembersFinite, LimitAssumption DEF LimitInv, LimitReached
  <2>7. Cardinality(Members') <= MaxUsers
    BY <2>4, <2>5, <2>6, MembersFinite, LimitAssumption
  <2>8. QED
    BY <2>2, <2>7 DEF LimitInv, WithinLimit
<1>4. ASSUME NEW w \in Workers,
             \/ DeleteRead(w) \/ DeleteCheck(w) \/ DeleteCommit(w)
             \/ AllocateRead(w) \/ AllocateCommit(w) \/ BulkRead(w) \/ BulkCommit(w)
             \/ RevokeRead(w) \/ RevokeCheck(w) \/ RevokeCommit(w) \/ RequestFails(w)
      PROVE  LimitInv'
  <2>1. Members' \subseteq Members
    <3>1. CASE DeleteCommit(w)
      BY <3>1 DEF DeleteCommit, Members, LimitInv, TypeOK
    <3>2. QED
      BY <1>4, <3>1, Leaves DEF Members
  <2>2. \A v \in Workers : job'[v] = job[v] \/ job'[v].op # "create"
    BY <1>4, GoesOn, Begins DEF LimitInv
  <2>3. QED
    BY <2>1, <2>2, StaysKeepLimitInv
<1>5. CASE BookingStep
  <2>1. membership' = membership /\ job' = job
    BY <1>5 DEF BookingStep, Book, Confirm, CancelConfirmed, Progress
  <2>2. QED
    BY <2>1, StaysKeepLimitInv DEF Members
<1>6. QED
  BY <1>1, <1>2, <1>3, <1>4, <1>5 DEF Next, StaffStep

\* The organization never has more members than its plan allows if one request
\* to create a member is in progress at a time.
THEOREM LimitCorrect == Spec /\ []OneCreates => []WithinLimit
<1>1. Init => LimitInv
  <2> SUFFICES ASSUME Init PROVE LimitInv
    OBVIOUS
  <2>1. Members = Founders
    BY UsersAssumption DEF Init, Members
  <2>2. QED
    BY <2>1, TypeInit, LimitAssumption DEF Init, LimitInv, WithinLimit, Idle
<1>2. LimitInv /\ OneCreates /\ [Next]_vars => LimitInv'
  BY TypeStep, LimitStep DEF LimitInv
<1>3. LimitInv => WithinLimit
  BY DEF LimitInv
<1>4. QED
  BY <1>1, <1>2, <1>3, PTL DEF Spec

\* So it is enough that they exclude one another.
THEOREM LimitLocked == ASSUME "create" \in Exclusive PROVE Spec => []WithinLimit
<1>0. {"create"} \in SUBSET StaffRequests /\ {"create"} \subseteq Exclusive
  BY DEF StaffRequests
<1>1. Init => TypeOK /\ OneCreates
  BY <1>0, TypeInit, OneOfInit DEF OneCreates
<1>2. TypeOK /\ OneCreates /\ [Next]_vars => TypeOK' /\ OneCreates'
  BY <1>0, TypeStep, OneOfStep DEF OneCreates
<1>3. QED
  BY <1>1, <1>2, LimitCorrect, PTL DEF Spec

-----------------------------------------------------------------------------
(* Credits only move: every step adds to one place what it takes from      *)
(* another.  Nothing is assumed of how the handlers interleave.            *)

LEMMA BalanceChange ==
  ASSUME NEW f \in [Users -> Int], NEW u \in Users, NEW d \in Int
  PROVE  /\ [f EXCEPT ![u] = @ + d] \in [Users -> Int]
         /\ SumFunctionOnSet([f EXCEPT ![u] = @ + d], Users) = SumFunctionOnSet(f, Users) + d
<1> DEFINE g == [f EXCEPT ![u] = @ + d]
<1>1. /\ g \in [Users -> Int] /\ g[u] = f[u] + d /\ \A v \in Users \ {u} : g[v] = f[v]
      /\ \A v \in Users : f[v] \in Int /\ g[v] \in Int
  OBVIOUS
<1>2. SumFunctionOnSet(f, Users) \in Int
  BY UsersAssumption, SumIsInt
<1> HIDE DEF g
<1>3. SumFunctionOnSet(g, Users) = SumFunctionOnSet(f, Users) + g[u] - f[u]
  BY <1>1, UsersAssumption, SumChange
<1>4. SumFunctionOnSet(g, Users) = SumFunctionOnSet(f, Users) + d
  BY <1>1, <1>2, <1>3
<1>5. QED
  BY <1>1, <1>4 DEF g

LEMMA TakeIsGiveLess ==
  ASSUME NEW f \in [Users -> Int], NEW u \in Users, NEW c \in Int
  PROVE  -c \in Int /\ [f EXCEPT ![u] = @ - c] = [f EXCEPT ![u] = @ + (-c)]
<1>1. -c \in Int /\ f[u] \in Int
  OBVIOUS
<1>2. f[u] - c = f[u] + (-c)
  BY <1>1
<1>3. QED
  BY <1>1, <1>2

\* What the step of a handler does to the pool and the balances.
LEMMA HandlerMoves ==
  ASSUME TypeOK, NEW w \in Workers, StaffStep(w)
  PROVE  /\ spent' = spent
         /\ pool' + SumFunctionOnSet(credits', Users) = pool + SumFunctionOnSet(credits, Users)
<1>0. credits \in [Users -> Int] /\ pool \in Int /\ SumFunctionOnSet(credits, Users) \in Int
  <2>1. credits \in [Users -> Int] /\ pool \in Int
    BY DEF TypeOK
  <2>2. QED
    BY <2>1, UsersAssumption, SumIsInt
<1>1. CASE AllocateCommit(w)
  <2>1. job[w].user \in Users /\ job[w].amount \in Int
    BY <1>1, JobKinds, AmountsAssumption DEF AllocateCommit, At, TypeOK, AllocateJob
  <2>2. CASE job[w].user \in Members
    <3>1. /\ pool' = pool - job[w].amount /\ spent' = spent
          /\ credits' = [credits EXCEPT ![job[w].user] = @ + job[w].amount]
      BY <1>1, <2>2 DEF AllocateCommit
    <3>2. SumFunctionOnSet(credits', Users) = SumFunctionOnSet(credits, Users) + job[w].amount
      BY <1>0, <2>1, <3>1, BalanceChange
    <3>3. QED
      BY <1>0, <2>1, <3>1, <3>2
  <2>3. QED
    BY <1>1, <2>2 DEF AllocateCommit
<1>2. CASE BulkCommit(w)
  <2> DEFINE j == job[w]
             once == [credits EXCEPT ![j.user] = @ + j.amount]
  <2>1. j.user \in Users /\ j.amount \in Int /\ j.user2 \in Users /\ j.amount2 \in Int
    BY <1>2, JobKinds, AmountsAssumption DEF BulkCommit, At, TypeOK, BulkJob
  <2>2. CASE {j.user, j.user2} \subseteq Members
    <3>1. /\ pool' = pool - (j.amount + j.amount2) /\ spent' = spent
          /\ credits' = [once EXCEPT ![j.user2] = @ + j.amount2]
      BY <1>2, <2>2 DEF BulkCommit
    <3>2. /\ once \in [Users -> Int]
          /\ SumFunctionOnSet(once, Users) = SumFunctionOnSet(credits, Users) + j.amount
      BY <1>0, <2>1, BalanceChange
    <3> HIDE DEF once, j
    <3>3. SumFunctionOnSet(credits', Users) = SumFunctionOnSet(once, Users) + j.amount2
      <4>1. \A f \in [Users -> Int], u \in Users, d \in Int :
              SumFunctionOnSet([f EXCEPT ![u] = @ + d], Users) = SumFunctionOnSet(f, Users) + d
        BY BalanceChange
      <4>2. QED
        BY <2>1, <3>1, <3>2, <4>1, Zenon
    <3>4. QED
      BY <1>0, <2>1, <3>1, <3>2, <3>3
  <2>3. QED
    BY <1>2, <2>2 DEF BulkCommit
<1>3. CASE RevokeCommit(w)
  <2>1. job[w].user \in Users /\ job[w].amount \in Int
    BY <1>3, JobKinds, AmountsAssumption DEF RevokeCommit, At, TypeOK, RevokeJob
  <2>2. CASE job[w].user \in Members
    <3>1. /\ pool' = pool + job[w].amount /\ spent' = spent
          /\ credits' = [credits EXCEPT ![job[w].user] = @ - job[w].amount]
      BY <1>3, <2>2 DEF RevokeCommit
    <3>2. /\ -job[w].amount \in Int
          /\ credits' = [credits EXCEPT ![job[w].user] = @ + (-job[w].amount)]
      BY <1>0, <2>1, <3>1, TakeIsGiveLess
    <3>3. SumFunctionOnSet(credits', Users) = SumFunctionOnSet(credits, Users) + (-job[w].amount)
      BY <1>0, <2>1, <3>2, BalanceChange
    <3>4. QED
      BY <1>0, <2>1, <3>1, <3>3
  <2>3. QED
    BY <1>3, <2>2 DEF RevokeCommit
<1>4. CASE UNCHANGED <<pool, credits, spent>>
  BY <1>4
<1>5. ASSUME \/ CreateRead(w) \/ CreateCommit(w) \/ DeleteRead(w) \/ DeleteCheck(w)
             \/ DeleteCommit(w) \/ RequestFails(w)
      PROVE  UNCHANGED <<pool, credits, spent>>
  BY <1>5 DEF CreateRead, CreateCommit, DeleteRead, DeleteCheck, DeleteCommit, RequestFails
<1>6. ASSUME AllocateRead(w) \/ BulkRead(w) \/ RevokeRead(w) \/ RevokeCheck(w)
      PROVE  UNCHANGED <<pool, credits, spent>>
  BY <1>6 DEF AllocateRead, BulkRead, RevokeRead, RevokeCheck
<1>7. QED
  BY <1>1, <1>2, <1>3, <1>4, <1>5, <1>6 DEF StaffStep

\* A booking takes from one balance what it adds to spent.
LEMMA BookingMoves ==
  ASSUME TypeOK, BookingStep
  PROVE  \E u \in Users, d \in Int :
            /\ credits' = [credits EXCEPT ![u] = @ + d] /\ spent' = spent - d /\ pool' = pool
<1>0. /\ credits \in [Users -> Int] /\ spent \in Int
      /\ \A b \in Bookings : bookings[b].user \in Users /\ bookings[b].cost \in Int
  BY DEF TypeOK
<1>1. ASSUME NEW u \in Users, NEW cost \in Amounts, Book(u, cost)
      PROVE  \E d \in Int : /\ credits' = [credits EXCEPT ![u] = @ + d]
                            /\ spent' = spent - d /\ pool' = pool
  <2>1. PICK status \in {"PENDING", "CONFIRMED"} :
          /\ credits' = [credits EXCEPT ![u] = @ - (IF status = "CONFIRMED" THEN cost ELSE 0)]
          /\ spent' = spent + (IF status = "CONFIRMED" THEN cost ELSE 0) /\ pool' = pool
    BY <1>1 DEF Book
  <2> DEFINE charge == IF status = "CONFIRMED" THEN cost ELSE 0
  <2>2. charge \in Int
    BY AmountsAssumption
  <2>3. credits' = [credits EXCEPT ![u] = @ - charge] /\ spent' = spent + charge
    BY <2>1
  <2> HIDE DEF charge
  <2>4. /\ -charge \in Int /\ credits' = [credits EXCEPT ![u] = @ + (-charge)]
        /\ spent' = spent - (-charge)
    <3>1. -charge \in Int /\ credits' = [credits EXCEPT ![u] = @ + (-charge)]
      BY <1>0, <2>2, <2>3, TakeIsGiveLess
    <3>2. spent + charge = spent - (-charge)
      BY <1>0, <2>2
    <3>3. QED
      BY <2>3, <3>1, <3>2
  <2>5. QED
    BY <2>1, <2>4
<1>2. ASSUME NEW b \in Bookings, Confirm(b)
      PROVE  \E u \in Users, d \in Int :
               /\ credits' = [credits EXCEPT ![u] = @ + d] /\ spent' = spent - d /\ pool' = pool
  <2>1. /\ pool' = pool
        /\ -bookings[b].cost \in Int
        /\ credits' = [credits EXCEPT ![bookings[b].user] = @ + (-bookings[b].cost)]
        /\ spent' = spent - (-bookings[b].cost)
    <3>1. bookings[b].user \in Users /\ bookings[b].cost \in Int
      BY <1>0
    <3>2. /\ credits' = [credits EXCEPT ![bookings[b].user] = @ - bookings[b].cost]
          /\ spent' = spent + bookings[b].cost /\ pool' = pool
      BY <1>2 DEF Confirm
    <3>3. spent + bookings[b].cost = spent - (-bookings[b].cost)
      BY <1>0, <3>1
    <3>4. QED
      BY <1>0, <3>1, <3>2, <3>3, TakeIsGiveLess
  <2>2. QED
    BY <1>0, <2>1
<1>3. ASSUME NEW b \in Bookings, CancelConfirmed(b)
      PROVE  \E u \in Users, d \in Int :
               /\ credits' = [credits EXCEPT ![u] = @ + d] /\ spent' = spent - d /\ pool' = pool
  <2>1. PICK refund \in {bookings[b].cost} \cup {c \in Amounts : 2 * c = bookings[b].cost} :
          /\ credits' = [credits EXCEPT ![bookings[b].user] = @ + refund]
          /\ spent' = spent - refund /\ pool' = pool
    BY <1>3 DEF CancelConfirmed
  <2>2. refund \in Int
    <3>1. refund = bookings[b].cost \/ refund \in Amounts
      BY <2>1, Zenon
    <3>2. bookings[b].cost \in Int
      BY <1>0
    <3>3. Amounts \subseteq Int
      BY AmountsAssumption
    <3>4. QED
      BY <3>1, <3>2, <3>3, Zenon
  <2>3. QED
    BY <1>0, <2>1, <2>2
<1>4. ASSUME NEW b \in Bookings, Progress(b)
      PROVE  \E u \in Users, d \in Int :
               /\ credits' = [credits EXCEPT ![u] = @ + d] /\ spent' = spent - d /\ pool' = pool
  <2>1. /\ 0 \in Int /\ pool' = pool /\ spent' = spent - 0
        /\ credits' = [credits EXCEPT ![bookings[b].user] = @ + 0]
    BY <1>0, <1>4 DEF Progress
  <2>2. QED
    BY <1>0, <2>1
<1>5. QED
  BY <1>1, <1>2, <1>3, <1>4 DEF BookingStep

ConservedInv == TypeOK /\ Conserved

LEMMA ConservedInit == Init => Conserved
<1> SUFFICES ASSUME Init PROVE Conserved
  OBVIOUS
<1>1. \A u \in Users : credits[u] = 0 /\ credits[u] \in Int
  BY DEF Init
<1>2. SumFunctionOnSet(credits, Users) = SumFunctionOnSet(credits, {})
  BY <1>1, UsersAssumption, SumOfSupport
<1>3. SumFunctionOnSet(credits, Users) = 0
  BY <1>2, SumOfNone
<1>4. QED
  BY <1>3, AmountsAssumption DEF Init, Conserved

LEMMA ConservedStep == ASSUME ConservedInv, [Next]_vars PROVE ConservedInv'
<1>0. TypeOK /\ Conserved /\ SumFunctionOnSet(credits, Users) \in Int
  <2>1. TypeOK /\ \A u \in Users : credits[u] \in Int
    BY DEF ConservedInv, TypeOK
  <2>2. QED
    BY <2>1, UsersAssumption, SumIsInt DEF ConservedInv
<1>1. TypeOK'
  BY <1>0, TypeStep
<1>1a. SumFunctionOnSet(credits', Users) \in Int
  <2>1. \A u \in Users : credits'[u] \in Int
    BY <1>1 DEF TypeOK
  <2>2. QED
    BY <2>1, UsersAssumption, SumIsInt
<1>2. ASSUME NEW w \in Workers, StaffStep(w) PROVE Conserved'
  BY <1>0, <1>1, <1>1a, <1>2, HandlerMoves DEF Conserved, TypeOK
<1>3. ASSUME BookingStep PROVE Conserved'
  <2>1. PICK u \in Users, d \in Int :
          /\ credits' = [credits EXCEPT ![u] = @ + d] /\ spent' = spent - d /\ pool' = pool
    BY <1>0, <1>3, BookingMoves
  <2>2. SumFunctionOnSet(credits', Users) = SumFunctionOnSet(credits, Users) + d
    BY <1>0, <2>1, BalanceChange DEF TypeOK
  <2>3. QED
    BY <1>0, <2>1, <2>2 DEF Conserved, TypeOK
<1>4. ASSUME UNCHANGED vars PROVE Conserved'
  BY <1>0, <1>4 DEF vars, Conserved
<1>5. QED
  BY <1>1, <1>2, <1>3, <1>4 DEF Next, ConservedInv

\* No credit is made or lost between the pool, the balances and the bookings,
\* for any members, amounts and handlers, with no assumption on which of them
\* run at the same time or fail.
THEOREM ConservedCorrect == Spec => []Conserved
<1>1. Init => ConservedInv
  BY TypeInit, ConservedInit DEF ConservedInv
<1>2. ConservedInv /\ [Next]_vars => ConservedInv'
  BY ConservedStep
<1>3. ConservedInv => Conserved
  BY DEF ConservedInv
<1>4. QED
  BY <1>1, <1>2, <1>3, PTL DEF Spec

-----------------------------------------------------------------------------
(* A revocation takes nothing of what pending bookings lock when the       *)
(* bookings and the other revocations keep still between its reads and its *)
(* commit: the balance it read is covered then as well.                    *)

Row == [status : BookingStatuses, user : Users, cost : Nat]
\* What one booking locks of the balance of u.
Share(row, u) == IF row.user = u /\ row.status = "PENDING" THEN row.cost ELSE 0
Locked(rows, u) == SumFunctionOnSet([b \in Bookings |-> Share(rows[b], u)], Bookings)

RevokeFresh(w) ==
    LET j == job[w]
    IN  j.op = "revoke" =>
          /\ j.balance <= credits[j.user]
          /\ j.step = "commit" => j.amount + Pending(j.user) <= j.balance

\* A booking of u is made or confirmed.
BooksFor(u) ==
    \/ \E cost \in Amounts : Book(u, cost)
    \/ \E b \in Bookings : bookings[b].user = u /\ Confirm(b)

\* What is supposed of revocations: no two of one member are in progress, and none of
\* his bookings is made or confirmed meanwhile.
OneRevokes ==
    \A v, x \in Workers :
        job[v].op = "revoke" /\ job[x].op = "revoke" /\ job[v].user = job[x].user => v = x
RevokesUndisturbed == \A w \in Workers : job[w].op = "revoke" => ~BooksFor(job[w].user)

CoveredInv ==
    /\ TypeOK
    /\ PendingCovered
    /\ \A w \in Workers : RevokeFresh(w)

LEMMA SumIsLocked ==
  ASSUME NEW rows \in [Bookings -> Row], NEW u
  PROVE  /\ SumFunctionOnSet([b \in Bookings |-> rows[b].cost],
                             {b \in Bookings : rows[b].user = u /\ rows[b].status = "PENDING"})
              = Locked(rows, u)
         /\ Locked(rows, u) \in Nat
<1> DEFINE f == [b \in Bookings |-> rows[b].cost]
           g == [b \in Bookings |-> Share(rows[b], u)]
           T == {b \in Bookings : rows[b].user = u /\ rows[b].status = "PENDING"}
<1>1. T \in SUBSET Bookings /\ IsFiniteSet(T)
  BY BookingsAssumption, FS_Subset
<1>2. /\ \A b \in Bookings : g[b] \in Nat /\ f[b] \in Nat
      /\ \A b \in Bookings \ T : g[b] = 0
      /\ \A b \in T : f[b] = g[b]
  BY DEF Share, Row
<1>3. Locked(rows, u) = SumFunctionOnSet(g, Bookings)
  BY DEF Locked
<1> HIDE DEF f, g, T
<1>4. SumFunctionOnSet(f, T) = SumFunctionOnSet(g, T)
  BY <1>1, <1>2, SumSame
<1>5. SumFunctionOnSet(g, Bookings) = SumFunctionOnSet(g, T)
  BY <1>1, <1>2, BookingsAssumption, SumOfSupport
<1>6. SumFunctionOnSet(g, Bookings) \in Nat
  BY <1>1, <1>2, BookingsAssumption, SumOfPart
<1>7. QED
  BY <1>3, <1>4, <1>5, <1>6 DEF f, T

LEMMA PendingIsLocked ==
  ASSUME NEW u
  PROVE  /\ bookings \in [Bookings -> Row] =>
              Pending(u) = Locked(bookings, u) /\ Pending(u) \in Nat
         /\ bookings' \in [Bookings -> Row] =>
              Pending(u)' = Locked(bookings', u) /\ Pending(u)' \in Nat
<1>1. \A rows \in [Bookings -> Row] :
        /\ SumFunctionOnSet([b \in Bookings |-> rows[b].cost],
                            {b \in Bookings : rows[b].user = u /\ rows[b].status = "PENDING"})
             = Locked(rows, u)
        /\ Locked(rows, u) \in Nat
  BY SumIsLocked
<1>2. \A b \in Bookings : /\ (bookings[b].status \in {"PENDING"}) = (bookings[b].status = "PENDING")
                          /\ (bookings'[b].status \in {"PENDING"}) = (bookings'[b].status = "PENDING")
  OBVIOUS
<1>3. /\ Pending(u) = SumFunctionOnSet([b \in Bookings |-> bookings[b].cost],
                        {b \in Bookings : bookings[b].user = u /\ bookings[b].status = "PENDING"})
      /\ Pending(u)' = SumFunctionOnSet([b \in Bookings |-> bookings'[b].cost],
                        {b \in Bookings : bookings'[b].user = u /\ bookings'[b].status = "PENDING"})
  BY <1>2 DEF Pending, OfUser
<1>4. QED
  BY <1>1, <1>3

\* One booking changes: what it locked is free, what it locks now is not.
LEMMA PendingChange ==
  ASSUME bookings \in [Bookings -> Row], NEW b \in Bookings, NEW r \in Row,
         bookings' = [bookings EXCEPT ![b] = r], NEW u
  PROVE  /\ Pending(u)' = Pending(u) + Share(r, u) - Share(bookings[b], u)
         /\ Pending(u)' \in Nat /\ Pending(u) \in Nat
<1> DEFINE f == [c \in Bookings |-> Share(bookings[c], u)]
           g == [c \in Bookings |-> Share(bookings'[c], u)]
<1>1. bookings' \in [Bookings -> Row]
  OBVIOUS
<1>2. Pending(u) = Locked(bookings, u) /\ Pending(u) \in Nat
  BY PendingIsLocked
<1>3. Pending(u)' = Locked(bookings', u) /\ Pending(u)' \in Nat
  BY <1>1, PendingIsLocked
<1>4. /\ \A c \in Bookings : f[c] \in Int /\ g[c] \in Int
      /\ \A c \in Bookings \ {b} : g[c] = f[c]
      /\ f[b] = Share(bookings[b], u) /\ g[b] = Share(r, u)
  BY <1>1 DEF Share, Row
<1>5. Locked(bookings, u) = SumFunctionOnSet(f, Bookings)
      /\ Locked(bookings', u) = SumFunctionOnSet(g, Bookings)
  BY DEF Locked
<1> HIDE DEF f, g
<1>6. SumFunctionOnSet(g, Bookings) = SumFunctionOnSet(f, Bookings) + g[b] - f[b]
  BY <1>4, BookingsAssumption, SumChange
<1>7. QED
  BY <1>2, <1>3, <1>4, <1>5, <1>6

\* While no booking changes, the locked credits do not.
LEMMA PendingSame ==
  ASSUME bookings \in [Bookings -> Row], bookings' = bookings, NEW u
  PROVE  Pending(u)' = Pending(u) /\ Pending(u) \in Nat
<1>1. Pending(u)' = Pending(u)
  BY DEF Pending, OfUser
<1>2. QED
  BY <1>1, PendingIsLocked

LEMMA BookingsCovered ==
  ASSUME TypeOK, TypeOK', PendingCovered, BookingStep
  PROVE  PendingCovered'
<1>0. /\ bookings \in [Bookings -> Row] /\ bookings' \in [Bookings -> Row]
      /\ credits \in [Users -> Int] /\ credits' \in [Users -> Int]
  BY DEF TypeOK, Row
<1>1. ASSUME NEW b \in Bookings, NEW r \in Row, bookings' = [bookings EXCEPT ![b] = r],
             \A v \in Users : credits[v] >= Pending(v) /\ Pending(v) \in Nat =>
               credits'[v] >= Pending(v) + Share(r, v) - Share(bookings[b], v)
      PROVE  PendingCovered'
  <2>1. ASSUME NEW v \in Users PROVE credits'[v] >= Pending(v)'
    <3>1. Pending(v)' = Pending(v) + Share(r, v) - Share(bookings[b], v) /\ Pending(v) \in Nat
      BY <1>0, <1>1, PendingChange
    <3>2. credits[v] >= Pending(v)
      BY DEF PendingCovered
    <3>3. QED
      BY <1>1, <3>1, <3>2
  <2>2. QED
    BY <2>1 DEF PendingCovered
<1>2. ASSUME NEW u \in Users, NEW cost \in Amounts, Book(u, cost) PROVE PendingCovered'
  <2>1. PICK b \in Bookings, status \in {"PENDING", "CONFIRMED"} :
          /\ bookings[b].status = "none" /\ credits[u] >= cost + Pending(u)
          /\ bookings' = [bookings EXCEPT ![b] = [status |-> status, user |-> u, cost |-> cost]]
          /\ credits' = [credits EXCEPT ![u] = @ - (IF status = "CONFIRMED" THEN cost ELSE 0)]
    BY <1>2 DEF Book
  <2> DEFINE r == [status |-> status, user |-> u, cost |-> cost]
  <2>2. r \in Row /\ cost \in Nat
    BY AmountsAssumption DEF Row, BookingStatuses
  <2>3. ASSUME NEW v \in Users, credits[v] >= Pending(v), Pending(v) \in Nat
        PROVE  credits'[v] >= Pending(v) + Share(r, v) - Share(bookings[b], v)
    <3>1. Share(bookings[b], v) = 0
      BY <2>1 DEF Share
    <3>2. CASE v = u
      <4>1. /\ status = "PENDING" => Share(r, v) = cost /\ credits'[v] = credits[v] - 0
            /\ status = "CONFIRMED" => Share(r, v) = 0 /\ credits'[v] = credits[v] - cost
        BY <1>0, <2>1, <3>2 DEF Share
      <4>2. credits[v] \in Int /\ credits[v] >= cost + Pending(v)
        BY <1>0, <2>1, <3>2
      <4>3. QED
        BY <2>1, <2>2, <2>3, <3>1, <4>1, <4>2
    <3>3. CASE v # u
      <4>1. Share(r, v) = 0 /\ credits'[v] = credits[v] /\ credits[v] \in Int
        BY <1>0, <2>1, <3>3 DEF Share
      <4>2. QED
        BY <2>3, <3>1, <4>1
    <3>4. QED
      BY <3>2, <3>3
  <2> HIDE DEF r
  <2>4. bookings' = [bookings EXCEPT ![b] = r]
    BY <2>1 DEF r
  <2>5. QED
    BY <1>1, <2>2, <2>3, <2>4
<1>3. ASSUME NEW b \in Bookings, Confirm(b) \/ CancelConfirmed(b) \/ Progress(b)
      PROVE  PendingCovered'
  <2>0. bookings[b] \in Row /\ bookings[b].cost \in Nat /\ bookings[b].user \in Users
    BY <1>0 DEF Row
  <2>1. PICK to \in BookingStatuses :
          /\ to # "PENDING"
          /\ bookings' = [bookings EXCEPT ![b].status = to]
          /\ \A v \in Users : credits'[v] >= credits[v] - Share(bookings[b], v)
    <3>1. CASE Confirm(b)
      <4>1. /\ "CONFIRMED" \in BookingStatuses
            /\ bookings' = [bookings EXCEPT ![b].status = "CONFIRMED"]
            /\ \A v \in Users : credits'[v] >= credits[v] - Share(bookings[b], v)
        BY <1>0, <2>0, <3>1 DEF Confirm, Share, BookingStatuses
      <4>2. QED
        BY <4>1
    <3>2. CASE CancelConfirmed(b)
      <4>1. PICK refund \in {bookings[b].cost} \cup {c \in Amounts : 2 * c = bookings[b].cost} :
              credits' = [credits EXCEPT ![bookings[b].user] = @ + refund]
        BY <3>2 DEF CancelConfirmed
      <4>2. refund \in Nat
        BY <2>0, <4>1, AmountsAssumption
      <4>3. /\ "CANCELLED" \in BookingStatuses
            /\ bookings' = [bookings EXCEPT ![b].status = "CANCELLED"]
            /\ \A v \in Users : Share(bookings[b], v) = 0
        BY <3>2 DEF CancelConfirmed, Share, BookingStatuses
      <4>4. \A v \in Users : credits'[v] >= credits[v] - 0
        BY <1>0, <2>0, <4>1, <4>2
      <4>5. QED
        BY <4>3, <4>4
    <3>3. CASE Progress(b)
      <4>1. PICK to \in BookingStatuses :
              to # "PENDING" /\ bookings' = [bookings EXCEPT ![b].status = to]
        BY <3>3 DEF Progress
      <4>2. credits' = credits /\ \A v \in Users : Share(bookings[b], v) \in Nat
        BY <2>0, <3>3 DEF Progress, Share
      <4>3. \A v \in Users : credits'[v] >= credits[v] - Share(bookings[b], v)
        BY <1>0, <4>2
      <4>4. QED
        BY <4>1, <4>3
    <3>4. QED
      BY <1>3, <3>1, <3>2, <3>3
  <2> DEFINE r == [bookings[b] EXCEPT !.status = to]
  <2>2. /\ r \in Row /\ bookings' = [bookings EXCEPT ![b] = r]
        /\ \A v \in Users : Share(r, v) = 0
    BY <1>0, <2>0, <2>1 DEF Row, Share
  <2> HIDE DEF r
  <2>3. ASSUME NEW v \in Users, credits[v] >= Pending(v), Pending(v) \in Nat
        PROVE  credits'[v] >= Pending(v) + Share(r, v) - Share(bookings[b], v)
    <3>1. Share(bookings[b], v) \in Nat
      BY <2>0 DEF Share
    <3>2. QED
      BY <1>0, <2>1, <2>2, <2>3, <3>1
  <2>4. QED
    BY <1>1, <2>2, <2>3
<1>4. QED
  BY <1>2, <1>3 DEF BookingStep

\* A booking step that is none of BooksFor takes nothing from the balance of u and
\* locks nothing more of it.
LEMMA BookingsEase ==
  ASSUME TypeOK, TypeOK', BookingStep, NEW u \in Users, ~BooksFor(u)
  PROVE  credits'[u] >= credits[u] /\ Pending(u)' <= Pending(u)
<1>0. /\ bookings \in [Bookings -> Row] /\ bookings' \in [Bookings -> Row]
      /\ credits \in [Users -> Int] /\ credits' \in [Users -> Int]
  BY DEF TypeOK, Row
<1>1. ASSUME NEW b \in Bookings, NEW r \in Row, bookings' = [bookings EXCEPT ![b] = r],
             Share(r, u) = 0
      PROVE  Pending(u)' <= Pending(u)
  <2>1. Pending(u)' = Pending(u) + Share(r, u) - Share(bookings[b], u)
        /\ Pending(u) \in Nat /\ Pending(u)' \in Nat
    BY <1>0, <1>1, PendingChange
  <2>2. Share(bookings[b], u) \in Nat
    BY <1>0 DEF Share, Row
  <2>3. QED
    BY <1>1, <2>1, <2>2
<1>2. ASSUME NEW v \in Users, NEW cost \in Amounts, Book(v, cost)
      PROVE  credits'[u] >= credits[u] /\ Pending(u)' <= Pending(u)
  <2>1. PICK b \in Bookings, status \in {"PENDING", "CONFIRMED"} :
          /\ bookings' = [bookings EXCEPT ![b] = [status |-> status, user |-> v, cost |-> cost]]
          /\ credits' = [credits EXCEPT ![v] = @ - (IF status = "CONFIRMED" THEN cost ELSE 0)]
    BY <1>2 DEF Book
  <2> DEFINE r == [status |-> status, user |-> v, cost |-> cost]
  <2>2. v # u
    BY <1>2 DEF BooksFor
  <2>3. r \in Row /\ Share(r, u) = 0
    BY <2>2, AmountsAssumption DEF Row, BookingStatuses, Share
  <2>4. credits'[u] = credits[u] /\ credits[u] \in Int
    BY <1>0, <2>1, <2>2
  <2>5. bookings' = [bookings EXCEPT ![b] = r]
    BY <2>1
  <2> HIDE DEF r
  <2>6. Pending(u)' <= Pending(u)
    BY <1>1, <2>3, <2>5
  <2>7. QED
    BY <2>4, <2>6
<1>3. ASSUME NEW b \in Bookings, Confirm(b) \/ CancelConfirmed(b) \/ Progress(b)
      PROVE  credits'[u] >= credits[u] /\ Pending(u)' <= Pending(u)
  <2>0. bookings[b] \in Row /\ bookings[b].cost \in Nat /\ bookings[b].user \in Users
    BY <1>0 DEF Row
  <2>1. PICK to \in BookingStatuses :
          to # "PENDING" /\ bookings' = [bookings EXCEPT ![b].status = to]
    BY <1>3 DEF Confirm, CancelConfirmed, Progress, BookingStatuses
  <2>2. Pending(u)' <= Pending(u)
    <3> DEFINE r == [bookings[b] EXCEPT !.status = to]
    <3>1. r \in Row /\ Share(r, u) = 0 /\ bookings' = [bookings EXCEPT ![b] = r]
      BY <1>0, <2>0, <2>1 DEF Row, Share
    <3> HIDE DEF r
    <3>2. QED
      BY <1>1, <3>1
  <2>3. credits'[u] >= credits[u]
    <3>1. CASE Confirm(b)
      <4>1. bookings[b].user # u
        BY <3>1 DEF BooksFor
      <4>2. QED
        BY <1>0, <3>1, <4>1 DEF Confirm
    <3>2. CASE CancelConfirmed(b)
      <4>1. PICK refund \in {bookings[b].cost} \cup {c \in Amounts : 2 * c = bookings[b].cost} :
              credits' = [credits EXCEPT ![bookings[b].user] = @ + refund]
        BY <3>2 DEF CancelConfirmed
      <4>2. refund \in Nat
        BY <2>0, <4>1, AmountsAssumption
      <4>3. QED
        BY <1>0, <2>0, <4>1, <4>2
    <3>3. CASE Progress(b)
      BY <1>0, <3>3 DEF Progress
    <3>4. QED
      BY <1>3, <3>1, <3>2, <3>3
  <2>4. QED
    BY <2>2, <2>3
<1>4. QED
  BY <1>2, <1>3 DEF BookingStep

\* What a revocation found stays true while the balance of its member only grows
\* and no more of it is locked.
LEMMA RevokeStaysFresh ==
  ASSUME TypeOK, TypeOK', NEW w \in Workers, RevokeFresh(w),
         job'[w] = job[w] \/ job'[w].op # "revoke",
         \A u \in Users : job[w].op = "revoke" /\ job[w].user = u =>
             credits'[u] >= credits[u] /\ Pending(u)' <= Pending(u)
  PROVE  RevokeFresh(w)'
<1> SUFFICES ASSUME job'[w].op = "revoke" PROVE RevokeFresh(w)'
  BY DEF RevokeFresh
<1>1. job'[w] = job[w] /\ job[w].op = "revoke" /\ job[w] \in RevokeJob
  BY JobKinds DEF TypeOK
<1>2. PICK u \in Users : u = job[w].user
  BY <1>1 DEF RevokeJob
<1>3. PICK balance \in Int, amount \in Nat : balance = job[w].balance /\ amount = job[w].amount
  BY <1>1, AmountsAssumption DEF RevokeJob
<1>4. balance <= credits[u] /\ (job[w].step = "commit" => amount + Pending(u) <= balance)
  BY <1>1, <1>2, <1>3 DEF RevokeFresh
<1>5. /\ credits[u] \in Int /\ credits'[u] \in Int /\ Pending(u) \in Nat /\ Pending(u)' \in Nat
      /\ credits'[u] >= credits[u] /\ Pending(u)' <= Pending(u)
  BY <1>1, <1>2, PendingIsLocked DEF TypeOK, Row
<1>6. balance <= credits'[u] /\ (job[w].step = "commit" => amount + Pending(u)' <= balance)
  BY <1>3, <1>4, <1>5
<1>7. QED
  BY <1>1, <1>2, <1>3, <1>6 DEF RevokeFresh

\* A step that takes from no balance and takes no revocation further.
LEMMA CalmStaysCovered ==
  ASSUME CoveredInv, TypeOK', bookings' = bookings, \A u \in Users : credits'[u] >= credits[u],
         \A w \in Workers : job'[w] = job[w] \/ job'[w].op # "revoke"
  PROVE  CoveredInv'
<1>0. /\ bookings \in [Bookings -> Row] /\ TypeOK /\ PendingCovered
      /\ \A u \in Users : credits[u] \in Int /\ credits'[u] \in Int
  BY DEF CoveredInv, TypeOK, Row
<1>1. \A u \in Users : Pending(u)' = Pending(u) /\ Pending(u) \in Nat
  BY <1>0, PendingSame
<1>2. PendingCovered'
  BY <1>0, <1>1 DEF PendingCovered
<1>3. ASSUME NEW w \in Workers PROVE RevokeFresh(w)'
  <2>1. \A u \in Users : credits'[u] >= credits[u] /\ Pending(u)' <= Pending(u)
    BY <1>1
  <2>2. RevokeFresh(w)
    BY DEF CoveredInv
  <2>3. QED
    BY <1>0, <2>1, <2>2, RevokeStaysFresh
<1>4. QED
  BY <1>2, <1>3 DEF CoveredInv

LEMMA RevokesStayCovered ==
  ASSUME CoveredInv, TypeOK', OneRevokes, NEW w \in Workers,
         RevokeRead(w) \/ RevokeCheck(w) \/ RevokeCommit(w)
  PROVE  CoveredInv'
<1>0. /\ bookings \in [Bookings -> Row] /\ TypeOK /\ PendingCovered
      /\ \A u \in Users : credits[u] \in Int /\ credits'[u] \in Int
      /\ bookings' = bookings
      /\ \A v \in Workers : RevokeFresh(v)
  BY DEF CoveredInv, TypeOK, Row, RevokeRead, RevokeCheck, RevokeCommit
<1>1. \A u \in Users : Pending(u)' = Pending(u) /\ Pending(u) \in Nat
  BY <1>0, PendingSame
\* The revocations in progress of members whose balances do not change.
<1>9. ASSUME NEW v \in Workers, job'[v] = job[v],
             \A u \in Users : job[v].op = "revoke" /\ job[v].user = u => credits'[u] = credits[u]
      PROVE  RevokeFresh(v)'
  <2>1. \A u \in Users : job[v].op = "revoke" /\ job[v].user = u =>
          credits'[u] >= credits[u] /\ Pending(u)' <= Pending(u)
    BY <1>0, <1>1, <1>9
  <2>2. QED
    BY <1>0, <1>9, <2>1, RevokeStaysFresh
<1>2. CASE RevokeRead(w)
  <2>1. PICK u \in Members, c \in Amounts :
          Start(w, [op |-> "revoke", step |-> "check", user |-> u, amount |-> c,
                    balance |-> credits[u]])
    BY <1>2 DEF RevokeRead
  <2>2. /\ job'[w] = [op |-> "revoke", step |-> "check", user |-> u, amount |-> c,
                      balance |-> credits[u]]
        /\ \A v \in Workers \ {w} : job'[v] = job[v]
    BY <1>0, <2>1 DEF Start, TypeOK
  <2>3. u \in Users /\ credits' = credits
    BY <1>2 DEF RevokeRead, Members
  <2>4. RevokeFresh(w)'
    BY <1>0, <2>2, <2>3 DEF RevokeFresh
  <2>5. \A v \in Workers \ {w} : RevokeFresh(v)'
    BY <1>9, <2>2, <2>3
  <2>6. QED
    BY <1>0, <1>1, <2>3, <2>4, <2>5 DEF CoveredInv, PendingCovered
<1>3. CASE RevokeCheck(w)
  <2>1. job[w].op = "revoke" /\ job[w] \in RevokeJob /\ credits' = credits
    BY <1>0, <1>3, JobKinds DEF RevokeCheck, At, TypeOK
  <2>2. CASE Return(w)
    <3>1. \A v \in Workers : job'[v] = job[v] \/ job'[v].op # "revoke"
      BY <1>0, <2>2 DEF Return, Idle, TypeOK
    <3>2. QED
      BY <1>0, <2>1, <3>1, CalmStaysCovered
  <2>3. CASE /\ job' = [job EXCEPT ![w].step = "commit"]
             /\ job[w].balance - Pending(job[w].user) >= job[w].amount
    <3>1. PICK u \in Users : u = job[w].user
      BY <2>1 DEF RevokeJob
    <3>2. /\ job'[w].user = u /\ job'[w].balance = job[w].balance
          /\ job'[w].amount = job[w].amount /\ job'[w].op = "revoke"
          /\ \A v \in Workers \ {w} : job'[v] = job[v]
      BY <1>0, <2>1, <2>3, <3>1 DEF TypeOK, RevokeJob
    <3>3. job[w].balance \in Int /\ job[w].amount \in Int /\ Pending(u) \in Int
      <4>1. job[w].balance \in Int /\ job[w].amount \in Amounts
        BY <2>1 DEF RevokeJob
      <4>2. job[w].amount \in Int
        <5>1. Amounts \subseteq Int
          BY AmountsAssumption
        <5>2. QED
          BY <4>1, <5>1, Zenon
      <4>3. Pending(u) \in Int
        BY <1>1
      <4>4. QED
        BY <4>1, <4>2, <4>3
    <3>4. /\ job[w].balance <= credits'[u]
          /\ job[w].amount + Pending(u)' <= job[w].balance
      <4>1. job[w].balance <= credits[u]
        BY <2>1, <3>1 DEF CoveredInv, RevokeFresh
      <4>2. QED
        BY <1>1, <2>1, <2>3, <3>1, <3>3, <4>1
    <3>5. RevokeFresh(w)'
      BY <3>2, <3>4 DEF RevokeFresh
    <3>6. \A v \in Workers \ {w} : RevokeFresh(v)'
      BY <1>9, <2>1, <3>2
    <3>7. QED
      BY <1>0, <1>1, <2>1, <3>5, <3>6 DEF CoveredInv, PendingCovered
  <2>4. QED
    BY <1>3, <2>2, <2>3 DEF RevokeCheck, ContinueIf
<1>4. CASE RevokeCommit(w)
  <2>1. /\ job[w].op = "revoke" /\ job[w] \in RevokeJob /\ job[w].step = "commit"
        /\ job' = [job EXCEPT ![w] = Idle]
    BY <1>0, <1>4, JobKinds DEF RevokeCommit, At, Return, TypeOK
  <2>2. job'[w].op # "revoke" /\ \A v \in Workers \ {w} : job'[v] = job[v]
    BY <1>0, <2>1 DEF Idle, TypeOK
  <2>3. PICK u \in Users : u = job[w].user
    BY <2>1 DEF RevokeJob
  <2>4. PICK c \in Nat : c = job[w].amount
    BY <2>1, AmountsAssumption DEF RevokeJob
  <2>5. credits[u] >= c + Pending(u)
    <3>1. job[w].balance <= credits[u] /\ c + Pending(u) <= job[w].balance
      BY <2>1, <2>3, <2>4 DEF CoveredInv, RevokeFresh
    <3>2. job[w].balance \in Int
      BY <2>1 DEF RevokeJob
    <3>3. QED
      BY <1>0, <1>1, <3>1, <3>2
  <2>6. credits' = credits \/ credits' = [credits EXCEPT ![u] = @ - c]
    BY <1>4, <2>3, <2>4 DEF RevokeCommit
  <2>7. \A v \in Users : credits'[v] >= Pending(v)
    <3>1. ASSUME NEW v \in Users PROVE credits'[v] >= Pending(v)
      <4>1. credits[v] >= Pending(v)
        BY <1>0 DEF PendingCovered
      <4>2. credits'[v] = credits[v] \/ (v = u /\ credits'[v] = credits[u] - c)
        BY <1>0, <2>6 DEF TypeOK
      <4>3. QED
        BY <1>0, <1>1, <2>5, <4>1, <4>2
    <3>2. QED
      BY <3>1
  \* Nobody else revokes of this member.
  <2>8. ASSUME NEW v \in Workers \ {w} PROVE RevokeFresh(v)'
    <3>1. job[v].op = "revoke" => job[v].user # u
      BY <2>1, <2>3 DEF OneRevokes
    <3>2. \A x \in Users : job[v].op = "revoke" /\ job[v].user = x => credits'[x] = credits[x]
      BY <1>0, <2>6, <3>1 DEF TypeOK
    <3>3. QED
      BY <1>9, <2>2, <3>2
  <2>9. RevokeFresh(w)'
    BY <2>2 DEF RevokeFresh
  <2>10. QED
    BY <1>0, <1>1, <2>7, <2>8, <2>9 DEF CoveredInv, PendingCovered
<1>5. QED
  BY <1>2, <1>3, <1>4

\* An allocation, single or in bulk, adds to balances.
LEMMA AllocationsAdd ==
  ASSUME TypeOK, NEW w \in Workers, AllocateCommit(w) \/ BulkCommit(w)
  PROVE  /\ \A u \in Users : credits'[u] >= credits[u]
         /\ \A u \in Users \ Members : credits'[u] = credits[u]
<1>0. credits \in [Users -> Int]
  BY DEF TypeOK
<1>1. CASE AllocateCommit(w)
  <2>1. job[w] \in AllocateJob
    BY <1>1, JobKinds DEF AllocateCommit, At, TypeOK
  <2>2. job[w].amount \in Nat /\ job[w].user \in Users
    BY <2>1, AmountsAssumption DEF AllocateJob
  <2>3. \/ credits' = credits
        \/ job[w].user \in Members /\ credits' = [credits EXCEPT ![job[w].user] = @ + job[w].amount]
    BY <1>1 DEF AllocateCommit
  <2>4. QED
    BY <1>0, <2>2, <2>3
<1>2. CASE BulkCommit(w)
  <2> DEFINE j == job[w]
             once == [credits EXCEPT ![j.user] = @ + j.amount]
  <2>1. job[w] \in BulkJob
    BY <1>2, JobKinds DEF BulkCommit, At, TypeOK
  <2>2. /\ j.amount \in Nat /\ j.user \in Users
        /\ j.amount2 \in Nat /\ j.user2 \in Users
    BY <2>1, AmountsAssumption DEF BulkJob
  <2>3. \/ credits' = credits
        \/ /\ {j.user, j.user2} \subseteq Members
           /\ credits' = [once EXCEPT ![j.user2] = @ + j.amount2]
    BY <1>2 DEF BulkCommit
  <2>4. /\ once \in [Users -> Int] /\ \A u \in Users : once[u] >= credits[u]
        /\ j.user \in Members => \A u \in Users \ Members : once[u] = credits[u]
    BY <1>0, <2>2
  <2> HIDE DEF once, j
  <2>5. QED
    BY <1>0, <2>2, <2>3, <2>4
<1>3. QED
  BY <1>1, <1>2

\* Only allocations, revocations and bookings change balances, only bookings
\* the bookings, and only a revocation goes on as one.
LEMMA Spares ==
  ASSUME TypeOK, NEW w \in Workers,
         \/ CreateRead(w) \/ CreateCommit(w) \/ DeleteRead(w) \/ DeleteCheck(w)
         \/ DeleteCommit(w) \/ AllocateRead(w) \/ AllocateCommit(w) \/ BulkRead(w)
         \/ BulkCommit(w) \/ RequestFails(w)
  PROVE  /\ bookings' = bookings
         /\ AllocateCommit(w) \/ BulkCommit(w) \/ credits' = credits
         /\ \A v \in Workers : job'[v] = job[v] \/ job'[v].op # "revoke"
<1>1. /\ bookings' = bookings
      /\ AllocateCommit(w) \/ BulkCommit(w) \/ credits' = credits
  BY DEF CreateRead, CreateCommit, DeleteRead, DeleteCheck, DeleteCommit, AllocateRead,
         AllocateCommit, BulkRead, BulkCommit, RequestFails
<1>2. \A v \in Workers : job'[v] = job[v] \/ job'[v].op # "revoke"
  <2>1. CASE DeleteCheck(w)
    <3>1. job[w] \in DeleteJob
      BY <2>1, JobKinds DEF DeleteCheck, At, TypeOK
    <3>2. CASE Return(w)
      BY <3>2 DEF Return, Idle, TypeOK
    <3>3. CASE job' = [job EXCEPT ![w].step = "commit"]
      BY <3>1, <3>3 DEF TypeOK, DeleteJob
    <3>4. QED
      BY <2>1, <3>2, <3>3 DEF DeleteCheck, ContinueIf
  <2>2. CASE CreateRead(w) \/ DeleteRead(w) \/ AllocateRead(w) \/ BulkRead(w)
    BY <2>2, Begins
  <2>3. CASE \/ CreateCommit(w) \/ DeleteCommit(w) \/ AllocateCommit(w) \/ BulkCommit(w)
             \/ RequestFails(w)
    <3>1. Return(w)
      BY <2>3 DEF CreateCommit, DeleteCommit, AllocateCommit, BulkCommit, RequestFails
    <3>2. QED
      BY <3>1 DEF Return, Idle, TypeOK
  <2>4. QED
    BY <2>1, <2>2, <2>3
<1>3. QED
  BY <1>1, <1>2

LEMMA CoveredStep ==
  ASSUME CoveredInv, TypeOK', OneRevokes, [Next]_vars, [RevokesUndisturbed]_vars
  PROVE  CoveredInv'
<1>0. TypeOK /\ \A u \in Users : credits[u] \in Int /\ credits[u] >= credits[u]
  BY DEF CoveredInv, TypeOK
<1>1. ASSUME UNCHANGED vars PROVE CoveredInv'
  BY <1>0, <1>1, CalmStaysCovered DEF vars
<1>2. ASSUME NEW w \in Workers, RevokeRead(w) \/ RevokeCheck(w) \/ RevokeCommit(w)
      PROVE  CoveredInv'
  BY <1>2, RevokesStayCovered
<1>3. ASSUME NEW w \in Workers, StaffStep(w), ~(RevokeRead(w) \/ RevokeCheck(w) \/ RevokeCommit(w))
      PROVE  CoveredInv'
  <2>1. /\ bookings' = bookings
        /\ AllocateCommit(w) \/ BulkCommit(w) \/ credits' = credits
        /\ \A v \in Workers : job'[v] = job[v] \/ job'[v].op # "revoke"
    BY <1>0, <1>3, Spares DEF StaffStep
  <2>2. \A u \in Users : credits'[u] >= credits[u]
    BY <1>0, <2>1, AllocationsAdd
  <2>3. QED
    BY <2>1, <2>2, CalmStaysCovered
<1>4. ASSUME BookingStep PROVE CoveredInv'
  <2>1. job' = job
    BY <1>4 DEF BookingStep, Book, Confirm, CancelConfirmed, Progress
  <2>2. PendingCovered'
    BY <1>0, <1>4, BookingsCovered DEF CoveredInv
  <2>3. ASSUME NEW w \in Workers, RevokesUndisturbed PROVE RevokeFresh(w)'
    <3>1. \A u \in Users : job[w].op = "revoke" /\ job[w].user = u =>
            credits'[u] >= credits[u] /\ Pending(u)' <= Pending(u)
      BY <1>0, <1>4, <2>3, BookingsEase DEF RevokesUndisturbed
    <3>2. RevokeFresh(w)
      BY DEF CoveredInv
    <3>3. QED
      BY <1>0, <2>1, <3>1, <3>2, RevokeStaysFresh
  <2>4. CASE RevokesUndisturbed
    BY <1>0, <2>2, <2>3, <2>4 DEF CoveredInv
  <2>5. QED
    BY <1>1, <2>4
<1>5. QED
  BY <1>1, <1>2, <1>3, <1>4 DEF Next

LEMMA CoveredInit == Init => CoveredInv
<1> SUFFICES ASSUME Init PROVE CoveredInv
  OBVIOUS
<1>1. TypeOK
  BY TypeInit
<1>2. \A u \in Users : OfUser(u, {"PENDING"}) = {}
  BY DEF Init, OfUser
<1>3. \A u \in Users : Pending(u) = 0
  BY <1>2, SumOfNone DEF Pending
<1>4. QED
  BY <1>1, <1>3 DEF Init, CoveredInv, PendingCovered, RevokeFresh, Idle

\* A balance covers the pending bookings accepted on it, whatever is revoked, if no
\* two revocations of one member meet, nor one and a booking of his: the revocations
\* and bookings of different members, allocations, creations and deletions may
\* interleave as they like.
THEOREM PendingCoveredCorrect ==
  Spec /\ []OneRevokes /\ [][RevokesUndisturbed]_vars => []PendingCovered
<1>1. CoveredInv /\ OneRevokes /\ [Next]_vars /\ [RevokesUndisturbed]_vars => CoveredInv'
  BY TypeStep, CoveredStep DEF CoveredInv
<1>2. CoveredInv => PendingCovered
  BY DEF CoveredInv
<1>3. QED
  BY CoveredInit, <1>1, <1>2, PTL DEF Spec

\* While a handler of a kind that excludes bookings is in progress, no booking is
\* made, confirmed or cancelled.
LEMMA LockKeepsBookingsOut ==
  ASSUME "book" \in Exclusive, NEW w \in Workers, job[w].op \in Exclusive
  PROVE  /\ \A u, cost : ~Book(u, cost)
         /\ \A b : ~Confirm(b) /\ ~CancelConfirmed(b)
<1>1. ~MayStart("book")
  BY DEF MayStart, Busy
<1>2. QED
  BY <1>1 DEF Book, Confirm, CancelConfirmed

LEMMA LockedRevokes ==
  ASSUME {"revoke", "book"} \subseteq Exclusive
  PROVE  Spec => []OneRevokes /\ [][RevokesUndisturbed]_vars
<1>0. {"revoke"} \in SUBSET StaffRequests /\ {"revoke"} \subseteq Exclusive
  BY DEF StaffRequests
<1>1. Init => TypeOK /\ OneOf({"revoke"})
  BY <1>0, TypeInit, OneOfInit
<1>2. TypeOK /\ OneOf({"revoke"}) /\ [Next]_vars => TypeOK' /\ OneOf({"revoke"})'
  BY <1>0, TypeStep, OneOfStep
<1>3. OneOf({"revoke"}) => OneRevokes
  BY DEF OneOf, OneRevokes
<1>4. RevokesUndisturbed
  BY LockKeepsBookingsOut DEF RevokesUndisturbed, BooksFor
<1>5. QED
  BY <1>1, <1>2, <1>3, <1>4, PTL DEF Spec

\* So it is enough that revocations and bookings exclude one another.
THEOREM PendingCoveredLocked ==
  ASSUME {"revoke", "book"} \subseteq Exclusive PROVE Spec => []PendingCovered
  BY LockedRevokes, PendingCoveredCorrect, PTL

-----------------------------------------------------------------------------
(* Nothing goes with a member who is deleted: a deletion whose member is   *)
(* given nothing meanwhile finds the balance at zero, because it covers    *)
(* what pending bookings lock, and no booking open.  Who is no member has  *)
(* nothing left, and what is booked for him costs nothing.                 *)

\* u is given credits, by an allocation or by a refund, or a booking.
Gives(w, u) ==
    \/ AllocateCommit(w) /\ job[w].user = u
    \/ BulkCommit(w) /\ u \in {job[w].user, job[w].user2}
Endows(u) ==
    \/ \E w \in Workers : Gives(w, u)
    \/ \E cost \in Amounts : Book(u, cost)
    \/ \E b \in Bookings : bookings[b].user = u /\ CancelConfirmed(b)

\* What is supposed of deletions: that their member is given nothing meanwhile.
DeletesUndisturbed == \A w \in Workers : job[w].op = "delete" => ~Endows(job[w].user)

OpenOf(rows, u) ==
    {b \in Bookings : rows[b].user = u /\ rows[b].status \in {"PENDING", "CONFIRMED"}}

DeleteFresh(w) ==
    LET j == job[w]
    IN  j.op = "delete" =>
          /\ credits[j.user] <= j.balance
          /\ j.step = "commit" => j.balance <= 0 /\ OpenOf(bookings, j.user) = {}

LeftNothing(u) == credits[u] = 0 /\ \A b \in OpenOf(bookings, u) : bookings[b].cost = 0

LostInv ==
    /\ CoveredInv
    /\ Conserved
    /\ \A w \in Workers : DeleteFresh(w)
    /\ \A u \in Users \ Members : LeftNothing(u)

\* A step of a request handler leaves those who are then no members with nothing:
\* a deletion finds that its user has nothing, the others spare who is no member.
LEMMA HandlersLeaveNothing ==
  ASSUME LostInv, NEW w \in Workers, StaffStep(w)
  PROVE  \A u \in Users \ Members' : LeftNothing(u)'
<1>0. /\ TypeOK /\ credits \in [Users -> Int] /\ bookings' = bookings
      /\ \A u \in Users \ Members : LeftNothing(u)
  BY Spares DEF LostInv, CoveredInv, TypeOK, StaffStep, RevokeRead, RevokeCheck, RevokeCommit
<1>1. ASSUME NEW u \in Users, LeftNothing(u), credits'[u] = credits[u]
      PROVE  LeftNothing(u)'
  BY <1>0, <1>1 DEF LeftNothing
<1>2. CASE DeleteCommit(w)
  <2>1. /\ job[w].op = "delete" /\ job[w].step = "commit" /\ job[w] \in DeleteJob
        /\ credits' = credits
        /\ Members' = Members \ {job[w].user}
    <3>1. job[w].op = "delete" /\ job[w].step = "commit" /\ job[w] \in DeleteJob
      BY <1>0, <1>2, JobKinds DEF DeleteCommit, At, TypeOK
    <3>2. credits' = credits /\ Members' = Members \ {job[w].user}
      BY <1>0, <1>2 DEF DeleteCommit, Members, TypeOK
    <3>3. QED
      BY <3>1, <3>2
  <2>2. PICK u \in Users : u = job[w].user
    BY <2>1 DEF DeleteJob
  <2>3. credits[u] <= 0 /\ OpenOf(bookings, u) = {}
    <3>1. /\ credits[u] <= job[w].balance /\ job[w].balance <= 0
          /\ OpenOf(bookings, u) = {}
      BY <2>1, <2>2 DEF LostInv, DeleteFresh
    <3>2. job[w].balance \in Int /\ credits[u] \in Int
      BY <1>0, <2>1 DEF DeleteJob
    <3>3. QED
      BY <3>1, <3>2
  <2>4. credits[u] >= Pending(u) /\ Pending(u) \in Nat
    BY <1>0, PendingIsLocked DEF LostInv, CoveredInv, PendingCovered, TypeOK, Row
  <2>5. LeftNothing(u)
    BY <1>0, <2>3, <2>4 DEF LeftNothing
  <2>6. QED
    BY <1>0, <1>1, <2>1, <2>2, <2>5
<1>3. CASE RevokeCommit(w)
  <2>1. Members' = Members /\ \A u \in Users \ Members : credits'[u] = credits[u]
    BY <1>0, <1>3 DEF RevokeCommit, Members
  <2>2. QED
    BY <1>0, <1>1, <2>1
<1>4. CASE AllocateCommit(w) \/ BulkCommit(w)
  <2>1. Members' = Members /\ \A u \in Users \ Members : credits'[u] = credits[u]
    BY <1>0, <1>4, AllocationsAdd DEF AllocateCommit, BulkCommit, Members
  <2>2. QED
    BY <1>0, <1>1, <2>1
<1>5. CASE ~(DeleteCommit(w) \/ RevokeCommit(w) \/ AllocateCommit(w) \/ BulkCommit(w))
  <2>1. credits' = credits
    BY <1>0, <1>5, Spares DEF StaffStep, RevokeRead, RevokeCheck
  <2>2. Members \subseteq Members'
    <3>1. CASE CreateCommit(w)
      BY <1>0, <3>1 DEF CreateCommit, Members, TypeOK
    <3>2. CASE ~CreateCommit(w)
      <4>1. membership' = membership
        BY <1>5, <3>2, Leaves DEF StaffStep, CreateRead
      <4>2. QED
        BY <4>1 DEF Members
    <3>3. QED
      BY <3>1, <3>2
  <2>3. QED
    BY <1>0, <1>1, <2>1, <2>2
<1>6. QED
  BY <1>2, <1>3, <1>4, <1>5

\* What is booked for him who has nothing costs nothing.
LEMMA BookingsLeaveNothing ==
  ASSUME LostInv, TypeOK', BookingStep
  PROVE  \A u \in Users \ Members' : LeftNothing(u)'
<1>0. /\ TypeOK /\ credits \in [Users -> Int] /\ bookings \in [Bookings -> Row]
      /\ \A u \in Users \ Members : LeftNothing(u)
      /\ \A u \in Users : Pending(u) \in Nat
  BY PendingIsLocked DEF LostInv, CoveredInv, TypeOK, Row
<1>1. Members' = Members
  BY DEF BookingStep, Book, Confirm, CancelConfirmed, Progress, Members
<1> SUFFICES ASSUME NEW v \in Users, LeftNothing(v) PROVE LeftNothing(v)'
  BY <1>0, <1>1
<1>2. credits[v] = 0 /\ \A b \in OpenOf(bookings, v) : bookings[b].cost = 0
  BY DEF LeftNothing
<1>3. ASSUME credits'[v] = 0,
             \A b \in OpenOf(bookings', v) :
                 \/ b \in OpenOf(bookings, v) /\ bookings'[b].cost = bookings[b].cost
                 \/ bookings'[b].cost = 0
      PROVE  LeftNothing(v)'
  BY <1>2, <1>3 DEF LeftNothing
<1>4. ASSUME NEW u \in Users, NEW cost \in Amounts, Book(u, cost) PROVE LeftNothing(v)'
  <2>1. PICK b \in Bookings, status \in {"PENDING", "CONFIRMED"} :
          /\ credits[u] >= cost + Pending(u)
          /\ bookings' = [bookings EXCEPT ![b] = [status |-> status, user |-> u, cost |-> cost]]
          /\ credits' = [credits EXCEPT ![u] = @ - (IF status = "CONFIRMED" THEN cost ELSE 0)]
    BY <1>4 DEF Book
  <2>2. cost \in Nat
    BY AmountsAssumption
  <2>3. CASE u = v
    <3>1. cost = 0
      BY <1>0, <1>2, <2>1, <2>2, <2>3
    <3>2. credits'[v] = 0
      BY <1>0, <1>2, <2>1, <3>1
    <3>3. \A c \in OpenOf(bookings', v) :
            \/ c \in OpenOf(bookings, v) /\ bookings'[c].cost = bookings[c].cost
            \/ bookings'[c].cost = 0
      BY <1>0, <2>1, <3>1 DEF OpenOf
    <3>4. QED
      BY <1>3, <3>2, <3>3
  <2>4. CASE u # v
    <3>1. credits'[v] = 0
      BY <1>0, <1>2, <2>1, <2>4
    <3>2. \A c \in OpenOf(bookings', v) :
            c \in OpenOf(bookings, v) /\ bookings'[c].cost = bookings[c].cost
      BY <1>0, <2>1, <2>4 DEF OpenOf
    <3>3. QED
      BY <1>3, <3>1, <3>2
  <2>5. QED
    BY <2>3, <2>4
<1>5. ASSUME NEW b \in Bookings, Confirm(b) \/ CancelConfirmed(b) \/ Progress(b)
      PROVE  LeftNothing(v)'
  <2>0. bookings[b].cost \in Nat /\ bookings[b].user \in Users
    BY <1>0 DEF Row
  <2>1. PICK to \in BookingStatuses : bookings' = [bookings EXCEPT ![b].status = to]
    BY <1>5 DEF Confirm, CancelConfirmed, Progress, BookingStatuses
  <2>2. PICK d \in Int :
          /\ credits' = credits \/ credits' = [credits EXCEPT ![bookings[b].user] = @ + d]
          /\ bookings[b].status \in {"PENDING", "CONFIRMED"} \/ credits' = credits
          /\ bookings[b].cost = 0 => d = 0
    <3>0. PICK u \in Users, k \in Nat : u = bookings[b].user /\ k = bookings[b].cost
      BY <2>0
    <3>1. CASE Confirm(b)
      <4>1. /\ bookings[b].status \in {"PENDING", "CONFIRMED"}
            /\ credits' = [credits EXCEPT ![u] = @ - k]
        BY <3>0, <3>1 DEF Confirm
      <4>2. -k \in Int /\ credits' = [credits EXCEPT ![u] = @ + (-k)] /\ (k = 0 => -k = 0)
        <5>1. k \in Int /\ (k = 0 => -k = 0)
          OBVIOUS
        <5>2. -k \in Int /\ [credits EXCEPT ![u] = @ - k] = [credits EXCEPT ![u] = @ + (-k)]
          BY <1>0, <5>1, TakeIsGiveLess
        <5>3. QED
          BY <4>1, <5>1, <5>2
      <4>3. QED
        BY <3>0, <4>1, <4>2
    <3>2. CASE CancelConfirmed(b)
      <4>1. PICK refund \in {k} \cup {c \in Amounts : 2 * c = k} :
              credits' = [credits EXCEPT ![u] = @ + refund]
        BY <3>0, <3>2 DEF CancelConfirmed
      <4>2. refund \in Int /\ (k = 0 => refund = 0)
        <5>1. CASE refund = k
          BY <5>1
        <5>2. CASE refund \in Amounts /\ 2 * refund = k
          <6>1. refund \in Nat
            BY <5>2, AmountsAssumption
          <6>2. QED
            BY <5>2, <6>1
        <5>3. QED
          BY <4>1, <5>1, <5>2
      <4>3. bookings[b].status \in {"PENDING", "CONFIRMED"}
        BY <3>2 DEF CancelConfirmed
      <4>4. QED
        BY <3>0, <4>1, <4>2, <4>3
    <3>3. CASE Progress(b)
      BY <3>3 DEF Progress
    <3>4. QED
      BY <1>5, <3>1, <3>2, <3>3
  <2>3. credits'[v] = 0
    <3>1. CASE bookings[b].user = v /\ credits' # credits
      <4>1. b \in OpenOf(bookings, v)
        BY <2>2, <3>1 DEF OpenOf
      <4>2. d = 0
        BY <1>2, <2>2, <4>1
      <4>3. QED
        BY <1>0, <1>2, <2>2, <4>2
    <3>2. CASE bookings[b].user # v \/ credits' = credits
      BY <1>0, <1>2, <2>0, <2>2, <3>2
    <3>3. QED
      BY <3>1, <3>2
  <2>4. \A c \in OpenOf(bookings', v) :
          c \in OpenOf(bookings, v) /\ bookings'[c].cost = bookings[c].cost
    <3>1. to \in {"PENDING", "CONFIRMED"} => bookings[b].status \in {"PENDING", "CONFIRMED"}
      <4>1. CASE Confirm(b)
        BY <4>1 DEF Confirm
      <4>2. CASE CancelConfirmed(b)
        BY <4>2 DEF CancelConfirmed
      <4>3. CASE Progress(b)
        <5>1. PICK s \in BookingStatuses :
                s \notin {"PENDING", "CONFIRMED"} /\ bookings' = [bookings EXCEPT ![b].status = s]
          BY <4>3 DEF Progress
        <5>2. s = to
          BY <1>0, <2>1, <5>1 DEF Row
        <5>3. QED
          BY <5>1, <5>2
      <4>4. QED
        BY <1>5, <4>1, <4>2, <4>3
    <3>2. QED
      BY <1>0, <2>1, <3>1 DEF OpenOf, Row
  <2>5. QED
    BY <1>3, <2>3, <2>4
<1>6. QED
  BY <1>4, <1>5 DEF BookingStep

\* What a deletion found stays true while the balance of its member does not grow
\* and none of his bookings is opened.
LEMMA DeleteStaysFresh ==
  ASSUME TypeOK, TypeOK', NEW x \in Workers, DeleteFresh(x),
         job'[x] = job[x] \/ job'[x].op # "delete",
         \A u \in Users : job[x].op = "delete" /\ job[x].user = u =>
             credits'[u] <= credits[u] /\ OpenOf(bookings', u) \subseteq OpenOf(bookings, u)
  PROVE  DeleteFresh(x)'
<1> SUFFICES ASSUME job'[x].op = "delete" PROVE DeleteFresh(x)'
  BY DEF DeleteFresh
<1>1. job'[x] = job[x] /\ job[x].op = "delete" /\ job[x] \in DeleteJob
  BY JobKinds DEF TypeOK
<1>2. PICK u \in Users : u = job[x].user
  BY <1>1 DEF DeleteJob
<1>3. PICK balance \in Int : balance = job[x].balance
  BY <1>1 DEF DeleteJob
<1>4. /\ credits[u] <= balance
      /\ job[x].step = "commit" => balance <= 0 /\ OpenOf(bookings, u) = {}
  BY <1>1, <1>2, <1>3 DEF DeleteFresh
<1>5. /\ credits[u] \in Int /\ credits'[u] \in Int /\ credits'[u] <= credits[u]
      /\ OpenOf(bookings', u) \subseteq OpenOf(bookings, u)
  BY <1>1, <1>2 DEF TypeOK
<1>6. /\ credits'[u] <= balance
      /\ job[x].step = "commit" => balance <= 0 /\ OpenOf(bookings', u) = {}
  BY <1>3, <1>4, <1>5
<1>7. QED
  BY <1>1, <1>2, <1>3, <1>6 DEF DeleteFresh

\* Only what Endows names adds to the balance of u or opens a booking of his, unless a
\* booking of his is confirmed: that was open before.
LEMMA OthersGiveNothing ==
  ASSUME TypeOK, TypeOK', Next, NEW u \in Users, ~Endows(u)
  PROVE  credits'[u] <= credits[u] /\ OpenOf(bookings', u) \subseteq OpenOf(bookings, u)
<1>0. /\ credits \in [Users -> Int] /\ credits' \in [Users -> Int]
      /\ bookings \in [Bookings -> Row] /\ credits[u] \in Int
  BY DEF TypeOK, Row
<1>1. ASSUME NEW w \in Workers, StaffStep(w)
      PROVE  credits'[u] <= credits[u] /\ OpenOf(bookings', u) \subseteq OpenOf(bookings, u)
  <2>1. bookings' = bookings
    BY <1>1, Spares DEF StaffStep, RevokeRead, RevokeCheck, RevokeCommit
  <2>2. CASE AllocateCommit(w)
    <3>1. job[w].user # u
      BY <2>2 DEF Endows, Gives
    <3>2. credits'[u] = credits[u]
      BY <1>0, <2>2, <3>1 DEF AllocateCommit
    <3>3. QED
      BY <1>0, <2>1, <3>2
  <2>3. CASE BulkCommit(w)
    <3>1. job[w].user # u /\ job[w].user2 # u
      BY <2>3 DEF Endows, Gives
    <3>2. credits'[u] = credits[u]
      BY <1>0, <2>3, <3>1 DEF BulkCommit
    <3>3. QED
      BY <1>0, <2>1, <3>2
  <2>4. CASE RevokeCommit(w)
    <3>1. job[w] \in RevokeJob
      BY <2>4, JobKinds DEF RevokeCommit, At, TypeOK
    <3>2. PICK c \in Nat : c = job[w].amount
      BY <3>1, AmountsAssumption DEF RevokeJob
    <3>3. credits' = credits \/ credits' = [credits EXCEPT ![job[w].user] = @ - c]
      BY <2>4, <3>2 DEF RevokeCommit
    <3>4. credits'[u] <= credits[u]
      BY <1>0, <3>2, <3>3
    <3>5. QED
      BY <2>1, <3>4
  <2>5. CASE ~(AllocateCommit(w) \/ BulkCommit(w) \/ RevokeCommit(w))
    <3>1. credits' = credits
      BY <1>1, <2>5, Spares DEF StaffStep, RevokeRead, RevokeCheck
    <3>2. QED
      BY <1>0, <2>1, <3>1
  <2>6. QED
    BY <2>2, <2>3, <2>4, <2>5
<1>2. ASSUME NEW v \in Users, NEW cost \in Amounts, Book(v, cost)
      PROVE  credits'[u] <= credits[u] /\ OpenOf(bookings', u) \subseteq OpenOf(bookings, u)
  <2>1. v # u
    BY <1>2 DEF Endows
  <2>2. PICK b \in Bookings, status \in {"PENDING", "CONFIRMED"} :
          /\ bookings' = [bookings EXCEPT ![b] = [status |-> status, user |-> v, cost |-> cost]]
          /\ credits' = [credits EXCEPT ![v] = @ - (IF status = "CONFIRMED" THEN cost ELSE 0)]
    BY <1>2 DEF Book
  <2>3. credits'[u] = credits[u]
    BY <1>0, <2>1, <2>2
  <2>4. OpenOf(bookings', u) \subseteq OpenOf(bookings, u)
    BY <1>0, <2>1, <2>2 DEF OpenOf
  <2>5. QED
    BY <1>0, <2>3, <2>4
<1>3. ASSUME NEW b \in Bookings, Confirm(b) \/ CancelConfirmed(b) \/ Progress(b)
      PROVE  credits'[u] <= credits[u] /\ OpenOf(bookings', u) \subseteq OpenOf(bookings, u)
  <2>0. bookings[b].cost \in Nat /\ bookings[b].user \in Users
    BY <1>0 DEF Row
  <2>1. credits'[u] <= credits[u]
    <3>1. CASE Confirm(b)
      BY <1>0, <2>0, <3>1 DEF Confirm
    <3>2. CASE CancelConfirmed(b)
      <4>1. bookings[b].user # u
        BY <3>2 DEF Endows
      <4>2. credits'[u] = credits[u]
        BY <1>0, <3>2, <4>1 DEF CancelConfirmed
      <4>3. QED
        BY <1>0, <4>2
    <3>3. CASE Progress(b)
      BY <1>0, <3>3 DEF Progress
    <3>4. QED
      BY <1>3, <3>1, <3>2, <3>3
  <2>2. PICK to \in BookingStatuses :
          /\ bookings' = [bookings EXCEPT ![b].status = to]
          /\ to \in {"PENDING", "CONFIRMED"} => bookings[b].status \in {"PENDING", "CONFIRMED"}
    <3>1. CASE Confirm(b)
      BY <3>1 DEF Confirm, BookingStatuses
    <3>2. CASE CancelConfirmed(b)
      BY <3>2 DEF CancelConfirmed, BookingStatuses
    <3>3. CASE Progress(b)
      BY <3>3 DEF Progress
    <3>4. QED
      BY <1>3, <3>1, <3>2, <3>3
  <2>3. OpenOf(bookings', u) \subseteq OpenOf(bookings, u)
    BY <1>0, <2>2 DEF OpenOf, Row
  <2>4. QED
    BY <2>1, <2>3
<1>4. QED
  BY <1>1, <1>2, <1>3 DEF Next, BookingStep

\* What a deletion read stays true until it commits.
LEMMA DeletesStayFresh ==
  ASSUME LostInv, TypeOK', DeletesUndisturbed, Next, NEW x \in Workers
  PROVE  DeleteFresh(x)'
<1>0. TypeOK /\ DeleteFresh(x)
  BY DEF LostInv, CoveredInv
\* The deletion of x does not go on in this step.
<1>1. ASSUME job'[x] = job[x] \/ job'[x].op # "delete"
      PROVE  DeleteFresh(x)'
  <2>1. \A u \in Users : job[x].op = "delete" /\ job[x].user = u =>
          credits'[u] <= credits[u] /\ OpenOf(bookings', u) \subseteq OpenOf(bookings, u)
    BY <1>0, OthersGiveNothing DEF DeletesUndisturbed
  <2>2. QED
    BY <1>0, <1>1, <2>1, DeleteStaysFresh
<1>2. CASE BookingStep
  <2>1. job' = job
    BY <1>2 DEF BookingStep, Book, Confirm, CancelConfirmed, Progress
  <2>2. QED
    BY <1>1, <2>1
<1>3. ASSUME NEW w \in Workers, StaffStep(w) PROVE DeleteFresh(x)'
  <2>1. CASE DeleteRead(w)
    <3>1. PICK u \in Members :
            Start(w, [op |-> "delete", step |-> "check", user |-> u, balance |-> credits[u]])
      BY <2>1 DEF DeleteRead
    <3>2. credits' = credits /\ u \in Users /\ credits[u] \in Int
      BY <1>0, <2>1 DEF DeleteRead, Members, TypeOK
    <3>3. CASE x = w
      BY <1>0, <3>1, <3>2, <3>3 DEF Start, DeleteFresh, TypeOK
    <3>4. CASE x # w
      <4>1. job'[x] = job[x]
        BY <1>0, <3>1, <3>4 DEF Start, TypeOK
      <4>2. QED
        BY <1>1, <4>1
    <3>5. QED
      BY <3>3, <3>4
  <2>2. CASE DeleteCheck(w)
    <3>1. credits' = credits /\ bookings' = bookings
      BY <2>2 DEF DeleteCheck
    <3>2. CASE x = w /\ job'[x].op = "delete"
      <4>1. job[w] \in DeleteJob /\ job[w].op = "delete"
        BY <1>0, <2>2, JobKinds DEF DeleteCheck, At, TypeOK
      <4>2. job' # [job EXCEPT ![w] = Idle]
        BY <1>0, <3>2 DEF Idle, TypeOK
      <4>3. /\ job' = [job EXCEPT ![w].step = "commit"] /\ job[w].balance <= 0
            /\ OfUser(job[w].user, {"PENDING", "CONFIRMED"}) = {}
        BY <2>2, <4>2 DEF DeleteCheck, ContinueIf, Return
      <4>4. OpenOf(bookings, job[w].user) = {}
        BY <4>3 DEF OfUser, OpenOf
      <4>5. job'[w].user = job[w].user /\ job'[w].balance = job[w].balance
        BY <1>0, <4>1, <4>3 DEF DeleteJob, TypeOK
      <4>6. QED
        BY <1>0, <3>1, <3>2, <4>1, <4>3, <4>4, <4>5 DEF DeleteFresh
    <3>3. CASE x # w
      BY <1>0, <1>1, <2>2, <3>3, KeepsKind
    <3>4. QED
      BY <1>1, <3>2, <3>3
  <2>3. CASE \/ CreateRead(w) \/ AllocateRead(w) \/ BulkRead(w) \/ RevokeRead(w)
    BY <1>0, <1>1, <2>3, Begins
  <2>4. CASE \/ CreateCommit(w) \/ DeleteCommit(w) \/ AllocateCommit(w) \/ BulkCommit(w)
             \/ RevokeCheck(w) \/ RevokeCommit(w) \/ RequestFails(w)
    <3>1. CASE RevokeCheck(w)
      <4>1. job[w].op = "revoke"
        BY <3>1 DEF RevokeCheck, At
      <4>2. job'[x] = job[x] \/ job'[x].op \in {"idle", "revoke"}
        BY <1>0, <3>1, <4>1, KeepsKind
      <4>3. QED
        BY <1>1, <4>2
    <3>2. CASE ~RevokeCheck(w)
      <4>1. Return(w)
        BY <2>4, <3>2 DEF CreateCommit, DeleteCommit, AllocateCommit, BulkCommit, RevokeCommit,
              RequestFails
      <4>2. job'[x] = job[x] \/ job'[x].op = "idle"
        BY <1>0, <4>1 DEF Return, Idle, TypeOK
      <4>3. QED
        BY <1>1, <4>2
    <3>3. QED
      BY <3>1, <3>2
  <2>5. QED
    BY <1>3, <2>1, <2>2, <2>3, <2>4 DEF StaffStep
<1>4. QED
  BY <1>2, <1>3 DEF Next

\* What the theorems on deletions suppose of the state, and of the steps.
Undisturbed == RevokesUndisturbed /\ DeletesUndisturbed

LEMMA LostStep ==
  ASSUME LostInv, OneRevokes, [Next]_vars, [Undisturbed]_vars
  PROVE  LostInv'
<1>0. TypeOK /\ Conserved /\ CoveredInv /\ [RevokesUndisturbed]_vars
  BY DEF LostInv, CoveredInv, Undisturbed
<1>1. TypeOK' /\ Conserved'
  BY <1>0, ConservedStep DEF ConservedInv
<1>2. CoveredInv'
  BY <1>0, <1>1, CoveredStep
<1>3. CASE UNCHANGED vars
  <2>1. \A w \in Workers : DeleteFresh(w)'
    BY <1>3 DEF LostInv, DeleteFresh, vars
  <2>2. \A u \in Users \ Members' : LeftNothing(u)'
    BY <1>3 DEF LostInv, LeftNothing, Members, vars
  <2>3. QED
    BY <1>1, <1>2, <2>1, <2>2 DEF LostInv
<1>4. CASE Next /\ DeletesUndisturbed
  <2>1. \A w \in Workers : DeleteFresh(w)'
    BY <1>1, <1>4, DeletesStayFresh
  <2>2. \A u \in Users \ Members' : LeftNothing(u)'
    BY <1>1, <1>4, HandlersLeaveNothing, BookingsLeaveNothing DEF Next
  <2>3. QED
    BY <1>1, <1>2, <2>1, <2>2 DEF LostInv
<1>5. QED
  BY <1>3, <1>4 DEF Undisturbed

LEMMA LostInit == Init => LostInv
<1> SUFFICES ASSUME Init PROVE LostInv
  OBVIOUS
<1>1. CoveredInv /\ Conserved
  BY CoveredInit, ConservedInit
<1>2. \A w \in Workers : DeleteFresh(w)
  BY DEF Init, DeleteFresh, Idle
<1>3. \A u \in Users : OpenOf(bookings, u) = {} /\ credits[u] = 0
  BY DEF Init, OpenOf
<1>4. QED
  BY <1>1, <1>2, <1>3 DEF LostInv, LeftNothing

\* No credit goes with a member who is deleted: what is not spent is in the pool
\* or with a member, if revocations are as PendingCoveredCorrect supposes them and no
\* member is given credits or a booking while he is being deleted.
THEOREM NothingLostCorrect ==
  Spec /\ []OneRevokes /\ [][Undisturbed]_vars => []NothingLost
<1>1. LostInv /\ OneRevokes /\ [Next]_vars /\ [Undisturbed]_vars => LostInv'
  BY LostStep
<1>2. LostInv => NothingLost
  <2> SUFFICES ASSUME LostInv PROVE NothingLost
    OBVIOUS
  <2>1. /\ Members \in SUBSET Users
        /\ \A u \in Users : credits[u] \in Int
        /\ \A u \in Users \ Members : credits[u] = 0
    BY DEF LostInv, CoveredInv, TypeOK, LeftNothing, Members
  <2>2. SumFunctionOnSet(credits, Users) = SumFunctionOnSet(credits, Members)
    BY <2>1, UsersAssumption, SumOfSupport
  <2>3. QED
    BY <2>2 DEF LostInv, Conserved, NothingLost
<1>3. QED
  BY LostInit, <1>1, <1>2, PTL DEF Spec

\* Every booking that was made has a cost of those that are asked for.
CostsInv == \A b \in Bookings : bookings[b].status # "none" => bookings[b].cost \in Amounts

LEMMA CostsStep == ASSUME TypeOK, CostsInv, [Next]_vars PROVE CostsInv'
<1>0. bookings \in [Bookings -> Row]
  BY DEF TypeOK, Row
<1>1. CASE bookings' = bookings
  BY <1>1 DEF CostsInv
<1>2. ASSUME NEW u \in Users, NEW cost \in Amounts, Book(u, cost) PROVE CostsInv'
  BY <1>0, <1>2 DEF Book, CostsInv
<1>3. ASSUME NEW b \in Bookings, Confirm(b) \/ CancelConfirmed(b) \/ Progress(b) PROVE CostsInv'
  <2>1. bookings[b].status # "none"
    BY <1>3 DEF Confirm, CancelConfirmed, Progress
  <2>2. PICK to \in BookingStatuses : bookings' = [bookings EXCEPT ![b].status = to]
    BY <1>3 DEF Confirm, CancelConfirmed, Progress, BookingStatuses
  <2>3. QED
    BY <1>0, <2>1, <2>2 DEF CostsInv, Row
<1>4. CASE UNCHANGED vars
  BY <1>1, <1>4 DEF vars
<1>5. ASSUME NEW w \in Workers, StaffStep(w) PROVE bookings' = bookings
  BY <1>5, Spares DEF StaffStep, RevokeRead, RevokeCheck, RevokeCommit
<1>6. QED
  BY <1>1, <1>2, <1>3, <1>4, <1>5 DEF Next, BookingStep

\* Who is no member has no pending or confirmed booking, if none is free: what he
\* could still be booked for costs nothing.
NoneOpen == \A u \in Users \ Members : OpenOf(bookings, u) = {}

LEMMA NoneLeftOpen ==
  ASSUME 0 \notin Amounts, LostInv, CostsInv PROVE NoneOpen
<1> SUFFICES ASSUME NEW u \in Users \ Members, NEW b \in OpenOf(bookings, u) PROVE FALSE
  BY DEF NoneOpen
<1>1. b \in Bookings /\ bookings[b].status # "none"
  BY DEF OpenOf
<1>2. bookings[b].cost = 0 /\ bookings[b].cost \in Amounts
  BY <1>1 DEF LostInv, LeftNothing, CostsInv
<1>3. QED
  BY <1>2

\* An account that was deleted stays so: a new one for its address is another row.
LEMMA DeletedStays ==
  ASSUME TypeOK, Next, NEW u \in Users, membership[u] = "deleted"
  PROVE  membership'[u] = "deleted"
<1>1. CASE BookingStep
  BY <1>1 DEF BookingStep, Book, Confirm, CancelConfirmed, Progress
<1>2. ASSUME NEW w \in Workers, StaffStep(w) PROVE membership'[u] = "deleted"
  <2>1. CASE CreateCommit(w) \/ DeleteCommit(w)
    BY <2>1 DEF CreateCommit, DeleteCommit, TypeOK
  <2>2. CASE ~(CreateCommit(w) \/ DeleteCommit(w))
    BY <1>2, <2>2, Leaves DEF StaffStep, CreateRead
  <2>3. QED
    BY <2>1, <2>2
<1>3. QED
  BY <1>1, <1>2 DEF Next

\* Before and after a step, who was deleted has no credits and no open booking: so the
\* step charges and refunds nothing, makes no booking, and changes none but one in use.
LEMMA SettledSteps ==
  ASSUME LostInv, NoneOpen, LostInv', NoneOpen', Next
  PROVE  SettledStep
<1> SUFFICES ASSUME NEW u \in Users, membership[u] = "deleted"
             PROVE  /\ credits'[u] = credits[u]
                    /\ \A b \in Bookings : bookings'[b] # bookings[b] /\ bookings'[b].user = u =>
                         bookings[b].status = "CHECKED_IN" /\ bookings'[b].status = "COMPLETED"
  BY DEF SettledStep
<1>0. TypeOK /\ bookings \in [Bookings -> Row]
  BY DEF LostInv, CoveredInv, TypeOK, Row
<1>1. u \in Users \ Members /\ u \in Users \ Members'
  BY <1>0, DeletedStays DEF Members
<1>2. credits[u] = 0 /\ credits'[u] = 0
  BY <1>1 DEF LostInv, LeftNothing
<1>3. OpenOf(bookings, u) = {} /\ OpenOf(bookings', u) = {}
  BY <1>1 DEF NoneOpen
<1>4. ASSUME NEW b \in Bookings, bookings'[b] # bookings[b], bookings'[b].user = u
      PROVE  bookings[b].status = "CHECKED_IN" /\ bookings'[b].status = "COMPLETED"
  <2>1. BookingStep
    <3>1. ASSUME NEW w \in Workers, StaffStep(w) PROVE bookings' = bookings
      BY <1>0, <3>1, Spares DEF StaffStep, RevokeRead, RevokeCheck, RevokeCommit
    <3>2. QED
      BY <1>4, <3>1 DEF Next
  <2>2. ASSUME NEW v \in Users, NEW cost \in Amounts, Book(v, cost) PROVE FALSE
    <3>1. b \in OpenOf(bookings', u)
      BY <1>0, <1>4, <2>2 DEF Book, OpenOf
    <3>2. QED
      BY <1>3, <3>1
  <2>3. PICK c \in Bookings : Confirm(c) \/ CancelConfirmed(c) \/ Progress(c)
    BY <2>1, <2>2 DEF BookingStep
  <2>4. PICK to \in BookingStatuses : bookings' = [bookings EXCEPT ![c].status = to]
    BY <2>3 DEF Confirm, CancelConfirmed, Progress, BookingStatuses
  <2>5. c = b /\ bookings[b].user = u /\ bookings'[b].status = to
    BY <1>0, <1>4, <2>4 DEF Row
  <2>6. bookings[b].status \notin {"PENDING", "CONFIRMED"}
    BY <1>3, <2>5 DEF OpenOf
  <2>7. Progress(b)
    BY <2>3, <2>5, <2>6 DEF Confirm, CancelConfirmed
  <2>8. PICK as \in BookingStatuses :
          /\ <<bookings[b].status, as>> \in {<<"PENDING", "REJECTED">>, <<"PENDING", "CANCELLED">>,
                 <<"CONFIRMED", "CHECKED_IN">>, <<"CHECKED_IN", "COMPLETED">>}
          /\ bookings' = [bookings EXCEPT ![b].status = as]
    BY <2>7 DEF Progress
  <2>9. bookings'[b].status = as
    BY <1>0, <2>8 DEF Row
  <2>10. QED
    BY <2>6, <2>8, <2>9
<1>5. QED
  BY <1>2, <1>4

\* deleteStaff: nothing is booked, confirmed, cancelled, charged or refunded for a
\* deleted member, and what is left of their bookings is only completed, if the same
\* is supposed of revocations and deletions and no booking is free.
THEOREM SettledCorrect ==
  ASSUME 0 \notin Amounts
  PROVE  Spec /\ []OneRevokes /\ [][Undisturbed]_vars => DeletedIsSettled
<1> DEFINE Inv == LostInv /\ CostsInv
<1>1. Init => Inv
  BY LostInit DEF Init, CostsInv
<1>2. Inv /\ OneRevokes /\ [Next]_vars /\ [Undisturbed]_vars => Inv'
  BY LostStep, CostsStep DEF LostInv, CoveredInv
<1>3. Inv => NoneOpen
  BY NoneLeftOpen
<1>4. LostInv /\ NoneOpen /\ LostInv' /\ NoneOpen' /\ [Next]_vars => [SettledStep]_vars
  BY SettledSteps
<1>5. QED
  BY <1>1, <1>2, <1>3, <1>4, PTL DEF Spec, DeletedIsSettled

\* The handlers that a deletion's reads depend on.
Losers == {"delete", "allocate", "bulk", "revoke", "book"}

LEMMA LockedDeletes ==
  ASSUME Losers \subseteq Exclusive
  PROVE  Spec => []OneRevokes /\ [][Undisturbed]_vars
<1>0. Losers \in SUBSET (StaffRequests \cup {"book"}) /\ {"revoke", "book"} \subseteq Exclusive
  BY DEF Losers, StaffRequests
<1>1. Init => TypeOK /\ OneOf(Losers)
  BY TypeInit DEF Init, OneOf, Losers, Idle
<1>2. TypeOK /\ OneOf(Losers) /\ [Next]_vars => TypeOK' /\ OneOf(Losers)'
  BY <1>0, TypeStep, OneOfStep
<1>3. OneOf(Losers) => OneRevokes
  BY DEF OneOf, OneRevokes, Losers
<1>4. OneOf(Losers) => Undisturbed
  <2>1. RevokesUndisturbed
    BY <1>0, LockKeepsBookingsOut DEF RevokesUndisturbed, BooksFor
  <2>2. ASSUME OneOf(Losers), NEW w \in Workers, job[w].op = "delete" PROVE ~Endows(job[w].user)
    <3>1. ASSUME NEW v \in Workers PROVE ~Gives(v, job[w].user)
      <4>1. job[v].op \notin {"allocate", "bulk"}
        BY <2>2 DEF OneOf, Losers
      <4>2. QED
        BY <4>1 DEF Gives, AllocateCommit, BulkCommit, At
    <3>2. QED
      BY <1>0, <2>2, <3>1, LockKeepsBookingsOut DEF Endows, Losers
  <2>3. QED
    BY <2>1, <2>2 DEF Undisturbed, DeletesUndisturbed
<1>5. QED
  BY <1>1, <1>2, <1>3, <1>4, PTL DEF Spec

\* So, for no credit to go with a deleted member, it is enough that deletions,
\* allocations, revocations and bookings exclude one another: creations may interleave
\* with them.
THEOREM NothingLostLocked == ASSUME Losers \subseteq Exclusive PROVE Spec => []NothingLost
  BY LockedDeletes, NothingLostCorrect, PTL

\* The same exclusion is enough for deleted members to be done with, if no booking is
\* free.
THEOREM SettledLocked ==
  ASSUME Losers \subseteq Exclusive, 0 \notin Amounts PROVE Spec => DeletedIsSettled
  BY LockedDeletes, SettledCorrect, PTL
=============================================================================
