-------------------------------- MODULE Pool ---------------------------------
(***************************************************************************)
(* The connections of PrismaService's pool.  createBooking and             *)
(* updateBookingStatus hold one for their transaction while some of their  *)
(* statements, made through this.prisma, wait for another.  The pool has   *)
(* no time limit on that wait: what ends it is that a transaction that     *)
(* lasts too long is closed.                                               *)
(***************************************************************************)
EXTENDS Integers, FiniteSets

CONSTANTS
    Requests, \* requests that may be in progress at once
    Size,     \* connections of the pool
    Aside     \* statements of each request that go around its transaction

PoolAssumption == Size \in Nat \ {0} /\ Aside \in [Requests -> Nat]

VARIABLE request \* where each request stands

vars == <<request>>

\* aside: whether a statement around the transaction has a connection; left: how
\* many of them are not done; open: whether the transaction holds its own.
Request == [at : {"idle", "queued", "running"}, open : BOOLEAN, aside : BOOLEAN, left : Nat]
Resting == [at |-> "idle", open |-> FALSE, aside |-> FALSE, left |-> 0]

TypeOK == request \in [Requests -> Request]
Init == request = [r \in Requests |-> Resting]

Holding == {r \in Requests : request[r].open}
Asking == {r \in Requests : request[r].aside}
Free == Size - Cardinality(Holding) - Cardinality(Asking)
Running(r) == request[r].at = "running"

Arrive(r) ==
    /\ request[r].at = "idle"
    /\ request' = [request EXCEPT ![r].at = "queued"]

\* The transaction begins, or has waited too long to.
Begin(r) ==
    /\ request[r].at = "queued" /\ Free > 0
    /\ request' = [request EXCEPT ![r] = [at |-> "running", open |-> TRUE, aside |-> FALSE, left |-> Aside[r]]]
GiveUp(r) ==
    /\ request[r].at = "queued"
    /\ request' = [request EXCEPT ![r] = Resting]

\* this.prisma.user.update, or the rows handlePostBookingActions writes.
GoAside(r) ==
    /\ Running(r) /\ request[r].left > 0 /\ ~request[r].aside
    /\ Free > 0
    /\ request' = [request EXCEPT ![r].aside = TRUE]
Return(r) ==
    /\ request[r].aside
    /\ request' = [request EXCEPT ![r].aside = FALSE, ![r].left = @ - 1]

MutantExpire(r) ==
    /\ Running(r) /\ request[r].open /\ request[r].left = 0
    /\ request' = [request EXCEPT ![r].open = FALSE]
\* The transaction is rolled back; a statement around it waits on, and counts.
Expire(r) ==
    /\ Running(r) /\ request[r].open
    /\ request' = [request EXCEPT ![r].open = FALSE]

\* The last statement and the commit, or the error that the transaction is closed.
Answer(r) ==
    /\ Running(r) /\ request[r].left = 0
    /\ request' = [request EXCEPT ![r] = Resting]

Step(r) ==
    \/ Arrive(r) \/ Begin(r) \/ GiveUp(r) \/ GoAside(r) \/ Return(r) \/ Expire(r) \/ Answer(r)
Next == \E r \in Requests : Step(r)

\* Time limits pass and statements return; whoever waits for a connection is served
\* in turn.
Fairness ==
    \A r \in Requests :
        /\ SF_vars(GoAside(r))
        /\ WF_vars(GiveUp(r)) /\ WF_vars(Return(r)) /\ WF_vars(Expire(r)) /\ WF_vars(Answer(r))

Spec == Init /\ [][Next]_vars /\ Fairness

-----------------------------------------------------------------------------
\* Requests that hold every connection and wait for one more do not wait for each
\* other for ever: each request is answered.
EveryoneAnswered == \A r \in Requests : request[r].at = "queued" ~> request[r].at = "idle"
=============================================================================
