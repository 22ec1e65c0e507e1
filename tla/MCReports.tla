------------------------------ MODULE MCReports ------------------------------
(* An instance of Reports for TLC: days of two seconds, of which the second *)
(* one is asked for.                                                        *)
EXTENDS Reports, TLC

TwoUsers == "u1" :> "o1" @@ "u2" :> "o2"
Entry(user, kind, amount) == [user |-> user, kind |-> kind, amount |-> amount]
SomeRows ==
    "Bookings" :> {Entry("u1", "PENDING", 1), Entry("u1", "CONFIRMED", 1)} @@
    "CreditTransaction" :> {Entry("u1", "TOP_UP", 1), Entry("u2", "TOP_UP", 2), Entry("u1", "SPEND", 1)} @@
    "ActivityLog" :> {Entry("u1", "LOGIN", 0)}
\* One whose clocks go forward, one ahead of UTC whose clocks go forward in the night
\* of the second date, and one behind UTC.
ReportZones == {[before |-> 0, after |-> 2, change |-> 6],
                [before |-> 2, after |-> 4, change |-> 4],
                [before |-> -2, after |-> -2, change |-> 0]}

ASSUME ReportsAssumption /\ ZonesAssumption
=============================================================================
