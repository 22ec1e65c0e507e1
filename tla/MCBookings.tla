----------------------------- MODULE MCBookings -----------------------------
(* Instances of Bookings for TLC: the constants the .cfg files share.      *)
EXTENDS Bookings, TLC

\* The life of a booking as the application's own screens and crons drive it.
Lifecycle ==
    {<<"PENDING", "CONFIRMED">>, <<"PENDING", "REJECTED">>, <<"PENDING", "CANCELLED">>,
     <<"CONFIRMED", "CANCELLED">>, <<"CONFIRMED", "CHECKED_IN">>,
     <<"CHECKED_IN", "COMPLETED">>}

\* The same, the crons alone checking bookings in and completing them.
Decisions == {t \in Lifecycle : t[2] \notin {"CHECKED_IN", "COMPLETED"}}

Everything == Crons \cup Requests
BookingRequests == {"create", "reschedule", "status"}
AllTimes == Slots

IdSymmetry == Permutations(Ids)
Symmetry == Permutations(Ids) \cup Permutations(Workers)
=============================================================================
