------------------------------ MODULE MCStaff -------------------------------
(* Instances of Staff for TLC.                                             *)
EXTENDS Staff, TLC

Everything == StaffRequests \cup {"book"}
\* The handlers that check a limit they then use up.
LimitTakers == {"create", "allocate", "bulk", "revoke"}
Symmetry == Permutations(Workers) \cup Permutations(Bookings)
=============================================================================
