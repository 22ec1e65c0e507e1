\* Staff requests and booking requests one after the other.
CONSTANTS
    Users = {u1, u2, u3}
    Founders = {u1}
    Bookings = {b1, b2}
    Workers = {w1}
    InitialPool = 3
    MaxUsers = 2
    Amounts = {1, 2}
    Exclusive <- Everything
SPECIFICATION Spec
SYMMETRY Symmetry
INVARIANTS
    TypeOK
    NothingLost
    PendingCovered
PROPERTIES
    DeletedIsSettled
CHECK_DEADLOCK FALSE
