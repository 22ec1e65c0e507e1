\* The requests that use up what they checked exclude one another; delete and bookings do not.
CONSTANTS
    Users = {u1, u2, u3}
    Founders = {u1}
    Bookings = {b1}
    Workers = {w1, w2}
    InitialPool = 3
    MaxUsers = 2
    Amounts = {1, 2}
    Exclusive <- LimitTakers
SPECIFICATION Spec
SYMMETRY Symmetry
INVARIANTS
    Conserved
    PoolCovered
    WithinLimit
CHECK_DEADLOCK FALSE
