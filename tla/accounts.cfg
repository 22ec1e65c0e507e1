\* Two requests at once; those that write one address's row exclude one another.
CONSTANTS
    Emails = {e1, e2}
    Orgs = {o1, o2}
    Tokens = {t1, t2, t3}
    None = None
    Workers = {w1, w2}
    Locks <- RowLocks
    SwitchDeleted = FALSE
SPECIFICATION Spec
SYMMETRY Symmetry
INVARIANTS
    ShutOut
    NewestLinkWorks
PROPERTIES
    AccountStays
CHECK_DEADLOCK FALSE
