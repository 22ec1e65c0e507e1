\* Handlers that rewrite a column of a post exclude one another; the rest meet freely.
CONSTANTS
    root = root
    clerk = clerk
    acme = acme
    NoOrg = NoOrg
    Users = {root, clerk}
    Role <- RoleOf
    Org <- OrgOf
    Posts = {p1}
    Comments = {c1, c2}
    Workers = {w1, w2}
    Drafts <- SomeDrafts
    Edits <- SomeEdits
    Locks <- ColumnLocks
SPECIFICATION Spec
SYMMETRY Symmetry
PROPERTIES
    TakenDownStaysDown
    AnnouncedOnce
    KeepsThreads
CHECK_DEADLOCK FALSE
