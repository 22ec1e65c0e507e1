---------------------------- MODULE MCCommunity -----------------------------
(* Instances of Community for TLC.                                          *)
EXTENDS Community, TLC

CONSTANTS root, clerk, acme

RoleOf == root :> "ADMIN" @@ clerk :> "STAFF"
OrgOf == root :> NoOrg @@ clerk :> acme

\* A public post, and a private draft for the staff on which comments are closed.
SomeDrafts == {[status |-> "PUBLISHED", private |-> FALSE, visible |-> Roles, open |-> TRUE],
               [status |-> "DRAFT", private |-> TRUE, visible |-> {"STAFF"}, open |-> FALSE]}
SomeEdits == {[status |-> "PUBLISHED"], [status |-> "DRAFT", visible |-> {}],
              [status |-> "PUBLISHED", private |-> FALSE]}
\* Handlers that rewrite the same column of a post, and those that publish it.
ColumnLocks == {{"comment", "uncomment"}, {"acknowledge"}, {"create", "update"}}
Symmetry == Permutations(Workers) \cup Permutations(Comments)
=============================================================================
