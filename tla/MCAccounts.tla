----------------------------- MODULE MCAccounts -----------------------------
(* Instances of Accounts for TLC.                                           *)
EXTENDS Accounts, TLC

\* Requests about one address; those that revive its row; staff and the end of the
\* organization they join.
RowLocks == {{"register", "staff", "send", "verify"}, {"register", "staff", "restore"},
             {"staff", "delete"}}
Symmetry == Permutations(Workers) \cup Permutations(Tokens) \cup Permutations(Orgs)
                \cup Permutations(Emails)
=============================================================================
