------------------------------ MODULE Accounts ------------------------------
(***************************************************************************)
(* AuthService with the handlers of StaffService and AdminService that     *)
(* create, delete and restore accounts: users, their organizations and the *)
(* links that verify an e-mail address.  A row of User is known by its     *)
(* e-mail address, which is unique; the deletion of one member, which      *)
(* takes the address out of use, is in module Staff.                       *)
(***************************************************************************)
EXTENDS FiniteSets

CONSTANTS
    Emails,        \* addresses people register with
    Orgs,          \* organizations that may be created (bounds the run)
    Tokens,        \* verification tokens in use at once (bounds the run)
    None,          \* null
    Workers,       \* request handlers that may be in progress at once
    Locks,         \* sets of handlers assumed to exclude one another on a row
    SwitchDeleted  \* may is_active of a deleted organization be edited?

Handlers == {"register", "staff", "send", "verify", "delete", "restore"}

ASSUME AccountsAssumption ==
    Locks \subseteq SUBSET Handlers /\ None \notin Orgs \cup Tokens /\ SwitchDeleted \in BOOLEAN

VARIABLES
    user,   \* table User
    org,    \* table Organizations
    job,    \* what each request handler has read and not yet used
    opened, \* the links delivered to each address, which may be opened
    newest  \* history: the newest of them, until it is used or a later one is not delivered

vars == <<user, org, job, opened, newest>>

User == [org : Orgs, admin : BOOLEAN, live : BOOLEAN, verified : BOOLEAN,
         token : Tokens \cup {None}, expired : BOOLEAN]
NoUser == [org |-> None]
Organization == [active : BOOLEAN, deleted : BOOLEAN]
NoOrg == [active |-> FALSE]

Idle == [op |-> "idle", email |-> None]
RegisterJob == [op : {"register"}, email : Emails, reuse : BOOLEAN]
StaffJob == [op : {"staff"}, email : Emails, org : Orgs, step : {"find", "reuse", "create"}]
SendJob == [op : {"send"}, email : Emails, token : Tokens \cup {None}]
VerifyJob == [op : {"verify"}, email : Emails]
Job == {Idle} \cup RegisterJob \cup StaffJob \cup SendJob \cup VerifyJob

TypeOK ==
    /\ user \in [Emails -> {NoUser} \cup User]
    /\ org \in [Orgs -> {NoOrg} \cup Organization]
    /\ job \in [Workers -> Job]
    /\ opened \in [Emails -> SUBSET Tokens]
    /\ newest \in [Emails -> Tokens \cup {None}]

Init ==
    /\ user = [e \in Emails |-> NoUser]
    /\ org = [o \in Orgs |-> NoOrg]
    /\ job = [w \in Workers |-> Idle]
    /\ opened = [e \in Emails |-> {}]
    /\ newest = [e \in Emails |-> None]

-----------------------------------------------------------------------------
Rows == {e \in Emails : user[e] # NoUser}
Live == {e \in Rows : user[e].live}
Members(o) == {e \in Rows : user[e].org = o}
Existing == {o \in Orgs : org[o] # NoOrg}

Excluded(op, emails) ==
    \E v \in Workers, lock \in Locks : job[v].email \in emails /\ {op, job[v].op} \subseteq lock
Start(w, j) ==
    job[w] = Idle /\ ~Excluded(j.op, {j.email}) /\ job' = [job EXCEPT ![w] = j]
Goto(w, j) == job' = [job EXCEPT ![w] = j]
Return(w) == Goto(w, Idle)

-----------------------------------------------------------------------------
(* register: the row is looked up, the password hashed, and then everything *)
(* is written in one transaction, which ends if the row is not as expected. *)

RegisterRead(w) ==
    \E e \in Emails \ Live :
        /\ Start(w, [op |-> "register", email |-> e, reuse |-> e \in Rows])
        /\ UNCHANGED <<user, org, opened, newest>>

\* The verification mail is next, if the welcome mail does not fail.
RegisterCommit(w) ==
    /\ job[w].op = "register"
    /\ LET e == job[w].email
       IN  IF job[w].reuse = (e \in Rows)
           THEN \E o \in Orgs \ Existing :
                    /\ org' = [org EXCEPT ![o] = [active |-> TRUE, deleted |-> FALSE]]
                    /\ user' = [user EXCEPT ![e] =
                            [org |-> o, admin |-> TRUE, live |-> TRUE, verified |-> FALSE,
                             token |-> IF job[w].reuse THEN @.token ELSE None,
                             expired |-> job[w].reuse /\ @.expired]]
                    /\ Goto(w, [op |-> "send", email |-> e, token |-> None]) \/ Return(w)
           ELSE Return(w) /\ UNCHANGED <<user, org>>
    /\ UNCHANGED <<opened, newest>>

-----------------------------------------------------------------------------
(* createStaff; the limit on members is in module Staff.                   *)

StaffRead(w) ==
    \E e \in Emails, o \in Existing :
        /\ org[o].active
        /\ Start(w, [op |-> "staff", email |-> e, org |-> o, step |-> "find"])
        /\ UNCHANGED <<user, org, opened, newest>>

MutantStaffTakesAny(w) ==
    /\ job[w].op = "staff" /\ job[w].step = "find"
    /\ Goto(w, [job[w] EXCEPT !.step = IF job[w].email \in Rows THEN "reuse" ELSE "create"])
    /\ UNCHANGED <<user, org, opened, newest>>
StaffFind(w) ==
    /\ job[w].op = "staff" /\ job[w].step = "find"
    /\ IF job[w].email \in Live THEN Return(w)
       ELSE Goto(w, [job[w] EXCEPT !.step = IF job[w].email \in Rows THEN "reuse" ELSE "create"])
    /\ UNCHANGED <<user, org, opened, newest>>

StaffCommit(w) ==
    /\ job[w].op = "staff" /\ job[w].step # "find"
    /\ LET e == job[w].email
           reuse == job[w].step = "reuse"
       IN  user' = IF reuse = (e \in Rows)
                   THEN [user EXCEPT ![e] =
                            [org |-> job[w].org, admin |-> FALSE, live |-> TRUE, verified |-> TRUE,
                             token |-> IF reuse THEN @.token ELSE None,
                             expired |-> reuse /\ @.expired]]
                   ELSE user
    /\ Return(w)
    /\ UNCHANGED <<org, opened, newest>>

-----------------------------------------------------------------------------
(* sendVerificationEmail, verifyEmail                                       *)

Unused == Tokens \ ({user[e].token : e \in Rows} \cup UNION {opened[e] : e \in Emails}
                    \cup {job[w].token : w \in {v \in Workers : job[v].op = "send"}})

MutantWriteOnce(w, e) ==
    \E t \in Unused :
        /\ user' = [user EXCEPT ![e].token = IF @ = None \/ user[e].expired THEN t ELSE @,
                                ![e].expired = FALSE]
        /\ Goto(w, [op |-> "send", email |-> e, token |-> t])
\* Whether register or the user asks for it: a new token takes the place of the last.
Write(w, e) ==
    \E t \in Unused :
        /\ user' = [user EXCEPT ![e].token = t, ![e].expired = FALSE]
        /\ Goto(w, [op |-> "send", email |-> e, token |-> t])
SendToken(w) ==
    /\ \/ \E e \in Rows : Write(w, e) /\ job[w] = Idle /\ ~Excluded("send", {e})
       \/ job[w].op = "send" /\ job[w].token = None /\ Write(w, job[w].email)
    /\ UNCHANGED <<org, opened, newest>>

\* The mail is delivered, or not.  Links that no row knows need not be remembered.
SendMail(w) ==
    /\ job[w].op = "send" /\ job[w].token # None
    /\ LET e == job[w].email
           t == job[w].token
       IN  \/ /\ opened' = [opened EXCEPT ![e] = {t} \cup (@ \cap {user[e].token})]
              /\ newest' = [newest EXCEPT ![e] = t]
           \/ /\ newest' = [newest EXCEPT ![e] = None]
              /\ UNCHANGED opened
    /\ Return(w)
    /\ UNCHANGED <<user, org>>

\* The token is checked here, and not again when it is used up.
VerifyRead(w) ==
    \E e \in Live :
        /\ user[e].token \in opened[e]
        /\ ~user[e].verified /\ ~user[e].expired
        /\ Start(w, [op |-> "verify", email |-> e])
        /\ UNCHANGED <<user, org, opened, newest>>

VerifyCommit(w) ==
    /\ job[w].op = "verify"
    /\ user' = [user EXCEPT ![job[w].email].verified = TRUE, ![job[w].email].token = None,
                            ![job[w].email].expired = FALSE]
    /\ newest' = [newest EXCEPT ![job[w].email] = None]
    /\ Return(w)
    /\ UNCHANGED <<org, opened>>

\* token_expiry passes.
Expire(e) ==
    /\ e \in Rows /\ user[e].token # None
    /\ user' = [user EXCEPT ![e].expired = TRUE]
    /\ UNCHANGED <<org, job, opened, newest>>

-----------------------------------------------------------------------------
(* deleteOrganization, restoreOrganization, is_active in updateOrganization *)

MutantDeleteOrganization(o) ==
    /\ o \in Existing
    /\ org' = [org EXCEPT ![o] = [active |-> FALSE, deleted |-> TRUE]]
    /\ user' = [e \in Emails |-> IF e \in Members(o) /\ ~user[e].admin
                                 THEN [user[e] EXCEPT !.live = FALSE, !.verified = FALSE]
                                 ELSE user[e]]
    /\ UNCHANGED <<job, opened, newest>>
DeleteOrganization(o) ==
    /\ o \in Existing
    /\ ~\E w \in Workers, lock \in Locks :
            job[w].op = "staff" /\ job[w].org = o /\ {"staff", "delete"} \subseteq lock
    /\ org' = [org EXCEPT ![o] = [active |-> FALSE, deleted |-> TRUE]]
    /\ user' = [e \in Emails |-> IF e \in Members(o)
                                 THEN [user[e] EXCEPT !.live = FALSE, !.verified = FALSE]
                                 ELSE user[e]]
    /\ UNCHANGED <<job, opened, newest>>

\* Rows that are active in another organization would be skipped, but a row has one.
RestoreOrganization(o) ==
    /\ o \in Existing
    /\ ~Excluded("restore", Members(o))
    /\ org' = [org EXCEPT ![o] = [active |-> TRUE, deleted |-> FALSE]]
    /\ user' = [e \in Emails |-> IF e \in Members(o) THEN [user[e] EXCEPT !.live = TRUE]
                                 ELSE user[e]]
    /\ UNCHANGED <<job, opened, newest>>

SwitchOrganization(o) ==
    /\ o \in Existing
    /\ ~org[o].deleted \/ SwitchDeleted
    /\ org' = [org EXCEPT ![o].active = ~@]
    /\ UNCHANGED <<user, job, opened, newest>>

Handle(w) ==
    \/ RegisterRead(w) \/ RegisterCommit(w)
    \/ StaffRead(w) \/ StaffFind(w) \/ StaffCommit(w)
    \/ SendToken(w) \/ SendMail(w) \/ VerifyRead(w) \/ VerifyCommit(w)

Next ==
    \/ \E w \in Workers : Handle(w)
    \/ \E e \in Emails : Expire(e)
    \/ \E o \in Orgs :
         DeleteOrganization(o) \/ RestoreOrganization(o) \/ SwitchOrganization(o)

Spec == Init /\ [][Next]_vars

-----------------------------------------------------------------------------
(* Who gets in.                                                            *)

\* AuthGuard
Acts(e) == e \in Live
\* login, the password being right
LogsIn(e) == e \in Live /\ (org[user[e].org].active \/ user[e].admin)

\* Nobody gets in from a deleted organization: where staff is not created while
\* the organization is being deleted, every member is shut out by the deletion
\* and stays so until the organization is restored or they join another one.
ShutOut == \A e \in Emails : Acts(e) \/ LogsIn(e) => ~org[user[e].org].deleted

\* An account in use stays in its organization: registering again, or being
\* made staff elsewhere, moves only an account that is still deleted when it is
\* written, where no restoration or second request comes in between.
AccountStays ==
    [][\A e \in Live : e \in Live' => user'[e].org = user[e].org]_vars

\* The newest link an unverified user holds is the one that works: no later
\* request has taken its token away without delivering a new link.
NewestLinkWorks ==
    \A e \in Rows :
        newest[e] # None /\ ~user[e].verified /\ ~(\E w \in Workers : job[w].op = "send" /\ job[w].email = e)
            => user[e].token = newest[e]
=============================================================================
