--------------------------- MODULE AccountsProofs ---------------------------
(* Theorems about Accounts, for every value of its constants: types, that  *)
(* nobody gets in from a deleted organization, that accounts in use stay   *)
(* where they are, and that the newest verification link works.            *)
EXTENDS Accounts, TLAPS

\* A mail is sent, and a link used up, for an address that has a row.
OnRows == \A w \in Workers : job[w].op \in {"send", "verify"} => job[w].email \in Rows
TypeInv == TypeOK /\ OnRows

\* A job of some kind is a record of that kind.
LEMMA JobKinds ==
  ASSUME NEW j \in Job
  PROVE  /\ j.op = "register" => j \in RegisterJob
         /\ j.op = "staff" => j \in StaffJob
         /\ j.op = "send" => j \in SendJob
         /\ j.op = "verify" => j \in VerifyJob
         /\ j.op # "idle" => j.email \in Emails
         /\ j.op \in Handlers \cup {"idle"}
  BY DEF Job, Idle, RegisterJob, StaffJob, SendJob, VerifyJob, Handlers

\* Rows are records of a user, and a row stays one.
LEMMA UserIsRow == ASSUME NEW u \in User PROVE u # NoUser
<1>1. u.org \in Orgs /\ NoUser.org = None
  BY DEF User, NoUser
<1>2. QED
  BY <1>1, AccountsAssumption
LEMMA RowIsUser == ASSUME TypeOK, NEW e \in Rows PROVE user[e] \in User /\ e \in Emails
  BY DEF TypeOK, Rows
LEMMA OrganizationExists == ASSUME NEW o \in Organization PROVE o # NoOrg
<1>1. "deleted" \in DOMAIN o /\ "deleted" \notin DOMAIN NoOrg
  BY DEF Organization, NoOrg
<1>2. QED
  BY <1>1

LEMMA TypeInit == Init => TypeInv
  BY DEF Init, TypeInv, TypeOK, OnRows, Job, Idle

\* What a handler moves on to.
LEMMA JobMoves ==
  ASSUME TypeOK, NEW w \in Workers, NEW j \in Job,
         Goto(w, j) \/ Start(w, j) \/ (Return(w) /\ j = Idle)
  PROVE  job' \in [Workers -> Job] /\ job' = [job EXCEPT ![w] = j]
  BY DEF TypeOK, Goto, Start, Return, Job

LEMMA RegisterType ==
  ASSUME TypeInv, NEW w \in Workers, RegisterRead(w) \/ RegisterCommit(w)
  PROVE  TypeInv' /\ \A x \in Rows : x \in Rows'
<1> USE DEF TypeInv
<1>1. CASE RegisterRead(w)
  <2>1. PICK e \in Emails \ Live : Start(w, [op |-> "register", email |-> e, reuse |-> e \in Rows])
    BY <1>1 DEF RegisterRead
  <2> DEFINE j == [op |-> "register", email |-> e, reuse |-> e \in Rows]
  <2>2. j \in Job /\ j.op = "register"
    BY DEF RegisterJob, Job
  <2> HIDE DEF j
  <2>3. job' \in [Workers -> Job] /\ job' = [job EXCEPT ![w] = j]
    BY <2>1, <2>2, JobMoves DEF j
  <2>4. QED
    BY <1>1, <2>2, <2>3 DEF RegisterRead, TypeOK, OnRows, Rows
<1>2. CASE RegisterCommit(w)
  <2> DEFINE e == job[w].email
  <2>1. job[w] \in RegisterJob /\ e \in Emails /\ job[w].reuse \in BOOLEAN
    BY <1>2, JobKinds DEF RegisterCommit, TypeOK, RegisterJob
  <2>2. CASE job[w].reuse = (e \in Rows)
    <3>1. PICK o \in Orgs \ Existing :
            /\ org' = [org EXCEPT ![o] = [active |-> TRUE, deleted |-> FALSE]]
            /\ user' = [user EXCEPT ![e] =
                    [org |-> o, admin |-> TRUE, live |-> TRUE, verified |-> FALSE,
                     token |-> IF job[w].reuse THEN @.token ELSE None,
                     expired |-> job[w].reuse /\ @.expired]]
            /\ Goto(w, [op |-> "send", email |-> e, token |-> None]) \/ Return(w)
      BY <1>2, <2>2 DEF RegisterCommit
    <3>2. [op |-> "send", email |-> e, token |-> None] \in Job /\ Idle \in Job
      BY <2>1 DEF Job, SendJob
    <3>3. /\ job' \in [Workers -> Job]
          /\ \/ job' = [job EXCEPT ![w] = Idle]
             \/ job' = [job EXCEPT ![w] = [op |-> "send", email |-> e, token |-> None]]
      BY <3>1, <3>2, JobMoves
    <3> DEFINE u == [org |-> o, admin |-> TRUE, live |-> TRUE, verified |-> FALSE,
                     token |-> IF job[w].reuse THEN user[e].token ELSE None,
                     expired |-> job[w].reuse /\ user[e].expired]
    <3>4. u \in User
      <4>1. CASE job[w].reuse
        BY <4>1, <2>1, <2>2, RowIsUser DEF User
      <4>2. CASE ~job[w].reuse
        BY <4>2, <2>1 DEF User
      <4>3. QED
        BY <4>1, <4>2
    <3>5. user' = [user EXCEPT ![e] = u]
      BY <3>1
    <3> HIDE DEF u
    <3>6. user' \in [Emails -> {NoUser} \cup User] /\ \A x \in Rows \cup {e} : x \in Rows'
      BY <2>1, <3>4, <3>5, UserIsRow DEF TypeOK, Rows
    <3>7. org' \in [Orgs -> {NoOrg} \cup Organization]
      BY <3>1 DEF TypeOK, Organization
    <3>8. OnRows'
      BY <3>3, <3>6, <2>1 DEF OnRows, Idle, TypeOK
    <3>9. QED
      BY <1>2, <3>3, <3>6, <3>7, <3>8 DEF RegisterCommit, TypeOK
  <2>3. CASE job[w].reuse # (e \in Rows)
    <3>1. Idle \in Job
      BY DEF Job
    <3>2. job' \in [Workers -> Job] /\ job' = [job EXCEPT ![w] = Idle]
      BY <1>2, <2>3, <3>1, JobMoves DEF RegisterCommit
    <3>3. QED
      BY <1>2, <2>3, <3>2 DEF RegisterCommit, TypeOK, OnRows, Idle, Rows
  <2>4. QED
    BY <2>1, <2>2, <2>3
<1>3. QED
  BY <1>1, <1>2

LEMMA StaffType ==
  ASSUME TypeInv, NEW w \in Workers, StaffRead(w) \/ StaffFind(w) \/ StaffCommit(w)
  PROVE  TypeInv' /\ \A x \in Rows : x \in Rows'
<1> USE DEF TypeInv
<1>1. CASE StaffRead(w)
  <2>1. PICK e \in Emails, o \in Existing :
          Start(w, [op |-> "staff", email |-> e, org |-> o, step |-> "find"])
    BY <1>1 DEF StaffRead
  <2> DEFINE j == [op |-> "staff", email |-> e, org |-> o, step |-> "find"]
  <2>2. j \in Job /\ j.op = "staff"
    BY DEF StaffJob, Job, Existing
  <2> HIDE DEF j
  <2>3. job' \in [Workers -> Job] /\ job' = [job EXCEPT ![w] = j]
    BY <2>1, <2>2, JobMoves DEF j
  <2>4. QED
    BY <1>1, <2>2, <2>3 DEF StaffRead, TypeOK, OnRows, Rows
<1>2. CASE StaffFind(w)
  <2>1. job[w] \in StaffJob
    BY <1>2, JobKinds DEF StaffFind, TypeOK
  <2>2. PICK j \in {Idle, [job[w] EXCEPT !.step = "reuse"], [job[w] EXCEPT !.step = "create"]} :
          Goto(w, j)
    BY <1>2 DEF StaffFind, Return
  <2>3. j \in Job /\ j.op \notin {"send", "verify"}
    BY <2>1 DEF StaffJob, Job, Idle
  <2>4. job' \in [Workers -> Job] /\ job' = [job EXCEPT ![w] = j]
    BY <2>2, <2>3, JobMoves
  <2>5. QED
    BY <1>2, <2>3, <2>4 DEF StaffFind, TypeOK, OnRows, Rows
<1>3. CASE StaffCommit(w)
  <2> DEFINE e == job[w].email
             reuse == job[w].step = "reuse"
             u == [org |-> job[w].org, admin |-> FALSE, live |-> TRUE, verified |-> TRUE,
                   token |-> IF reuse THEN user[e].token ELSE None,
                   expired |-> reuse /\ user[e].expired]
  <2>1. job[w] \in StaffJob /\ e \in Emails
    BY <1>3, JobKinds DEF StaffCommit, TypeOK, StaffJob
  <2>2. user' \in [Emails -> {NoUser} \cup User] /\ \A x \in Rows : x \in Rows'
    <3>1. CASE reuse = (e \in Rows)
      <4>1. u \in User /\ user' = [user EXCEPT ![e] = u]
        <5>1. u \in User
          <6>1. CASE reuse
            BY <6>1, <2>1, <3>1, RowIsUser DEF User, StaffJob
          <6>2. CASE ~reuse
            BY <6>2, <2>1 DEF User, StaffJob
          <6>3. QED
            BY <6>1, <6>2
        <5>2. QED
          BY <1>3, <3>1, <5>1 DEF StaffCommit
      <4> HIDE DEF u
      <4>2. QED
        BY <2>1, <4>1, UserIsRow DEF TypeOK, Rows
    <3>2. CASE reuse # (e \in Rows)
      <4>1. user' = user
        BY <1>3, <3>2 DEF StaffCommit
      <4>2. QED
        BY <4>1 DEF TypeOK, Rows
    <3>3. QED
      BY <3>1, <3>2
  <2>3. Idle \in Job
    BY DEF Job
  <2>4. job' \in [Workers -> Job] /\ job' = [job EXCEPT ![w] = Idle]
    BY <1>3, <2>3, JobMoves DEF StaffCommit
  <2>5. QED
    BY <1>3, <2>2, <2>4 DEF StaffCommit, TypeOK, OnRows, Idle
<1>4. QED
  BY <1>1, <1>2, <1>3

\* A token is written to a row.
LEMMA WriteType ==
  ASSUME TypeInv, NEW w \in Workers, NEW e \in Rows, Write(w, e)
  PROVE  /\ user' \in [Emails -> {NoUser} \cup User]
         /\ \A x \in Rows : x \in Rows'
         /\ \E t \in Tokens : job' = [job EXCEPT ![w] = [op |-> "send", email |-> e, token |-> t]]
         /\ job' \in [Workers -> Job]
<1>1. PICK t \in Tokens :
        /\ user' = [user EXCEPT ![e].token = t, ![e].expired = FALSE]
        /\ Goto(w, [op |-> "send", email |-> e, token |-> t])
  BY DEF Write, Unused
<1>2. user[e] \in User /\ e \in Emails
  BY RowIsUser DEF TypeInv
<1> DEFINE u == [user[e] EXCEPT !.token = t, !.expired = FALSE]
<1>3. u \in User
  BY <1>2 DEF User
<1>4. user' = [user EXCEPT ![e] = u]
  BY <1>1, <1>2 DEF TypeInv, TypeOK
<1> HIDE DEF u
<1>5. [op |-> "send", email |-> e, token |-> t] \in Job
  BY <1>2 DEF Job, SendJob
<1>6. /\ job' \in [Workers -> Job]
      /\ job' = [job EXCEPT ![w] = [op |-> "send", email |-> e, token |-> t]]
  BY <1>1, <1>5, JobMoves DEF TypeInv
<1>7. user' \in [Emails -> {NoUser} \cup User] /\ \A x \in Rows : x \in Rows'
  BY <1>2, <1>3, <1>4, UserIsRow DEF TypeInv, TypeOK, Rows
<1>8. QED
  BY <1>1, <1>6, <1>7

LEMMA SendType ==
  ASSUME TypeInv, NEW w \in Workers, SendToken(w) \/ SendMail(w)
  PROVE  TypeInv' /\ \A x \in Rows : x \in Rows'
<1>1. CASE SendToken(w)
  <2>1. PICK e \in Rows : Write(w, e)
    BY <1>1 DEF SendToken, TypeInv, OnRows
  <2>2. /\ user' \in [Emails -> {NoUser} \cup User]
        /\ \A x \in Rows : x \in Rows'
        /\ \E t \in Tokens : job' = [job EXCEPT ![w] = [op |-> "send", email |-> e, token |-> t]]
        /\ job' \in [Workers -> Job]
    BY <2>1, WriteType
  <2>3. OnRows'
    BY <2>2 DEF OnRows, TypeInv, TypeOK
  <2>4. QED
    BY <1>1, <2>2, <2>3 DEF SendToken, TypeInv, TypeOK
<1>2. CASE SendMail(w)
  <2>1. job[w] \in SendJob /\ job[w].token \in Tokens
    BY <1>2, JobKinds DEF SendMail, TypeInv, TypeOK, SendJob
  <2>2. opened' \in [Emails -> SUBSET Tokens] /\ newest' \in [Emails -> Tokens \cup {None}]
    BY <1>2, <2>1 DEF SendMail, TypeInv, TypeOK
  <2>3. Idle \in Job
    BY DEF Job
  <2>4. job' \in [Workers -> Job] /\ job' = [job EXCEPT ![w] = Idle]
    BY <1>2, <2>3, JobMoves DEF SendMail, TypeInv
  <2>5. QED
    BY <1>2, <2>2, <2>4 DEF SendMail, TypeInv, TypeOK, OnRows, Rows, Idle
<1>3. QED
  BY <1>1, <1>2

LEMMA VerifyType ==
  ASSUME TypeInv, NEW w \in Workers, VerifyRead(w) \/ VerifyCommit(w)
  PROVE  TypeInv' /\ \A x \in Rows : x \in Rows'
<1>1. CASE VerifyRead(w)
  <2>1. PICK e \in Live : Start(w, [op |-> "verify", email |-> e])
    BY <1>1 DEF VerifyRead
  <2>2. e \in Rows /\ e \in Emails
    BY DEF Live, Rows
  <2> DEFINE j == [op |-> "verify", email |-> e]
  <2>3. j \in Job /\ j.email = e
    BY <2>2 DEF VerifyJob, Job
  <2> HIDE DEF j
  <2>4. job' \in [Workers -> Job] /\ job' = [job EXCEPT ![w] = j]
    BY <2>1, <2>3, JobMoves DEF j, TypeInv
  <2>5. QED
    BY <1>1, <2>2, <2>3, <2>4 DEF VerifyRead, TypeInv, TypeOK, OnRows, Rows
<1>2. CASE VerifyCommit(w)
  <2> DEFINE e == job[w].email
             u == [user[e] EXCEPT !.verified = TRUE, !.token = None, !.expired = FALSE]
  <2>1. e \in Rows /\ e \in Emails
    BY <1>2 DEF VerifyCommit, TypeInv, OnRows, Rows
  <2>2. u \in User
    BY <2>1, RowIsUser DEF User, TypeInv
  <2>3. user' = [user EXCEPT ![e] = u]
    BY <1>2, <2>1 DEF VerifyCommit, TypeInv, TypeOK
  <2> HIDE DEF u
  <2>4. user' \in [Emails -> {NoUser} \cup User] /\ \A x \in Rows : x \in Rows'
    BY <2>1, <2>2, <2>3, UserIsRow DEF TypeInv, TypeOK, Rows
  <2>5. Idle \in Job
    BY DEF Job
  <2>6. job' \in [Workers -> Job] /\ job' = [job EXCEPT ![w] = Idle]
    BY <1>2, <2>5, JobMoves DEF VerifyCommit, TypeInv
  <2>7. newest' \in [Emails -> Tokens \cup {None}]
    BY <1>2, <2>1 DEF VerifyCommit, TypeInv, TypeOK
  <2>8. QED
    BY <1>2, <2>4, <2>6, <2>7 DEF VerifyCommit, TypeInv, TypeOK, OnRows, Idle
<1>3. QED
  BY <1>1, <1>2

LEMMA ExpireType ==
  ASSUME TypeInv, NEW e \in Emails, Expire(e)
  PROVE  TypeInv' /\ \A x \in Rows : x \in Rows'
<1>1. [user[e] EXCEPT !.expired = TRUE] \in User
  BY RowIsUser DEF Expire, User, TypeInv
<1>2. user' = [user EXCEPT ![e] = [user[e] EXCEPT !.expired = TRUE]]
  BY DEF Expire, TypeInv, TypeOK
<1>3. user' \in [Emails -> {NoUser} \cup User] /\ \A x \in Rows : x \in Rows'
  BY <1>1, <1>2, UserIsRow DEF TypeInv, TypeOK, Rows
<1>4. QED
  BY <1>3 DEF Expire, TypeInv, TypeOK, OnRows

LEMMA OrganizationType ==
  ASSUME TypeInv, NEW o \in Orgs,
         DeleteOrganization(o) \/ RestoreOrganization(o) \/ SwitchOrganization(o)
  PROVE  TypeInv' /\ \A x \in Rows : x \in Rows'
<1>1. CASE DeleteOrganization(o)
  <2>1. ASSUME NEW e \in Emails
        PROVE  /\ user'[e] \in {NoUser} \cup User
               /\ e \in Rows => user'[e] # NoUser
    <3>1. CASE e \in Members(o)
      <4>1. user[e] \in User
        BY <3>1, RowIsUser DEF Members, TypeInv
      <4>2. user'[e] \in User
        BY <1>1, <3>1, <4>1 DEF DeleteOrganization, User
      <4>3. QED
        BY <4>2, UserIsRow
    <3>2. CASE e \notin Members(o)
      BY <1>1, <3>2 DEF DeleteOrganization, TypeInv, TypeOK, Rows
    <3>3. QED
      BY <3>1, <3>2
  <2>2. user' \in [Emails -> {NoUser} \cup User] /\ \A x \in Rows : x \in Rows'
    BY <1>1, <2>1 DEF DeleteOrganization, Rows
  <2>3. org' \in [Orgs -> {NoOrg} \cup Organization]
    BY <1>1 DEF DeleteOrganization, TypeInv, TypeOK, Organization
  <2>4. QED
    BY <1>1, <2>2, <2>3 DEF DeleteOrganization, TypeInv, TypeOK, OnRows
<1>2. CASE RestoreOrganization(o)
  <2>1. ASSUME NEW e \in Emails
        PROVE  /\ user'[e] \in {NoUser} \cup User
               /\ e \in Rows => user'[e] # NoUser
    <3>1. CASE e \in Members(o)
      <4>1. user[e] \in User
        BY <3>1, RowIsUser DEF Members, TypeInv
      <4>2. user'[e] \in User
        BY <1>2, <3>1, <4>1 DEF RestoreOrganization, User
      <4>3. QED
        BY <4>2, UserIsRow
    <3>2. CASE e \notin Members(o)
      BY <1>2, <3>2 DEF RestoreOrganization, TypeInv, TypeOK, Rows
    <3>3. QED
      BY <3>1, <3>2
  <2>2. user' \in [Emails -> {NoUser} \cup User] /\ \A x \in Rows : x \in Rows'
    BY <1>2, <2>1 DEF RestoreOrganization, Rows
  <2>3. org' \in [Orgs -> {NoOrg} \cup Organization]
    BY <1>2 DEF RestoreOrganization, TypeInv, TypeOK, Organization
  <2>4. QED
    BY <1>2, <2>2, <2>3 DEF RestoreOrganization, TypeInv, TypeOK, OnRows
<1>3. CASE SwitchOrganization(o)
  <2>1. org[o] \in Organization
    BY <1>3 DEF SwitchOrganization, Existing, TypeInv, TypeOK
  <2>2. org' \in [Orgs -> {NoOrg} \cup Organization]
    BY <1>3, <2>1 DEF SwitchOrganization, TypeInv, TypeOK, Organization
  <2>3. QED
    BY <1>3, <2>2 DEF SwitchOrganization, TypeInv, TypeOK, OnRows, Rows
<1>4. QED
  BY <1>1, <1>2, <1>3

LEMMA TypeStep == ASSUME TypeInv, [Next]_vars PROVE TypeInv' /\ \A x \in Rows : x \in Rows'
<1>1. CASE UNCHANGED vars
  BY <1>1 DEF vars, TypeInv, TypeOK, OnRows, Rows
<1>2. CASE Next
  BY <1>2, RegisterType, StaffType, SendType, VerifyType, ExpireType, OrganizationType DEF Next, Handle
<1>3. QED
  BY <1>1, <1>2

\* Rows, organizations and the locals of every handler keep their types, and a row
\* of User, once created, is updated and never taken away.
THEOREM TypeCorrect == Spec => []TypeInv
<1>1. TypeInv /\ [Next]_vars => TypeInv'
  BY TypeStep
<1>2. QED
  BY TypeInit, <1>1, PTL DEF Spec

-----------------------------------------------------------------------------
(* Handlers that exclude one another.                                       *)

\* No two of the handlers ops are in progress for one address.
Alone(ops) ==
  \A v, w \in Workers :
    v # w /\ job[v].op \in ops /\ job[w].op \in ops => job[v].email # job[w].email

\* A handler ends, goes on, sends a mail once it has registered someone, or begins.
LEMMA NextJob ==
  ASSUME TypeInv, [Next]_vars
  PROVE  \/ job' = job
         \/ \E w \in Workers, j \in Job :
              /\ job' = [job EXCEPT ![w] = j]
              /\ \/ j.op = "idle"
                 \/ j.op = job[w].op /\ j.email = job[w].email
                 \/ j.op = "send" /\ job[w].op = "register" /\ j.email = job[w].email
                 \/ ~Excluded(j.op, {j.email})
<1> DEFINE Moves(w, j) == /\ job' = [job EXCEPT ![w] = j]
                          /\ \/ j.op = "idle"
                             \/ j.op = job[w].op /\ j.email = job[w].email
                             \/ j.op = "send" /\ job[w].op = "register" /\ j.email = job[w].email
                             \/ ~Excluded(j.op, {j.email})
<1> SUFFICES job' = job \/ \E w \in Workers, j \in Job : Moves(w, j)
  OBVIOUS
<1>1. ASSUME NEW w \in Workers, Return(w) PROVE \E j \in Job : Moves(w, j)
  <2>1. Idle \in Job /\ Idle.op = "idle"
    BY DEF Job, Idle
  <2>2. Moves(w, Idle)
    BY <1>1, <2>1 DEF Return, Goto
  <2>3. QED
    BY <2>1, <2>2
<1>2. ASSUME NEW w \in Workers, NEW j \in Job, Start(w, j) PROVE Moves(w, j)
  BY <1>2 DEF Start
<1>3. ASSUME NEW w \in Workers, RegisterRead(w) PROVE \E j \in Job : Moves(w, j)
  <2>1. PICK e \in Emails \ Live : Start(w, [op |-> "register", email |-> e, reuse |-> e \in Rows])
    BY <1>3 DEF RegisterRead
  <2>2. [op |-> "register", email |-> e, reuse |-> e \in Rows] \in Job
    BY DEF RegisterJob, Job
  <2>3. QED
    BY <1>2, <2>1, <2>2
<1>4. ASSUME NEW w \in Workers, RegisterCommit(w) PROVE \E j \in Job : Moves(w, j)
  <2> DEFINE j == [op |-> "send", email |-> job[w].email, token |-> None]
  <2>1. j \in Job /\ job[w].op = "register"
    BY <1>4, JobKinds DEF RegisterCommit, RegisterJob, SendJob, Job, TypeInv, TypeOK
  <2>2. Return(w) \/ Goto(w, j)
    BY <1>4 DEF RegisterCommit
  <2>3. QED
    BY <1>1, <2>1, <2>2 DEF Goto
<1>5. ASSUME NEW w \in Workers, StaffRead(w) PROVE \E j \in Job : Moves(w, j)
  <2>1. PICK e \in Emails, o \in Existing :
          Start(w, [op |-> "staff", email |-> e, org |-> o, step |-> "find"])
    BY <1>5 DEF StaffRead
  <2>2. [op |-> "staff", email |-> e, org |-> o, step |-> "find"] \in Job
    BY DEF StaffJob, Job, Existing
  <2>3. QED
    BY <1>2, <2>1, <2>2
<1>6. ASSUME NEW w \in Workers, StaffFind(w) PROVE \E j \in Job : Moves(w, j)
  <2>1. job[w] \in StaffJob
    BY <1>6, JobKinds DEF StaffFind, TypeInv, TypeOK
  <2>2. Return(w) \/ \E j \in {[job[w] EXCEPT !.step = "reuse"], [job[w] EXCEPT !.step = "create"]} : Goto(w, j)
    BY <1>6 DEF StaffFind
  <2>3. \A j \in {[job[w] EXCEPT !.step = "reuse"], [job[w] EXCEPT !.step = "create"]} :
          j \in Job /\ j.op = job[w].op /\ j.email = job[w].email
    BY <2>1 DEF StaffJob, Job
  <2>4. QED
    BY <1>1, <2>2, <2>3 DEF Goto
<1>7. ASSUME NEW w \in Workers, SendToken(w) PROVE \E j \in Job : Moves(w, j)
  <2>1. PICK e \in Rows : /\ Write(w, e)
                          /\ \/ ~Excluded("send", {e})
                             \/ job[w].op = "send" /\ job[w].email = e
    BY <1>7 DEF SendToken, TypeInv, OnRows
  <2>2. PICK t \in Tokens : Goto(w, [op |-> "send", email |-> e, token |-> t])
    BY <2>1 DEF Write, Unused
  <2>3. [op |-> "send", email |-> e, token |-> t] \in Job
    BY DEF Job, SendJob, Rows
  <2>4. QED
    BY <2>1, <2>2, <2>3 DEF Goto
<1>8. ASSUME NEW w \in Workers, VerifyRead(w) PROVE \E j \in Job : Moves(w, j)
  <2>1. PICK e \in Live : Start(w, [op |-> "verify", email |-> e])
    BY <1>8 DEF VerifyRead
  <2>2. [op |-> "verify", email |-> e] \in Job
    BY DEF VerifyJob, Job, Live, Rows
  <2>3. QED
    BY <1>2, <2>1, <2>2
<1>9. CASE Next
  <2>1. CASE \E w \in Workers : Handle(w)
    <3>1. PICK w \in Workers : Handle(w)
      BY <2>1
    <3>2. StaffCommit(w) \/ SendMail(w) \/ VerifyCommit(w) => Return(w)
      BY DEF StaffCommit, SendMail, VerifyCommit
    <3> HIDE DEF Moves
    <3>3. QED
      BY <1>1, <1>3, <1>4, <1>5, <1>6, <1>7, <1>8, <3>1, <3>2 DEF Handle
  <2>2. CASE \E e \in Emails : Expire(e)
    BY <2>2 DEF Expire
  <2>3. CASE \E o \in Orgs : DeleteOrganization(o) \/ RestoreOrganization(o) \/ SwitchOrganization(o)
    BY <2>3 DEF DeleteOrganization, RestoreOrganization, SwitchOrganization
  <2>4. QED
    BY <1>9, <2>1, <2>2, <2>3 DEF Next
<1>10. QED
  BY <1>9 DEF vars

LEMMA AloneStep ==
  ASSUME TypeInv, [Next]_vars, NEW lock \in Locks, NEW ops \in SUBSET lock,
         "register" \in ops, Alone(ops)
  PROVE  Alone(ops)'
<1>1. CASE job' = job
  BY <1>1 DEF Alone
<1>2. ASSUME NEW w \in Workers, NEW j \in Job, job' = [job EXCEPT ![w] = j],
             \/ j.op = "idle"
             \/ j.op = job[w].op /\ j.email = job[w].email
             \/ j.op = "send" /\ job[w].op = "register" /\ j.email = job[w].email
             \/ ~Excluded(j.op, {j.email})
      PROVE  Alone(ops)'
  <2>1. "idle" \notin ops
    BY AccountsAssumption DEF Handlers
  <2>2. ASSUME NEW v \in Workers, v # w, j.op \in ops, job[v].op \in ops
        PROVE  job[v].email # j.email
    <3>1. CASE ~Excluded(j.op, {j.email})
      BY <2>2, <3>1 DEF Excluded
    <3>2. CASE job[w].op \in ops /\ j.email = job[w].email
      BY <2>2, <3>2 DEF Alone
    <3>3. QED
      BY <1>2, <2>1, <2>2, <3>1, <3>2
  <2>3. QED
    BY <1>2, <2>2 DEF Alone, TypeInv, TypeOK
<1>3. QED
  BY <1>1, <1>2, NextJob

-----------------------------------------------------------------------------
(* What a step does to the place of a row.                                  *)

\* Organizations, and the place of every row, stay as they are; nobody becomes staff.
Quiet ==
  /\ org' = org
  /\ Rows' = Rows
  /\ \A e \in Rows : user'[e].org = user[e].org /\ user'[e].live = user[e].live
  /\ \A v \in Workers : job'[v].op = "staff" => job[v].op = "staff" /\ job'[v].org = job[v].org

LEMMA QuietSteps ==
  ASSUME TypeInv,
         \/ \E w \in Workers : \/ RegisterRead(w) \/ StaffFind(w) \/ SendToken(w) \/ SendMail(w)
                               \/ VerifyRead(w) \/ VerifyCommit(w)
         \/ \E e \in Emails : Expire(e)
         \/ UNCHANGED vars
  PROVE  Quiet
<1> DEFINE Fields == \A e \in Emails : \/ user'[e] = user[e]
                                       \/ /\ e \in Rows /\ user'[e] \in User
                                          /\ user'[e].org = user[e].org /\ user'[e].live = user[e].live
<1>1. Fields => /\ Rows' = Rows
                /\ \A e \in Rows : user'[e].org = user[e].org /\ user'[e].live = user[e].live
  BY UserIsRow DEF Rows
<1>2. ASSUME NEW v \in Workers, NEW j \in Job, job' = [job EXCEPT ![v] = j],
             j.op = "staff" => job[v].op = "staff" /\ j.org = job[v].org
      PROVE  \A x \in Workers : job'[x].op = "staff" => job[x].op = "staff" /\ job'[x].org = job[x].org
  BY <1>2 DEF TypeInv, TypeOK
<1>3. Idle \in Job /\ Idle.op = "idle"
  BY DEF Job, Idle
<1>4. ASSUME NEW w \in Workers, RegisterRead(w) PROVE Quiet
  <2>1. PICK e \in Emails \ Live : Start(w, [op |-> "register", email |-> e, reuse |-> e \in Rows])
    BY <1>4 DEF RegisterRead
  <2>2. [op |-> "register", email |-> e, reuse |-> e \in Rows] \in Job
    BY DEF RegisterJob, Job
  <2>3. QED
    BY <1>1, <1>2, <1>4, <2>1, <2>2 DEF RegisterRead, Start, Quiet
<1>5. ASSUME NEW w \in Workers, StaffFind(w) PROVE Quiet
  <2>1. job[w] \in StaffJob
    BY <1>5, JobKinds DEF StaffFind, TypeInv, TypeOK
  <2>2. PICK j \in {Idle, [job[w] EXCEPT !.step = "reuse"], [job[w] EXCEPT !.step = "create"]} :
          job' = [job EXCEPT ![w] = j]
    BY <1>5 DEF StaffFind, Return, Goto
  <2>3. j \in Job /\ (j.op = "staff" => job[w].op = "staff" /\ j.org = job[w].org)
    BY <2>1, <1>3 DEF StaffJob, Job
  <2>4. QED
    BY <1>1, <1>2, <1>5, <2>2, <2>3 DEF StaffFind, Quiet
<1>6. ASSUME NEW w \in Workers, SendToken(w) PROVE Quiet
  <2>1. PICK e \in Rows : Write(w, e)
    BY <1>6 DEF SendToken, TypeInv, OnRows
  <2>2. PICK t \in Tokens : /\ user' = [user EXCEPT ![e].token = t, ![e].expired = FALSE]
                            /\ job' = [job EXCEPT ![w] = [op |-> "send", email |-> e, token |-> t]]
    BY <2>1 DEF Write, Unused, Goto
  <2>3. user[e] \in User /\ e \in Emails
    BY RowIsUser DEF TypeInv
  <2>4. user' = [user EXCEPT ![e] = [user[e] EXCEPT !.token = t, !.expired = FALSE]]
    BY <2>2, <2>3 DEF TypeInv, TypeOK
  <2>5. Fields
    BY <2>3, <2>4 DEF User, TypeInv, TypeOK
  <2>6. [op |-> "send", email |-> e, token |-> t] \in Job
    BY <2>3 DEF SendJob, Job
  <2>7. QED
    BY <1>1, <1>2, <1>6, <2>2, <2>5, <2>6 DEF SendToken, Quiet
<1>7. ASSUME NEW w \in Workers, SendMail(w) PROVE Quiet
  BY <1>1, <1>2, <1>3, <1>7 DEF SendMail, Return, Goto, Quiet
<1>8. ASSUME NEW w \in Workers, VerifyRead(w) PROVE Quiet
  <2>1. PICK e \in Live : Start(w, [op |-> "verify", email |-> e])
    BY <1>8 DEF VerifyRead
  <2>2. [op |-> "verify", email |-> e] \in Job
    BY DEF VerifyJob, Job, Live, Rows
  <2>3. QED
    BY <1>1, <1>2, <1>8, <2>1, <2>2 DEF VerifyRead, Start, Quiet
<1>9. ASSUME NEW w \in Workers, VerifyCommit(w) PROVE Quiet
  <2> DEFINE e == job[w].email
             u == [user[e] EXCEPT !.verified = TRUE, !.token = None, !.expired = FALSE]
  <2>1. e \in Rows /\ e \in Emails
    BY <1>9 DEF VerifyCommit, TypeInv, OnRows, Rows
  <2>2. u \in User /\ u.org = user[e].org /\ u.live = user[e].live
    BY <2>1, RowIsUser DEF User, TypeInv
  <2>3. user' = [user EXCEPT ![e] = u]
    BY <1>9, <2>1 DEF VerifyCommit, TypeInv, TypeOK
  <2>4. Fields
    <3> HIDE DEF u
    <3>1. QED
      BY <2>1, <2>2, <2>3 DEF TypeInv, TypeOK
  <2>5. QED
    BY <1>1, <1>2, <1>3, <1>9, <2>4 DEF VerifyCommit, Return, Goto, Quiet
<1>10. ASSUME NEW e \in Emails, Expire(e) PROVE Quiet
  <2>1. user[e] \in User /\ e \in Rows
    BY <1>10, RowIsUser DEF Expire, TypeInv
  <2>2. user' = [user EXCEPT ![e] = [user[e] EXCEPT !.expired = TRUE]]
    BY <1>10 DEF Expire, TypeInv, TypeOK
  <2>3. Fields
    BY <2>1, <2>2 DEF User, TypeInv, TypeOK
  <2>4. QED
    BY <1>1, <1>10, <2>3 DEF Expire, Quiet
<1>11. CASE UNCHANGED vars
  BY <1>11 DEF vars, Rows, Quiet
<1>12. QED
  BY <1>4, <1>5, <1>6, <1>7, <1>8, <1>9, <1>10, <1>11

\* Whoever registers or joins comes into the organization, live; the rest stay put.
LEMMA RegisterPlaces ==
  ASSUME TypeInv, NEW w \in Workers, RegisterCommit(w)
  PROVE  /\ job' = [job EXCEPT ![w] = job'[w]] /\ job'[w].op \in {"idle", "send"}
         /\ \/ UNCHANGED <<user, org>>
            \/ \E o \in Orgs \ Existing :
                 /\ org' = [org EXCEPT ![o] = [active |-> TRUE, deleted |-> FALSE]]
                 /\ user'[job[w].email].org = o
                 /\ \A e \in Emails : e # job[w].email => user'[e] = user[e]
<1>1. job[w].email \in Emails
  BY JobKinds DEF RegisterCommit, TypeInv, TypeOK
<1>2. PICK j \in {Idle, [op |-> "send", email |-> job[w].email, token |-> None]} :
        job' = [job EXCEPT ![w] = j]
  BY DEF RegisterCommit, Return, Goto
<1>3. job' = [job EXCEPT ![w] = job'[w]] /\ job'[w].op \in {"idle", "send"}
  BY <1>2 DEF Idle, TypeInv, TypeOK
<1>4. CASE job[w].reuse = (job[w].email \in Rows)
  <2>1. PICK o \in Orgs \ Existing :
          /\ org' = [org EXCEPT ![o] = [active |-> TRUE, deleted |-> FALSE]]
          /\ user' = [user EXCEPT ![job[w].email] =
                  [org |-> o, admin |-> TRUE, live |-> TRUE, verified |-> FALSE,
                   token |-> IF job[w].reuse THEN @.token ELSE None,
                   expired |-> job[w].reuse /\ @.expired]]
    BY <1>4 DEF RegisterCommit
  <2>2. user'[job[w].email].org = o /\ \A e \in Emails : e # job[w].email => user'[e] = user[e]
    BY <1>1, <2>1 DEF TypeInv, TypeOK
  <2>3. QED
    BY <1>3, <2>1, <2>2
<1>5. CASE ~(job[w].reuse = (job[w].email \in Rows))
  BY <1>3, <1>5 DEF RegisterCommit
<1>6. QED
  BY <1>4, <1>5

LEMMA StaffPlaces ==
  ASSUME TypeInv, NEW w \in Workers, StaffCommit(w)
  PROVE  /\ job' = [job EXCEPT ![w] = Idle] /\ org' = org
         /\ \/ user' = user
            \/ /\ user'[job[w].email].org = job[w].org
               /\ \A e \in Emails : e # job[w].email => user'[e] = user[e]
<1>1. job[w].email \in Emails
  BY JobKinds DEF StaffCommit, TypeInv, TypeOK
<1>2. QED
  BY <1>1 DEF StaffCommit, TypeInv, TypeOK, Return, Goto

LEMMA OrganizationPlaces ==
  ASSUME TypeInv, NEW o \in Orgs, DeleteOrganization(o) \/ RestoreOrganization(o)
  PROVE  /\ Rows' = Rows
         /\ \A e \in Rows : user'[e].org = user[e].org
         /\ \A e \in Rows : user[e].org # o => user'[e].live = user[e].live
         /\ DeleteOrganization(o) => \A e \in Rows : user[e].org = o => user'[e].live = FALSE
<1>1. ASSUME NEW e \in Emails
      PROVE  /\ e \in Rows <=> user'[e] # NoUser
             /\ e \in Rows => user'[e].org = user[e].org
             /\ e \in Rows /\ user[e].org # o => user'[e].live = user[e].live
             /\ DeleteOrganization(o) /\ e \in Rows /\ user[e].org = o => user'[e].live = FALSE
  <2>1. CASE e \in Members(o)
    <3>1. user[e] \in User /\ e \in Rows /\ user[e].org = o
      BY <2>1, RowIsUser DEF Members, TypeInv
    <3>2. CASE DeleteOrganization(o)
      <4>1. user'[e] = [user[e] EXCEPT !.live = FALSE, !.verified = FALSE]
        BY <2>1, <3>2 DEF DeleteOrganization
      <4>2. user'[e] \in User /\ user'[e].org = o /\ user'[e].live = FALSE
        BY <3>1, <4>1 DEF User
      <4>3. QED
        BY <3>1, <4>2, UserIsRow
    <3>3. CASE RestoreOrganization(o) /\ ~DeleteOrganization(o)
      <4>1. user'[e] = [user[e] EXCEPT !.live = TRUE]
        BY <2>1, <3>3 DEF RestoreOrganization
      <4>2. user'[e] \in User /\ user'[e].org = o
        BY <3>1, <4>1 DEF User
      <4>3. QED
        BY <3>1, <3>3, <4>2, UserIsRow
    <3>4. QED
      BY <3>2, <3>3
  <2>2. CASE e \notin Members(o)
    <3>1. user'[e] = user[e]
      BY <2>2 DEF DeleteOrganization, RestoreOrganization
    <3>2. QED
      BY <2>2, <3>1 DEF Members, Rows
  <2>3. QED
    BY <2>1, <2>2
<1>2. QED
  BY <1>1 DEF Rows

-----------------------------------------------------------------------------
(* Nobody gets in from a deleted organization.                              *)

\* Whoever is live, or about to be made staff, is in an organization that is not
\* deleted; and what is active is not deleted.
ShutInv ==
  /\ TypeInv
  /\ \A e \in Rows : user[e].org \in Existing
  /\ \A o \in Existing : org[o].active => ~org[o].deleted
  /\ \A e \in Rows : user[e].live => ~org[user[e].org].deleted
  /\ \A w \in Workers : job[w].op = "staff" => job[w].org \in Existing /\ ~org[job[w].org].deleted

LEMMA ShutInit == Init => ShutInv
  BY TypeInit DEF Init, ShutInv, Rows, Existing, Idle

LEMMA ShutCommits ==
  ASSUME ShutInv, NEW w \in Workers, StaffRead(w) \/ RegisterCommit(w) \/ StaffCommit(w)
  PROVE  ShutInv'
<1>1. TypeInv /\ TypeInv'
  BY RegisterType, StaffType DEF ShutInv
<1>2. CASE StaffRead(w)
  <2>1. PICK e \in Emails, o \in Existing :
          /\ org[o].active
          /\ job' = [job EXCEPT ![w] = [op |-> "staff", email |-> e, org |-> o, step |-> "find"]]
    BY <1>2 DEF StaffRead, Start
  <2>2. UNCHANGED <<user, org>>
    BY <1>2 DEF StaffRead
  <2>3. \A v \in Workers : v # w => job'[v] = job[v]
    BY <2>1 DEF ShutInv, TypeInv, TypeOK
  <2>4. job'[w].org = o
    BY <2>1 DEF ShutInv, TypeInv, TypeOK
  <2>5. QED
    BY <1>1, <2>1, <2>2, <2>3, <2>4 DEF ShutInv, Rows, Existing
<1>3. CASE RegisterCommit(w)
  <2>1. \A v \in Workers : job'[v].op = "staff" => v # w /\ job'[v] = job[v]
    BY <1>1, <1>3, RegisterPlaces DEF TypeInv, TypeOK
  <2>2. CASE UNCHANGED <<user, org>>
    BY <1>1, <2>1, <2>2 DEF ShutInv, Rows, Existing
  <2>3. ASSUME NEW o \in Orgs \ Existing,
               org' = [org EXCEPT ![o] = [active |-> TRUE, deleted |-> FALSE]],
               user'[job[w].email].org = o,
               \A e \in Emails : e # job[w].email => user'[e] = user[e]
        PROVE  ShutInv'
    <3>1. [active |-> TRUE, deleted |-> FALSE] # NoOrg
      BY OrganizationExists DEF Organization
    <3>2. Existing' = Existing \cup {o} /\ ~org'[o].deleted /\ \A p \in Existing : org'[p] = org[p]
      BY <1>1, <2>3, <3>1 DEF Existing, TypeInv, TypeOK
    <3>3. \A e \in Rows' : e = job[w].email \/ (e \in Rows /\ user'[e] = user[e])
      BY <2>3 DEF Rows
    <3>4. QED
      BY <1>1, <2>1, <2>3, <3>2, <3>3 DEF ShutInv
  <2>4. QED
    BY <1>1, <1>3, <2>2, <2>3, RegisterPlaces
<1>4. CASE StaffCommit(w)
  <2>1. \A v \in Workers : job'[v].op = "staff" => job'[v] = job[v]
    BY <1>1, <1>4, StaffPlaces DEF TypeInv, TypeOK, Idle
  <2>2. org' = org /\ Existing' = Existing
    BY <1>1, <1>4, StaffPlaces DEF Existing
  <2>3. \A e \in Rows' : \/ e \in Rows /\ user'[e] = user[e]
                         \/ user'[e].org = job[w].org
    BY <1>1, <1>4, StaffPlaces DEF Rows
  <2>4. job[w].org \in Existing /\ ~org[job[w].org].deleted
    BY <1>4 DEF StaffCommit, ShutInv
  <2>5. QED
    BY <1>1, <2>1, <2>2, <2>3, <2>4 DEF ShutInv
<1>5. QED
  BY <1>2, <1>3, <1>4

LEMMA ShutOrganization ==
  ASSUME ShutInv, NEW o \in Orgs, ~SwitchDeleted, NEW lock \in Locks, {"staff", "delete"} \subseteq lock,
         DeleteOrganization(o) \/ RestoreOrganization(o) \/ SwitchOrganization(o)
  PROVE  ShutInv'
<1>1. TypeInv /\ TypeInv'
  BY OrganizationType DEF ShutInv
<1>2. job' = job /\ o \in Existing
  BY DEF DeleteOrganization, RestoreOrganization, SwitchOrganization
<1>3. ASSUME NEW row \in Organization, org' = [org EXCEPT ![o] = row]
      PROVE  Existing' = Existing /\ org'[o] = row /\ \A p \in Existing : p # o => org'[p] = org[p]
  BY <1>1, <1>2, <1>3, OrganizationExists DEF Existing, TypeInv, TypeOK
<1>4. CASE DeleteOrganization(o)
  <2>1. org' = [org EXCEPT ![o] = [active |-> FALSE, deleted |-> TRUE]]
    BY <1>4 DEF DeleteOrganization
  <2>2. Existing' = Existing /\ ~org'[o].active /\ \A p \in Existing : p # o => org'[p] = org[p]
    <3> DEFINE row == [active |-> FALSE, deleted |-> TRUE]
    <3>1. row \in Organization /\ ~row.active
      BY DEF Organization
    <3>2. org' = [org EXCEPT ![o] = row]
      BY <2>1
    <3> HIDE DEF row
    <3>3. QED
      BY <1>3, <3>1, <3>2
  <2>3. \A w \in Workers : job[w].op = "staff" => job[w].org # o
    BY <1>4 DEF DeleteOrganization
  <2>4. /\ Rows' = Rows
        /\ \A e \in Rows : user'[e].org = user[e].org
        /\ \A e \in Rows : user[e].org # o => user'[e].live = user[e].live
        /\ \A e \in Rows : user[e].org = o => user'[e].live = FALSE
    BY <1>1, <1>4, OrganizationPlaces
  <2>5. QED
    BY <1>1, <1>2, <2>2, <2>3, <2>4 DEF ShutInv
<1>5. CASE RestoreOrganization(o)
  <2>1. org' = [org EXCEPT ![o] = [active |-> TRUE, deleted |-> FALSE]]
    BY <1>5 DEF RestoreOrganization
  <2>2. Existing' = Existing /\ ~org'[o].deleted /\ \A p \in Existing : p # o => org'[p] = org[p]
    <3> DEFINE row == [active |-> TRUE, deleted |-> FALSE]
    <3>1. row \in Organization /\ ~row.deleted
      BY DEF Organization
    <3>2. org' = [org EXCEPT ![o] = row]
      BY <2>1
    <3> HIDE DEF row
    <3>3. QED
      BY <1>3, <3>1, <3>2
  <2>3. /\ Rows' = Rows
        /\ \A e \in Rows : user'[e].org = user[e].org
        /\ \A e \in Rows : user[e].org # o => user'[e].live = user[e].live
    BY <1>1, <1>5, OrganizationPlaces
  <2>4. QED
    BY <1>1, <1>2, <2>2, <2>3 DEF ShutInv
<1>6. CASE SwitchOrganization(o)
  <2>1. org[o] \in Organization /\ ~org[o].deleted
    BY <1>1, <1>6 DEF SwitchOrganization, Existing, TypeInv, TypeOK
  <2>2. PICK row \in Organization : org' = [org EXCEPT ![o] = row] /\ ~row.deleted
    <3>1. [org[o] EXCEPT !.active = ~@] \in Organization /\ ~[org[o] EXCEPT !.active = ~@].deleted
      BY <2>1 DEF Organization
    <3>2. org' = [org EXCEPT ![o] = [org[o] EXCEPT !.active = ~@]]
      BY <1>1, <1>6 DEF SwitchOrganization, TypeInv, TypeOK
    <3>3. QED
      BY <3>1, <3>2
  <2>3. Existing' = Existing /\ ~org'[o].deleted /\ \A p \in Existing : p # o => org'[p] = org[p]
    BY <1>3, <2>2
  <2>4. user' = user /\ Rows' = Rows
    BY <1>6 DEF SwitchOrganization, Rows
  <2>5. QED
    BY <1>1, <1>2, <2>3, <2>4 DEF ShutInv
<1>7. QED
  BY <1>4, <1>5, <1>6

\* Nobody gets in from a deleted organization: if members are not created while
\* their organization is being deleted, and is_active of a deleted organization
\* is not edited, whatever else interleaves.
THEOREM ShutOutCorrect ==
  ASSUME ~SwitchDeleted, NEW lock \in Locks, {"staff", "delete"} \subseteq lock
  PROVE  Spec => []ShutOut
<1>1. ShutInv /\ [Next]_vars => ShutInv'
  <2> SUFFICES ASSUME ShutInv, [Next]_vars PROVE ShutInv'
    OBVIOUS
  <2>1. TypeInv /\ TypeInv'
    BY TypeStep DEF ShutInv
  <2>2. CASE Quiet
    BY <2>1, <2>2 DEF ShutInv, Existing, Quiet
  <2>3. ASSUME NEW w \in Workers, Handle(w) PROVE ShutInv'
    BY <2>1, <2>2, <2>3, ShutCommits, QuietSteps DEF Handle
  <2>4. ASSUME NEW o \in Orgs,
               DeleteOrganization(o) \/ RestoreOrganization(o) \/ SwitchOrganization(o)
        PROVE  ShutInv'
    BY <2>4, ShutOrganization
  <2>5. QED
    BY <2>1, <2>2, <2>3, <2>4, QuietSteps DEF Next
<1>2. ShutInv => ShutOut
  BY DEF ShutInv, ShutOut, Acts, LogsIn, Live
<1>3. QED
  BY ShutInit, <1>1, <1>2, PTL DEF Spec

-----------------------------------------------------------------------------
(* Accounts in use stay in their organization.                              *)

Revivers == {"register", "staff"}
\* About to write a row on the ground that it is not live.
Reviving(w) == job[w].op = "register" \/ (job[w].op = "staff" /\ job[w].step # "find")

\* It is not, and nobody else is about to revive it.
StayInv ==
  /\ TypeInv
  /\ Alone(Revivers)
  /\ \A w \in Workers : Reviving(w) => job[w].email \notin Live

\* What keeps a row where it is, and does not revive it behind a handler's back.
Stays == \A e \in Live : e \in Live' => user'[e].org = user[e].org

LEMMA StayQuiet ==
  ASSUME StayInv, Quiet, \A w \in Workers : Reviving(w)' => Reviving(w) /\ job'[w].email = job[w].email
  PROVE  Stays /\ \A w \in Workers : Reviving(w)' => job'[w].email \notin Live'
  BY DEF StayInv, Quiet, Stays, Live

LEMMA StayHandle ==
  ASSUME StayInv, NEW w \in Workers, Handle(w)
  PROVE  Stays /\ \A v \in Workers : Reviving(v)' => job'[v].email \notin Live'
<1> DEFINE Goal == Stays /\ \A v \in Workers : Reviving(v)' => job'[v].email \notin Live'
<1> SUFFICES Goal
  OBVIOUS
<1>1. TypeInv
  BY DEF StayInv
<1>2. ASSUME NEW j, job' = [job EXCEPT ![w] = j]
      PROVE  job'[w] = j /\ \A v \in Workers : v # w => job'[v] = job[v]
  BY <1>1, <1>2 DEF TypeInv, TypeOK
<1>3. CASE RegisterRead(w)
  <2>1. PICK e \in Emails \ Live :
          job' = [job EXCEPT ![w] = [op |-> "register", email |-> e, reuse |-> e \in Rows]]
    BY <1>3 DEF RegisterRead, Start
  <2>2. Live' = Live /\ user' = user
    BY <1>3 DEF RegisterRead, Live, Rows
  <2>3. QED
    BY <1>2, <2>1, <2>2 DEF StayInv, Stays, Reviving
<1>4. CASE StaffRead(w)
  <2>1. PICK e, o : job' = [job EXCEPT ![w] = [op |-> "staff", email |-> e, org |-> o, step |-> "find"]]
    BY <1>4 DEF StaffRead, Start
  <2>2. Live' = Live /\ user' = user
    BY <1>4 DEF StaffRead, Live, Rows
  <2>3. QED
    BY <1>2, <2>1, <2>2 DEF StayInv, Stays, Reviving
<1>5. CASE StaffFind(w)
  <2>1. Live' = Live /\ user' = user
    BY <1>5 DEF StaffFind, Live, Rows
  <2>2. job[w] \in StaffJob
    BY <1>1, <1>5, JobKinds DEF StaffFind, TypeInv, TypeOK
  <2>3. \/ job' = [job EXCEPT ![w] = Idle]
        \/ /\ job[w].email \notin Live
           /\ \E step \in {"reuse", "create"} : job' = [job EXCEPT ![w] = [job[w] EXCEPT !.step = step]]
    BY <1>5 DEF StaffFind, Return, Goto
  <2>4. \A step : [job[w] EXCEPT !.step = step].email = job[w].email
    BY <2>2 DEF StaffJob
  <2>5. /\ job'[w] = Idle \/ (job'[w].email = job[w].email /\ job[w].email \notin Live)
        /\ \A v \in Workers : v # w => job'[v] = job[v]
    BY <1>2, <2>3, <2>4
  <2>6. ASSUME NEW v \in Workers, Reviving(v)' PROVE job'[v].email \notin Live'
    BY <2>1, <2>5, <2>6 DEF StayInv, Reviving, Idle
  <2>7. QED
    BY <2>1, <2>6 DEF Stays
<1>6. CASE RegisterCommit(w) \/ StaffCommit(w)
  <2>1. Reviving(w) /\ job[w].op \in Revivers
    BY <1>6 DEF RegisterCommit, StaffCommit, Reviving, Revivers
  <2>2. \A e \in Emails : e # job[w].email => user'[e] = user[e]
    BY <1>1, <1>6, RegisterPlaces, StaffPlaces
  <2>3. \A v \in Workers : Reviving(v)' => v # w /\ job'[v] = job[v]
    BY <1>1, <1>6, RegisterPlaces, StaffPlaces DEF Reviving, Idle, TypeInv, TypeOK
  <2>4. \A e \in Emails : e # job[w].email => (e \in Live' <=> e \in Live)
    BY <2>2 DEF Live, Rows
  <2>5. job[w].email \notin Live
    BY <2>1 DEF StayInv
  <2>6. Stays
    BY <2>2, <2>5 DEF Stays, Live, Rows
  <2>7. ASSUME NEW v \in Workers, Reviving(v)' PROVE job'[v].email \notin Live'
    <3>1. v # w /\ job'[v] = job[v] /\ Reviving(v) /\ job[v].op \in Revivers
      BY <2>3, <2>7 DEF Reviving, Revivers
    <3>2. job[v].email # job[w].email /\ job[v].email \notin Live
      BY <2>1, <3>1 DEF StayInv, Alone
    <3>3. QED
      BY <2>4, <3>1, <3>2 DEF Live, Rows
  <2>8. QED
    BY <2>6, <2>7
<1>7. CASE SendToken(w) \/ SendMail(w) \/ VerifyRead(w) \/ VerifyCommit(w)
  <2>1. job'[w].op \notin Revivers /\ \A v \in Workers : v # w => job'[v] = job[v]
    <3>1. CASE SendToken(w)
      <4>1. PICK e, t : job' = [job EXCEPT ![w] = [op |-> "send", email |-> e, token |-> t]]
        BY <3>1 DEF SendToken, Write, Goto
      <4>2. QED
        BY <1>1, <4>1 DEF Revivers, TypeInv, TypeOK
    <3>2. CASE VerifyRead(w)
      <4>1. PICK e : job' = [job EXCEPT ![w] = [op |-> "verify", email |-> e]]
        BY <3>2 DEF VerifyRead, Start
      <4>2. QED
        BY <1>1, <4>1 DEF Revivers, TypeInv, TypeOK
    <3>3. CASE SendMail(w) \/ VerifyCommit(w)
      <4>1. job' = [job EXCEPT ![w] = Idle]
        BY <3>3 DEF SendMail, VerifyCommit, Return, Goto
      <4>2. QED
        BY <1>1, <4>1 DEF Idle, Revivers, TypeInv, TypeOK
    <3>4. QED
      BY <1>7, <3>1, <3>2, <3>3
  <2>2. \A v \in Workers : Reviving(v)' => Reviving(v) /\ job'[v].email = job[v].email
    BY <2>1 DEF Reviving, Revivers
  <2>3. QED
    BY <1>1, <1>7, <2>2, QuietSteps, StayQuiet
<1>8. QED
  BY <1>3, <1>4, <1>5, <1>6, <1>7 DEF Handle

\* An account in use stays in its organization: if registrations, new members and
\* restorations of one row exclude one another, whatever else interleaves.
THEOREM AccountStaysCorrect ==
  ASSUME NEW lock \in Locks, Revivers \cup {"restore"} \subseteq lock
  PROVE  Spec => AccountStays
<1>1. Init => StayInv
  BY TypeInit DEF Init, StayInv, Alone, Reviving, Revivers, Idle
<1>2. StayInv /\ [Next]_vars => StayInv' /\ Stays
  <2> SUFFICES ASSUME StayInv, [Next]_vars PROVE StayInv' /\ Stays
    OBVIOUS
  <2>1. TypeInv /\ TypeInv' /\ Alone(Revivers)'
    BY TypeStep, AloneStep DEF StayInv, Revivers
  <2>2. CASE UNCHANGED vars \/ \E e \in Emails : Expire(e)
    <3>1. job' = job
      BY <2>2 DEF vars, Expire
    <3>2. \A w \in Workers : Reviving(w)' => Reviving(w) /\ job'[w].email = job[w].email
      BY <3>1 DEF Reviving
    <3>3. QED
      BY <2>1, <2>2, <3>2, QuietSteps, StayQuiet DEF StayInv
  <2>3. ASSUME NEW w \in Workers, Handle(w) PROVE StayInv' /\ Stays
    BY <2>1, <2>3, StayHandle DEF StayInv
  <2>4. ASSUME NEW o \in Orgs, DeleteOrganization(o) \/ RestoreOrganization(o)
        PROVE  StayInv' /\ Stays
    <3>1. job' = job
      BY <2>4 DEF DeleteOrganization, RestoreOrganization
    <3>2. /\ Rows' = Rows
          /\ \A e \in Rows : user'[e].org = user[e].org
          /\ \A e \in Rows : user[e].org # o => user'[e].live = user[e].live
          /\ DeleteOrganization(o) => \A e \in Rows : user[e].org = o => user'[e].live = FALSE
      BY <2>1, <2>4, OrganizationPlaces
    <3>3. Stays
      BY <3>2 DEF Stays, Live
    <3>4. ASSUME NEW w \in Workers, Reviving(w) PROVE job[w].email \notin Live'
      <4>1. job[w].email \notin Live /\ job[w].op \in Revivers
        BY <3>4 DEF StayInv, Reviving, Revivers
      <4>2. CASE DeleteOrganization(o)
        BY <3>2, <4>1, <4>2 DEF Live
      <4>3. CASE RestoreOrganization(o)
        <5>1. job[w].email \notin Members(o)
          BY <4>1, <4>3 DEF RestoreOrganization, Excluded
        <5>2. QED
          BY <3>2, <4>1, <5>1 DEF Live, Members
      <4>4. QED
        BY <2>4, <4>2, <4>3
    <3>5. QED
      BY <2>1, <3>1, <3>3, <3>4 DEF StayInv, Reviving
  <2>5. ASSUME NEW o \in Orgs, SwitchOrganization(o) PROVE StayInv' /\ Stays
    BY <2>1, <2>5 DEF SwitchOrganization, StayInv, Stays, Reviving, Live, Rows
  <2>6. QED
    BY <2>2, <2>3, <2>4, <2>5 DEF Next
<1>3. Stays => [\A e \in Live : e \in Live' => user'[e].org = user[e].org]_vars
  BY DEF Stays
<1>4. QED
  BY <1>1, <1>2, <1>3, PTL DEF Spec, AccountStays

-----------------------------------------------------------------------------
(* The newest link works.                                                   *)

Linkers == {"register", "send", "verify"}
Sending(e) == \E w \in Workers : job[w].op = "send" /\ job[w].email = e

\* A token that is being sent is the one of its row, and so is the newest one that
\* was delivered, unless another one is being sent.
LinkInv ==
  /\ TypeInv
  /\ Alone(Linkers)
  /\ \A e \in Emails : newest[e] # None => e \in Rows
  /\ \A w \in Workers : job[w].op = "send" /\ job[w].token # None => user[job[w].email].token = job[w].token
  /\ \A e \in Emails : newest[e] # None /\ ~Sending(e) => user[e].token = newest[e]

\* No token changes, and no mail is sent.
Still ==
  /\ newest' = newest
  /\ \A e \in Rows : user'[e].token = user[e].token
  /\ \A w \in Workers : /\ job[w].op = "send" => job'[w] = job[w]
                        /\ job'[w].op = "send" => job'[w] = job[w] \/ job'[w].token = None

LEMMA LinkStill ==
  ASSUME LinkInv, TypeInv', Alone(Linkers)', \A e \in Rows : e \in Rows', Still
  PROVE  LinkInv'
<1>1. ASSUME NEW w \in Workers, job'[w].op = "send", job'[w].token # None
      PROVE  user'[job'[w].email].token = job'[w].token
  <2>1. job'[w] = job[w]
    BY <1>1 DEF Still
  <2>2. job[w].op = "send" /\ job[w].token # None
    BY <1>1, <2>1
  <2>3. job[w].email \in Rows /\ user[job[w].email].token = job[w].token
    BY <2>2 DEF LinkInv, TypeInv, OnRows
  <2>4. QED
    BY <2>1, <2>3 DEF Still
<1>2. ASSUME NEW e \in Emails, Sending(e) PROVE Sending(e)'
  <2>1. PICK w \in Workers : job[w].op = "send" /\ job[w].email = e
    BY <1>2 DEF Sending
  <2>2. job'[w] = job[w]
    BY <2>1 DEF Still
  <2>3. QED
    BY <2>1, <2>2 DEF Sending
<1>3. \A e \in Emails : newest'[e] # None => e \in Rows'
  BY DEF LinkInv, Still
<1>4. ASSUME NEW e \in Emails, newest'[e] # None, ~Sending(e)'
      PROVE  user'[e].token = newest'[e]
  BY <1>2, <1>4 DEF LinkInv, Still
<1>5. QED
  BY <1>1, <1>3, <1>4 DEF LinkInv

LEMMA StillHandle ==
  ASSUME TypeInv, NEW w \in Workers,
         \/ RegisterRead(w) \/ RegisterCommit(w) \/ StaffRead(w) \/ StaffFind(w) \/ StaffCommit(w)
         \/ VerifyRead(w)
  PROVE  Still
<1>1. ASSUME NEW j, job' = [job EXCEPT ![w] = j], job[w].op # "send", j.op # "send" \/ j.token = None
      PROVE  \A v \in Workers : /\ job[v].op = "send" => job'[v] = job[v]
                                /\ job'[v].op = "send" => job'[v] = job[v] \/ job'[v].token = None
  BY <1>1 DEF TypeInv, TypeOK
<1>2. ASSUME job[w] = Idle PROVE job[w].op # "send"
  BY <1>2 DEF Idle
<1>3. CASE RegisterRead(w)
  <2>1. PICK e : Start(w, [op |-> "register", email |-> e, reuse |-> e \in Rows])
    BY <1>3 DEF RegisterRead
  <2>2. QED
    BY <1>1, <1>2, <1>3, <2>1 DEF RegisterRead, Start, Still
<1>4. CASE RegisterCommit(w)
  <2>1. \E j \in {Idle, [op |-> "send", email |-> job[w].email, token |-> None]} :
          job' = [job EXCEPT ![w] = j]
    BY <1>4 DEF RegisterCommit, Return, Goto
  <2>2. Idle.op # "send" /\ [op |-> "send", email |-> job[w].email, token |-> None].token = None
    BY DEF Idle
  <2>3. \A v \in Workers : /\ job[v].op = "send" => job'[v] = job[v]
                           /\ job'[v].op = "send" => job'[v] = job[v] \/ job'[v].token = None
    BY <1>1, <1>4, <2>1, <2>2 DEF RegisterCommit
  <2>4. \A e \in Rows : user'[e].token = user[e].token
    <3>1. CASE job[w].reuse = (job[w].email \in Rows)
      <4>1. PICK o \in Orgs \ Existing :
              user' = [user EXCEPT ![job[w].email] =
                        [org |-> o, admin |-> TRUE, live |-> TRUE, verified |-> FALSE,
                         token |-> IF job[w].reuse THEN @.token ELSE None,
                         expired |-> job[w].reuse /\ @.expired]]
        BY <1>4, <3>1 DEF RegisterCommit
      <4>2. job[w].email \in Rows => job[w].reuse
        BY <3>1
      <4>3. QED
        BY <4>1, <4>2 DEF TypeInv, TypeOK, Rows
    <3>2. CASE ~(job[w].reuse = (job[w].email \in Rows))
      BY <1>4, <3>2 DEF RegisterCommit
    <3>3. QED
      BY <3>1, <3>2
  <2>5. QED
    BY <1>4, <2>3, <2>4 DEF RegisterCommit, Still
<1>5. CASE StaffRead(w)
  <2>1. PICK e, o : Start(w, [op |-> "staff", email |-> e, org |-> o, step |-> "find"])
    BY <1>5 DEF StaffRead
  <2>2. QED
    BY <1>1, <1>2, <1>5, <2>1 DEF StaffRead, Start, Still
<1>6. CASE StaffFind(w)
  <2>1. job[w] \in StaffJob
    BY <1>6, JobKinds DEF StaffFind, TypeInv, TypeOK
  <2>2. \E j \in {Idle, [job[w] EXCEPT !.step = "reuse"], [job[w] EXCEPT !.step = "create"]} :
          job' = [job EXCEPT ![w] = j]
    BY <1>6 DEF StaffFind, Return, Goto
  <2>3. \A j \in {Idle, [job[w] EXCEPT !.step = "reuse"], [job[w] EXCEPT !.step = "create"]} :
          j.op # "send"
    BY <2>1 DEF StaffJob, Idle
  <2>4. QED
    BY <1>1, <1>6, <2>2, <2>3 DEF StaffFind, Still
<1>7. CASE StaffCommit(w)
  <2>1. job' = [job EXCEPT ![w] = Idle] /\ job[w].op = "staff" /\ Idle.op # "send"
    BY <1>7 DEF StaffCommit, Return, Goto, Idle
  <2>2. \A e \in Rows : user'[e].token = user[e].token
    <3>1. CASE (job[w].step = "reuse") = (job[w].email \in Rows)
      <4>1. user' = [user EXCEPT ![job[w].email] =
                       [org |-> job[w].org, admin |-> FALSE, live |-> TRUE, verified |-> TRUE,
                        token |-> IF job[w].step = "reuse" THEN @.token ELSE None,
                        expired |-> job[w].step = "reuse" /\ @.expired]]
        BY <1>7, <3>1 DEF StaffCommit
      <4>2. job[w].email \in Rows => job[w].step = "reuse"
        BY <3>1
      <4>3. QED
        BY <4>1, <4>2 DEF TypeInv, TypeOK, Rows
    <3>2. CASE ~((job[w].step = "reuse") = (job[w].email \in Rows))
      BY <1>7, <3>2 DEF StaffCommit
    <3>3. QED
      BY <3>1, <3>2
  <2>3. QED
    BY <1>1, <1>7, <2>1, <2>2 DEF StaffCommit, Still
<1>8. CASE VerifyRead(w)
  <2>1. PICK e : Start(w, [op |-> "verify", email |-> e])
    BY <1>8 DEF VerifyRead
  <2>2. QED
    BY <1>1, <1>2, <1>8, <2>1 DEF VerifyRead, Start, Still
<1>9. QED
  BY <1>3, <1>4, <1>5, <1>6, <1>7, <1>8

LEMMA LinkToken ==
  ASSUME LinkInv, TypeInv', Alone(Linkers)', NEW w \in Workers, SendToken(w)
  PROVE  LinkInv'
<1>1. PICK e \in Rows : Write(w, e) /\ (job[w] = Idle \/ (job[w].op = "send" /\ job[w].email = e))
  BY DEF SendToken, LinkInv, TypeInv, OnRows
<1>2. PICK t \in Tokens : /\ user' = [user EXCEPT ![e].token = t, ![e].expired = FALSE]
                          /\ job' = [job EXCEPT ![w] = [op |-> "send", email |-> e, token |-> t]]
  BY <1>1 DEF Write, Unused, Goto
<1>3. /\ job'[w].op = "send" /\ job'[w].email = e /\ job'[w].token = t
      /\ \A v \in Workers : v # w => job'[v] = job[v]
  BY <1>2 DEF LinkInv, TypeInv, TypeOK
<1>4. user[e] \in User /\ e \in Emails
  BY RowIsUser DEF LinkInv, TypeInv
<1>5. user'[e].token = t /\ \A x \in Emails : x # e => user'[x] = user[x]
  BY <1>2, <1>4 DEF LinkInv, TypeInv, TypeOK, User
<1>6. newest' = newest
  BY DEF SendToken
<1>7. ASSUME NEW v \in Workers, job'[v].op = "send", job'[v].token # None
      PROVE  user'[job'[v].email].token = job'[v].token
  <2>1. CASE v = w
    BY <1>3, <1>5, <2>1
  <2>2. CASE v # w
    <3>1. job'[v] = job[v] /\ job'[v].email # e
      BY <1>3, <1>7, <2>2 DEF Alone, Linkers
    <3>2. job[v].op = "send" /\ job[v].token # None /\ job[v].email \in Emails
      BY <1>7, <3>1, JobKinds DEF LinkInv, TypeInv, TypeOK
    <3>3. QED
      BY <1>5, <3>1, <3>2 DEF LinkInv
  <2>3. QED
    BY <2>1, <2>2
<1>8. ASSUME NEW x \in Emails, newest'[x] # None, ~Sending(x)'
      PROVE  user'[x].token = newest'[x]
  <2>1. x # e
    BY <1>3, <1>8 DEF Sending
  <2>2. \A v \in Workers : job[v].op = "send" /\ job[v].email = x => v # w
    BY <1>1, <2>1 DEF Idle
  <2>3. ~Sending(x)
    BY <1>3, <1>8, <2>2 DEF Sending
  <2>4. QED
    BY <1>5, <1>6, <1>8, <2>1, <2>3 DEF LinkInv
<1>9. \A x \in Emails : newest'[x] # None => x \in Rows'
  BY <1>6, SendType DEF LinkInv
<1>10. QED
  BY <1>7, <1>8, <1>9 DEF LinkInv

LEMMA LinkEnds ==
  ASSUME LinkInv, TypeInv', Alone(Linkers)', NEW w \in Workers, SendMail(w) \/ VerifyCommit(w)
  PROVE  LinkInv'
<1> DEFINE e == job[w].email
<1>1. /\ job'[w] = Idle /\ Idle.op # "send" /\ \A v \in Workers : v # w => job'[v] = job[v]
      /\ e \in Rows /\ e \in Emails
  BY DEF SendMail, VerifyCommit, Return, Goto, Idle, LinkInv, TypeInv, TypeOK, OnRows, Rows
<1>2. \A x \in Emails : x # e => user'[x] = user[x] /\ newest'[x] = newest[x]
  BY <1>1 DEF SendMail, VerifyCommit, LinkInv, TypeInv, TypeOK
<1>3. newest'[e] # None => user'[e].token = newest'[e] /\ user' = user
  <2>1. CASE SendMail(w)
    BY <1>1, <2>1 DEF SendMail, LinkInv, TypeInv, TypeOK
  <2>2. CASE VerifyCommit(w)
    BY <1>1, <2>2 DEF VerifyCommit, LinkInv, TypeInv, TypeOK
  <2>3. QED
    BY <2>1, <2>2
<1>4. ASSUME NEW v \in Workers, job'[v].op = "send", job'[v].token # None
      PROVE  user'[job'[v].email].token = job'[v].token
  <2>1. v # w /\ job'[v] = job[v] /\ job[v].op = "send" /\ job[v].token # None
    BY <1>1, <1>4
  <2>2. job[v].email # e /\ job[v].email \in Emails
    BY <2>1, JobKinds DEF SendMail, VerifyCommit, Alone, Linkers, LinkInv, TypeInv, TypeOK
  <2>3. QED
    BY <1>2, <2>1, <2>2 DEF LinkInv
<1>5. ASSUME NEW x \in Emails, newest'[x] # None, ~Sending(x)'
      PROVE  user'[x].token = newest'[x]
  <2>1. CASE x = e
    BY <1>3, <1>5, <2>1
  <2>2. CASE x # e
    <3>1. ~Sending(x)
      BY <1>1, <1>5, <2>2 DEF Sending
    <3>2. QED
      BY <1>2, <1>5, <2>2, <3>1 DEF LinkInv
  <2>3. QED
    BY <2>1, <2>2
<1>6. ASSUME NEW x \in Emails, newest'[x] # None PROVE x \in Rows'
  <2>1. x \in Rows
    BY <1>1, <1>2, <1>6 DEF LinkInv
  <2>2. QED
    BY <2>1, SendType, VerifyType DEF LinkInv
<1>7. QED
  BY <1>4, <1>5, <1>6 DEF LinkInv

\* The newest link works: if registrations, mails and verifications of one address
\* exclude one another, whatever else interleaves.
THEOREM NewestLinkCorrect ==
  ASSUME NEW lock \in Locks, Linkers \subseteq lock
  PROVE  Spec => []NewestLinkWorks
<1>1. Init => LinkInv
  BY TypeInit DEF Init, LinkInv, Alone, Linkers, Idle
<1>2. LinkInv /\ [Next]_vars => LinkInv'
  <2> SUFFICES ASSUME LinkInv, [Next]_vars PROVE LinkInv'
    OBVIOUS
  <2>1. TypeInv /\ TypeInv' /\ Alone(Linkers)' /\ \A e \in Rows : e \in Rows'
    BY TypeStep, AloneStep DEF LinkInv, Linkers
  <2>2. CASE Still
    BY <2>1, <2>2, LinkStill
  <2>3. CASE UNCHANGED vars
    BY <2>2, <2>3 DEF vars, Still
  <2>4. ASSUME NEW w \in Workers, Handle(w) PROVE LinkInv'
    BY <2>1, <2>2, <2>4, StillHandle, LinkToken, LinkEnds DEF Handle
  <2>5. ASSUME NEW e \in Emails, Expire(e) PROVE Still
    <3>1. user[e] \in User
      BY <2>1, <2>5, RowIsUser DEF Expire, TypeInv
    <3>2. user' = [user EXCEPT ![e].expired = TRUE]
      BY <2>5 DEF Expire
    <3>3. \A x \in Rows : user'[x].token = user[x].token
      BY <2>1, <3>1, <3>2 DEF TypeInv, TypeOK, User, Rows
    <3>4. QED
      BY <2>5, <3>3 DEF Expire, Still
  <2>6. ASSUME NEW o \in Orgs, DeleteOrganization(o) \/ RestoreOrganization(o) PROVE Still
    <3>1. ASSUME NEW x \in Rows PROVE user'[x].token = user[x].token
      <4>1. user[x] \in User /\ x \in Emails
        BY <2>1, RowIsUser DEF TypeInv
      <4>2. \/ user'[x] = user[x]
            \/ user'[x] = [user[x] EXCEPT !.live = FALSE, !.verified = FALSE]
            \/ user'[x] = [user[x] EXCEPT !.live = TRUE]
        BY <2>6, <4>1 DEF DeleteOrganization, RestoreOrganization
      <4>3. QED
        BY <4>1, <4>2 DEF User
    <3>2. QED
      BY <2>6, <3>1 DEF DeleteOrganization, RestoreOrganization, Still
  <2>7. ASSUME NEW o \in Orgs, SwitchOrganization(o) PROVE Still
    BY <2>7 DEF SwitchOrganization, Still
  <2>8. QED
    BY <2>2, <2>3, <2>4, <2>5, <2>6, <2>7 DEF Next
<1>3. LinkInv => NewestLinkWorks
  BY DEF LinkInv, NewestLinkWorks, Sending, Rows
<1>4. QED
  BY <1>1, <1>2, <1>3, PTL DEF Spec
=============================================================================
