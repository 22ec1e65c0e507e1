-------------------------- MODULE CommunityProofs --------------------------
(***************************************************************************)
(* Theorems about Community, for any users, posts, comments, bodies and    *)
(* number of request handlers: its types, and that it implements Board     *)
(* where the handlers that edit one column of a post exclude one another.  *)
(***************************************************************************)
EXTENDS Community, TLAPS

LEMMA JobKinds ==
    ASSUME NEW j \in Job
    PROVE  /\ j.op \in {"comment", "uncomment"} => j \in CommentJob
           /\ j.op = "acknowledge" => j \in AckJob
           /\ j.op = "update" /\ j.step = "commit" => j \in UpdateJob
           /\ j.op \in {"create", "update"} /\ j.step = "announce" => j \in AnnounceJob
           /\ j.op # "idle" => j.post \in Posts
  BY DEF Job, CommentJob, AckJob, UpdateJob, AnnounceJob, Idle

\* A row of the table is a post; a removed or missing one is not.
LEMMA RowsArePosts ==
    ASSUME TypeOK
    PROVE  \A p \in Posts : p \in Rows <=> posts[p] \in Post
  BY DEF TypeOK, Rows, Post, NoPost, Removed, States

\* An edit yields a post, with the comments and acknowledgements it had.
LEMMA EditKeepsThread ==
    ASSUME CommunityAssumption, NEW row \in Post, NEW edit \in Edits
    PROVE  /\ Edited(row, edit) \in Post
           /\ Edited(row, edit).comments = row.comments
           /\ Edited(row, edit).acks = row.acks
  <1> DEFINE s == Given(edit, "status", row.status)
             q == Given(edit, "private", row.private)
             v == Given(edit, "visible", row.visible)
             o == Given(edit, "open", row.open)
  <1>1. s \in States /\ q \in BOOLEAN /\ v \in SUBSET Roles /\ o \in BOOLEAN
    BY DEF CommunityAssumption, Given, Post
  <1>2. Edited(row, edit) = [row EXCEPT !.status = s, !.private = q, !.visible = v, !.open = o]
    BY DEF Edited
  <1> HIDE DEF s, q, v, o
  <1> QED BY <1>1, <1>2 DEF Post

LEMMA StartType ==
    ASSUME TypeOK, NEW w \in Workers, NEW j \in Job, Start(w, j)
    PROVE  job' \in [Workers -> Job]
  BY DEF TypeOK, Start

LEMMA ReturnType ==
    ASSUME TypeOK, NEW w \in Workers, Return(w)
    PROVE  job' \in [Workers -> Job]
  <1>1. Idle \in Job
    BY DEF Job
  <1> QED BY <1>1 DEF TypeOK, Return

LEMMA PublishType ==
    ASSUME TypeOK, NEW p \in Posts, NEW row \in Post, Publish(p, row)
    PROVE  /\ posts' \in [Posts -> {NoPost, Removed} \cup Post]
           /\ fresh' \subseteq Posts
  BY DEF TypeOK, Publish

-----------------------------------------------------------------------------
LEMMA CreateType ==
    ASSUME CommunityAssumption, TypeOK, NEW w \in Workers, CreatePost(w)
    PROVE  TypeOK'
  <1>1. PICK u \in Users, p \in Posts, draft \in Drafts :
           LET row == [author |-> u, status |-> draft.status, private |-> draft.private,
                       visible |-> draft.visible, open |-> draft.open, deleted |-> FALSE,
                       comments |-> {}, acks |-> {}]
           IN  /\ posts[p] = NoPost
               /\ ~TrialOver(u)
               /\ Publish(p, row)
               /\ IF row.status = "PUBLISHED" /\ ~row.private
                  THEN Start(w, [op |-> "create", step |-> "announce", post |-> p, user |-> u,
                                 to |-> row.visible])
                  ELSE job[w] = Idle /\ UNCHANGED job
               /\ UNCHANGED <<expired, made, told>>
    BY DEF CreatePost
  <1> DEFINE row == [author |-> u, status |-> draft.status, private |-> draft.private,
                     visible |-> draft.visible, open |-> draft.open, deleted |-> FALSE,
                     comments |-> {}, acks |-> {}]
             j == [op |-> "create", step |-> "announce", post |-> p, user |-> u,
                   to |-> row.visible]
  <1>2. row \in Post /\ j \in Job
    BY DEF CommunityAssumption, Post, Job, AnnounceJob
  <1>3. Publish(p, row) /\ (Start(w, j) \/ UNCHANGED job) /\ UNCHANGED <<expired, made, told>>
    BY <1>1
  <1> HIDE DEF row, j
  <1>4. job' \in [Workers -> Job]
    BY <1>2, <1>3, StartType DEF TypeOK
  <1> QED BY <1>2, <1>3, <1>4, PublishType DEF TypeOK

LEMMA UpdateReadType ==
    ASSUME TypeOK, NEW w \in Workers, UpdateRead(w)
    PROVE  TypeOK'
  <1>1. PICK u \in Users, p \in Rows, edit \in Edits :
           /\ Start(w, [op |-> "update", step |-> "commit", post |-> p, user |-> u,
                        edit |-> edit, was |-> posts[p].status])
           /\ UNCHANGED <<posts, expired, made, fresh, told>>
    BY DEF UpdateRead
  <1> DEFINE j == [op |-> "update", step |-> "commit", post |-> p, user |-> u,
                   edit |-> edit, was |-> posts[p].status]
  <1>2. p \in Posts /\ posts[p].status \in States
    BY RowsArePosts DEF Rows, Post
  <1>3. j \in Job
    BY <1>2 DEF Job, UpdateJob
  <1> HIDE DEF j
  <1>4. job' \in [Workers -> Job]
    BY <1>1, <1>3, StartType DEF j
  <1> QED BY <1>1, <1>4 DEF TypeOK

LEMMA UpdateCommitType ==
    ASSUME CommunityAssumption, TypeOK, NEW w \in Workers, UpdateCommit(w)
    PROVE  TypeOK'
  <1> DEFINE j == job[w]
             row == Edited(posts[j.post], j.edit)
             k == [op |-> "update", step |-> "announce", post |-> j.post, user |-> j.user,
                   to |-> row.visible]
  <1>1. j \in UpdateJob
    BY JobKinds DEF TypeOK, UpdateCommit, At
  <1>2. UNCHANGED <<expired, made, told>>
    BY DEF UpdateCommit
  <1>3. CASE j.post \in Rows
    <2>1. row \in Post
      BY <1>1, <1>3, RowsArePosts, EditKeepsThread DEF UpdateJob
    <2>2. row.visible \in SUBSET Roles /\ j.post \in Posts /\ j.user \in Users
      BY <1>1, <2>1 DEF UpdateJob, Post
    <2>3. k \in Job
      BY <2>2 DEF Job, AnnounceJob
    <2>4. /\ Publish(j.post, row)
          /\ job' = [job EXCEPT ![w] = k] \/ Return(w)
      BY <1>3 DEF UpdateCommit
    <2> HIDE DEF j, row, k
    <2>5. job' \in [Workers -> Job]
      BY <2>3, <2>4, ReturnType DEF TypeOK
    <2> QED BY <1>2, <2>1, <2>2, <2>4, <2>5, PublishType DEF TypeOK
  <1>4. CASE j.post \notin Rows
    <2>1. Return(w) /\ UNCHANGED <<posts, fresh>>
      BY <1>4 DEF UpdateCommit
    <2> QED BY <1>2, <2>1, ReturnType DEF TypeOK
  <1> QED BY <1>3, <1>4

LEMMA AnnounceType ==
    ASSUME TypeOK, NEW w \in Workers, Announce(w)
    PROVE  TypeOK'
  <1>1. job' \in [Workers -> Job]
    BY ReturnType DEF Announce
  <1>2. \A q \in SUBSET Users : q \cup Recipients(job[w].user, job[w].to) \subseteq Users
    BY DEF Recipients
  <1>3. told' \in [Posts -> SUBSET Users]
    <2> DEFINE R == Recipients(job[w].user, job[w].to)
    <2>1. told' = [told EXCEPT ![job[w].post] = IF Org[job[w].user] = NoOrg THEN @ ELSE @ \cup R]
      BY DEF Announce
    <2> HIDE DEF R
    <2>2. \A q \in SUBSET Users : q \cup R \in SUBSET Users
      BY <1>2 DEF R
    <2> QED BY <2>1, <2>2 DEF TypeOK
  <1> QED BY <1>1, <1>3 DEF TypeOK, Announce

\* The three handlers that edit a column: what they read, and what they write.
LEMMA ReadType ==
    ASSUME TypeOK, NEW w \in Workers, CommentRead(w) \/ UncommentRead(w) \/ AcknowledgeRead(w)
    PROVE  TypeOK'
  <1>1. CASE CommentRead(w)
    <2>1. PICK p \in Rows, c \in Comments \ (made \cup Drawn) :
             /\ Start(w, [op |-> "comment", post |-> p, comment |-> c, seen |-> posts[p].comments])
             /\ UNCHANGED <<posts, expired, made, fresh, told>>
      BY <1>1 DEF CommentRead
    <2>2. p \in Posts /\ posts[p].comments \in SUBSET Comments
      BY RowsArePosts DEF Rows, Post
    <2>3. [op |-> "comment", post |-> p, comment |-> c, seen |-> posts[p].comments] \in Job
      BY <2>2 DEF Job, CommentJob
    <2>4. job' \in [Workers -> Job]
      BY <2>1, <2>3, StartType
    <2> QED BY <2>1, <2>4 DEF TypeOK
  <1>2. CASE UncommentRead(w)
    <2>1. PICK p \in Rows : \E c \in posts[p].comments :
             /\ Start(w, [op |-> "uncomment", post |-> p, comment |-> c, seen |-> posts[p].comments])
             /\ UNCHANGED <<posts, expired, made, fresh, told>>
      BY <1>2 DEF UncommentRead
    <2>2. p \in Posts /\ posts[p].comments \in SUBSET Comments
      BY RowsArePosts DEF Rows, Post
    <2>3. PICK c \in posts[p].comments :
             /\ Start(w, [op |-> "uncomment", post |-> p, comment |-> c, seen |-> posts[p].comments])
             /\ UNCHANGED <<posts, expired, made, fresh, told>>
      BY <2>1
    <2>4. [op |-> "uncomment", post |-> p, comment |-> c, seen |-> posts[p].comments] \in Job
      BY <2>2 DEF Job, CommentJob
    <2>5. job' \in [Workers -> Job]
      BY <2>3, <2>4, StartType
    <2> QED BY <2>3, <2>5 DEF TypeOK
  <1>3. CASE AcknowledgeRead(w)
    <2>1. PICK u \in Users, p \in Rows :
             /\ Start(w, [op |-> "acknowledge", post |-> p, user |-> u, seen |-> posts[p].acks])
             /\ UNCHANGED <<posts, expired, made, fresh, told>>
      BY <1>3 DEF AcknowledgeRead
    <2>2. p \in Posts /\ posts[p].acks \in SUBSET Users
      BY RowsArePosts DEF Rows, Post
    <2>3. [op |-> "acknowledge", post |-> p, user |-> u, seen |-> posts[p].acks] \in Job
      BY <2>2 DEF Job, AckJob
    <2>4. job' \in [Workers -> Job]
      BY <2>1, <2>3, StartType
    <2> QED BY <2>1, <2>4 DEF TypeOK
  <1> QED BY <1>1, <1>2, <1>3

LEMMA CommitType ==
    ASSUME TypeOK, NEW w \in Workers,
           CommentCommit(w) \/ UncommentCommit(w) \/ AcknowledgeCommit(w)
    PROVE  TypeOK'
  <1> DEFINE j == job[w]
  <1>1. j \in Job
    BY DEF TypeOK
  <1>2. job' \in [Workers -> Job]
    BY ReturnType DEF CommentCommit, UncommentCommit, AcknowledgeCommit
  <1>3. CASE CommentCommit(w)
    <2>1. j \in CommentJob
      BY <1>1, <1>3, JobKinds DEF CommentCommit, At
    <2>2. CASE j.post \in Rows
      <3>1. posts[j.post] \in Post /\ j.seen \cup {j.comment} \in SUBSET Comments
        BY <2>1, <2>2, RowsArePosts DEF CommentJob
      <3>2. [posts[j.post] EXCEPT !.comments = j.seen \cup {j.comment}] \in Post
        BY <3>1 DEF Post
      <3>3. posts' = [posts EXCEPT ![j.post] =
                        [posts[j.post] EXCEPT !.comments = j.seen \cup {j.comment}]]
        BY <1>3, <2>2 DEF CommentCommit, TypeOK
      <3>4. made' = made \cup {j.comment} /\ UNCHANGED <<expired, fresh, told>>
        BY <1>3, <2>2 DEF CommentCommit
      <3> QED BY <1>2, <2>1, <3>2, <3>3, <3>4 DEF TypeOK, CommentJob
    <2>3. CASE j.post \notin Rows
      BY <1>2, <1>3, <2>3 DEF CommentCommit, TypeOK
    <2> QED BY <2>2, <2>3
  <1>4. CASE UncommentCommit(w)
    <2>1. j \in CommentJob
      BY <1>1, <1>4, JobKinds DEF UncommentCommit, At
    <2>2. CASE j.post \in Rows
      <3>1. posts[j.post] \in Post /\ j.seen \ {j.comment} \in SUBSET Comments
        BY <2>1, <2>2, RowsArePosts DEF CommentJob
      <3>2. [posts[j.post] EXCEPT !.comments = j.seen \ {j.comment}] \in Post
        BY <3>1 DEF Post
      <3>3. posts' = [posts EXCEPT ![j.post] =
                        [posts[j.post] EXCEPT !.comments = j.seen \ {j.comment}]]
        BY <1>4, <2>2 DEF UncommentCommit, TypeOK
      <3> QED BY <1>2, <1>4, <3>2, <3>3 DEF TypeOK, UncommentCommit
    <2>3. CASE j.post \notin Rows
      BY <1>2, <1>4, <2>3 DEF UncommentCommit, TypeOK
    <2> QED BY <2>2, <2>3
  <1>5. CASE AcknowledgeCommit(w)
    <2> DEFINE S == IF j.user \in j.seen THEN j.seen \ {j.user} ELSE j.seen \cup {j.user}
    <2>1. j \in AckJob
      BY <1>1, <1>5, JobKinds DEF AcknowledgeCommit, At
    <2>2. CASE j.post \in Rows
      <3>1. posts[j.post] \in Post /\ S \in SUBSET Users
        BY <2>1, <2>2, RowsArePosts DEF AckJob
      <3>2. posts' = [posts EXCEPT ![j.post] = [posts[j.post] EXCEPT !.acks = S]]
        BY <1>5, <2>2 DEF AcknowledgeCommit, TypeOK
      <3> HIDE DEF S
      <3>3. [posts[j.post] EXCEPT !.acks = S] \in Post
        BY <3>1 DEF Post
      <3> QED BY <1>2, <1>5, <3>2, <3>3 DEF TypeOK, AcknowledgeCommit
    <2>3. CASE j.post \notin Rows
      BY <1>2, <1>5, <2>3 DEF AcknowledgeCommit, TypeOK
    <2> QED BY <2>2, <2>3
  <1> QED BY <1>3, <1>4, <1>5

LEMMA TakeDownType ==
    ASSUME TypeOK, DeletePost \/ RestorePost
    PROVE  TypeOK'
  <1>1. CASE DeletePost
    <2>1. PICK p \in Rows :
             /\ \/ posts' = [posts EXCEPT ![p] = Removed]
                \/ posts' = [posts EXCEPT ![p].deleted = TRUE, ![p].status = "ARCHIVED"]
             /\ UNCHANGED <<expired, job, made, fresh, told>>
      BY <1>1 DEF DeletePost
    <2>2. p \in Posts /\ posts[p] \in Post
      BY RowsArePosts DEF Rows
    <2>3. [posts[p] EXCEPT !.deleted = TRUE, !.status = "ARCHIVED"] \in Post
      BY <2>2 DEF Post, States
    <2>4. \/ posts' = [posts EXCEPT ![p] = Removed]
          \/ posts' = [posts EXCEPT ![p] = [posts[p] EXCEPT !.deleted = TRUE, !.status = "ARCHIVED"]]
      BY <2>1, <2>2 DEF TypeOK
    <2> QED BY <2>1, <2>3, <2>4 DEF TypeOK
  <1>2. CASE RestorePost
    <2>1. PICK p \in Rows :
             /\ posts' = [posts EXCEPT ![p].deleted = FALSE, ![p].status = "DRAFT"]
             /\ UNCHANGED <<expired, job, made, fresh, told>>
      BY <1>2 DEF RestorePost
    <2>2. p \in Posts /\ posts[p] \in Post
      BY RowsArePosts DEF Rows
    <2>3. [posts[p] EXCEPT !.deleted = FALSE, !.status = "DRAFT"] \in Post
      BY <2>2 DEF Post, States
    <2>4. posts' = [posts EXCEPT ![p] = [posts[p] EXCEPT !.deleted = FALSE, !.status = "DRAFT"]]
      BY <2>1, <2>2 DEF TypeOK
    <2> QED BY <2>1, <2>3, <2>4 DEF TypeOK
  <1> QED BY <1>1, <1>2

\* Every row, job and notification has its type in every reachable state.
THEOREM TypeCorrect == ASSUME CommunityAssumption PROVE Spec => []TypeOK
  <1>1. Init => TypeOK
    BY DEF Init, TypeOK, Job
  <1>2. TypeOK /\ [Next]_vars => TypeOK'
    <2> SUFFICES ASSUME TypeOK, [Next]_vars PROVE TypeOK'
      OBVIOUS
    <2>1. CASE UNCHANGED vars
      BY <2>1 DEF TypeOK, vars
    <2>2. ASSUME NEW w \in Workers, Handle(w) PROVE TypeOK'
      BY <2>2, CreateType, UpdateReadType, UpdateCommitType, AnnounceType, ReadType, CommitType
         DEF Handle
    <2>3. CASE DeletePost \/ RestorePost
      BY <2>3, TakeDownType
    <2>4. ASSUME NEW o \in Orgs, TrialEnds(o) \/ Upgrade(o) PROVE TypeOK'
      BY <2>4 DEF TypeOK, TrialEnds, Upgrade
    <2> QED BY <2>1, <2>2, <2>3, <2>4 DEF Next
  <1> QED BY <1>1, <1>2, PTL DEF Spec

-----------------------------------------------------------------------------
(* What was taken down stays down: a step that leaves the post deleted      *)
(* hides it, and the one that restores it makes it a draft.                 *)

LEMMA EditKeepsDeleted ==
    ASSUME NEW row \in Post, NEW edit \in Edits
    PROVE  Edited(row, edit).deleted = row.deleted
  BY DEF Edited, Post

LEMMA CreateEffect ==
    ASSUME CommunityAssumption, TypeOK, NEW w \in Workers, CreatePost(w)
    PROVE  /\ \E p \in Posts, row \in Post :
                 /\ posts[p] = NoPost /\ row.comments = {} /\ row.acks = {}
                 /\ posts' = [posts EXCEPT ![p] = row]
                 /\ \/ UNCHANGED job
                    \/ /\ p \in fresh'
                       /\ job'[w].op = "create" /\ job'[w].step = "announce" /\ job'[w].post = p
                       /\ \A v \in Workers : v # w => job'[v] = job[v]
           /\ fresh \subseteq fresh'
           /\ UNCHANGED made
  <1>1. PICK u \in Users, p \in Posts, draft \in Drafts :
           LET row == [author |-> u, status |-> draft.status, private |-> draft.private,
                       visible |-> draft.visible, open |-> draft.open, deleted |-> FALSE,
                       comments |-> {}, acks |-> {}]
           IN  /\ posts[p] = NoPost /\ Publish(p, row) /\ UNCHANGED made
               /\ IF row.status = "PUBLISHED" /\ ~row.private
                  THEN Start(w, [op |-> "create", step |-> "announce", post |-> p, user |-> u,
                                 to |-> row.visible])
                  ELSE UNCHANGED job
    BY DEF CreatePost
  <1> DEFINE row == [author |-> u, status |-> draft.status, private |-> draft.private,
                     visible |-> draft.visible, open |-> draft.open, deleted |-> FALSE,
                     comments |-> {}, acks |-> {}]
             j == [op |-> "create", step |-> "announce", post |-> p, user |-> u,
                   to |-> row.visible]
  <1>2. row \in Post /\ row.comments = {} /\ row.acks = {}
    BY DEF CommunityAssumption, Post
  <1>3. posts[p] = NoPost /\ Publish(p, row) /\ UNCHANGED made
    BY <1>1
  <1>4. UNCHANGED job \/ (row.status = "PUBLISHED" /\ Start(w, j))
    BY <1>1
  <1>5. j.op = "create" /\ j.step = "announce" /\ j.post = p
    OBVIOUS
  <1> HIDE DEF row, j
  <1>6. row.status = "PUBLISHED" => p \in fresh'
    BY <1>3 DEF Publish, NoPost
  <1>7. Start(w, j) => \A v \in Workers : job'[v] = IF v = w THEN j ELSE job[v]
    BY DEF Start, TypeOK
  <1>8. posts' = [posts EXCEPT ![p] = row] /\ fresh \subseteq fresh'
    BY <1>3 DEF Publish
  <1> QED BY <1>2, <1>3, <1>4, <1>5, <1>6, <1>7, <1>8

LEMMA StaysDown ==
    ASSUME CommunityAssumption, TypeOK, Next,
           NEW p \in Rows, posts[p].deleted, p \in Rows'
    PROVE  posts'[p].deleted \/ posts'[p].status = "DRAFT"
  <1>1. p \in Posts /\ posts[p] \in Post
    BY RowsArePosts DEF Rows
  <1>2. CASE \E w \in Workers : CreatePost(w)
    <2>1. PICK q \in Posts, row \in Post : /\ posts[q] = NoPost
                                           /\ posts' = [posts EXCEPT ![q] = row]
      BY <1>2, CreateEffect
    <2> QED BY <1>1, <2>1 DEF Rows, TypeOK
  <1>3. CASE \E w \in Workers : UpdateCommit(w)
    <2>1. PICK w \in Workers : UpdateCommit(w)
      BY <1>3
    <2>2. job[w] \in UpdateJob
      BY <2>1, JobKinds DEF TypeOK, UpdateCommit, At
    <2>3. CASE job[w].post \in Rows
      <3> DEFINE q == job[w].post
                 row == Edited(posts[q], job[w].edit)
      <3>1. posts' = [posts EXCEPT ![q] = row]
        BY <2>1, <2>3 DEF UpdateCommit, Publish
      <3>2. q = p => row.deleted = posts[p].deleted
        BY <1>1, <2>2, EditKeepsDeleted DEF UpdateJob
      <3> HIDE DEF row, q
      <3> QED BY <1>1, <3>1, <3>2 DEF TypeOK
    <2>4. CASE job[w].post \notin Rows
      BY <2>1, <2>4 DEF UpdateCommit
    <2> QED BY <2>3, <2>4
  <1>4. CASE \E w \in Workers : CommentCommit(w) \/ UncommentCommit(w) \/ AcknowledgeCommit(w)
    <2>1. PICK w \in Workers : CommentCommit(w) \/ UncommentCommit(w) \/ AcknowledgeCommit(w)
      BY <1>4
    <2> DEFINE j == job[w]
               S == j.seen \cup {j.comment}
               T == j.seen \ {j.comment}
               U == IF j.user \in j.seen THEN j.seen \ {j.user} ELSE j.seen \cup {j.user}
               q == j.post
    <2>2. \/ posts' = posts
          \/ posts' = [posts EXCEPT ![q].comments = S]
          \/ posts' = [posts EXCEPT ![q].comments = T]
          \/ posts' = [posts EXCEPT ![q].acks = U]
      BY <2>1 DEF CommentCommit, UncommentCommit, AcknowledgeCommit
    <2> HIDE DEF q, S, T, U
    <2> QED BY <1>1, <2>2 DEF TypeOK, Post
  <1>5. CASE DeletePost
    <2>1. PICK q \in Rows : \/ posts' = [posts EXCEPT ![q] = Removed]
                            \/ posts' = [posts EXCEPT ![q].deleted = TRUE, ![q].status = "ARCHIVED"]
      BY <1>5 DEF DeletePost
    <2>2. CASE posts' = [posts EXCEPT ![q] = Removed]
      BY <1>1, <2>2 DEF TypeOK, Rows
    <2>3. CASE posts' = [posts EXCEPT ![q].deleted = TRUE, ![q].status = "ARCHIVED"]
      BY <1>1, <2>3 DEF TypeOK, Post
    <2> QED BY <2>1, <2>2, <2>3
  <1>6. CASE RestorePost
    <2>1. PICK q \in Rows : posts' = [posts EXCEPT ![q].deleted = FALSE, ![q].status = "DRAFT"]
      BY <1>6 DEF RestorePost
    <2>2. posts'[p] = posts[p] \/ posts'[p].status = "DRAFT"
      BY <1>1, <2>1 DEF TypeOK, Post
    <2> QED BY <2>2
  <1>7. CASE UNCHANGED posts
    BY <1>7
  <1> QED
    BY <1>2, <1>3, <1>4, <1>5, <1>6, <1>7
       DEF Next, Handle, UpdateRead, Announce, CommentRead, UncommentRead, AcknowledgeRead,
           TrialEnds, Upgrade

\* restorePostCommunity: what was deleted is listed for nobody by the step that
\* restores it, nor by any other step on it.
THEOREM TakenDownCorrect == ASSUME CommunityAssumption PROVE Spec => TakenDownStaysDown
  <1>1. TypeOK /\ [Next]_vars => [TakenDown]_vars
    <2> SUFFICES ASSUME TypeOK, Next PROVE TakenDown
      OBVIOUS
    <2> SUFFICES ASSUME NEW p \in Posts, p \in Rows, posts[p].deleted,
                        NEW u \in Users, p \in Listed(u)'
                 PROVE  FALSE
      BY DEF TakenDown, Rows
    <2>1. p \in Rows' /\ ~posts'[p].deleted /\ posts'[p].status = "PUBLISHED"
      BY DEF Listed
    <2> QED BY <2>1, StaysDown
  <1> QED BY <1>1, TypeCorrect, PTL DEF Spec, TakenDownStaysDown

-----------------------------------------------------------------------------
(* Where a set of handlers exclude one another on a post, at most one of    *)
(* them is in progress on it.                                               *)

Alone(lock) ==
    \A v, w \in Workers :
        v # w /\ job[v].op \in lock /\ job[w].op \in lock => job[v].post # job[w].post

LEMMA StartAlone ==
    ASSUME TypeOK, NEW lock \in Locks, Alone(lock), NEW w \in Workers, NEW j, Start(w, j)
    PROVE  Alone(lock)'
  <1>1. \A v \in Workers : job[v].post = j.post => ~({j.op, job[v].op} \subseteq lock)
    BY DEF Start, Excluded
  <1>2. \A v \in Workers : job'[v] = IF v = w THEN j ELSE job[v]
    BY DEF Start, TypeOK
  <1> QED BY <1>1, <1>2 DEF Alone

LEMMA SameAlone ==
    ASSUME TypeOK, NEW lock \in Locks, Alone(lock),
           \A v \in Workers : \/ job'[v] = Idle
                              \/ job'[v].op = job[v].op /\ job'[v].post = job[v].post,
           "idle" \notin lock
    PROVE  Alone(lock)'
  BY DEF Alone, Idle

LEMMA ReturnJobs ==
    ASSUME TypeOK, NEW w \in Workers, Return(w)
    PROVE  \A v \in Workers : job'[v] = IF v = w THEN Idle ELSE job[v]
  BY DEF TypeOK, Return

LEMMA UpdateCommitJobs ==
    ASSUME TypeOK, NEW w \in Workers, UpdateCommit(w)
    PROVE  /\ \A v \in Workers : v # w => job'[v] = job[v]
           /\ \/ job'[w] = Idle
              \/ /\ job'[w].op = "update" /\ job'[w].step = "announce"
                 /\ job'[w].post = job[w].post
                 /\ job[w].post \in Rows
                 /\ BecamePublished(job[w], Edited(posts[job[w].post], job[w].edit))
  <1> DEFINE j == job[w]
             row == Edited(posts[j.post], j.edit)
             k == [op |-> "update", step |-> "announce", post |-> j.post, user |-> j.user,
                   to |-> row.visible]
  <1>1. \/ Return(w)
        \/ /\ job' = [job EXCEPT ![w] = k]
           /\ j.post \in Rows /\ BecamePublished(j, row)
    BY DEF UpdateCommit
  <1>2. k.op = "update" /\ k.step = "announce" /\ k.post = j.post
    OBVIOUS
  <1> HIDE DEF j, row, k
  <1>3. CASE Return(w)
    BY <1>3, ReturnJobs
  <1>4. CASE job' = [job EXCEPT ![w] = k] /\ j.post \in Rows /\ BecamePublished(j, row)
    <2>1. \A v \in Workers : job'[v] = IF v = w THEN k ELSE job[v]
      BY <1>4 DEF TypeOK
    <2> QED BY <1>2, <1>4, <2>1 DEF j, row
  <1> QED BY <1>1, <1>3, <1>4

LEMMA StepAlone ==
    ASSUME CommunityAssumption, TypeOK, NEW lock \in Locks, Alone(lock), [Next]_vars
    PROVE  Alone(lock)'
  <1>1. "idle" \notin lock
    BY DEF CommunityAssumption, Handlers
  <1>2. CASE UNCHANGED job
    BY <1>2 DEF Alone
  <1>3. ASSUME NEW w \in Workers, Return(w) PROVE Alone(lock)'
    BY <1>1, <1>3, ReturnJobs, SameAlone
  <1>4. ASSUME NEW w \in Workers, UpdateCommit(w) PROVE Alone(lock)'
    <2>1. CASE job'[w] = Idle
      BY <1>1, <1>4, <2>1, UpdateCommitJobs, SameAlone
    <2>2. CASE job'[w].op = "update" /\ job'[w].post = job[w].post
      <3>1. job[w].op = "update"
        BY <1>4 DEF UpdateCommit, At
      <3> QED BY <1>1, <1>4, <2>2, <3>1, UpdateCommitJobs, SameAlone
    <2> QED BY <1>4, <2>1, <2>2, UpdateCommitJobs
  <1>5. ASSUME NEW w \in Workers, CreatePost(w) PROVE Alone(lock)'
    <2>1. PICK j : UNCHANGED job \/ Start(w, j)
      BY <1>5 DEF CreatePost
    <2> QED BY <1>2, <2>1, StartAlone
  <1>6. ASSUME NEW w \in Workers, UpdateRead(w) \/ CommentRead(w) \/ UncommentRead(w) \/ AcknowledgeRead(w)
        PROVE  Alone(lock)'
    <2>1. CASE UpdateRead(w)
      <3>1. PICK j : Start(w, j)
        BY <2>1 DEF UpdateRead
      <3> QED BY <3>1, StartAlone
    <2>2. CASE CommentRead(w)
      <3>1. PICK j : Start(w, j)
        BY <2>2 DEF CommentRead
      <3> QED BY <3>1, StartAlone
    <2>3. CASE UncommentRead(w)
      <3>1. PICK j : Start(w, j)
        BY <2>3 DEF UncommentRead
      <3> QED BY <3>1, StartAlone
    <2>4. CASE AcknowledgeRead(w)
      <3>1. PICK j : Start(w, j)
        BY <2>4 DEF AcknowledgeRead
      <3> QED BY <3>1, StartAlone
    <2> QED BY <1>6, <2>1, <2>2, <2>3, <2>4
  <1>7. ASSUME NEW w \in Workers, Handle(w) PROVE Alone(lock)'
    BY <1>3, <1>4, <1>5, <1>6, <1>7
       DEF Handle, Announce, CommentCommit, UncommentCommit, AcknowledgeCommit
  <1> QED BY <1>2, <1>7 DEF Next, vars, DeletePost, RestorePost, TrialEnds, Upgrade

-----------------------------------------------------------------------------
(* Announcements.                                                           *)

\* A handler about to announce its post published it, and nobody announced it
\* since; one that read it unpublished will find it so, or gone.
Announcing(w) == job[w].op \in {"create", "update"} /\ job[w].step = "announce"
Committing(w) == job[w].op = "update" /\ job[w].step = "commit"
FreshInv ==
    /\ \A w \in Workers : Announcing(w) => job[w].post \in fresh
    /\ \A w \in Workers :
          Committing(w) /\ job[w].was # "PUBLISHED" /\ job[w].post \in Rows
              => posts[job[w].post].status # "PUBLISHED"
    /\ \A w \in Workers : job[w].op # "idle" => posts[job[w].post] # NoPost

\* The handlers that change a row without publishing it.
LEMMA QuietEffect ==
    ASSUME TypeOK,
           \/ DeletePost \/ RestorePost
           \/ \E w \in Workers : CommentCommit(w) \/ UncommentCommit(w) \/ AcknowledgeCommit(w)
    PROVE  \A p \in Posts :
              /\ posts[p] # NoPost => posts'[p] # NoPost
              /\ p \in Rows' => /\ p \in Rows
                                /\ \/ posts'[p].status = posts[p].status
                                   \/ posts'[p].status # "PUBLISHED"
  <1> SUFFICES ASSUME NEW p \in Posts
               PROVE  /\ posts[p] # NoPost => posts'[p] # NoPost
                      /\ p \in Rows' => /\ p \in Rows
                                        /\ \/ posts'[p].status = posts[p].status
                                           \/ posts'[p].status # "PUBLISHED"
    OBVIOUS
  <1>0. \A q \in Rows : q \in Posts /\ posts[q] \in Post
    BY RowsArePosts DEF Rows
  <1>1. CASE DeletePost
    <2>1. PICK q \in Rows : \/ posts' = [posts EXCEPT ![q] = Removed]
                            \/ posts' = [posts EXCEPT ![q].deleted = TRUE, ![q].status = "ARCHIVED"]
      BY <1>1 DEF DeletePost
    <2>2. CASE posts' = [posts EXCEPT ![q] = Removed]
      BY <1>0, <2>2 DEF TypeOK, Rows, NoPost, Removed
    <2>3. CASE posts' = [posts EXCEPT ![q].deleted = TRUE, ![q].status = "ARCHIVED"]
      <3>1. p # q => posts'[p] = posts[p]
        BY <1>0, <2>3 DEF TypeOK
      <3>2. posts'[q].status = "ARCHIVED"
        BY <1>0, <2>3 DEF TypeOK, Post
      <3> QED BY <1>0, <3>1, <3>2 DEF Rows, NoPost
    <2> QED BY <2>1, <2>2, <2>3
  <1>2. CASE RestorePost
    <2>1. PICK q \in Rows : posts' = [posts EXCEPT ![q].deleted = FALSE, ![q].status = "DRAFT"]
      BY <1>2 DEF RestorePost
    <2>2. p # q => posts'[p] = posts[p]
      BY <1>0, <2>1 DEF TypeOK
    <2>3. posts'[q].status = "DRAFT"
      BY <1>0, <2>1 DEF TypeOK, Post
    <2> QED BY <1>0, <2>2, <2>3 DEF Rows, NoPost
  <1>3. CASE \E w \in Workers : CommentCommit(w) \/ UncommentCommit(w) \/ AcknowledgeCommit(w)
    <2>1. PICK w \in Workers : CommentCommit(w) \/ UncommentCommit(w) \/ AcknowledgeCommit(w)
      BY <1>3
    <2> DEFINE j == job[w]
               S == j.seen \cup {j.comment}
               T == j.seen \ {j.comment}
               U == IF j.user \in j.seen THEN j.seen \ {j.user} ELSE j.seen \cup {j.user}
               q == j.post
    <2>2. \/ posts' = posts
          \/ /\ q \in Rows
             /\ \/ posts' = [posts EXCEPT ![q].comments = S]
                \/ posts' = [posts EXCEPT ![q].comments = T]
                \/ posts' = [posts EXCEPT ![q].acks = U]
      BY <2>1 DEF CommentCommit, UncommentCommit, AcknowledgeCommit
    <2> HIDE DEF q, S, T, U
    <2>3. p # q => posts'[p] = posts[p]
      BY <2>2 DEF TypeOK
    <2>4. q \in Rows => posts'[q].status = posts[q].status
      BY <1>0, <2>2 DEF TypeOK, Post
    <2>5. q \in Rows => posts[q].status # "none"
      BY <1>0 DEF Post, States
    <2> QED BY <2>2, <2>3, <2>4, <2>5 DEF Rows, NoPost
  <1> QED BY <1>1, <1>2, <1>3

LEMMA QuietKeepsFresh ==
    ASSUME TypeOK, FreshInv, UNCHANGED fresh,
           \A v \in Workers : job'[v] = Idle \/ job'[v] = job[v],
           \A p \in Posts : /\ posts[p] # NoPost => posts'[p] # NoPost
                            /\ p \in Rows' => /\ p \in Rows
                                              /\ \/ posts'[p].status = posts[p].status
                                                 \/ posts'[p].status # "PUBLISHED"
    PROVE  FreshInv'
  <1> SUFFICES ASSUME NEW w \in Workers
               PROVE  /\ Announcing(w)' => (job[w].post \in fresh)'
                      /\ Committing(w)' /\ job'[w].was # "PUBLISHED" /\ job'[w].post \in Rows'
                            => posts'[job'[w].post].status # "PUBLISHED"
                      /\ job'[w].op # "idle" => posts'[job'[w].post] # NoPost
    BY DEF FreshInv
  <1>1. CASE job'[w] = Idle
    BY <1>1 DEF Idle, Announcing, Committing
  <1>2. CASE job'[w] = job[w] /\ job[w].op # "idle"
    <2>1. job[w].post \in Posts
      BY <1>2, JobKinds DEF TypeOK
    <2> QED BY <1>2, <2>1 DEF FreshInv, Announcing, Committing
  <1>3. CASE job'[w] = job[w] /\ job[w].op = "idle"
    BY <1>3 DEF Announcing, Committing
  <1> QED BY <1>1, <1>2, <1>3

LEMMA StartKeepsFresh ==
    ASSUME TypeOK, FreshInv, UNCHANGED <<posts, fresh>>,
           NEW w \in Workers, NEW j, Start(w, j), j.post \in Rows,
           \/ j.op \in {"comment", "uncomment", "acknowledge"}
           \/ j.op = "update" /\ j.step = "commit" /\ j.was = posts[j.post].status
    PROVE  FreshInv'
  <1>1. \A v \in Workers : job'[v] = IF v = w THEN j ELSE job[v]
    BY DEF Start, TypeOK
  <1>2. posts[j.post] # NoPost
    BY DEF Rows
  <1> QED BY <1>1, <1>2 DEF FreshInv, Announcing, Committing, Rows

LEMMA CreateKeepsFresh ==
    ASSUME CommunityAssumption, TypeOK, FreshInv, NEW w \in Workers, CreatePost(w)
    PROVE  FreshInv'
  <1>1. PICK p \in Posts, row \in Post :
                 /\ posts[p] = NoPost
                 /\ posts' = [posts EXCEPT ![p] = row]
                 /\ \/ UNCHANGED job
                    \/ /\ p \in fresh'
                       /\ job'[w].op = "create" /\ job'[w].step = "announce" /\ job'[w].post = p
                       /\ \A v \in Workers : v # w => job'[v] = job[v]
    BY CreateEffect
  <1>2. fresh \subseteq fresh'
    BY CreateEffect
  <1>3. \A v \in Workers : job[v].op # "idle" => job[v].post # p
    BY <1>1 DEF FreshInv
  <1>4. \A q \in Posts : posts'[q] = IF q = p THEN row ELSE posts[q]
    BY <1>1 DEF TypeOK
  <1>5. row # NoPost
    BY DEF Post, NoPost, States
  <1> SUFFICES ASSUME NEW v \in Workers
               PROVE  /\ Announcing(v)' => (job[v].post \in fresh)'
                      /\ Committing(v)' /\ job'[v].was # "PUBLISHED" /\ job'[v].post \in Rows'
                            => posts'[job'[v].post].status # "PUBLISHED"
                      /\ job'[v].op # "idle" => posts'[job'[v].post] # NoPost
    BY DEF FreshInv
  <1>6. CASE job'[v] = job[v]
    <2>1. job[v].op # "idle" => job[v].post \in Posts
      BY JobKinds DEF TypeOK
    <2> QED BY <1>2, <1>3, <1>4, <1>5, <1>6, <2>1 DEF FreshInv, Announcing, Committing, Rows
  <1>7. CASE job'[v] # job[v]
    <2>1. v = w /\ p \in fresh'
          /\ job'[w].op = "create" /\ job'[w].step = "announce" /\ job'[w].post = p
      BY <1>1, <1>7
    <2> QED BY <1>4, <1>5, <2>1 DEF Committing
  <1> QED BY <1>6, <1>7

LEMMA UpdateKeepsFresh ==
    ASSUME CommunityAssumption, TypeOK, FreshInv, NEW lock \in Locks, {"create", "update"} \subseteq lock,
           Alone(lock), NEW w \in Workers, UpdateCommit(w)
    PROVE  FreshInv'
  <1> DEFINE p == job[w].post
             row == Edited(posts[p], job[w].edit)
  <1>1. job[w].op = "update" /\ job[w].step = "commit"
    BY DEF UpdateCommit, At
  <1>2. job[w] \in UpdateJob /\ p \in Posts
    BY <1>1, JobKinds DEF TypeOK
  <1>3. CASE p \notin Rows
    <2>1. Return(w) /\ UNCHANGED <<posts, fresh>>
      BY <1>3 DEF UpdateCommit
    <2> QED BY <2>1, ReturnJobs, QuietKeepsFresh DEF Rows
  <1>4. CASE p \in Rows
    <2>1. posts' = [posts EXCEPT ![p] = row] /\ fresh \subseteq fresh'
          /\ (row.status = "PUBLISHED" /\ posts[p].status # "PUBLISHED" => p \in fresh')
      BY <1>4 DEF UpdateCommit, Publish
    <2>2. row \in Post
      BY <1>2, <1>4, RowsArePosts, EditKeepsThread DEF UpdateJob
    <2>3. BecamePublished(job[w], row) => row.status = "PUBLISHED" /\ job[w].was # "PUBLISHED"
      <3>1. posts[p] \in Post
        BY <1>4, <1>2, RowsArePosts
      <3>2. "status" \in DOMAIN job[w].edit /\ job[w].edit.status = "PUBLISHED"
                => row.status = "PUBLISHED"
        BY <3>1 DEF Edited, Given, Post
      <3> HIDE DEF row
      <3> QED BY <3>2 DEF BecamePublished
    <2>4. job[w].was # "PUBLISHED" => posts[p].status # "PUBLISHED"
      BY <1>1, <1>4 DEF FreshInv, Committing
    <2>5. \A v \in Workers : v # w /\ job[v].op \in {"create", "update"} => job[v].post # p
      BY <1>1 DEF Alone
    <2>6. /\ \A v \in Workers : v # w => job'[v] = job[v]
          /\ \/ job'[w] = Idle
             \/ /\ job'[w].op = "update" /\ job'[w].step = "announce"
                /\ job'[w].post = p
                /\ BecamePublished(job[w], row)
      BY UpdateCommitJobs
    <2> HIDE DEF row, p
    <2>7. \A q \in Posts : posts'[q] = IF q = p THEN row ELSE posts[q]
      BY <1>2, <2>1 DEF TypeOK
    <2>8. row # NoPost
      BY <2>2 DEF Post, NoPost, States
    <2> SUFFICES ASSUME NEW v \in Workers
                 PROVE  /\ Announcing(v)' => (job[v].post \in fresh)'
                        /\ Committing(v)' /\ job'[v].was # "PUBLISHED" /\ job'[v].post \in Rows'
                              => posts'[job'[v].post].status # "PUBLISHED"
                        /\ job'[v].op # "idle" => posts'[job'[v].post] # NoPost
      BY DEF FreshInv
    <2>9. CASE v # w
      <3>1. job[v].op # "idle" => job[v].post \in Posts
        BY JobKinds DEF TypeOK
      <3> QED BY <2>1, <2>5, <2>6, <2>7, <2>8, <2>9, <3>1 DEF FreshInv, Announcing, Committing, Rows
    <2>10. CASE v = w
      BY <1>2, <2>1, <2>3, <2>4, <2>6, <2>7, <2>8, <2>10 DEF Announcing, Committing, Idle
    <2> QED BY <2>9, <2>10
  <1> QED BY <1>3, <1>4

LEMMA AnnounceKeepsFresh ==
    ASSUME TypeOK, FreshInv, NEW lock \in Locks, {"create", "update"} \subseteq lock,
           Alone(lock), NEW w \in Workers, Announce(w)
    PROVE  FreshInv'
  <1>1. \A v \in Workers : v # w /\ job[v].op \in {"create", "update"} => job[v].post # job[w].post
    BY DEF Announce, Alone
  <1>2. fresh' = fresh \ {job[w].post} /\ UNCHANGED posts
    BY DEF Announce
  <1>3. \A v \in Workers : job'[v] = IF v = w THEN Idle ELSE job[v]
    BY ReturnJobs DEF Announce
  <1> QED BY <1>1, <1>2, <1>3 DEF FreshInv, Announcing, Committing, Rows, Idle

LEMMA StepKeepsFresh ==
    ASSUME CommunityAssumption, TypeOK, FreshInv,
           NEW lock \in Locks, {"create", "update"} \subseteq lock, Alone(lock), [Next]_vars
    PROVE  FreshInv'
  <1>1. CASE UNCHANGED <<posts, job, fresh>>
    BY <1>1 DEF FreshInv, Announcing, Committing, Rows
  <1>2. ASSUME NEW w \in Workers, UpdateRead(w) PROVE FreshInv'
    <2>1. PICK u \in Users, p \in Rows, edit \in Edits :
             /\ Start(w, [op |-> "update", step |-> "commit", post |-> p, user |-> u,
                          edit |-> edit, was |-> posts[p].status])
             /\ UNCHANGED <<posts, fresh>>
      BY <1>2 DEF UpdateRead
    <2> QED BY <2>1, StartKeepsFresh
  <1>3. ASSUME NEW w \in Workers, CommentRead(w) PROVE FreshInv'
    <2>1. PICK p \in Rows, c \in Comments :
             Start(w, [op |-> "comment", post |-> p, comment |-> c, seen |-> posts[p].comments])
      BY <1>3 DEF CommentRead
    <2> QED BY <1>3, <2>1, StartKeepsFresh DEF CommentRead
  <1>4. ASSUME NEW w \in Workers, UncommentRead(w) PROVE FreshInv'
    <2>1. PICK p \in Rows : \E c \in posts[p].comments :
             Start(w, [op |-> "uncomment", post |-> p, comment |-> c, seen |-> posts[p].comments])
      BY <1>4 DEF UncommentRead
    <2>2. PICK c \in posts[p].comments :
             Start(w, [op |-> "uncomment", post |-> p, comment |-> c, seen |-> posts[p].comments])
      BY <2>1
    <2> QED BY <1>4, <2>2, StartKeepsFresh DEF UncommentRead
  <1>5. ASSUME NEW w \in Workers, AcknowledgeRead(w) PROVE FreshInv'
    <2>1. PICK u \in Users, p \in Rows :
             Start(w, [op |-> "acknowledge", post |-> p, user |-> u, seen |-> posts[p].acks])
      BY <1>5 DEF AcknowledgeRead
    <2> QED BY <1>5, <2>1, StartKeepsFresh DEF AcknowledgeRead
  <1>6. ASSUME NEW w \in Workers, CommentCommit(w) \/ UncommentCommit(w) \/ AcknowledgeCommit(w)
        PROVE  FreshInv'
    <2>1. Return(w) /\ UNCHANGED fresh
      BY <1>6 DEF CommentCommit, UncommentCommit, AcknowledgeCommit
    <2> QED BY <1>6, <2>1, ReturnJobs, QuietEffect, QuietKeepsFresh
  <1>7. CASE DeletePost \/ RestorePost
    <2>1. UNCHANGED <<job, fresh>>
      BY <1>7 DEF DeletePost, RestorePost
    <2> QED BY <1>7, <2>1, QuietEffect, QuietKeepsFresh
  <1>8. ASSUME NEW w \in Workers, Handle(w) PROVE FreshInv'
    BY <1>2, <1>3, <1>4, <1>5, <1>6, <1>8, CreateKeepsFresh, UpdateKeepsFresh, AnnounceKeepsFresh
       DEF Handle
  <1> QED BY <1>1, <1>7, <1>8 DEF Next, vars, TrialEnds, Upgrade

\* updatePostCommunity, sendBroadcastNotification: where the handlers that publish
\* a post exclude one another on it, users are notified once of a publication,
\* however the post is edited, taken down and restored meanwhile.
THEOREM AnnouncedOnceCorrect ==
    ASSUME CommunityAssumption, NEW lock \in Locks, {"create", "update"} \subseteq lock
    PROVE  Spec => AnnouncedOnce
  <1> DEFINE Inv == TypeOK /\ Alone(lock) /\ FreshInv
  <1>1. Init => Alone(lock) /\ FreshInv
    BY DEF Init, Alone, FreshInv, Announcing, Committing, Idle, CommunityAssumption, Handlers
  <1>2. TypeOK /\ Alone(lock) /\ FreshInv /\ [Next]_vars => Alone(lock)' /\ FreshInv'
    BY StepAlone, StepKeepsFresh
  <1>3. FreshInv => AnnouncesFresh
    BY DEF FreshInv, AnnouncesFresh, Announce, Announcing
  <1>4. FreshInv => [AnnouncesFresh]_vars
    BY <1>3
  <1> QED BY <1>1, <1>2, <1>4, TypeCorrect, PTL DEF Spec, AnnouncedOnce

-----------------------------------------------------------------------------
(* The refinement of Board.                                                 *)

\* What a handler holds of the column it will write is what the row holds; its
\* comment is new, or is one of the post's.
Fits(j) ==
    /\ j.op # "idle" => posts[j.post] # NoPost
    /\ j.op \in {"comment", "uncomment"} /\ j.post \in Rows => j.seen = posts[j.post].comments
    /\ j.op = "acknowledge" /\ j.post \in Rows => j.seen = posts[j.post].acks
    /\ j.op = "comment" => j.comment \notin made
    /\ j.op = "uncomment" => j.comment \in j.seen
\* No two handlers make one comment.
OwnComments ==
    \A v, w \in Workers :
        v # w /\ job[v].op = "comment" /\ job[w].op = "comment" => job[v].comment # job[w].comment
ThreadInv == OwnComments /\ \A w \in Workers : Fits(job[w])

LEMMA OwnKept ==
    ASSUME OwnComments, \A v \in Workers : job'[v] = job[v] \/ job'[v].op # "comment"
    PROVE  OwnComments'
  BY DEF OwnComments

LEMMA Pointwise ==
    ASSUME NEW f, NEW g, NEW p \in Posts, NEW x,
           f = [q \in Posts |-> f[q]], g = [q \in Posts |-> g[q]],
           \A q \in Posts : g[q] = IF q = p THEN x ELSE f[q]
    PROVE  g = [f EXCEPT ![p] = x]
  OBVIOUS

LEMMA ViewIsFunction ==
    /\ Thread = [q \in Posts |-> Thread[q]] /\ Thread' = [q \in Posts |-> Thread'[q]]
    /\ Acked = [q \in Posts |-> Acked[q]] /\ Acked' = [q \in Posts |-> Acked'[q]]
  BY DEF Thread, Acked

\* A row is written: what Board sees of it.
LEMMA RowWritten ==
    ASSUME TypeOK, NEW p \in Posts, NEW row \in Post, posts' = [posts EXCEPT ![p] = row]
    PROVE  /\ Rows' = Rows \cup {p}
           /\ Thread' = [Thread EXCEPT ![p] = row.comments]
           /\ Acked' = [Acked EXCEPT ![p] = row.acks]
  <1>1. row \notin {NoPost, Removed}
    BY DEF Post, NoPost, Removed, States
  <1>2. \A q \in Posts : posts'[q] = IF q = p THEN row ELSE posts[q]
    BY DEF TypeOK
  <1>3. Rows' = Rows \cup {p}
    BY <1>1, <1>2 DEF Rows
  <1>4. \A q \in Posts : /\ Thread'[q] = IF q = p THEN row.comments ELSE Thread[q]
                        /\ Acked'[q] = IF q = p THEN row.acks ELSE Acked[q]
    BY <1>2, <1>3 DEF Thread, Acked
  <1> QED BY <1>3, <1>4, ViewIsFunction, Pointwise

LEMMA RowRemoved ==
    ASSUME TypeOK, NEW p \in Posts, posts' = [posts EXCEPT ![p] = Removed]
    PROVE  /\ Rows' = Rows \ {p}
           /\ Thread' = [Thread EXCEPT ![p] = {}]
           /\ Acked' = [Acked EXCEPT ![p] = {}]
  <1>1. \A q \in Posts : posts'[q] = IF q = p THEN Removed ELSE posts[q]
    BY DEF TypeOK
  <1>2. Rows' = Rows \ {p}
    BY <1>1 DEF Rows
  <1>3. \A q \in Posts : /\ Thread'[q] = IF q = p THEN {} ELSE Thread[q]
                        /\ Acked'[q] = IF q = p THEN {} ELSE Acked[q]
    BY <1>1, <1>2 DEF Thread, Acked
  <1> QED BY <1>2, <1>3, ViewIsFunction, Pointwise

LEMMA ThreadOf ==
    ASSUME NEW p \in Posts
    PROVE  /\ p \in Rows => Thread[p] = posts[p].comments /\ Acked[p] = posts[p].acks
           /\ p \notin Rows => Thread[p] = {} /\ Acked[p] = {}
  BY DEF Thread, Acked

\* A step that leaves every thread alone changes nothing Board sees.
LEMMA SameRow ==
    ASSUME TypeOK, NEW p \in Posts, NEW row \in Post, posts' = [posts EXCEPT ![p] = row],
           row.comments = Thread[p], row.acks = Acked[p]
    PROVE  Thread' = Thread /\ Acked' = Acked
  <1>1. Thread' = [Thread EXCEPT ![p] = Thread[p]] /\ Acked' = [Acked EXCEPT ![p] = Acked[p]]
    BY RowWritten
  <1> QED BY <1>1, ViewIsFunction

LEMMA StartKeepsThreads ==
    ASSUME TypeOK, ThreadInv, UNCHANGED <<posts, made>>,
           NEW w \in Workers, NEW j, Start(w, j), Fits(j), j.op = "comment" => j.comment \notin Drawn
    PROVE  ThreadInv'
  <1>1. \A v \in Workers : job'[v] = IF v = w THEN j ELSE job[v]
    BY DEF Start, TypeOK
  <1>2. \A v \in Workers : job[v].op = "comment" => job[v].comment \in Drawn
    BY DEF Drawn
  <1>3. OwnComments'
    BY <1>1, <1>2 DEF ThreadInv, OwnComments
  <1>4. ASSUME NEW k, Fits(k) PROVE (\A v \in Workers : job'[v] = k => Fits(job[v])')
    BY <1>4 DEF Fits, Rows
  <1>5. \A v \in Workers : Fits(job[v])'
    BY <1>1, <1>4 DEF ThreadInv
  <1> QED BY <1>3, <1>5 DEF ThreadInv

LEMMA IdleFits ==
    ASSUME NEW w \in Workers, job'[w] = Idle
    PROVE  Fits(job[w])'
  BY DEF Fits, Idle

\* A handler still holds what it read of a row that another one wrote.
LEMMA WriteFits ==
    ASSUME TypeOK, NEW p \in Posts, NEW row \in Post, posts' = [posts EXCEPT ![p] = row],
           NEW v \in Workers, Fits(job[v]), job'[v] = job[v], p \in Rows \/ posts[p] = NoPost,
           job[v].op \in {"comment", "uncomment"} /\ job[v].post = p
               => row.comments = posts[p].comments,
           job[v].op = "acknowledge" /\ job[v].post = p => row.acks = posts[p].acks,
           job[v].op = "comment" => job[v].comment \notin made'
    PROVE  Fits(job[v])'
  <1>1. \A q \in Posts : posts'[q] = IF q = p THEN row ELSE posts[q]
    BY DEF TypeOK
  <1>2. row # NoPost
    BY DEF Post, NoPost, States
  <1>3. Rows' = Rows \cup {p}
    BY RowWritten
  <1>4. job[v].op # "idle" => job[v].post \in Posts
    BY JobKinds DEF TypeOK
  <1>5. CASE job[v].post = p
    BY <1>1, <1>2, <1>3, <1>4, <1>5 DEF Fits
  <1>6. CASE job[v].post # p
    BY <1>1, <1>2, <1>3, <1>4, <1>6 DEF Fits
  <1> QED BY <1>5, <1>6

LEMMA RemoveFits ==
    ASSUME TypeOK, NEW p \in Posts, posts' = [posts EXCEPT ![p] = Removed],
           NEW v \in Workers, Fits(job[v]), job'[v] = job[v], made' = made
    PROVE  Fits(job[v])'
  <1>1. \A q \in Posts : posts'[q] = IF q = p THEN Removed ELSE posts[q]
    BY DEF TypeOK
  <1>2. Removed # NoPost
    BY DEF Removed, NoPost
  <1>3. Rows' = Rows \ {p}
    BY RowRemoved
  <1>4. job[v].op # "idle" => job[v].post \in Posts
    BY JobKinds DEF TypeOK
  <1> QED BY <1>1, <1>2, <1>3, <1>4 DEF Fits

LEMMA SameView ==
    ASSUME Thread' = Thread, Acked' = Acked, made' = made
    PROVE  [TheBoard!Next]_(TheBoard!vars)
  BY DEF TheBoard!vars

LEMMA NothingWritten ==
    ASSUME TypeOK, ThreadInv, UNCHANGED <<posts, made>>,
           \A v \in Workers : job'[v] = Idle \/ job'[v] = job[v]
    PROVE  ThreadInv' /\ [TheBoard!Next]_(TheBoard!vars)
  <1>1. Thread' = Thread /\ Acked' = Acked
    BY DEF Thread, Acked, Rows
  <1>2. OwnComments'
    BY OwnKept DEF Idle, ThreadInv
  <1>3. ASSUME NEW v \in Workers PROVE Fits(job[v])'
    <2>1. CASE job'[v] = Idle
      BY <2>1, IdleFits
    <2>2. CASE job'[v] = job[v]
      BY <2>2 DEF Fits, Rows, ThreadInv
    <2> QED BY <2>1, <2>2
  <1> QED BY <1>1, <1>2, <1>3, SameView DEF ThreadInv

LEMMA ReadRefines ==
    ASSUME TypeOK, ThreadInv, NEW w \in Workers,
           UpdateRead(w) \/ CommentRead(w) \/ UncommentRead(w) \/ AcknowledgeRead(w)
    PROVE  ThreadInv' /\ [TheBoard!Next]_(TheBoard!vars)
  <1>1. UNCHANGED <<posts, made>>
    BY DEF UpdateRead, CommentRead, UncommentRead, AcknowledgeRead
  <1>2. [TheBoard!Next]_(TheBoard!vars)
    BY <1>1, SameView DEF Thread, Acked, Rows
  <1>3. \A p \in Rows : posts[p] # NoPost
    BY DEF Rows
  <1>4. CASE UpdateRead(w)
    <2>1. PICK u \in Users, p \in Rows, edit \in Edits :
             Start(w, [op |-> "update", step |-> "commit", post |-> p, user |-> u,
                       edit |-> edit, was |-> posts[p].status])
      BY <1>4 DEF UpdateRead
    <2>2. Fits([op |-> "update", step |-> "commit", post |-> p, user |-> u,
                edit |-> edit, was |-> posts[p].status])
      BY <1>3 DEF Fits
    <2>3. ThreadInv'
      BY <1>1, <2>1, <2>2, StartKeepsThreads
    <2> QED BY <1>2, <2>3
  <1>5. CASE CommentRead(w)
    <2>1. PICK p \in Rows, c \in Comments \ (made \cup Drawn) :
             Start(w, [op |-> "comment", post |-> p, comment |-> c, seen |-> posts[p].comments])
      BY <1>5 DEF CommentRead
    <2>2. Fits([op |-> "comment", post |-> p, comment |-> c, seen |-> posts[p].comments])
      BY <1>3 DEF Fits
    <2>3. ThreadInv'
      BY <1>1, <2>1, <2>2, StartKeepsThreads
    <2> QED BY <1>2, <2>3
  <1>6. CASE UncommentRead(w)
    <2>1. PICK p \in Rows : \E c \in posts[p].comments :
             Start(w, [op |-> "uncomment", post |-> p, comment |-> c, seen |-> posts[p].comments])
      BY <1>6 DEF UncommentRead
    <2>2. PICK c \in posts[p].comments :
             Start(w, [op |-> "uncomment", post |-> p, comment |-> c, seen |-> posts[p].comments])
      BY <2>1
    <2>3. Fits([op |-> "uncomment", post |-> p, comment |-> c, seen |-> posts[p].comments])
      BY <1>3 DEF Fits
    <2>4. ThreadInv'
      BY <1>1, <2>2, <2>3, StartKeepsThreads
    <2> QED BY <1>2, <2>4
  <1>7. CASE AcknowledgeRead(w)
    <2>1. PICK u \in Users, p \in Rows :
             Start(w, [op |-> "acknowledge", post |-> p, user |-> u, seen |-> posts[p].acks])
      BY <1>7 DEF AcknowledgeRead
    <2>2. Fits([op |-> "acknowledge", post |-> p, user |-> u, seen |-> posts[p].acks])
      BY <1>3 DEF Fits
    <2>3. ThreadInv'
      BY <1>1, <2>1, <2>2, StartKeepsThreads
    <2> QED BY <1>2, <2>3
  <1> QED BY <1>4, <1>5, <1>6, <1>7

LEMMA CreateRefines ==
    ASSUME CommunityAssumption, TypeOK, ThreadInv, NEW w \in Workers, CreatePost(w)
    PROVE  ThreadInv' /\ [TheBoard!Next]_(TheBoard!vars)
  <1>1. PICK p \in Posts, row \in Post :
           /\ posts[p] = NoPost /\ row.comments = {} /\ row.acks = {}
           /\ posts' = [posts EXCEPT ![p] = row]
           /\ \/ UNCHANGED job
              \/ /\ job'[w].op = "create" /\ job'[w].post = p
                 /\ \A v \in Workers : v # w => job'[v] = job[v]
    BY CreateEffect
  <1>2. made' = made
    BY CreateEffect
  <1>3. p \notin Rows
    BY <1>1 DEF Rows
  <1>4. Thread' = Thread /\ Acked' = Acked
    BY <1>1, <1>3, ThreadOf, SameRow
  <1>5. \A v \in Workers : job[v].op # "idle" => job[v].post # p
    BY <1>1 DEF ThreadInv, Fits
  <1>6. ASSUME NEW v \in Workers PROVE Fits(job[v])'
    <2>1. CASE job'[v] = job[v]
      <3>1. Fits(job[v])
        BY DEF ThreadInv
      <3>2. job[v].op = "comment" => job[v].comment \notin made'
        BY <1>2, <3>1 DEF Fits
      <3>3. posts' = [posts EXCEPT ![p] = row] /\ posts[p] = NoPost
        BY <1>1
      <3> QED BY <1>5, <2>1, <3>1, <3>2, <3>3, WriteFits
    <2>2. CASE job'[v] # job[v]
      <3>1. job'[v].op = "create" /\ job'[v].post = p
        BY <1>1, <2>2
      <3>2. posts'[p] # NoPost
        BY <1>1 DEF TypeOK, Post, NoPost, States
      <3> QED BY <3>1, <3>2 DEF Fits
    <2> QED BY <2>1, <2>2
  <1>7. OwnComments'
    <2>1. \A v \in Workers : job'[v] = job[v] \/ job'[v].op # "comment"
      BY <1>1
    <2> QED BY <2>1, OwnKept DEF ThreadInv
  <1> QED BY <1>2, <1>4, <1>6, <1>7, SameView DEF ThreadInv

LEMMA UpdateRefines ==
    ASSUME CommunityAssumption, TypeOK, ThreadInv, NEW w \in Workers, UpdateCommit(w)
    PROVE  ThreadInv' /\ [TheBoard!Next]_(TheBoard!vars)
  <1> DEFINE p == job[w].post
             row == Edited(posts[p], job[w].edit)
  <1>1. job[w].op = "update" /\ job[w] \in UpdateJob /\ p \in Posts
    BY JobKinds DEF TypeOK, UpdateCommit, At
  <1>2. made' = made
    BY DEF UpdateCommit
  <1>3. CASE p \notin Rows
    <2>1. Return(w) /\ UNCHANGED posts
      BY <1>3 DEF UpdateCommit
    <2> QED BY <1>2, <2>1, ReturnJobs, NothingWritten
  <1>4. CASE p \in Rows
    <2>1. posts' = [posts EXCEPT ![p] = row]
      BY <1>4 DEF UpdateCommit, Publish
    <2>2. row \in Post /\ row.comments = posts[p].comments /\ row.acks = posts[p].acks
      BY <1>1, <1>4, RowsArePosts, EditKeepsThread DEF UpdateJob
    <2>3. /\ \A v \in Workers : v # w => job'[v] = job[v]
          /\ \/ job'[w] = Idle
             \/ job'[w].op = "update" /\ job'[w].post = p
      BY UpdateCommitJobs
    <2> HIDE DEF row, p
    <2>4. Thread' = Thread /\ Acked' = Acked
      BY <1>1, <1>4, <2>1, <2>2, ThreadOf, SameRow
    <2>5. ASSUME NEW v \in Workers PROVE Fits(job[v])'
      <3>1. CASE v # w
        <4>1. job'[v] = job[v] /\ Fits(job[v])
          BY <2>3, <3>1 DEF ThreadInv
        <4>2. job[v].op = "comment" => job[v].comment \notin made'
          BY <1>2, <4>1 DEF Fits
        <4> QED BY <1>1, <1>4, <2>1, <2>2, <4>1, <4>2, WriteFits
      <3>2. CASE job'[v] = Idle
        BY <3>2, IdleFits
      <3>3. CASE v = w /\ job'[w].op = "update" /\ job'[w].post = p
        <4>1. posts'[p] # NoPost
          BY <1>1, <2>1, <2>2 DEF TypeOK, Post, NoPost, States
        <4> QED BY <3>3, <4>1 DEF Fits
      <3> QED BY <2>3, <3>1, <3>2, <3>3
    <2>6. OwnComments'
      <3>1. \A v \in Workers : job'[v] = job[v] \/ job'[v].op # "comment"
        BY <2>3 DEF Idle
      <3> QED BY <3>1, OwnKept DEF ThreadInv
    <2> QED BY <1>2, <2>4, <2>5, <2>6, SameView DEF ThreadInv
  <1> QED BY <1>3, <1>4

LEMMA TakeDownRefines ==
    ASSUME TypeOK, ThreadInv, DeletePost \/ RestorePost
    PROVE  ThreadInv' /\ [TheBoard!Next]_(TheBoard!vars)
  <1>1. UNCHANGED <<job, made>>
    BY DEF DeletePost, RestorePost
  <1>2. OwnComments'
    BY <1>1 DEF ThreadInv, OwnComments
  <1>3. ASSUME NEW v \in Workers
        PROVE  Fits(job[v]) /\ job'[v] = job[v] /\ (job[v].op = "comment" => job[v].comment \notin made')
    BY <1>1 DEF ThreadInv, Fits
  <1>4. ASSUME NEW p \in Rows, NEW row \in Post, posts' = [posts EXCEPT ![p] = row],
               row.comments = posts[p].comments, row.acks = posts[p].acks
        PROVE  ThreadInv' /\ [TheBoard!Next]_(TheBoard!vars)
    <2>1. p \in Posts
      BY DEF Rows
    <2>2. Thread' = Thread /\ Acked' = Acked
      BY <1>4, <2>1, ThreadOf, SameRow
    <2>3. \A v \in Workers : Fits(job[v])'
      BY <1>3, <1>4, <2>1, WriteFits
    <2> QED BY <1>1, <1>2, <2>2, <2>3, SameView DEF ThreadInv
  <1>5. ASSUME NEW p \in Rows, posts' = [posts EXCEPT ![p] = Removed]
        PROVE  ThreadInv' /\ [TheBoard!Next]_(TheBoard!vars)
    <2>1. p \in Posts
      BY DEF Rows
    <2>2. Thread' = [Thread EXCEPT ![p] = {}] /\ Acked' = [Acked EXCEPT ![p] = {}]
      BY <1>5, <2>1, RowRemoved
    <2>3. TheBoard!Next
      BY <1>1, <2>1, <2>2 DEF TheBoard!Next, TheBoard!Remove
    <2>4. \A v \in Workers : Fits(job[v])'
      BY <1>1, <1>3, <1>5, <2>1, RemoveFits
    <2> QED BY <1>2, <2>3, <2>4 DEF ThreadInv
  <1>6. \A p \in Rows : p \in Posts /\ posts[p] \in Post
    BY RowsArePosts DEF Rows
  <1>7. CASE DeletePost
    <2>1. PICK p \in Rows :
             \/ posts' = [posts EXCEPT ![p] = Removed]
             \/ posts' = [posts EXCEPT ![p].deleted = TRUE, ![p].status = "ARCHIVED"]
      BY <1>7 DEF DeletePost
    <2> DEFINE row == [posts[p] EXCEPT !.deleted = TRUE, !.status = "ARCHIVED"]
    <2>2. row \in Post /\ row.comments = posts[p].comments /\ row.acks = posts[p].acks
      BY <1>6 DEF Post, States
    <2>3. posts' = [posts EXCEPT ![p] = Removed] \/ posts' = [posts EXCEPT ![p] = row]
      BY <1>6, <2>1 DEF TypeOK
    <2> HIDE DEF row
    <2> QED BY <1>4, <1>5, <2>2, <2>3
  <1>8. CASE RestorePost
    <2>1. PICK p \in Rows : posts' = [posts EXCEPT ![p].deleted = FALSE, ![p].status = "DRAFT"]
      BY <1>8 DEF RestorePost
    <2> DEFINE row == [posts[p] EXCEPT !.deleted = FALSE, !.status = "DRAFT"]
    <2>2. row \in Post /\ row.comments = posts[p].comments /\ row.acks = posts[p].acks
      BY <1>6 DEF Post, States
    <2>3. posts' = [posts EXCEPT ![p] = row]
      BY <1>6, <2>1 DEF TypeOK
    <2> HIDE DEF row
    <2> QED BY <1>4, <2>2, <2>3
  <1> QED BY <1>7, <1>8

\* The write of a column: the row that comes of it, with the others still fitting.
LEMMA CommitFits ==
    ASSUME TypeOK, ThreadInv, NEW w \in Workers, NEW p \in Rows, NEW row \in Post,
           posts' = [posts EXCEPT ![p] = row], Return(w),
           \A v \in Workers : v # w /\ job[v].op \in {"comment", "uncomment"} /\ job[v].post = p
               => row.comments = posts[p].comments,
           \A v \in Workers : v # w /\ job[v].op = "acknowledge" /\ job[v].post = p
               => row.acks = posts[p].acks,
           \A v \in Workers : v # w /\ job[v].op = "comment" => job[v].comment \notin made'
    PROVE  ThreadInv'
  <1>1. \A v \in Workers : job'[v] = IF v = w THEN Idle ELSE job[v]
    BY ReturnJobs
  <1>2. p \in Posts
    BY DEF Rows
  <1>3. ASSUME NEW v \in Workers PROVE Fits(job[v])'
    <2>1. CASE v = w
      BY <1>1, <2>1, IdleFits
    <2>2. CASE v # w
      <3>1. Fits(job[v]) /\ job'[v] = job[v]
        BY <1>1, <2>2 DEF ThreadInv
      <3> QED BY <1>2, <2>2, <3>1, WriteFits
    <2> QED BY <2>1, <2>2
  <1>4. OwnComments'
    BY <1>1, OwnKept DEF ThreadInv, Idle
  <1> QED BY <1>3, <1>4 DEF ThreadInv

LEMMA CommentRefines ==
    ASSUME TypeOK, ThreadInv, NEW lock \in Locks, {"comment", "uncomment"} \subseteq lock,
           Alone(lock), NEW w \in Workers, CommentCommit(w)
    PROVE  ThreadInv' /\ [TheBoard!Next]_(TheBoard!vars)
  <1> DEFINE p == job[w].post
             c == job[w].comment
             row == [posts[p] EXCEPT !.comments = job[w].seen \cup {c}]
  <1>1. job[w].op = "comment" /\ job[w] \in CommentJob /\ p \in Posts
    BY JobKinds DEF TypeOK, CommentCommit, At
  <1>2. Return(w)
    BY DEF CommentCommit
  <1>3. CASE p \notin Rows
    BY <1>2, <1>3, ReturnJobs, NothingWritten DEF CommentCommit
  <1>4. CASE p \in Rows
    <2>1. posts[p] \in Post /\ job[w].seen = posts[p].comments /\ c \notin made
      BY <1>1, <1>4, RowsArePosts DEF ThreadInv, Fits
    <2>2. c \in Comments
      BY <1>1 DEF CommentJob
    <2>3. /\ row \in Post /\ row.comments = posts[p].comments \cup {c}
          /\ row.acks = posts[p].acks
      BY <2>1, <2>2 DEF Post
    <2>4. posts' = [posts EXCEPT ![p] = row] /\ made' = made \cup {c}
      BY <1>4 DEF CommentCommit, TypeOK
    <2>5. \A v \in Workers : v # w /\ job[v].op \in {"comment", "uncomment"} => job[v].post # p
      BY <1>1 DEF Alone
    <2>6. \A v \in Workers : v # w /\ job[v].op = "comment" => job[v].comment \notin made /\ job[v].comment # c
      BY <1>1 DEF ThreadInv, Fits, OwnComments
    <2> HIDE DEF row, p, c
    <2>7. ThreadInv'
      <3>1. \A v \in Workers : v # w /\ job[v].op \in {"comment", "uncomment"} /\ job[v].post = p
               => row.comments = posts[p].comments
        BY <2>5
      <3>2. \A v \in Workers : v # w /\ job[v].op = "acknowledge" /\ job[v].post = p
               => row.acks = posts[p].acks
        BY <2>3
      <3>3. \A v \in Workers : v # w /\ job[v].op = "comment" => job[v].comment \notin made'
        BY <2>4, <2>6
      <3>4. row \in Post /\ posts' = [posts EXCEPT ![p] = row]
        BY <2>3, <2>4
      <3> QED BY <1>2, <1>4, <3>1, <3>2, <3>3, <3>4, CommitFits
    <2>8. /\ Thread' = [Thread EXCEPT ![p] = Thread[p] \cup {c}]
          /\ Acked' = [Acked EXCEPT ![p] = Acked[p]]
      <3>1. Thread' = [Thread EXCEPT ![p] = row.comments] /\ Acked' = [Acked EXCEPT ![p] = row.acks]
        BY <1>1, <2>3, <2>4, RowWritten
      <3>2. row.comments = Thread[p] \cup {c} /\ row.acks = Acked[p]
        BY <1>1, <1>4, <2>3, ThreadOf
      <3> QED BY <3>1, <3>2
    <2>9. Acked' = Acked
      BY <2>8, ViewIsFunction
    <2>10. TheBoard!Comment(p, c)
      BY <2>1, <2>4, <2>8, <2>9 DEF TheBoard!Comment
    <2> QED BY <1>1, <2>2, <2>7, <2>10 DEF TheBoard!Next
  <1> QED BY <1>3, <1>4

LEMMA UncommentRefines ==
    ASSUME TypeOK, ThreadInv, NEW lock \in Locks, {"comment", "uncomment"} \subseteq lock,
           Alone(lock), NEW w \in Workers, UncommentCommit(w)
    PROVE  ThreadInv' /\ [TheBoard!Next]_(TheBoard!vars)
  <1> DEFINE p == job[w].post
             c == job[w].comment
             row == [posts[p] EXCEPT !.comments = job[w].seen \ {c}]
  <1>1. job[w].op = "uncomment" /\ job[w] \in CommentJob /\ p \in Posts
    BY JobKinds DEF TypeOK, UncommentCommit, At
  <1>2. Return(w) /\ made' = made
    BY DEF UncommentCommit
  <1>3. CASE p \notin Rows
    BY <1>2, <1>3, ReturnJobs, NothingWritten DEF UncommentCommit
  <1>4. CASE p \in Rows
    <2>1. posts[p] \in Post /\ job[w].seen = posts[p].comments /\ c \in posts[p].comments
      BY <1>1, <1>4, RowsArePosts DEF ThreadInv, Fits
    <2>2. c \in Comments
      BY <1>1 DEF CommentJob
    <2>3. /\ row \in Post /\ row.comments = posts[p].comments \ {c}
          /\ row.acks = posts[p].acks
      BY <2>1, <2>2 DEF Post
    <2>4. posts' = [posts EXCEPT ![p] = row]
      BY <1>4 DEF UncommentCommit, TypeOK
    <2>5. \A v \in Workers : v # w /\ job[v].op \in {"comment", "uncomment"} => job[v].post # p
      BY <1>1 DEF Alone
    <2>6. \A v \in Workers : v # w /\ job[v].op = "comment" => job[v].comment \notin made'
      BY <1>2 DEF ThreadInv, Fits
    <2> HIDE DEF row, p, c
    <2>7. ThreadInv'
      <3>1. \A v \in Workers : v # w /\ job[v].op \in {"comment", "uncomment"} /\ job[v].post = p
               => row.comments = posts[p].comments
        BY <2>5
      <3>2. \A v \in Workers : v # w /\ job[v].op = "acknowledge" /\ job[v].post = p
               => row.acks = posts[p].acks
        BY <2>3
      <3>3. row \in Post /\ posts' = [posts EXCEPT ![p] = row]
        BY <2>3, <2>4
      <3> QED BY <1>2, <1>4, <2>6, <3>1, <3>2, <3>3, CommitFits
    <2>8. /\ Thread' = [Thread EXCEPT ![p] = Thread[p] \ {c}]
          /\ Acked' = [Acked EXCEPT ![p] = Acked[p]]
      <3>1. Thread' = [Thread EXCEPT ![p] = row.comments] /\ Acked' = [Acked EXCEPT ![p] = row.acks]
        BY <1>1, <2>3, <2>4, RowWritten
      <3>2. row.comments = Thread[p] \ {c} /\ row.acks = Acked[p]
        BY <1>1, <1>4, <2>3, ThreadOf
      <3> QED BY <3>1, <3>2
    <2>9. Acked' = Acked
      BY <2>8, ViewIsFunction
    <2>10. c \in Thread[p]
      BY <1>1, <1>4, <2>1, ThreadOf
    <2>11. TheBoard!Uncomment(p, c)
      BY <1>2, <2>8, <2>9, <2>10 DEF TheBoard!Uncomment
    <2> QED BY <1>1, <2>2, <2>7, <2>11 DEF TheBoard!Next
  <1> QED BY <1>3, <1>4

LEMMA AcknowledgeRefines ==
    ASSUME TypeOK, ThreadInv, NEW lock \in Locks, "acknowledge" \in lock,
           Alone(lock), NEW w \in Workers, AcknowledgeCommit(w)
    PROVE  ThreadInv' /\ [TheBoard!Next]_(TheBoard!vars)
  <1> DEFINE p == job[w].post
             u == job[w].user
             S == IF u \in job[w].seen THEN job[w].seen \ {u} ELSE job[w].seen \cup {u}
             row == [posts[p] EXCEPT !.acks = S]
  <1>1. job[w].op = "acknowledge" /\ job[w] \in AckJob /\ p \in Posts
    BY JobKinds DEF TypeOK, AcknowledgeCommit, At
  <1>2. Return(w) /\ made' = made
    BY DEF AcknowledgeCommit
  <1>3. CASE p \notin Rows
    BY <1>2, <1>3, ReturnJobs, NothingWritten DEF AcknowledgeCommit
  <1>4. CASE p \in Rows
    <2>1. posts[p] \in Post /\ job[w].seen = posts[p].acks
      BY <1>1, <1>4, RowsArePosts DEF ThreadInv, Fits
    <2>2. u \in Users /\ S \in SUBSET Users
      BY <1>1, <2>1 DEF AckJob, Post
    <2>3. S = IF u \in posts[p].acks THEN posts[p].acks \ {u} ELSE posts[p].acks \cup {u}
      BY <2>1
    <2>4. posts' = [posts EXCEPT ![p] = row]
      BY <1>4 DEF AcknowledgeCommit, TypeOK
    <2> HIDE DEF S
    <2>5. row \in Post /\ row.comments = posts[p].comments /\ row.acks = S
      BY <2>1, <2>2 DEF Post
    <2>6. \A v \in Workers : v # w /\ job[v].op = "acknowledge" => job[v].post # p
      BY <1>1 DEF Alone
    <2>7. \A v \in Workers : v # w /\ job[v].op = "comment" => job[v].comment \notin made'
      BY <1>2 DEF ThreadInv, Fits
    <2> HIDE DEF row, p, u
    <2>8. ThreadInv'
      <3>1. \A v \in Workers : v # w /\ job[v].op \in {"comment", "uncomment"} /\ job[v].post = p
               => row.comments = posts[p].comments
        BY <2>5
      <3>2. \A v \in Workers : v # w /\ job[v].op = "acknowledge" /\ job[v].post = p
               => row.acks = posts[p].acks
        BY <2>6
      <3>3. row \in Post /\ posts' = [posts EXCEPT ![p] = row]
        BY <2>4, <2>5
      <3> QED BY <1>2, <1>4, <2>7, <3>1, <3>2, <3>3, CommitFits
    <2>9. /\ Thread' = [Thread EXCEPT ![p] = Thread[p]]
          /\ Acked' = [Acked EXCEPT ![p] = IF u \in Acked[p] THEN Acked[p] \ {u}
                                           ELSE Acked[p] \cup {u}]
      <3>1. Thread' = [Thread EXCEPT ![p] = row.comments] /\ Acked' = [Acked EXCEPT ![p] = row.acks]
        BY <1>1, <2>4, <2>5, RowWritten
      <3>2. Thread[p] = row.comments /\ Acked[p] = posts[p].acks /\ row.acks = S
        BY <1>1, <1>4, <2>5, ThreadOf
      <3>3. row.acks = IF u \in Acked[p] THEN Acked[p] \ {u} ELSE Acked[p] \cup {u}
        BY <2>3, <3>2
      <3> QED BY <3>1, <3>2, <3>3
    <2>10. Thread' = Thread
      BY <2>9, ViewIsFunction
    <2>11. TheBoard!Toggle(p, u)
      BY <1>2, <2>9, <2>10 DEF TheBoard!Toggle
    <2> QED BY <1>1, <2>2, <2>8, <2>11 DEF TheBoard!Next
  <1> QED BY <1>3, <1>4

\* commentOnPostCommunity, deleteComment, toggleAcknowledgePostCommunity: where the
\* handlers that edit one column of a post exclude one another on it, the hub
\* implements Board, whatever is edited, published, deleted or restored meanwhile.
THEOREM KeepsThreadsCorrect ==
    ASSUME CommunityAssumption,
           NEW column \in Locks, {"comment", "uncomment"} \subseteq column,
           NEW other \in Locks, "acknowledge" \in other
    PROVE  Spec => KeepsThreads
  <1>1. Init => TheBoard!Init /\ Alone(column) /\ Alone(other) /\ ThreadInv
    <2> SUFFICES ASSUME Init PROVE TheBoard!Init /\ Alone(column) /\ Alone(other) /\ ThreadInv
      OBVIOUS
    <2>1. \A w \in Workers : job[w] = Idle
      BY DEF Init
    <2>2. Rows = {}
      BY DEF Init, Rows
    <2>3. TheBoard!Init
      BY <2>2 DEF TheBoard!Init, Thread, Acked, Init
    <2>4. Alone(column) /\ Alone(other)
      BY <2>1 DEF Alone, Idle, CommunityAssumption, Handlers
    <2>5. ThreadInv
      BY <2>1 DEF ThreadInv, OwnComments, Fits, Idle
    <2> QED BY <2>3, <2>4, <2>5
  <1>2. TypeOK /\ Alone(column) /\ Alone(other) /\ ThreadInv /\ [Next]_vars
           => Alone(column)' /\ Alone(other)' /\ ThreadInv' /\ [TheBoard!Next]_(TheBoard!vars)
    <2> SUFFICES ASSUME TypeOK, Alone(column), Alone(other), ThreadInv, [Next]_vars
                 PROVE  ThreadInv' /\ [TheBoard!Next]_(TheBoard!vars)
      BY StepAlone
    <2>1. CASE UNCHANGED <<posts, job, made>>
      BY <2>1, NothingWritten
    <2>2. ASSUME NEW w \in Workers, Announce(w)
          PROVE  ThreadInv' /\ [TheBoard!Next]_(TheBoard!vars)
      BY <2>2, ReturnJobs, NothingWritten DEF Announce
    <2>3. ASSUME NEW w \in Workers, Handle(w)
          PROVE  ThreadInv' /\ [TheBoard!Next]_(TheBoard!vars)
      BY <2>2, <2>3, ReadRefines, CreateRefines, UpdateRefines, CommentRefines, UncommentRefines,
         AcknowledgeRefines DEF Handle
    <2>4. CASE DeletePost \/ RestorePost
      BY <2>4, TakeDownRefines
    <2> QED BY <2>1, <2>3, <2>4 DEF Next, vars, TrialEnds, Upgrade
  <1> QED BY <1>1, <1>2, TypeCorrect, PTL DEF Spec, KeepsThreads, TheBoard!Spec
=============================================================================
