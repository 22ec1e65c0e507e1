------------------------------ MODULE Community ------------------------------
(***************************************************************************)
(* CommunityService and CommunityRealtimeService: the posts of the         *)
(* community hub, their comments and acknowledgements, kept in two JSON    *)
(* columns that every handler reads, edits and writes back whole, and the  *)
(* notifications of new posts, created once the post is committed.         *)
(***************************************************************************)
EXTENDS FiniteSets

CONSTANTS
    Users,     \* users of the hub
    Role,      \* role of each user
    Org,       \* organization of each user, NoOrg for the platform's admins
    NoOrg,     \* org_id = null
    Posts,     \* posts that may be created (bounds the run)
    Comments,  \* comments that may be made (bounds the run)
    Workers,   \* request handlers that may be in progress at once
    Drafts,    \* bodies of POST /community/post (bounds the run)
    Edits,     \* bodies of PATCH /community/post/:id: some of the fields
    Locks      \* sets of handlers assumed to exclude one another on a post

Roles == {"ADMIN", "ORG_ADMIN", "STAFF"}
States == {"DRAFT", "PUBLISHED", "ARCHIVED"}
Orgs == {Org[u] : u \in Users} \ {NoOrg}
Handlers == {"create", "update", "comment", "uncomment", "acknowledge"}

ASSUME CommunityAssumption ==
    /\ Role \in [Users -> Roles]
    /\ \A u \in Users : Org[u] = NoOrg <=> Role[u] = "ADMIN"
    /\ Locks \subseteq SUBSET Handlers
    /\ Drafts \subseteq [status : States, private : BOOLEAN, visible : SUBSET Roles, open : BOOLEAN]
    /\ \A edit \in Edits : /\ ("status" \in DOMAIN edit => edit["status"] \in States)
                          /\ ("private" \in DOMAIN edit => edit["private"] \in BOOLEAN)
                          /\ ("visible" \in DOMAIN edit => edit["visible"] \in SUBSET Roles)
                          /\ ("open" \in DOMAIN edit => edit["open"] \in BOOLEAN)

VARIABLES
    posts,   \* table CommunityHub
    expired, \* organizations on the FREE plan whose first month is over
    job,     \* what each request handler has read and not yet used
    told,    \* table Notification: the users who were notified of each post
    made,    \* history: comments ever made (their ids are random and new)
    fresh    \* history: posts published and not yet announced since

vars == <<posts, expired, job, told, made, fresh>>

Post == [author : Users, status : States, private : BOOLEAN, visible : SUBSET Roles,
         open : BOOLEAN, deleted : BOOLEAN, comments : SUBSET Comments, acks : SUBSET Users]
NoPost == [status |-> "none"]
Removed == [status |-> "removed"]

Idle == [op |-> "idle", post |-> NoOrg]
CommentJob == [op : {"comment", "uncomment"}, post : Posts, comment : Comments,
               seen : SUBSET Comments]
AckJob == [op : {"acknowledge"}, post : Posts, user : Users, seen : SUBSET Users]
UpdateJob == [op : {"update"}, step : {"commit"}, post : Posts, user : Users, edit : Edits,
              was : States]
AnnounceJob == [op : {"create", "update"}, step : {"announce"}, post : Posts, user : Users,
                to : SUBSET Roles]
Job == {Idle} \cup CommentJob \cup AckJob \cup UpdateJob \cup AnnounceJob

TypeOK ==
    /\ posts \in [Posts -> {NoPost, Removed} \cup Post]
    /\ expired \subseteq Orgs
    /\ job \in [Workers -> Job]
    /\ told \in [Posts -> SUBSET Users]
    /\ made \subseteq Comments
    /\ fresh \subseteq Posts

Init ==
    /\ posts = [p \in Posts |-> NoPost]
    /\ expired = {}
    /\ job = [w \in Workers |-> Idle]
    /\ told = [p \in Posts |-> {}]
    /\ made = {}
    /\ fresh = {}

-----------------------------------------------------------------------------
Rows == {p \in Posts : posts[p] \notin {NoPost, Removed}}
\* The comment ids handlers in progress have drawn and not written.
Drawn == {job[w].comment : w \in {v \in Workers : job[v].op = "comment"}}

\* checkCommunityTrial: the caller's organization may no longer write.
TrialOver(u) == Org[u] \in expired
\* The author, or an admin of the platform.
Owns(u, p) == posts[p].author = u \/ Role[u] = "ADMIN"

Excluded(op, p) ==
    \E v \in Workers, lock \in Locks : job[v].post = p /\ {op, job[v].op} \subseteq lock
Start(w, j) == job[w] = Idle /\ ~Excluded(j.op, j.post) /\ job' = [job EXCEPT ![w] = j]
At(w, op) == job[w].op = op
Return(w) == job' = [job EXCEPT ![w] = Idle]

\* The post is written; who follows the change to PUBLISHED is told of it next.
Publish(p, row) ==
    /\ posts' = [posts EXCEPT ![p] = row]
    /\ fresh' = IF row.status = "PUBLISHED" /\ posts[p].status # "PUBLISHED"
                THEN fresh \cup {p} ELSE fresh

-----------------------------------------------------------------------------
(* createPostCommunity, updatePostCommunity, sendBroadcastNotification      *)

CreatePost(w) ==
    \E u \in Users, p \in Posts, draft \in Drafts :
        LET row == [author |-> u, status |-> draft.status, private |-> draft.private,
                    visible |-> draft.visible, open |-> draft.open, deleted |-> FALSE,
                    comments |-> {}, acks |-> {}]
        IN  /\ posts[p] = NoPost
            /\ ~TrialOver(u)
            /\ Publish(p, row)
            /\ IF row.status = "PUBLISHED" /\ ~row.private
               THEN Start(w, [op |-> "create", step |-> "announce", post |-> p, user |-> u,
                              to |-> row.visible])
               ELSE job[w] = Idle /\ UNCHANGED job
            /\ UNCHANGED <<expired, made, told>>

UpdateRead(w) ==
    \E u \in Users, p \in Rows, edit \in Edits :
        LET old == posts[p]
        IN  /\ ~TrialOver(u)
            /\ Owns(u, p)
            /\ ~(/\ old.private /\ Role[u] # "ADMIN"
                 /\ "status" \in DOMAIN edit /\ edit.status = "PUBLISHED"
                 /\ "private" \in DOMAIN edit /\ edit.private)
            /\ Start(w, [op |-> "update", step |-> "commit", post |-> p, user |-> u,
                         edit |-> edit, was |-> old.status])
            /\ UNCHANGED <<posts, expired, made, fresh, told>>

MutantBecamePublished(j, row) == row.status = "PUBLISHED" /\ ~row.private
\* Notifications go out: not for an admin's edit, nor if it was published when
\* it was read.  (The other broadcast of every update only refreshes screens.)
BecamePublished(j, row) ==
    /\ Role[j.user] # "ADMIN"
    /\ \/ j.was = "DRAFT" /\ row.status = "PUBLISHED"
       \/ "status" \in DOMAIN j.edit /\ j.edit.status = "PUBLISHED" /\ ~row.private
    /\ j.was # "PUBLISHED"

\* Only the columns of the body are written.
Given(edit, field, old) == IF field \in DOMAIN edit THEN edit[field] ELSE old
Edited(row, edit) ==
    [row EXCEPT !.status = Given(edit, "status", @), !.private = Given(edit, "private", @),
                !.visible = Given(edit, "visible", @), !.open = Given(edit, "open", @)]

UpdateCommit(w) ==
    /\ At(w, "update") /\ job[w].step = "commit"
    /\ LET j == job[w]
           row == Edited(posts[j.post], j.edit)
       IN  IF j.post \in Rows
           THEN /\ Publish(j.post, row)
                /\ IF BecamePublished(j, row)
                   THEN job' = [job EXCEPT ![w] = [op |-> "update", step |-> "announce",
                                  post |-> j.post, user |-> j.user, to |-> row.visible]]
                   ELSE Return(w)
           ELSE Return(w) /\ UNCHANGED <<posts, fresh>>
    /\ UNCHANGED <<expired, made, told>>

\* The users of the caller's organization whose role may see the post, or all of
\* them if no role is named.
Recipients(u, to) == {v \in Users : Org[v] = Org[u] /\ (to = {} \/ Role[v] \in to)}

\* One createMany.  Notification.org_id may not be null, so a post of a platform
\* admin notifies nobody: the error is caught.
Announce(w) ==
    /\ job[w].op \in {"create", "update"} /\ job[w].step = "announce"
    /\ told' = [told EXCEPT ![job[w].post] =
                  IF Org[job[w].user] = NoOrg THEN @ ELSE @ \cup Recipients(job[w].user, job[w].to)]
    /\ fresh' = fresh \ {job[w].post}
    /\ Return(w)
    /\ UNCHANGED <<posts, expired, made>>

-----------------------------------------------------------------------------
(* deletePostCommunity, restorePostCommunity                               *)

DeletePost ==
    \E u \in Users, p \in Rows :
        /\ ~TrialOver(u) /\ Owns(u, p)
        /\ \/ posts' = [posts EXCEPT ![p] = Removed]
           \/ posts' = [posts EXCEPT ![p].deleted = TRUE, ![p].status = "ARCHIVED"]
        /\ UNCHANGED <<expired, job, made, fresh, told>>

MutantRestorePost ==
    \E u \in Users, p \in Rows :
        /\ ~TrialOver(u)
        /\ posts' = [posts EXCEPT ![p].deleted = FALSE]
        /\ UNCHANGED <<expired, job, made, fresh, told>>
RestorePost ==
    \E u \in Users, p \in Rows :
        /\ ~TrialOver(u)
        /\ posts' = [posts EXCEPT ![p].deleted = FALSE, ![p].status = "DRAFT"]
        /\ UNCHANGED <<expired, job, made, fresh, told>>

-----------------------------------------------------------------------------
(* commentOnPostCommunity, deleteComment, toggleAcknowledgePostCommunity    *)

CommentRead(w) ==
    \E u \in Users, p \in Rows, c \in Comments \ (made \cup Drawn) :
        /\ ~TrialOver(u)
        /\ posts[p].open \/ Owns(u, p)
        /\ Start(w, [op |-> "comment", post |-> p, comment |-> c, seen |-> posts[p].comments])
        /\ UNCHANGED <<posts, expired, made, fresh, told>>

MutantCommentReplaces(w) ==
    /\ At(w, "comment") /\ job[w].post \in Rows
    /\ posts' = [posts EXCEPT ![job[w].post].comments = {job[w].comment}]
    /\ made' = made \cup {job[w].comment}
    /\ Return(w)
    /\ UNCHANGED <<expired, fresh, told>>
CommentCommit(w) ==
    /\ At(w, "comment")
    /\ LET j == job[w]
       IN  IF j.post \in Rows
           THEN /\ posts' = [posts EXCEPT ![j.post].comments = j.seen \cup {j.comment}]
                /\ made' = made \cup {j.comment}
           ELSE UNCHANGED <<posts, made>>
    /\ Return(w)
    /\ UNCHANGED <<expired, fresh, told>>

\* The author of the comment or an admin of the platform asks for it: some user can.
UncommentRead(w) ==
    \E p \in Rows : \E c \in posts[p].comments :
        /\ Start(w, [op |-> "uncomment", post |-> p, comment |-> c, seen |-> posts[p].comments])
        /\ UNCHANGED <<posts, expired, made, fresh, told>>

UncommentCommit(w) ==
    /\ At(w, "uncomment")
    /\ LET j == job[w]
       IN  posts' = IF j.post \in Rows
                    THEN [posts EXCEPT ![j.post].comments = j.seen \ {j.comment}]
                    ELSE posts
    /\ Return(w)
    /\ UNCHANGED <<expired, made, fresh, told>>

AcknowledgeRead(w) ==
    \E u \in Users, p \in Rows :
        /\ Start(w, [op |-> "acknowledge", post |-> p, user |-> u, seen |-> posts[p].acks])
        /\ UNCHANGED <<posts, expired, made, fresh, told>>

AcknowledgeCommit(w) ==
    /\ At(w, "acknowledge")
    /\ LET j == job[w]
       IN  posts' = IF j.post \in Rows
                    THEN [posts EXCEPT ![j.post].acks = IF j.user \in j.seen
                                                        THEN j.seen \ {j.user}
                                                        ELSE j.seen \cup {j.user}]
                    ELSE posts
    /\ Return(w)
    /\ UNCHANGED <<expired, made, fresh, told>>

-----------------------------------------------------------------------------
\* The first month of an organization on the FREE plan ends; it buys a plan.
TrialEnds(o) == expired' = expired \cup {o} /\ UNCHANGED <<posts, job, made, fresh, told>>
Upgrade(o) == expired' = expired \ {o} /\ UNCHANGED <<posts, job, made, fresh, told>>

Handle(w) ==
    \/ CreatePost(w) \/ UpdateRead(w) \/ UpdateCommit(w) \/ Announce(w)
    \/ CommentRead(w) \/ CommentCommit(w) \/ UncommentRead(w) \/ UncommentCommit(w)
    \/ AcknowledgeRead(w) \/ AcknowledgeCommit(w)

Next ==
    \/ \E w \in Workers : Handle(w)
    \/ DeletePost \/ RestorePost
    \/ \E o \in Orgs : TrialEnds(o) \/ Upgrade(o)

Spec == Init /\ [][Next]_vars

-----------------------------------------------------------------------------
(* What a user is shown.                                                   *)

\* getPostCommunity
Listed(u) ==
    {p \in Rows : /\ ~posts[p].deleted
                  /\ posts[p].status = "PUBLISHED" /\ ~posts[p].private
                  /\ Role[u] \in posts[p].visible
                  /\ Role[u] = "ADMIN" \/ Org[posts[p].author] \in {Org[u], NoOrg}
                  /\ TrialOver(u) => Role[posts[p].author] = "ADMIN"}

-----------------------------------------------------------------------------
(* Properties.                                                             *)

\* What was taken down stays down until it is published again: restoring a deleted
\* post lists it for nobody, although it can be edited, and published, meanwhile.
TakenDown ==
    \A p \in Rows : posts[p].deleted => \A u \in Users : p \notin Listed(u)'
TakenDownStaysDown == [][TakenDown]_vars

\* A publication is announced once: by the time users are notified, the post was
\* published since the last time they were.
AnnouncesFresh == \A w \in Workers : Announce(w) => job[w].post \in fresh
AnnouncedOnce == [][AnnouncesFresh]_vars

\* What Board sees of the rows.
Thread == [p \in Posts |-> IF p \in Rows THEN posts[p].comments ELSE {}]
Acked == [p \in Posts |-> IF p \in Rows THEN posts[p].acks ELSE {}]
TheBoard == INSTANCE Board WITH thread <- Thread, acked <- Acked
\* Where handlers that edit a column exclude one another, the hub keeps the
\* promise of Board: no comment and no acknowledgement is lost, none comes back.
KeepsThreads == TheBoard!Spec
=============================================================================
