-------------------------------- MODULE Inbox --------------------------------
(***************************************************************************)
(* The in-app inbox: NotificationManager with its NotificationDispatcher,  *)
(* the platform admin's announcements and the nightly clean-up.  send()    *)
(* goes through the channels of a notification one after the other; each   *)
(* of them catches its own errors.                                         *)
(***************************************************************************)
EXTENDS Integers, FiniteSets, Sequences

CONSTANTS
    Users,       \* recipients
    Preferences, \* Organizations.settings the run begins with, see ParsePreferences
    Senders,     \* send() and broadcast calls that may be in progress at once
    ChunkSize,   \* recipients an announcement creates notifications for at a time
    MaxInbox,    \* notifications of a user (bounds the run)
    MaxFaults    \* deliveries that may fail (bounds the run)

InboxAssumption ==
    /\ ChunkSize \in Nat \ {0} /\ MaxInbox \in Nat /\ MaxFaults \in Nat
    /\ \A settings \in Preferences : settings.on \subseteq {"inApp", "email"}

VARIABLES
    inbox,  \* table Notification: the rows of each user, oldest first
    sends,  \* what each call has still to deliver, and what became of the rest
    faults  \* deliveries that failed so far

vars == <<inbox, sends, faults>>

\* is_read, and whether createdAt is 90 days ago.
Note == [read : BOOLEAN, old : BOOLEAN]
New == [read |-> FALSE, old |-> FALSE]

Outcomes == {"open", "sent", "failed", "off"}
SendJob == [op : {"send"}, user : Users, found : BOOLEAN, on : SUBSET {"inApp", "email"},
            inApp : Outcomes, email : Outcomes]
BroadcastJob == [op : {"broadcast"}, left : SUBSET Users, sent : SUBSET Users,
                 failed : SUBSET Users, targets : SUBSET Users]
NoSend == [op |-> "none"]

TypeOK ==
    /\ inbox \in [Users -> Seq(Note)]
    /\ \A u \in Users : Len(inbox[u]) <= MaxInbox
    /\ sends \in [Senders -> {NoSend} \cup SendJob \cup BroadcastJob]
    /\ faults \in 0 .. MaxFaults

Init ==
    /\ inbox = [u \in Users |-> <<>>]
    /\ sends = [s \in Senders |-> NoSend]
    /\ faults = 0

-----------------------------------------------------------------------------
HasRoom(us) == \A u \in us : Len(inbox[u]) < MaxInbox        \* bounds the run
\* One unread notification for each of us.
Notified(us) == [u \in Users |-> IF u \in us THEN Append(inbox[u], New) ELSE inbox[u]]

Finished(s) ==
    \/ sends[s] = NoSend
    \/ sends[s].op = "send" /\ "open" \notin {sends[s].inApp, sends[s].email}
    \/ sends[s].op = "broadcast" /\ sends[s].left = {}

\* The channels that settings leave on: their flags are under one of two keys or in the
\* settings themselves.  Those under another key, as register writes them, are not
\* found, and both are on.
ParsePreferences(settings) ==
    IF settings.key \in {"notificationPreference", "notificationPreferences", "settings"}
    THEN settings.on ELSE {"inApp", "email"}

(* send                                                                    *)

SendTo(u, found, on) ==
    [op |-> "send", user |-> u, found |-> found, on |-> on,
     inApp |-> IF "inApp" \in on THEN "open" ELSE "off",
     email |-> IF "email" \in on THEN "open" ELSE "off"]

SendStart(s) ==
    /\ Finished(s)
    /\ \E u \in Users, settings \in Preferences :
         sends' = [sends EXCEPT ![s] = SendTo(u, TRUE, ParsePreferences(settings))]
    /\ UNCHANGED <<inbox, faults>>

\* The organization is not found or its lookup fails: send answers with an error and
\* dispatches to no channel.
SendStartFails(s) ==
    /\ Finished(s)
    /\ faults < MaxFaults /\ faults' = faults + 1
    /\ \E u \in Users : sends' = [sends EXCEPT ![s] = SendTo(u, FALSE, {})]
    /\ UNCHANGED inbox

Sending(s) == sends[s].op = "send"

SendInApp(s) ==
    /\ Sending(s) /\ sends[s].inApp = "open"
    /\ HasRoom({sends[s].user})
    /\ inbox' = Notified({sends[s].user})
    /\ sends' = [sends EXCEPT ![s].inApp = "sent"]
    /\ UNCHANGED faults

MutantInAppEndsSend(s) ==
    /\ Sending(s) /\ sends[s].inApp = "open"
    /\ faults < MaxFaults
    /\ faults' = faults + 1
    /\ sends' = [sends EXCEPT ![s].inApp = "failed", ![s].email = "off"]
    /\ UNCHANGED inbox
\* The error is caught in sendInApp; the e-mail is next all the same.
SendInAppFails(s) ==
    /\ Sending(s) /\ sends[s].inApp = "open"
    /\ faults < MaxFaults
    /\ faults' = faults + 1
    /\ sends' = [sends EXCEPT ![s].inApp = "failed"]
    /\ UNCHANGED inbox

SendEmail(s) ==
    /\ Sending(s) /\ sends[s].inApp # "open" /\ sends[s].email = "open"
    /\ \/ sends' = [sends EXCEPT ![s].email = "sent"] /\ UNCHANGED faults
       \/ /\ faults < MaxFaults /\ faults' = faults + 1
          /\ sends' = [sends EXCEPT ![s].email = "failed"]
    /\ UNCHANGED inbox

(* broadcastAnnouncement                                                   *)

BroadcastStart(s) ==
    /\ Finished(s)
    /\ \E targets \in SUBSET Users \ {{}} :
         sends' = [sends EXCEPT ![s] = [op |-> "broadcast", left |-> targets, sent |-> {},
                                        failed |-> {}, targets |-> targets]]
    /\ UNCHANGED <<inbox, faults>>

\* Promise.all of one chunk; each delivery catches its own error.
BroadcastChunk(s) ==
    /\ sends[s].op = "broadcast"
    /\ \E chunk \in SUBSET sends[s].left, failing \in SUBSET sends[s].left :
         /\ Cardinality(chunk) = ChunkSize \/ (chunk = sends[s].left /\ Cardinality(chunk) < ChunkSize)
         /\ chunk # {} /\ failing \subseteq chunk
         /\ faults + Cardinality(failing) <= MaxFaults
         /\ HasRoom(chunk \ failing)
         /\ inbox' = Notified(chunk \ failing)
         /\ sends' = [sends EXCEPT ![s].left = @ \ chunk, ![s].sent = @ \cup (chunk \ failing),
                                   ![s].failed = @ \cup failing]
         /\ faults' = faults + Cardinality(failing)

-----------------------------------------------------------------------------
(* What a user does with their inbox, and the nightly clean-up.            *)

MarkAsRead(u) ==
    /\ \E i \in DOMAIN inbox[u] : inbox' = [inbox EXCEPT ![u][i].read = TRUE]
    /\ UNCHANGED <<sends, faults>>

MarkAllAsRead(u) ==
    /\ inbox' = [inbox EXCEPT ![u] = [i \in DOMAIN @ |-> [@[i] EXCEPT !.read = TRUE]]]
    /\ UNCHANGED <<sends, faults>>

Without(rows, i) == SubSeq(rows, 1, i - 1) \o SubSeq(rows, i + 1, Len(rows))
DeleteNotification(u) ==
    /\ \E i \in DOMAIN inbox[u] : inbox' = [inbox EXCEPT ![u] = Without(@, i)]
    /\ UNCHANGED <<sends, faults>>

DeleteAllNotifications(u) ==
    /\ inbox' = [inbox EXCEPT ![u] = <<>>]
    /\ UNCHANGED <<sends, faults>>

CleanUpOldData ==
    /\ inbox' = [u \in Users |-> SelectSeq(inbox[u], LAMBDA n : ~(n.old /\ n.read))]
    /\ UNCHANGED <<sends, faults>>

\* 90 days pass without a clean-up of what is there.
Age ==
    /\ inbox' = [u \in Users |-> [i \in DOMAIN inbox[u] |-> [inbox[u][i] EXCEPT !.old = TRUE]]]
    /\ UNCHANGED <<sends, faults>>

ByOwner(u) ==
    MarkAsRead(u) \/ MarkAllAsRead(u) \/ DeleteNotification(u) \/ DeleteAllNotifications(u)

Deliver(s) ==
    \/ SendStart(s) \/ SendStartFails(s) \/ SendInApp(s) \/ SendInAppFails(s) \/ SendEmail(s)
    \/ BroadcastStart(s) \/ BroadcastChunk(s)

Next ==
    \/ \E s \in Senders : Deliver(s)
    \/ \E u \in Users : ByOwner(u)
    \/ CleanUpOldData \/ Age

Spec == Init /\ [][Next]_vars

-----------------------------------------------------------------------------
\* A delivery that fails keeps no other from being made: once the organization is
\* found, a channel goes unused exactly if its settings switch it off, whatever became
\* of the other; if it is not, both go unused.  An announcement misses no recipient but
\* those whose own notification failed.
FailuresStayLocal ==
    \A s \in Senders : Finished(s) /\ sends[s] # NoSend =>
        IF sends[s].op = "send"
        THEN \A c \in {"inApp", "email"} :
               sends[s][c] = "off" <=> ~sends[s].found \/ c \notin sends[s].on
        ELSE sends[s].sent = sends[s].targets \ sends[s].failed
=============================================================================
