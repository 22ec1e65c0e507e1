-------------------------------- MODULE Board --------------------------------
(***************************************************************************)
(* What the community hub promises about a post's thread: every comment is *)
(* made once and stays until it is deleted or the post is, and every       *)
(* acknowledgement stays until its user takes it back, each in one step.   *)
(***************************************************************************)
CONSTANTS Posts, Comments, Users

VARIABLES
    thread, \* the comments of each post
    acked,  \* the users who acknowledge each post
    made    \* the comments that were ever made

vars == <<thread, acked, made>>

Init ==
    /\ thread = [p \in Posts |-> {}]
    /\ acked = [p \in Posts |-> {}]
    /\ made = {}

Comment(p, c) ==
    /\ c \notin made
    /\ made' = made \cup {c}
    /\ thread' = [thread EXCEPT ![p] = @ \cup {c}]
    /\ UNCHANGED acked

Uncomment(p, c) ==
    /\ c \in thread[p]
    /\ thread' = [thread EXCEPT ![p] = @ \ {c}]
    /\ UNCHANGED <<acked, made>>

Toggle(p, u) ==
    /\ acked' = [acked EXCEPT ![p] = IF u \in @ THEN @ \ {u} ELSE @ \cup {u}]
    /\ UNCHANGED <<thread, made>>

Remove(p) ==
    /\ thread' = [thread EXCEPT ![p] = {}]
    /\ acked' = [acked EXCEPT ![p] = {}]
    /\ UNCHANGED made

Next ==
    \E p \in Posts :
        \/ \E c \in Comments : Comment(p, c) \/ Uncomment(p, c)
        \/ \E u \in Users : Toggle(p, u)
        \/ Remove(p)

Spec == Init /\ [][Next]_vars
=============================================================================
