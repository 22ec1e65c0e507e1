------------------------------ MODULE Schedule -------------------------------
(***************************************************************************)
(* What the booking engine promises about the windows of a resource: each  *)
(* is taken, moved and taken again only in a step that finds it free of    *)
(* the others held, and a booking keeps its resource.                      *)
(***************************************************************************)
EXTENDS Integers

CONSTANTS Ids, Resources, Slots, Buffer

VARIABLES
    window, \* the resource and time of every booking there is
    held    \* the bookings that hold their window

vars == <<window, held>>

Windows == {w \in [res : Resources, start : Slots, end : Slots] : w.start < w.end}

Init == window = <<>> /\ held = {}

Near(v, w) == v.res = w.res /\ v.start < w.end + Buffer /\ v.end > w.start - Buffer
\* Nothing that is held is in the way of a window for i.
Free(w, i) == \A k \in held \ {i} : ~Near(window[k], w)

Book(i, w) ==
    /\ i \notin DOMAIN window
    /\ Free(w, i)
    /\ window' = [k \in DOMAIN window \cup {i} |-> IF k = i THEN w ELSE window[k]]
    /\ held' = held \cup {i}

Move(i, w) ==
    /\ i \in DOMAIN window /\ w.res = window[i].res
    /\ Free(w, i)
    /\ window' = [window EXCEPT ![i] = w]
    /\ UNCHANGED held

Release(ids) == held' = held \ ids /\ UNCHANGED window

\* A booking given up while someone was deciding on it is held again.
Retake(i) ==
    /\ i \in DOMAIN window \ held
    /\ Free(window[i], i)
    /\ held' = held \cup {i}
    /\ UNCHANGED window

Next ==
    \/ \E i \in Ids, w \in Windows : Book(i, w) \/ Move(i, w)
    \/ \E i \in Ids : Retake(i)
    \/ \E ids \in SUBSET held : Release(ids)

Spec == Init /\ [][Next]_vars
=============================================================================
