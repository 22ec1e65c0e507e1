------------------------------ MODULE Services -----------------------------
(***************************************************************************)
(* Catalog, Inbox and Pool side by side.  They share no state, so each     *)
(* behaviour is one of one of them and leaves the others as they were.     *)
(***************************************************************************)
EXTENDS Catalog

CONSTANTS
    Users, Preferences, Senders, ChunkSize, MaxInbox, MaxFaults, \* of the inbox
    Requests, Size, Aside                                        \* of the pool

VARIABLES part, inbox, sends, faults, request

In == INSTANCE Inbox
Con == INSTANCE Pool

services == <<vars, part, inbox, sends, faults, request>>

-----------------------------------------------------------------------------
ServicesInit ==
    /\ part \in {"catalog", "inbox", "pool"}
    /\ Init /\ In!Init /\ Con!Init
    /\ part # "catalog" => zone.after = 0

CatalogNext == part = "catalog" /\ Next /\ UNCHANGED <<part, inbox, sends, faults, request>>
InboxNext == part = "inbox" /\ In!Next /\ UNCHANGED <<vars, part, request>>
PoolNext == part = "pool" /\ Con!Next /\ UNCHANGED <<vars, part, inbox, sends, faults>>
ServicesNext == CatalogNext \/ InboxNext \/ PoolNext

ServicesSpec == ServicesInit /\ [][ServicesNext]_services /\ Con!Fairness

-----------------------------------------------------------------------------
\* See module Inbox: a delivery that fails keeps no other from being made.
FailuresStayLocal == In!FailuresStayLocal
\* See module Pool: each request is answered.
EveryoneAnswered == Con!EveryoneAnswered
=============================================================================
