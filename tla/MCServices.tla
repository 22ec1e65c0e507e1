----------------------------- MODULE MCServices -----------------------------
(* Constants of Services for TLC.                                           *)
EXTENDS Services, TLC

CONSTANTS r1, r2, r3 \* requests of the pool

-----------------------------------------------------------------------------
(* Catalog: days of four units, the first two of which are looked at.       *)

Limits == "FREE" :> 1 @@ "PRO" :> 2
\* Three units of a day are worked, on both days of the week.
AnyDay == [opening |-> 1, closing |-> 4, slot |-> 1, buffer |-> 1, days |-> 0 .. 1, weekend |-> TRUE,
           hours |-> 3, lead |-> 0]
\* Slots that leave a rest and a wide buffer: on any day by the one rule and on no
\* weekend by the other, or on the day of the weekend only and longer than allowed.
SomeDays == {[opening |-> 0, closing |-> 3, slot |-> 2, buffer |-> 2, days |-> {}, weekend |-> FALSE,
              hours |-> 0, lead |-> 1],
             [opening |-> 0, closing |-> 3, slot |-> 2, buffer |-> 2, days |-> {1}, weekend |-> TRUE,
              hours |-> 1, lead |-> 1]}
\* UTC, and one whose clocks go forward during the second date.
SlotZones == {[before |-> 0, after |-> 0, change |-> 0],
              [before |-> 1, after |-> 2, change |-> 5]}
\* Creations exclude one another and changes of the plan.
CreationLock == {{"create", "plan"}}

ASSUME CatalogAssumption /\ TimesAssumption /\ SlotsKeepTheirDate

-----------------------------------------------------------------------------
(* Inbox and Pool.                                                          *)

\* Two settings under keys that parsePreferences knows, one without a key, and one as
\* register writes it.
SomePreferences == {[key |-> "notificationPreference", on |-> {"inApp"}],
                    [key |-> "notification_preferences", on |-> {"inApp"}],
                    [key |-> "notificationPreferences", on |-> {}],
                    [key |-> "settings", on |-> {"email"}]}

\* A confirmation, a creation, and a request that stays within its transaction.
AsideOf == r1 :> 2 @@ r2 :> 1 @@ r3 :> 0

ASSUME In!InboxAssumption /\ Con!PoolAssumption
=============================================================================
