--------------------------- MODULE MCSubscription ---------------------------
(* Instances of Subscription for TLC.                                      *)
EXTENDS Subscription, TLC

CONSTANTS s1, s2

TwoSessions == {s1, s2}
\* One payment of each paid plan.
BothPlans == s1 :> "PRO" @@ s2 :> "ENTERPRISE"
\* Two payments of one plan: the second extends the first.
OnePlan == s1 :> "PRO" @@ s2 :> "PRO"
OneMonth == s1 :> 2 @@ s2 :> 2
PlanCredits == "PRO" :> 2 @@ "ENTERPRISE" :> 3

Everything == Requests \cup Crons \cup {"staff"}
\* The handlers that decide whether a payment or a trial is the first.
Activations == {"pay", "trial"}
=============================================================================
