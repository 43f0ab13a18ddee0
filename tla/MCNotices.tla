----------------------------- MODULE MCNotices -----------------------------
(***************************************************************************)
(* Stripe's events and the alerts on reports: each is checked by itself,   *)
(* for what must come about sooner or later.                               *)
(***************************************************************************)
EXTENDS Billing, Alerts, TLC

CONSTANTS r1, r2, b1, k1, k2

VARIABLE topic

noticeVars == <<topic, billVars, alertVars>>

NoticesInit ==
    /\ topic \in {"billing", "alerts"}
    /\ BillingInit /\ AlertsInit

InBilling(step) == topic = "billing" /\ step /\ UNCHANGED <<topic, alertVars>>
InAlerts(step)  == topic = "alerts" /\ step /\ UNCHANGED <<topic, billVars>>

NoticesNext == InBilling(BillingNext) \/ InAlerts(AlertsNext)

\* Stripe sends an event until it is answered; a replica that runs checks
\* every hour, and the lock expires.
Fairness ==
    /\ \A e \in Events : WF_noticeVars(InBilling(Handles(e)))
    /\ \A r \in Replicas : WF_noticeVars(InAlerts(HourlyCheck(r)))
    /\ WF_noticeVars(InAlerts(LockRunsOut))

NoticesSpec == NoticesInit /\ [][NoticesNext]_noticeVars /\ Fairness

FourEvents     == {"checkout", "second_checkout", "failed", "updated"}
Kinds          == "checkout" :> "checkout" @@ "second_checkout" :> "checkout" @@ "failed" :> "failed" @@ "updated" :> "active"
TwoCustomers   == "checkout" :> k1 @@ "second_checkout" :> k2 @@ "failed" :> k1 @@ "updated" :> k1
TwoReplicas    == {r1, r2}
OneBrowser     == {b1}
Hosted         == b1 :> r1
SomeReports    == {[total |-> 0, confidence |-> 90], [total |-> 100, confidence |-> 90],
                   [total |-> 200, confidence |-> 70]}

\* Both parts are well typed.
NoticesTypeOK == BillingTypeOK /\ AlertsTypeOK
=============================================================================
