----------------------------- MODULE MCWebhooks -----------------------------
(* Webhooks and deliveries under which TLC explores Webhooks.               *)
EXTENDS Webhooks, TLC

CONSTANTS h1, w1, w2, m1, e1

\* All deliveries go to one endpoint; an event makes the third.
OneHook == [d \in Deliveries |-> h1]
Third   == [e \in Dispatches |-> {3}]
=============================================================================
