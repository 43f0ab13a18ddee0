------------------------------ MODULE Billing ------------------------------
(***************************************************************************)
(* The events that Stripe sends about one company's subscription.  Stripe  *)
(* sends an event again until it is answered with success, and in no       *)
(* particular order.  A handler looks the subscription up by Stripe's ids, *)
(* works on the row that it has loaded, and commits: a column that it sets *)
(* to the value it has loaded is not written.                              *)
(*                                                                         *)
(* What Stripe does is known from the handlers only.                       *)
(***************************************************************************)
EXTENDS Integers, FiniteSets

CONSTANTS
    Events,        \* the events that Stripe may send
    KindOf,        \* [Events -> "checkout", "failed", or a status that Stripe knows]
    CustomerOf,    \* [Events -> the customer at Stripe that an event is about]
    Nobody,        \* no customer
    MaxErrors      \* bound on failures of the database, the mail and the network

ASSUME BillingAssumption ==
    /\ IsFiniteSet(Events)
    /\ KindOf \in [Events -> {"checkout", "failed", "active", "past_due", "canceled", "unpaid", "trialing"}]
    /\ DOMAIN CustomerOf = Events /\ \A e \in Events : CustomerOf[e] # Nobody
    /\ MaxErrors \in Nat

VARIABLES
    plan,      \* the subscription's row
    sent,      \* the events that have happened
    open,      \* those that have not been answered with success
    handler,   \* [Events -> how far its handler is, and the row that it has loaded]
    alerted,   \* [Events -> the alerts that a failed payment has left]
    errors

billVars == <<plan, sent, open, handler, alerted, errors>>

SubscriptionStatus == {"active", "cancelled", "past_due"}
Customers == {CustomerOf[e] : e \in Events}
\* A company has no row before it first looks at its plan.
Subscriptions == [there : BOOLEAN, status : SubscriptionStatus, customer : Customers \cup {Nobody}]

Unhandled == [at |-> "waiting"]
Loaded(row) == [at |-> "loaded", row |-> row]
Committed == [at |-> "committed"]
Handlers == {Unhandled, Committed} \cup {Loaded(row) : row \in Subscriptions}

BillingInit ==
    /\ plan = [there |-> FALSE, status |-> "active", customer |-> Nobody]
    /\ sent = {} /\ open = {}
    /\ handler = [e \in Events |-> Unhandled]
    /\ alerted = [e \in Events |-> 0]
    /\ errors = 0

\* status_map; other statuses are not taken over
Mapped(kind) ==
    CASE kind = "active" -> "active" [] kind \in {"past_due", "unpaid"} -> "past_due" [] kind = "canceled" -> "cancelled"
      [] OTHER -> "unknown"

StripeSends(e) ==
    /\ e \notin sent
    /\ sent' = sent \cup {e} /\ open' = open \cup {e}
    /\ UNCHANGED <<plan, handler, alerted, errors>>

\* get_or_create_subscription
Opens ==
    /\ ~ plan.there
    /\ plan' = [plan EXCEPT !.there = TRUE]
    /\ UNCHANGED <<sent, open, handler, alerted, errors>>

\* A checkout names the company; for other events the row is looked up by the
\* ids that the last checkout has left there.
RowIsFound(e) == plan.there /\ (KindOf[e] = "checkout" \/ plan.customer = CustomerOf[e])

Understood(e) == \/ KindOf[e] \in {"checkout", "failed"}
                 \/ Mapped(KindOf[e]) # "unknown"

Deliver(e) ==
    /\ e \in open /\ handler[e] = Unhandled
    /\ handler' = [handler EXCEPT ![e] = IF RowIsFound(e) /\ Understood(e) THEN Loaded(plan) ELSE Committed]
    /\ UNCHANGED <<plan, sent, open, alerted, errors>>

\* The customer, and the subscription at Stripe with it
LinkCustomer(e) ==
    /\ handler[e].at = "loaded" /\ KindOf[e] = "checkout"
    /\ plan' = [plan EXCEPT !.customer = IF handler[e].row.customer = CustomerOf[e] THEN @ ELSE CustomerOf[e]]
    /\ handler' = [handler EXCEPT ![e] = Committed]
    /\ UNCHANGED <<sent, open, alerted, errors>>

SetStatus(e, new) == plan' = [plan EXCEPT !.status = IF handler[e].row.status = new THEN @ ELSE new]

SyncStatus(e) ==
    /\ handler[e].at = "loaded" /\ KindOf[e] \notin {"checkout", "failed"}
    /\ SetStatus(e, Mapped(KindOf[e]))
    /\ handler' = [handler EXCEPT ![e] = Committed]
    /\ UNCHANGED <<sent, open, alerted, errors>>

\* The status and the alert are committed together, and then a mail is sent.
PaymentFailed(e) ==
    /\ handler[e].at = "loaded" /\ KindOf[e] = "failed"
    /\ SetStatus(e, "past_due")
    /\ alerted' = [alerted EXCEPT ![e] = @ + 1]
    /\ handler' = [handler EXCEPT ![e] = Committed]
    /\ UNCHANGED <<sent, open, errors>>

\* Wrong on purpose: an error is answered with success, so that Stripe rests
ErrorSwallowed(e) ==
    /\ handler[e] # Unhandled
    /\ errors < MaxErrors
    /\ errors' = errors + 1
    /\ handler' = [handler EXCEPT ![e] = Unhandled]
    /\ open' = open \ {e}
    /\ UNCHANGED <<plan, sent, alerted>>

\* A statement or the mail fails: 500, or the answer is lost.  Stripe will
\* send the event again, whether or not it was committed.
HandlerFails(e) ==
    /\ handler[e] # Unhandled
    /\ errors < MaxErrors
    /\ errors' = errors + 1
    /\ handler' = [handler EXCEPT ![e] = Unhandled]
    /\ UNCHANGED <<plan, sent, open, alerted>>

Acknowledged(e) ==
    /\ handler[e] = Committed
    /\ handler' = [handler EXCEPT ![e] = Unhandled]
    /\ open' = open \ {e}
    /\ UNCHANGED <<plan, sent, alerted, errors>>

Handles(e) == Deliver(e) \/ LinkCustomer(e) \/ SyncStatus(e) \/ PaymentFailed(e) \/ Acknowledged(e)

BillingNext ==
    \/ Opens
    \/ \E e \in Events : StripeSends(e) \/ Handles(e) \/ HandlerFails(e)

BillingSpec == BillingInit /\ [][BillingNext]_billVars

-----------------------------------------------------------------------------
BillingTypeOK ==
    /\ plan \in Subscriptions
    /\ open \subseteq sent /\ sent \subseteq Events
    /\ handler \in [Events -> Handlers]
    /\ alerted \in [Events -> 0..(MaxErrors + 1)]
    /\ errors \in 0..MaxErrors

\* A failed payment of a customer that is known by the time its event is
\* delivered is never passed over in silence: Stripe repeats the event until
\* the alert has been committed, and errors repeat the alert once each at most.
\* Only another checkout can come in between and make the customer unknown.
FailuresAreAlerted ==
    \A e \in Events : KindOf[e] = "failed" =>
       (e \in open /\ handler[e] = Unhandled /\ RowIsFound(e))
           ~> (alerted[e] \in 1..(1 + MaxErrors) \/ plan.customer # CustomerOf[e])
=============================================================================
