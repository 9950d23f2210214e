------------------------------- MODULE Billing -------------------------------
(***************************************************************************)
(* The subscription of one organization: checkout, and the webhooks of     *)
(* Stripe that BillingService writes to the organization's row.            *)
(*                                                                         *)
(* Stripe is modelled from how the code uses it: each change of a          *)
(* subscription is an event with a snapshot of it, and an event may be     *)
(* delivered late, twice, or after a newer one.  The handler answers 200   *)
(* whatever it did, reads the row without a lock, and its UPDATE writes    *)
(* only the columns that it changes.                                       *)
(***************************************************************************)
EXTENDS FiniteSets, Naturals

CONSTANTS Customers,      \* the customers Stripe may make for the organization
          Subscriptions,  \* and the subscriptions
          Prices,         \* the prices a subscription may have
          PlanOfPrice,    \* the configured prices, as a function to their plans
          Statuses,       \* the states of a subscription: active, past_due ...
          Workers,        \* the requests that may be in progress at once
          None            \* Python's None

Plans == {"free", "team", "business"}

ASSUME PricesAssumption ==
    /\ DOMAIN PlanOfPrice \subseteq Prices
    /\ \A p \in DOMAIN PlanOfPrice : PlanOfPrice[p] \in {"team", "business"}

ASSUME NoneAssumption ==
    None \notin Customers \cup Subscriptions \cup Statuses \cup Plans

ASSUME WorkersAssumption == IsFiniteSet(Workers) /\ Workers # {}

VARIABLES org,           \* the billing columns of the organizations row
          held,          \* history: the plans it has had
          subscription,  \* what Stripe knows of each subscription
          events,        \* the events that Stripe may deliver, any number of times
          request        \* what each worker has read, and for which call

billing == <<org, held, subscription, events>>

OrgOf == [plan : Plans, customer : Customers \cup {None},
          subscription : Subscriptions \cup {None}, status : Statuses \cup {None}]

NoSubscription == [customer |-> None]

SubscriptionOf == [customer : Customers, price : Prices, status : Statuses]

\* checkout.session.completed, customer.subscription.created or .updated, and
\* customer.subscription.deleted.
EventOf ==
    [type : {"completed"}, customer : Customers]
    \cup [type : {"subscription"}, id : Subscriptions, customer : Customers,
          price : Prices, status : Statuses]
    \cup [type : {"deleted"}, id : Subscriptions, customer : Customers]

Idle == [op |-> "none"]

CheckoutOf == [op : {"checkout"}, customer : Customers \cup {None}, price : Prices]

WebhookOf == [op : {"webhook"}, event : EventOf, row : OrgOf]

BillingTypeOK ==
    /\ org \in OrgOf
    /\ held \subseteq Plans /\ org.plan \in held
    /\ subscription \in [Subscriptions -> SubscriptionOf \cup {NoSubscription}]
    /\ events \subseteq EventOf

\* A new organization is on the free plan.
BillingInit ==
    /\ org = [plan |-> "free", customer |-> None, subscription |-> None, status |-> None]
    /\ held = {"free"}
    /\ subscription = [s \in Subscriptions |-> NoSubscription]
    /\ events = {}

Begin(w, r) == request[w] = Idle /\ request' = [request EXCEPT ![w] = r]

Close(w) == request' = [request EXCEPT ![w] = Idle]

----------------------------------------------------------------------------
(***************************************************************************)
(* Stripe.                                                                 *)
(***************************************************************************)
Snapshot(s, sub) ==
    [type |-> "subscription", id |-> s, customer |-> sub.customer,
     price |-> sub.price, status |-> sub.status]

Customer(s) == subscription[s].customer

\* Somebody pays: for the customer the checkout names, or else for a new one.
Subscribe(w) ==
    /\ request[w].op = "checkout"
    /\ \E s \in Subscriptions, c \in Customers, st \in Statuses :
           LET sub == [customer |-> c, price |-> request[w].price, status |-> st]
           IN  /\ subscription[s] = NoSubscription
               /\ IF request[w].customer # None THEN c = request[w].customer
                  ELSE \A x \in Subscriptions : Customer(x) # c
               /\ subscription' = [subscription EXCEPT ![s] = sub]
               /\ events' = events \cup
                      {[type |-> "completed", customer |-> c], Snapshot(s, sub)}
    /\ Close(w)
    /\ UNCHANGED <<org, held>>

Deleted(s) == [type |-> "deleted", id |-> s, customer |-> Customer(s)]

Running(s) == subscription[s] # NoSubscription /\ Deleted(s) \notin events

\* The portal, a renewal or a failed payment changes a subscription.
Change(s) ==
    /\ Running(s)
    /\ \E sub \in SubscriptionOf :
           /\ sub.customer = Customer(s) /\ sub # subscription[s]
           /\ subscription' = [subscription EXCEPT ![s] = sub]
           /\ events' = events \cup {Snapshot(s, sub)}
    /\ UNCHANGED <<org, held, request>>

\* A subscription that was cancelled ends.
EndSubscription(s) ==
    /\ Running(s)
    /\ events' = events \cup {Deleted(s)}
    /\ UNCHANGED <<org, held, subscription, request>>

----------------------------------------------------------------------------
(***************************************************************************)
(* BillingService.                                                         *)
(***************************************************************************)
\* start_checkout: the customer is read, and the browser sent to Stripe.
StartCheckout(w) ==
    /\ \E p \in DOMAIN PlanOfPrice :
           Begin(w, [op |-> "checkout", customer |-> org.customer, price |-> p])
    /\ UNCHANGED billing

\* The checkout page is left, or times out.
CancelCheckout(w) == request[w].op = "checkout" /\ Close(w) /\ UNCHANGED billing

\* A webhook about a customer the row does not name finds no organization and
\* is dropped: it is not begun.
LoadForWebhook(w) ==
    /\ \E e \in events :
           /\ e.type # "completed" => e.customer = org.customer
           /\ Begin(w, [op |-> "webhook", event |-> e, row |-> org])
    /\ UNCHANGED billing

\* _resolve_plan
ResolvePlan(price) == IF price \in DOMAIN PlanOfPrice THEN PlanOfPrice[price] ELSE "free"

\* Mutant: clear_subscription leaves the plan.
WrittenKeepingPlan(row, e) ==
    CASE e.type = "completed" -> [row EXCEPT !.customer = e.customer]
      [] e.type = "subscription" ->
             [row EXCEPT !.subscription = e.id, !.status = e.status,
                         !.plan = ResolvePlan(e.price)]
      [] e.type = "deleted" -> [row EXCEPT !.subscription = None, !.status = None]

\* set_stripe_customer, apply_subscription and clear_subscription, on the row
\* as it was read.  The latter does not ask which subscription ended.
Written(row, e) ==
    CASE e.type = "completed" -> [row EXCEPT !.customer = e.customer]
      [] e.type = "subscription" ->
             [row EXCEPT !.subscription = e.id, !.status = e.status,
                         !.plan = ResolvePlan(e.price)]
      [] e.type = "deleted" ->
             [row EXCEPT !.subscription = None, !.status = None, !.plan = "free"]

\* The UPDATE of the columns in which new differs from the row that was read.
Updated(row, new) ==
    [c \in DOMAIN org |-> IF new[c] # row[c] THEN new[c] ELSE org[c]]

CommitWebhook(w) ==
    LET r == request[w]
    IN  /\ r.op = "webhook"
        /\ org' = Updated(r.row, Written(r.row, r.event))
        /\ held' = held \cup {org'.plan}
        /\ Close(w)
        /\ UNCHANGED <<subscription, events>>

BillingNext ==
    \/ \E w \in Workers :
           \/ StartCheckout(w) \/ CancelCheckout(w) \/ Subscribe(w)
           \/ LoadForWebhook(w) \/ CommitWebhook(w)
    \/ \E s \in Subscriptions : Change(s) \/ EndSubscription(s)

----------------------------------------------------------------------------
\* The row says what Stripe said, in one event, of one subscription, or that
\* there is none: it is not put together from two.
MirrorsStripe ==
    \/ org.subscription = None /\ org.status = None /\ org.plan = "free"
    \/ \E e \in events :
           /\ e.type = "subscription" /\ e.id = org.subscription
           /\ e.status = org.status /\ ResolvePlan(e.price) = org.plan

\* "Webhooks are the single source of truth for plan/subscription_status": late
\* and repeated ones too leave a row that Stripe has reported, as long as the
\* row that each of them read is still current when it writes.
FreshWebhooksMirror ==
    [][ /\ MirrorsStripe
        /\ \A w \in Workers :
               request[w].op = "webhook" /\ request'[w] = Idle => request[w].row = org
        => MirrorsStripe' ]_<<billing, request>>
=============================================================================
