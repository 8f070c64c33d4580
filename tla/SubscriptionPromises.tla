------------------------ MODULE SubscriptionPromises ------------------------
(* SubscriptionBilling seen through the promises of SubscriptionLifecycle.    *)
EXTENDS SubscriptionBilling

Promised == INSTANCE SubscriptionLifecycle WITH
    Subscriptions <- Ids,
    status        <- [s \in Ids |-> billed[s].status],
    excused       <- irregular

(* Requests, messages of the gateway in any order and any number, and nightly  *)
(* runs implement the lifecycle: a status moves only as the lifecycle says,    *)
(* ended subscriptions are not renewed, none disappears.  The exceptions are   *)
(* updates by hand and writes decided on an older status.                      *)
ImplementsSubscription == Promised!Spec
=============================================================================
