--------------------------- MODULE WebhookPromises --------------------------
(* WebhookDelivery seen through the promises of EventDelivery.               *)
EXTENDS WebhookDelivery

ShownSent == [e \in Events |-> IF Exists(e) THEN sent[e] ELSE 0]

Promise == INSTANCE EventDelivery WITH
    status <- [e \in Events |-> events[e].status],
    tries  <- [e \in Events |-> events[e].attemptCount],
    sent   <- ShownSent

(* While one pass runs at a time and no database call fails, the tables         *)
(* implement EventDelivery, crashes of the server included.                     *)
ImplementsDelivery == Promise!Spec
=============================================================================
