------------------------ MODULE MCSubscriptionBilling -----------------------
(* Small instances of SubscriptionBilling for TLC. *)
EXTENDS SubscriptionPromises

CONSTANTS n1, n2, q1, q2, g1, g2, j1

(* What clients ask for: an ordinary subscription, a trial; a status by hand. *)
Ordinary == {[status |-> "ACTIVE"], [status |-> "TRIAL"]}
ByHand == {[status |-> "PAST_DUE"]}
=============================================================================
