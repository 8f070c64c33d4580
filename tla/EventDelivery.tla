--------------------------- MODULE EventDelivery ----------------------------
(* What the webhook tables promise of one event: every attempt is counted     *)
(* before it is made, every outcome follows an attempt that was made, and     *)
(* DELIVERED and FAILED are final.                                            *)
EXTENDS Naturals

CONSTANTS Events, Budgets

VARIABLES
    status,  \* the event's status as clients see it
    tries,   \* attempts counted since it was published or replayed
    sent     \* attempts made since then

vars == <<status, tries, sent>>

Init ==
    /\ status = [e \in Events |-> "ABSENT"]
    /\ tries = [e \in Events |-> 0]
    /\ sent = [e \in Events |-> 0]

Open(e) == status[e] \in {"PENDING", "RETRYING"}
Become(E, to) == status' = [e \in Events |-> IF e \in E THEN to ELSE status[e]]

(* One event for each subscription that matches. *)
Publish(E) ==
    /\ \A e \in E : status[e] = "ABSENT"
    /\ Become(E, "PENDING")
    /\ UNCHANGED <<tries, sent>>

Count(e) ==
    /\ Open(e)
    /\ \E m \in Budgets : tries[e] < m
    /\ Become({e}, "RETRYING")
    /\ tries' = [tries EXCEPT ![e] = @ + 1]
    /\ UNCHANGED sent

Send(e) ==
    /\ status[e] = "RETRYING"
    /\ sent[e] < tries[e]
    /\ sent' = [sent EXCEPT ![e] = @ + 1]
    /\ UNCHANGED <<status, tries>>

Deliver(e) ==
    /\ status[e] = "RETRYING"
    /\ sent[e] > 0
    /\ Become({e}, "DELIVERED")
    /\ UNCHANGED <<tries, sent>>

(* The budget is used up. *)
Bury(e) ==
    /\ Open(e)
    /\ \E m \in Budgets : tries[e] >= m
    /\ Become({e}, "DEAD_LETTER")
    /\ UNCHANGED <<tries, sent>>

(* Its subscription is inactive. *)
Fail(e) == Open(e) /\ Become({e}, "FAILED") /\ UNCHANGED <<tries, sent>>

Replay(e) ==
    /\ status[e] = "DEAD_LETTER"
    /\ Become({e}, "PENDING")
    /\ tries' = [tries EXCEPT ![e] = 0]
    /\ sent' = [sent EXCEPT ![e] = 0]

Remove(E) ==
    /\ Become(E, "ABSENT")
    /\ tries' = [e \in Events |-> IF e \in E THEN 0 ELSE tries[e]]
    /\ sent' = [e \in Events |-> IF e \in E THEN 0 ELSE sent[e]]

Next ==
    \/ \E E \in SUBSET Events : Publish(E) \/ Remove(E)
    \/ \E e \in Events : \/ Count(e) \/ Send(e) \/ Deliver(e) \/ Bury(e)
                         \/ Fail(e) \/ Replay(e)

Spec == Init /\ [][Next]_vars
=============================================================================
