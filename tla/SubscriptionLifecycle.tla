------------------------ MODULE SubscriptionLifecycle ------------------------
(* What billing promises of one subscription: the life its status goes        *)
(* through, unless somebody overrides it.                                     *)
CONSTANT Subscriptions

VARIABLES
    status,     \* a subscription's status as clients see it
    excused     \* subscriptions whose status was set by hand or by a late write

vars == <<status, excused>>

Statuses == {"ACTIVE", "TRIAL", "PAST_DUE", "CANCELED", "EXPIRED", "SUSPENDED"}

Init ==
    /\ status = [s \in Subscriptions |-> "NONE"]
    /\ excused = {}

Move(s, from, to) ==
    /\ status[s] \in from
    /\ status' = [status EXCEPT ![s] = to]
    /\ UNCHANGED excused

Open(s) == Move(s, {"NONE"}, "ACTIVE") \/ Move(s, {"NONE"}, "TRIAL")

(* Paid, renewed, or the trial is over: what has ended does not come back. *)
Activate(s) == Move(s, {"TRIAL", "PAST_DUE"}, "ACTIVE")

FallBehind(s) == Move(s, {"ACTIVE", "TRIAL"}, "PAST_DUE")

Cancel(s) == Move(s, Statuses, "CANCELED")

Expire(s) == Move(s, Statuses, "EXPIRED")

(* Any status, but the subscription stays. *)
Override(s) ==
    /\ \E to \in Statuses : status' = [status EXCEPT ![s] = to]
    /\ excused' = excused \cup {s}

(* Writes are lost: nothing changes yet, but the next may surprise. *)
Interrupt ==
    /\ \E lost \in SUBSET Subscriptions : excused' = excused \cup lost
    /\ UNCHANGED status

Next ==
    \/ \E s \in Subscriptions :
         Open(s) \/ Activate(s) \/ FallBehind(s) \/ Cancel(s) \/ Expire(s) \/ Override(s)
    \/ Interrupt

Spec == Init /\ [][Next]_vars
=============================================================================
