--------------------------- MODULE WebhookDelivery ---------------------------
(***************************************************************************)
(* Outgoing webhooks (src/src/webhooks): subscriptions, the events         *)
(* published to them, and the handlers that deliver, retry, dead-letter    *)
(* and replay events.  A pass over the due events is started by            *)
(* POST /webhooks/process; nothing keeps two passes apart.                 *)
(*                                                                         *)
(* A label names the await a handler stands at; an action is the answer to *)
(* that await and the code that follows it, up to the next one.  So what a *)
(* handler is about to save is already in its local entity ctx[t].event.   *)
(***************************************************************************)
EXTENDS Integers, Sequences, FiniteSets

CONSTANTS
    Subscriptions,  \* subscription ids
    NoSubscription,
    Budgets,        \* what clients choose for maxRetries (the DTO allows 0 .. 10)
    BatchSize,      \* take: 100
    ReplayLimit,    \* limit of a replay request
    Passes,         \* requests that run processPendingEvents
    Replays,        \* requests that run replayDeadLetterEvents
    Edits,          \* requests that update or delete a subscription
    MaxEvents,      \* bound: rows of webhook_events ever created
    MaxFaults,      \* bound: database calls that fail
    MaxCrashes      \* bound: crashes of the server

Threads == Passes \cup Replays \cup Edits
Events == 1 .. MaxEvents    \* ids grow with createdAt (one publish: in any order)
Times == {"none", "later", "passed"}

ASSUME WebhookAssumption ==
    /\ IsFiniteSet(Subscriptions) /\ NoSubscription \notin Subscriptions
    /\ Budgets \subseteq Nat /\ Budgets # {}
    /\ BatchSize \in Nat \ {0} /\ ReplayLimit \in Nat \ {0}
    /\ Passes \cap Replays = {} /\ Passes \cap Edits = {} /\ Replays \cap Edits = {}
    /\ MaxEvents \in Nat /\ MaxFaults \in Nat /\ MaxCrashes \in Nat

WebhookEventStatus ==
    {"ABSENT", "PENDING", "DELIVERED", "FAILED", "RETRYING", "DEAD_LETTER"}
WebhookSubscriptionStatus == {"ACTIVE", "PAUSED"}

(* A row is there from its creation until it is deleted. *)
SubscriptionRow ==
    [row: {"never", "live", "deleted"}, isActive: BOOLEAN,
     status: WebhookSubscriptionStatus, maxRetries: Nat]
EventRow ==
    [status: WebhookEventStatus, subscriptionId: Subscriptions \cup {NoSubscription},
     attemptCount: Nat, nextRetryAt: Times]

NoRow == [row |-> "never", isActive |-> FALSE, status |-> "PAUSED", maxRetries |-> 0]
NoEvent ==
    [status |-> "ABSENT", subscriptionId |-> NoSubscription, attemptCount |-> 0,
     nextRetryAt |-> "none"]
NoContext ==
    [id |-> 0, event |-> NoEvent, sub |-> NoSubscription, subscription |-> NoRow,
     inTry |-> FALSE]

VARIABLES
    subscriptions,  \* rows of webhook_subscriptions
    events,         \* rows of webhook_events
    lastId,         \* the last event id given out
    received,       \* events the receiver accepted at least once
    sent,           \* requests sent for an event since it was published or replayed
    todo,           \* the entities a pass or a replay has listed and still has to walk
    pc,
    ctx,            \* a handler's entities, and whether it is in the try block
    faults, crashes

vars == <<subscriptions, events, lastId, received, sent, todo, pc, ctx, faults, crashes>>

Live(s) == s \in Subscriptions /\ subscriptions[s].row = "live"
Active(s) == Live(s) /\ subscriptions[s].isActive /\ subscriptions[s].status = "ACTIVE"

Init ==
    /\ subscriptions = [s \in Subscriptions |-> NoRow]
    /\ events = [e \in Events |-> NoEvent]
    /\ lastId = 0
    /\ received = {}
    /\ sent = [e \in Events |-> 0]
    /\ todo = [t \in Threads |-> <<>>]
    /\ pc = [t \in Threads |-> "idle"]
    /\ ctx = [t \in Threads |-> NoContext]
    /\ faults = 0
    /\ crashes = 0

Goto(t, label) == pc' = [pc EXCEPT ![t] = label]

-----------------------------------------------------------------------------
(* WebhookService: subscriptions and publication. *)

CreateSubscription(s) ==
    \E status \in WebhookSubscriptionStatus, m \in Budgets :
        /\ subscriptions[s].row = "never"
        /\ subscriptions' = [subscriptions EXCEPT ![s] =
             [row |-> "live", isActive |-> TRUE, status |-> status, maxRetries |-> m]]
        /\ UNCHANGED <<events, lastId, received, sent, todo, pc, ctx, faults, crashes>>

(* One new row for each subscription of the sequence q, in one save. *)
AddEvents(q) ==
    /\ lastId + Len(q) <= MaxEvents
    /\ lastId' = lastId + Len(q)
    /\ events' = [e \in Events |->
         IF e \in lastId + 1 .. lastId + Len(q)
         THEN [status |-> "PENDING", subscriptionId |-> q[e - lastId],
               attemptCount |-> 0, nextRetryAt |-> "none"]
         ELSE events[e]]
    /\ UNCHANGED <<subscriptions, received, sent, todo, pc, ctx, faults, crashes>>

Orders(S) == {q \in [1 .. Cardinality(S) -> S] : \A i, k \in DOMAIN q : q[i] = q[k] => i = k}

(* S are the active subscriptions whose event types and filters match. *)
PublishEvent ==
    \E S \in SUBSET {s \in Subscriptions : Active(s)} :
        S # {} /\ \E q \in Orders(S) : AddEvents(q)

TestSubscription(s) == Live(s) /\ AddEvents(<<s>>)

(* updateSubscription has read row s and changed its copy. *)
UpdateSubscription(t, s) ==
    \E active \in BOOLEAN, status \in WebhookSubscriptionStatus, m \in Budgets :
        /\ pc[t] = "idle"
        /\ Live(s)
        /\ Goto(t, "saveSubscription")
        /\ ctx' = [ctx EXCEPT ![t].sub = s, ![t].subscription =
             [row |-> "live", isActive |-> active, status |-> status, maxRetries |-> m]]
        /\ UNCHANGED <<subscriptions, events, lastId, received, sent, todo, faults, crashes>>

(* Repository.save of an entity with an id: an update, or an insert if the row is gone. *)
SaveSubscription(t) ==
    /\ pc[t] = "saveSubscription"
    /\ subscriptions' = [subscriptions EXCEPT ![ctx[t].sub] = ctx[t].subscription]
    /\ Goto(t, "idle")
    /\ ctx' = [ctx EXCEPT ![t] = NoContext]
    /\ UNCHANGED <<events, lastId, received, sent, todo, faults, crashes>>

DeleteSubscription(t, s) ==
    /\ pc[t] = "idle"
    /\ Live(s)
    /\ Goto(t, "remove")
    /\ ctx' = [ctx EXCEPT ![t].sub = s]
    /\ UNCHANGED <<subscriptions, events, lastId, received, sent, todo, faults, crashes>>

(* ON DELETE CASCADE takes the events along. *)
RemoveSubscription(t) ==
    /\ pc[t] = "remove"
    /\ subscriptions' = [subscriptions EXCEPT ![ctx[t].sub].row = "deleted"]
    /\ events' = [e \in Events |->
         IF events[e].subscriptionId = ctx[t].sub THEN NoEvent ELSE events[e]]
    /\ Goto(t, "idle")
    /\ ctx' = [ctx EXCEPT ![t] = NoContext]
    /\ UNCHANGED <<lastId, received, sent, todo, faults, crashes>>

-----------------------------------------------------------------------------
(* WebhookDeliveryService.processPendingEvents: one pass. *)

(* The first n rows of S: oldest first, newest first, or in any order (nextRetryAt). *)
Oldest(S, n) ==
    {q \in Orders({e \in S : Cardinality({f \in S : f < e}) < n}) :
        \A i, k \in DOMAIN q : i < k => q[i] < q[k]}
Newest(S, n) ==
    {q \in Orders({e \in S : Cardinality({f \in S : f > e}) < n}) :
        \A i, k \in DOMAIN q : i < k => q[i] > q[k]}
AnyOf(S, n) ==
    UNION {Orders(X) : X \in {Y \in SUBSET S :
        Cardinality(Y) = IF Cardinality(S) < n THEN Cardinality(S) ELSE n}}

WithStatus(status) == {e \in Events : events[e].status = status}
(* Mutant: any event whose time has passed. *)
ReadyForRetryAnyStatus == {e \in Events : events[e].nextRetryAt = "passed"}

ReadyForRetry == {e \in WithStatus("RETRYING") : events[e].nextRetryAt = "passed"}

Entities(q) == [i \in DOMAIN q |-> [id |-> q[i], event |-> events[q[i]]]]

ProcessPendingEvents(t) ==
    \E q \in AnyOf(ReadyForRetry, BatchSize) :
        /\ pc[t] = "idle"
        /\ todo' = [todo EXCEPT ![t] = Entities(q)]
        /\ Goto(t, "list")
        /\ UNCHANGED <<subscriptions, events, lastId, received, sent, ctx, faults, crashes>>

ListPending(t) ==
    \E q \in Oldest(WithStatus("PENDING"), BatchSize) :
        /\ pc[t] = "list"
        /\ todo' = [todo EXCEPT ![t] = @ \o Entities(q)]
        /\ Goto(t, "next")
        /\ UNCHANGED <<subscriptions, events, lastId, received, sent, ctx, faults, crashes>>

(* Mutant: the count goes down. *)
DecideCountingDown(e, s) ==
    [label |-> "saveAttempt", event |-> [e EXCEPT !.status = "RETRYING", !.attemptCount = @ - 1]]

(* Mutant: the last attempt is dead-lettered before it is made. *)
DecideDeadLetterEarly(e, s) ==
    IF ~Active(s)
    THEN [label |-> "saveFailed", event |-> [e EXCEPT !.status = "FAILED"]]
    ELSE [label |-> IF e.attemptCount >= subscriptions[s].maxRetries
                    THEN "saveDeadLetter" ELSE "saveAttempt",
          event |-> [e EXCEPT !.attemptCount = @ + 1,
              !.status = IF e.attemptCount + 1 >= subscriptions[s].maxRetries
                         THEN "DEAD_LETTER" ELSE "RETRYING"]]

(* What deliverEvent makes of the event once it has read its subscription. *)
Decide(e, s) ==
    IF ~Active(s)
    THEN [label |-> "saveFailed", event |-> [e EXCEPT !.status = "FAILED"]]
    ELSE IF e.attemptCount >= subscriptions[s].maxRetries
    THEN [label |-> "saveDeadLetter", event |-> [e EXCEPT !.status = "DEAD_LETTER"]]
    ELSE [label |-> "saveAttempt",
          event |-> [e EXCEPT !.status = "RETRYING", !.attemptCount = @ + 1]]

NextEvent(t) ==
    /\ pc[t] = "next"
    /\ todo[t] # <<>>
    /\ LET c == Head(todo[t])
           s == c.event.subscriptionId
           d == Decide(c.event, s)
       IN /\ Goto(t, d.label)
          /\ ctx' = [ctx EXCEPT ![t] = [id |-> c.id, event |-> d.event, sub |-> s,
                                        subscription |-> IF Live(s) THEN subscriptions[s] ELSE NoRow,
                                        inTry |-> FALSE]]
    /\ todo' = [todo EXCEPT ![t] = Tail(@)]
    /\ UNCHANGED <<subscriptions, events, lastId, received, sent, faults, crashes>>

FinishPass(t) ==
    /\ pc[t] = "next"
    /\ todo[t] = <<>>
    /\ Goto(t, "idle")
    /\ UNCHANGED <<subscriptions, events, lastId, received, sent, todo, ctx, faults, crashes>>

-----------------------------------------------------------------------------
(* WebhookDeliveryService.deliverEvent, after its first read. *)

(* The pass goes on with its next event. *)
Leave(t) == Goto(t, "next") /\ ctx' = [ctx EXCEPT ![t] = NoContext]

(* The await rejects: into the catch clause of deliverEvent, or out of it. *)
Throw(t) ==
    IF ctx[t].inTry
    THEN Goto(t, "saveFailure") /\ ctx' = [ctx EXCEPT ![t].inTry = FALSE]
    ELSE Leave(t)

(* Repository.save of the event: an update, an insert if the row is gone, and a *)
(* violated foreign key if its subscription is gone too.                        *)
SaveEvent(t) ==
    IF Live(ctx[t].sub) THEN events' = [events EXCEPT ![ctx[t].id] = ctx[t].event]
                        ELSE UNCHANGED events

Save(t, from, to) ==
    /\ pc[t] = from
    /\ SaveEvent(t)
    /\ IF ~Live(ctx[t].sub) THEN Throw(t)
       ELSE IF to = "next" THEN Leave(t)
       ELSE Goto(t, to) /\ ctx' = [ctx EXCEPT ![t].inTry = @ \/ to = "send"]
    /\ UNCHANGED <<subscriptions, lastId, received, sent, todo, faults, crashes>>

(* Mutants: a save left out. *)
SaveAttemptForgotten(t) ==
    /\ pc[t] = "saveAttempt"
    /\ Goto(t, "send")
    /\ ctx' = [ctx EXCEPT ![t].inTry = TRUE]
    /\ UNCHANGED <<subscriptions, events, lastId, received, sent, todo, faults, crashes>>
SaveDeadLetterForgotten(t) ==
    /\ pc[t] = "saveDeadLetter"
    /\ Goto(t, "audit")
    /\ UNCHANGED <<subscriptions, events, lastId, received, sent, todo, ctx, faults, crashes>>

SaveAttempt(t)    == Save(t, "saveAttempt", "send")
SaveDelivered(t)  == Save(t, "saveDelivered", "recordSuccess")
SaveFailure(t)    == Save(t, "saveFailure", "recordFailure")
SaveRetry(t)      == Save(t, "saveRetry", "next")
SaveDeadLetter(t) == Save(t, "saveDeadLetter", "audit")
SaveFailed(t)     == Save(t, "saveFailed", "next")

(* Mutant: no time for the next attempt. *)
ScheduleRetryUntimed(t) ==
    IF ctx[t].event.attemptCount >= ctx[t].subscription.maxRetries
    THEN /\ Goto(t, "saveDeadLetter")
         /\ ctx' = [ctx EXCEPT ![t].event.status = "DEAD_LETTER"]
    ELSE Goto(t, "saveRetry") /\ ctx' = [ctx EXCEPT ![t].event.status = "RETRYING"]

(* scheduleRetry, as far as its save: another attempt, or the dead letters. *)
ScheduleRetry(t) ==
    IF ctx[t].event.attemptCount >= ctx[t].subscription.maxRetries
    THEN /\ Goto(t, "saveDeadLetter")
         /\ ctx' = [ctx EXCEPT ![t].event.status = "DEAD_LETTER"]
    ELSE /\ Goto(t, "saveRetry")
         /\ ctx' = [ctx EXCEPT ![t].event.status = "RETRYING",
                               ![t].event.nextRetryAt = "later"]

(* Mutant: any answer counts as a delivery. *)
SendHttpRequestUnchecked(t) ==
    /\ pc[t] = "send"
    /\ sent' = [sent EXCEPT ![ctx[t].id] = @ + 1]
    /\ \E accepted \in BOOLEAN :
         received' = IF accepted THEN received \cup {ctx[t].id} ELSE received
    /\ Goto(t, "saveDelivered")
    /\ ctx' = [ctx EXCEPT ![t].event.status = "DELIVERED"]
    /\ UNCHANGED <<subscriptions, events, lastId, todo, faults, crashes>>

(* sendHttpRequest: it never throws.  An answer that is an error, or that does  *)
(* not come in time, does not mean that the receiver did not accept the event.  *)
SendHttpRequest(t) ==
    /\ pc[t] = "send"
    /\ sent' = [sent EXCEPT ![ctx[t].id] = @ + 1]
    /\ \E accepted, success \in BOOLEAN :
         /\ success => accepted
         /\ received' = IF accepted THEN received \cup {ctx[t].id} ELSE received
         /\ \/ /\ success
               /\ Goto(t, "saveDelivered")
               /\ ctx' = [ctx EXCEPT ![t].event.status = "DELIVERED"]
            \/ ~success /\ ScheduleRetry(t)
    /\ UNCHANGED <<subscriptions, events, lastId, todo, faults, crashes>>

(* recordSuccess also sets the subscription's status. *)
RecordSuccess(t) ==
    /\ pc[t] = "recordSuccess"
    /\ subscriptions' = IF Live(ctx[t].sub)
                        THEN [subscriptions EXCEPT ![ctx[t].sub].status = "ACTIVE"]
                        ELSE subscriptions
    /\ Goto(t, "audit")
    /\ UNCHANGED <<events, lastId, received, sent, todo, ctx, faults, crashes>>

CreateAuditLog(t) ==
    /\ pc[t] = "audit"
    /\ Leave(t)
    /\ UNCHANGED <<subscriptions, events, lastId, received, sent, todo, faults, crashes>>

(* handleDeliveryFailure counts the failure and goes on as scheduleRetry does. *)
RecordFailure(t) ==
    /\ pc[t] = "recordFailure"
    /\ ScheduleRetry(t)
    /\ UNCHANGED <<subscriptions, events, lastId, received, sent, todo, faults, crashes>>

-----------------------------------------------------------------------------
(* WebhookDeliveryService.replayDeadLetterEvents. *)

ReplayDeadLetterEvents(t, s) ==
    \E q \in Newest({e \in WithStatus("DEAD_LETTER") : events[e].subscriptionId = s}, ReplayLimit) :
        /\ pc[t] = "idle"
        /\ q # <<>>
        /\ todo' = [todo EXCEPT ![t] = Entities(q)]
        /\ Goto(t, "replay")
        /\ UNCHANGED <<subscriptions, events, lastId, received, sent, ctx, faults, crashes>>

(* Mutant: the count is not reset. *)
ReplayEventKeepingCount(t) ==
    LET c == Head(todo[t]) IN
    /\ pc[t] = "replay"
    /\ events' = [events EXCEPT ![c.id] = [c.event EXCEPT !.status = "PENDING"]]
    /\ sent' = [sent EXCEPT ![c.id] = 0]
    /\ todo' = [todo EXCEPT ![t] = Tail(@)]
    /\ Goto(t, IF todo'[t] = <<>> THEN "idle" ELSE "replay")
    /\ UNCHANGED <<subscriptions, lastId, received, ctx, faults, crashes>>

(* The save of the reset entity; a violated foreign key ends the request. *)
ReplayEvent(t) ==
    LET c == Head(todo[t]) IN
    /\ pc[t] = "replay"
    /\ todo[t] # <<>>
    /\ IF Live(c.event.subscriptionId)
       THEN /\ events' = [events EXCEPT ![c.id] =
                 [c.event EXCEPT !.status = "PENDING", !.attemptCount = 0,
                                 !.nextRetryAt = "none"]]
            /\ sent' = [sent EXCEPT ![c.id] = 0]
            /\ todo' = [todo EXCEPT ![t] = Tail(@)]
       ELSE /\ todo' = [todo EXCEPT ![t] = <<>>]
            /\ UNCHANGED <<events, sent>>
    /\ Goto(t, IF todo'[t] = <<>> THEN "idle" ELSE "replay")
    /\ UNCHANGED <<subscriptions, lastId, received, ctx, faults, crashes>>

-----------------------------------------------------------------------------
(* The environment. *)

TimePasses(e) ==
    /\ events[e].nextRetryAt = "later"
    /\ events' = [events EXCEPT ![e].nextRetryAt = "passed"]
    /\ UNCHANGED <<subscriptions, lastId, received, sent, todo, pc, ctx, faults, crashes>>

(* The await a handler stands at rejects and nothing is written.  A pass that *)
(* is reading an event's subscription goes on with the next event.            *)
DatabaseFault(t) ==
    /\ pc[t] \notin {"idle", "send"} /\ (pc[t] = "next" => todo[t] # <<>>)
    /\ faults < MaxFaults
    /\ faults' = faults + 1
    /\ IF pc[t] \in {"list", "replay", "saveSubscription", "remove"}
       THEN /\ Goto(t, "idle")
            /\ ctx' = [ctx EXCEPT ![t] = NoContext]
            /\ todo' = [todo EXCEPT ![t] = <<>>]
       ELSE /\ Throw(t)
            /\ todo' = IF pc[t] = "next" THEN [todo EXCEPT ![t] = Tail(@)] ELSE todo
    /\ UNCHANGED <<subscriptions, events, lastId, received, sent, crashes>>

Crash ==
    /\ crashes < MaxCrashes
    /\ crashes' = crashes + 1
    /\ todo' = [t \in Threads |-> <<>>]
    /\ pc' = [t \in Threads |-> "idle"]
    /\ ctx' = [t \in Threads |-> NoContext]
    /\ UNCHANGED <<subscriptions, events, lastId, received, sent, faults>>

-----------------------------------------------------------------------------
DeliveryStep(t) ==
    \/ SaveAttempt(t) \/ SendHttpRequest(t) \/ SaveDelivered(t) \/ RecordSuccess(t)
    \/ CreateAuditLog(t) \/ SaveFailure(t) \/ RecordFailure(t) \/ SaveRetry(t)
    \/ SaveDeadLetter(t) \/ SaveFailed(t)

PassStep(t) == ListPending(t) \/ NextEvent(t) \/ FinishPass(t) \/ DeliveryStep(t)

EditStep(t) == SaveSubscription(t) \/ RemoveSubscription(t)

Next ==
    \/ \E s \in Subscriptions : CreateSubscription(s) \/ TestSubscription(s)
    \/ PublishEvent
    \/ \E t \in Edits : \/ EditStep(t)
                        \/ \E s \in Subscriptions : UpdateSubscription(t, s) \/ DeleteSubscription(t, s)
    \/ \E t \in Passes : ProcessPendingEvents(t) \/ PassStep(t)
    \/ \E t \in Replays : \/ ReplayEvent(t)
                          \/ \E s \in Subscriptions : ReplayDeadLetterEvents(t, s)
    \/ \E e \in Events : TimePasses(e)
    \/ \E t \in Threads : DatabaseFault(t)
    \/ Crash

Spec == Init /\ [][Next]_vars

(* "This should be called by a background job/scheduler": passes keep being     *)
(* started, and a handler that was started runs to its end.  Nothing obliges a  *)
(* client to publish, edit or replay, or a receiver to accept.                  *)
FairSpec ==
    /\ Spec
    /\ \A t \in Passes : WF_vars(ProcessPendingEvents(t)) /\ WF_vars(PassStep(t))
    /\ \A t \in Replays : WF_vars(ReplayEvent(t))
    /\ \A t \in Edits : WF_vars(EditStep(t))
    /\ \A e \in Events : WF_vars(TimePasses(e))

-----------------------------------------------------------------------------
(* Properties. *)

Entity == [id : Events, event : EventRow]
Labels ==
    {"idle", "list", "next", "saveAttempt", "send", "saveDelivered", "recordSuccess",
     "audit", "saveFailure", "recordFailure", "saveRetry", "saveDeadLetter", "saveFailed",
     "replay", "saveSubscription", "remove"}

(* The tables and the handlers' local entities keep the shape of their columns. *)
TypeOK ==
    /\ subscriptions \in [Subscriptions -> SubscriptionRow]
    /\ events \in [Events -> EventRow]
    /\ lastId \in 0 .. MaxEvents
    /\ received \subseteq Events
    /\ sent \in [Events -> Nat]
    /\ todo \in [Threads -> Seq(Entity)]
    /\ pc \in [Threads -> Labels]
    /\ ctx \in [Threads -> [id : Events \cup {0}, event : EventRow,
                           sub : Subscriptions \cup {NoSubscription},
                           subscription : SubscriptionRow, inTry : BOOLEAN]]
    /\ faults \in 0 .. MaxFaults
    /\ crashes \in 0 .. MaxCrashes

Exists(e) == events[e].status # "ABSENT"

(* An attempt is counted in the table before its request leaves (deliverEvent    *)
(* saves attemptCount, then calls sendHttpRequest), and counted against a budget *)
(* its subscription had: whatever fails or crashes, the receiver is never sent   *)
(* more requests than the row shows, nor more than maxRetries.                   *)
AttemptsWithinBudget ==
    \A e \in Events : Exists(e) =>
        \E m \in Budgets : sent[e] <= events[e].attemptCount /\ events[e].attemptCount <= m

(* An event the table shows as DELIVERED was accepted by the receiver, however   *)
(* many passes, replays, stale saves, failures and crashes there were.           *)
DeliveredWasReceived ==
    \A e \in Events : events[e].status = "DELIVERED" => e \in received

(* Nothing but a replay takes an event back to PENDING, from the dead letters  *)
(* only, and never while a pass is between an attempt of it and the outcome:   *)
(* the entities a replay saves were read earlier, yet are not stale.           *)
Held == {"saveAttempt", "send", "saveDelivered", "saveRetry"}
ReplaysReviveSettledEvents ==
    [][\A e \in Events : Exists(e) /\ events[e].status # "PENDING" /\ events'[e].status = "PENDING" =>
         /\ events[e].status = "DEAD_LETTER"
         /\ \A t \in Passes : ctx[t].id = e => pc[t] \notin Held]_vars

(* Only a failed database call (in recordSuccess or the audit log, which the    *)
(* catch clause of deliverEvent takes for a failed delivery) makes a delivered  *)
(* event undelivered.                                                           *)
DeliveredIsFinal ==
    [][faults' = 0 =>
        \A e \in Events : events[e].status = "DELIVERED" =>
            events'[e].status \in {"DELIVERED", "ABSENT"}]_vars

(* Every event a pass can list gets its first attempt, or is put aside.         *)
EventsLeavePending ==
    \A e \in Events : events[e].status = "PENDING" ~> events[e].status # "PENDING"

(* An event that is being retried ends up delivered, failed or dead-lettered.   *)
RetriesEnd ==
    \A e \in Events : events[e].status = "RETRYING" ~> events[e].status # "RETRYING"
=============================================================================
