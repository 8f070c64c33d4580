------------------------ MODULE WebhookDeliveryProofs -----------------------
(* Theorems about WebhookDelivery for any subscriptions, passes, replays,    *)
(* edits, budgets and bounds; then those that hold for one pass and one      *)
(* replay at a time; then, with one editor too, that the tables implement    *)
(* EventDelivery.                                                            *)
EXTENDS WebhookPromises, FiniteSetTheorems, TLAPS

(* A copy of an event that shows it as DELIVERED tells the truth. *)
Truthful(e, id) == e.status = "DELIVERED" => id \in received

(* A handler that sends, or is about to, holds an event. *)
Sending == {"saveAttempt", "send"}

(* DeliveredWasReceived of every copy: in the table, about to be saved, listed. *)
DeliveryInvariant ==
    /\ DeliveredWasReceived
    /\ \A t \in Threads : pc[t] \in Sending => ctx[t].id \in Events
    /\ \A t \in Threads : Truthful(ctx[t].event, ctx[t].id)
    /\ \A t \in Threads : \A i \in 1 .. Len(todo[t]) : Truthful(todo[t][i].event, todo[t][i].id)

Context == [id : Events \cup {0}, event : EventRow, sub : Subscriptions \cup {NoSubscription},
            subscription : SubscriptionRow, inTry : BOOLEAN]

-----------------------------------------------------------------------------
(* Lists of events. *)

LEMMA NullRows == NoRow \in SubscriptionRow /\ NoEvent \in EventRow /\ NoContext \in Context
BY DEF NoRow, NoEvent, NoContext, SubscriptionRow, EventRow, Context, WebhookEventStatus,
       WebhookSubscriptionStatus, Times

LEMMA OrdersAreSequences ==
    ASSUME NEW A, IsFiniteSet(A), NEW S \in SUBSET A, NEW q \in Orders(S)
    PROVE  /\ Cardinality(S) \in Nat
           /\ q \in [1 .. Cardinality(S) -> S]
           /\ q \in Seq(A) /\ Len(q) = Cardinality(S)
<1>1. Cardinality(S) \in Nat
  BY FS_Subset, FS_CardinalityType
<1>2. q \in [1 .. Cardinality(S) -> S]
  BY DEF Orders
<1>3. q \in [1 .. Cardinality(S) -> A]
  BY <1>2
<1> QED
  BY <1>1, <1>2, <1>3

(* The entities of listed rows are true copies of them. *)
LEMMA EntitiesOfRows ==
    ASSUME NEW S \in SUBSET Events, NEW q \in Orders(S), TypeOK, DeliveryInvariant
    PROVE  /\ Entities(q) \in Seq(Entity)
           /\ \A i \in 1 .. Len(Entities(q)) :
                Truthful(Entities(q)[i].event, Entities(q)[i].id)
<1>1. IsFiniteSet(Events)
  BY WebhookAssumption, FS_Interval DEF Events
<1>2. Cardinality(S) \in Nat /\ q \in [1 .. Cardinality(S) -> S]
  BY <1>1, OrdersAreSequences
<1>3. \A i \in 1 .. Cardinality(S) : q[i] \in Events /\ events[q[i]] \in EventRow
  BY <1>2 DEF TypeOK
<1>4. Entities(q) \in [1 .. Cardinality(S) -> Entity]
  BY <1>2, <1>3 DEF Entities, Entity
<1>5. Entities(q) \in Seq(Entity) /\ Len(Entities(q)) = Cardinality(S)
  BY <1>2, <1>4
<1>6. \A i \in 1 .. Cardinality(S) :
        Entities(q)[i].event = events[q[i]] /\ Entities(q)[i].id = q[i]
  BY <1>2 DEF Entities
<1> QED
  BY <1>3, <1>5, <1>6 DEF DeliveryInvariant, DeliveredWasReceived, Truthful

LEMMA ListedRows ==
    ASSUME NEW S \in SUBSET Events, NEW n \in Nat,
           NEW q \in Oldest(S, n) \cup Newest(S, n) \cup AnyOf(S, n)
    PROVE  \E T \in SUBSET Events : q \in Orders(T)
<1>1. CASE q \in Oldest(S, n)
  BY <1>1 DEF Oldest
<1>2. CASE q \in Newest(S, n)
  BY <1>2 DEF Newest
<1>3. CASE q \in AnyOf(S, n)
  BY <1>3 DEF AnyOf
<1> QED
  BY <1>1, <1>2, <1>3

-----------------------------------------------------------------------------
(* Steps: each keeps the type invariant and the truth of every copy. *)

Keeps == TypeOK' /\ DeliveryInvariant'

(* A step of handler t: what it has to show of the values it gives its variables. *)
LEMMA HandlerStep ==
    ASSUME TypeOK, DeliveryInvariant, NEW t \in Threads, NEW l \in Labels, NEW c \in Context,
           NEW q \in Seq(Entity),
           received \subseteq received', received' \subseteq Events,
           c.event.status = "DELIVERED" => c.id \in received', l \in Sending => c.id \in Events,
           \A i \in 1 .. Len(q) : Truthful(q[i].event, q[i].id),
           pc' = [pc EXCEPT ![t] = l], ctx' = [ctx EXCEPT ![t] = c],
           todo' = [todo EXCEPT ![t] = q],
           events' \in [Events -> EventRow],
           \A e \in Events : Truthful(events'[e], e) \/ events'[e] = events[e],
           subscriptions' \in [Subscriptions -> SubscriptionRow],
           sent' \in [Events -> Nat], faults' \in 0 .. MaxFaults,
           UNCHANGED <<lastId, crashes>>
    PROVE  Keeps
<1>1. TypeOK'
  BY DEF TypeOK, Context
<1>2. DeliveredWasReceived'
  BY DEF DeliveryInvariant, DeliveredWasReceived, Truthful
<1>3. \A u \in Threads : Truthful(ctx[u].event, ctx[u].id)'
  BY DEF DeliveryInvariant, Truthful, TypeOK
<1>4. \A u \in Threads : \A i \in 1 .. Len(todo'[u]) :
        Truthful(todo[u][i].event, todo[u][i].id)'
  BY DEF DeliveryInvariant, Truthful, TypeOK
<1>5. \A u \in Threads : pc'[u] \in Sending => ctx'[u].id \in Events
  BY DEF DeliveryInvariant, TypeOK
<1> QED
  BY <1>1, <1>2, <1>3, <1>4, <1>5 DEF Keeps, DeliveryInvariant

(* A step of handler t that changes only its local variables. *)
LEMMA LocalStep ==
    ASSUME TypeOK, DeliveryInvariant, NEW t \in Threads, NEW l \in Labels, NEW c \in Context,
           NEW q \in Seq(Entity),
           Truthful(c.event, c.id), l \in Sending => c.id \in Events,
           \A i \in 1 .. Len(q) : Truthful(q[i].event, q[i].id),
           pc' = [pc EXCEPT ![t] = l], ctx' = [ctx EXCEPT ![t] = c],
           todo' = [todo EXCEPT ![t] = q],
           faults' \in 0 .. MaxFaults,
           UNCHANGED <<subscriptions, events, lastId, received, sent, crashes>>
    PROVE  Keeps
BY HandlerStep DEF TypeOK, Truthful

(* What a handler's variables are. *)
LEMMA Locals ==
    ASSUME TypeOK, DeliveryInvariant, NEW t \in Threads
    PROVE  /\ ctx[t] \in Context /\ ctx[t].event \in EventRow
           /\ todo[t] \in Seq(Entity) /\ pc[t] \in Labels
           /\ ctx = [ctx EXCEPT ![t] = ctx[t]]
           /\ todo = [todo EXCEPT ![t] = todo[t]]
           /\ pc = [pc EXCEPT ![t] = pc[t]]
           /\ Truthful(ctx[t].event, ctx[t].id)
           /\ \A i \in 1 .. Len(todo[t]) : Truthful(todo[t][i].event, todo[t][i].id)
           /\ faults \in 0 .. MaxFaults
BY DEF TypeOK, Context, DeliveryInvariant

LEMMA NoContextTruthful == Truthful(NoContext.event, NoContext.id)
BY DEF NoContext, NoEvent, Truthful

(* The rest of a list is a list of true copies, and so is the empty list. *)
LEMMA Rest ==
    ASSUME NEW q \in Seq(Entity), \A i \in 1 .. Len(q) : Truthful(q[i].event, q[i].id)
    PROVE  /\ q # <<>> => /\ Tail(q) \in Seq(Entity)
                         /\ \A i \in 1 .. Len(Tail(q)) : Truthful(Tail(q)[i].event, Tail(q)[i].id)
                         /\ Head(q) \in Entity /\ Truthful(Head(q).event, Head(q).id)
           /\ <<>> \in Seq(Entity)
           /\ \A i \in 1 .. Len(<<>>) : Truthful(<<>>[i].event, <<>>[i].id)
<1>1. ASSUME q # <<>>
      PROVE  /\ Tail(q) \in Seq(Entity) /\ Len(Tail(q)) = Len(q) - 1 /\ Len(q) \in Nat
             /\ \A i \in 1 .. Len(Tail(q)) : Tail(q)[i] = q[i + 1]
             /\ Head(q) = q[1] /\ 1 \in 1 .. Len(q) /\ Head(q) \in Entity
  BY <1>1
<1>2. ASSUME q # <<>>, NEW i \in 1 .. Len(Tail(q))
      PROVE  Truthful(Tail(q)[i].event, Tail(q)[i].id)
  <2>1. i + 1 \in 1 .. Len(q) /\ Tail(q)[i] = q[i + 1]
    BY <1>1, <1>2
  <2> QED
    BY <2>1
<1>3. q # <<>> => Truthful(Head(q).event, Head(q).id)
  <2> SUFFICES ASSUME q # <<>> PROVE Truthful(Head(q).event, Head(q).id)
    OBVIOUS
  <2>1. 1 \in 1 .. Len(q) /\ Head(q) = q[1]
    BY <1>1
  <2> QED
    BY <2>1
<1>4. <<>> \in Seq(Entity) /\ Len(<<>>) = 0
  OBVIOUS
<1> QED
  BY <1>1, <1>2, <1>3, <1>4

-----------------------------------------------------------------------------
(* WebhookService. *)

LEMMA AddEventsStep ==
    ASSUME TypeOK, DeliveryInvariant, NEW q \in Seq(Subscriptions), AddEvents(q)
    PROVE  Keeps
<1>1. /\ Len(q) \in Nat /\ lastId \in Nat /\ MaxEvents \in Nat
      /\ \A e \in Events : e \in lastId + 1 .. lastId + Len(q) => q[e - lastId] \in Subscriptions
  BY WebhookAssumption DEF TypeOK, Events
<1>2. events' \in [Events -> EventRow]
  BY <1>1 DEF AddEvents, TypeOK, EventRow, WebhookEventStatus, Times
<1>3. \A e \in Events : events'[e].status = "DELIVERED" => events'[e] = events[e]
  BY DEF AddEvents
<1>4. lastId' \in 0 .. MaxEvents
  BY <1>1 DEF AddEvents
<1>5. TypeOK'
  BY <1>2, <1>4 DEF AddEvents, TypeOK
<1>6. DeliveryInvariant'
  BY <1>3 DEF AddEvents, DeliveryInvariant, DeliveredWasReceived, Truthful
<1> QED
  BY <1>5, <1>6 DEF Keeps

LEMMA ServiceStep ==
    ASSUME TypeOK, DeliveryInvariant,
           \/ PublishEvent
           \/ \E s \in Subscriptions : CreateSubscription(s) \/ TestSubscription(s)
    PROVE  Keeps
<1>1. CASE PublishEvent
  <2>0. PICK S \in SUBSET Subscriptions : \E q \in Orders(S) : AddEvents(q)
    BY <1>1 DEF PublishEvent
  <2>1. PICK q \in Orders(S) : AddEvents(q)
    BY <2>0
  <2>2. q \in Seq(Subscriptions)
    BY OrdersAreSequences, WebhookAssumption
  <2> QED
    BY <2>1, <2>2, AddEventsStep
<1>2. ASSUME NEW s \in Subscriptions, CreateSubscription(s) PROVE Keeps
  <2>1. PICK status \in WebhookSubscriptionStatus, m \in Budgets :
          subscriptions' = [subscriptions EXCEPT ![s] =
            [row |-> "live", isActive |-> TRUE, status |-> status, maxRetries |-> m]]
    BY <1>2 DEF CreateSubscription
  <2>2. UNCHANGED <<events, lastId, received, sent, todo, pc, ctx, faults, crashes>>
    BY <1>2 DEF CreateSubscription
  <2>3. subscriptions' \in [Subscriptions -> SubscriptionRow]
    BY <2>1, WebhookAssumption DEF TypeOK, SubscriptionRow
  <2>4. TypeOK'
    BY <2>2, <2>3 DEF TypeOK
  <2>5. DeliveryInvariant'
    BY <2>2 DEF DeliveryInvariant, DeliveredWasReceived, Truthful
  <2> QED
    BY <2>4, <2>5 DEF Keeps
<1>3. ASSUME NEW s \in Subscriptions, TestSubscription(s) PROVE Keeps
  <2>1. AddEvents(<<s>>)
    BY <1>3 DEF TestSubscription
  <2>2. <<s>> \in Seq(Subscriptions)
    OBVIOUS
  <2> QED
    BY <2>1, <2>2, AddEventsStep
<1> QED
  BY <1>1, <1>2, <1>3

LEMMA EditorStep ==
    ASSUME TypeOK, DeliveryInvariant, NEW t \in Edits,
           \/ EditStep(t)
           \/ \E s \in Subscriptions : UpdateSubscription(t, s) \/ DeleteSubscription(t, s)
    PROVE  Keeps
<1> t \in Threads
  BY DEF Threads
<1>0. /\ ctx[t] \in Context /\ todo[t] \in Seq(Entity)
      /\ todo = [todo EXCEPT ![t] = todo[t]]
      /\ Truthful(ctx[t].event, ctx[t].id)
      /\ \A i \in 1 .. Len(todo[t]) : Truthful(todo[t][i].event, todo[t][i].id)
      /\ faults \in 0 .. MaxFaults
  BY Locals
<1>1. ASSUME NEW s \in Subscriptions, UpdateSubscription(t, s) PROVE Keeps
  <2>1. PICK active \in BOOLEAN, status \in WebhookSubscriptionStatus, m \in Budgets :
          ctx' = [ctx EXCEPT ![t].sub = s, ![t].subscription =
             [row |-> "live", isActive |-> active, status |-> status, maxRetries |-> m]]
    BY <1>1 DEF UpdateSubscription
  <2> DEFINE c == [ctx[t] EXCEPT !.sub = s, !.subscription =
             [row |-> "live", isActive |-> active, status |-> status, maxRetries |-> m]]
  <2>2. c \in Context /\ Truthful(c.event, c.id)
    BY <1>0, WebhookAssumption DEF Context, SubscriptionRow, Truthful
  <2>3. ctx' = [ctx EXCEPT ![t] = c]
    BY <2>1 DEF TypeOK
  <2>4. /\ pc' = [pc EXCEPT ![t] = "saveSubscription"]
        /\ todo' = [todo EXCEPT ![t] = todo[t]]
        /\ UNCHANGED <<subscriptions, events, lastId, received, sent, faults, crashes>>
    BY <1>0, <1>1 DEF UpdateSubscription, Goto
  <2> HIDE DEF c
  <2> QED
    BY <1>0, <2>2, <2>3, <2>4, LocalStep DEF Labels, Sending
<1>2. ASSUME NEW s \in Subscriptions, DeleteSubscription(t, s) PROVE Keeps
  <2> DEFINE c == [ctx[t] EXCEPT !.sub = s]
  <2>2. c \in Context /\ Truthful(c.event, c.id)
    BY <1>0 DEF Context, Truthful
  <2>3. ctx' = [ctx EXCEPT ![t] = c]
    BY <1>2 DEF DeleteSubscription, TypeOK
  <2>4. /\ pc' = [pc EXCEPT ![t] = "remove"]
        /\ todo' = [todo EXCEPT ![t] = todo[t]]
        /\ UNCHANGED <<subscriptions, events, lastId, received, sent, faults, crashes>>
    BY <1>0, <1>2 DEF DeleteSubscription, Goto
  <2> HIDE DEF c
  <2> QED
    BY <1>0, <2>2, <2>3, <2>4, LocalStep DEF Labels, Sending
<1>3. CASE SaveSubscription(t)
  <2>1. /\ pc' = [pc EXCEPT ![t] = "idle"] /\ ctx' = [ctx EXCEPT ![t] = NoContext]
        /\ todo' = [todo EXCEPT ![t] = todo[t]]
        /\ UNCHANGED <<events, lastId, received, sent, faults, crashes>>
    BY <1>0, <1>3 DEF SaveSubscription, Goto
  <2>2. subscriptions' \in [Subscriptions -> SubscriptionRow]
    BY <1>0, <1>3 DEF SaveSubscription, TypeOK, Context
  <2> QED
    BY <1>0, <2>1, <2>2, HandlerStep, NullRows, NoContextTruthful DEF Labels, Sending, TypeOK, Truthful
<1>4. CASE RemoveSubscription(t)
  <2>1. /\ pc' = [pc EXCEPT ![t] = "idle"] /\ ctx' = [ctx EXCEPT ![t] = NoContext]
        /\ todo' = [todo EXCEPT ![t] = todo[t]]
        /\ UNCHANGED <<lastId, received, sent, faults, crashes>>
    BY <1>0, <1>4 DEF RemoveSubscription, Goto
  <2>2. subscriptions' \in [Subscriptions -> SubscriptionRow]
    BY <1>4 DEF RemoveSubscription, TypeOK, SubscriptionRow
  <2>3. /\ events' \in [Events -> EventRow]
        /\ \A e \in Events : Truthful(events'[e], e) \/ events'[e] = events[e]
    BY <1>4, NullRows DEF RemoveSubscription, TypeOK, NoEvent, Truthful
  <2> QED
    BY <1>0, <2>1, <2>2, <2>3, HandlerStep, NullRows, NoContextTruthful
       DEF Labels, Sending, TypeOK, Truthful
<1> QED
  BY <1>1, <1>2, <1>3, <1>4 DEF EditStep

-----------------------------------------------------------------------------
(* WebhookDeliveryService. *)

(* A handler goes to label l with the entities c, of which it knows the truth. *)
Moves(t, l, c) ==
    /\ pc' = [pc EXCEPT ![t] = l] /\ ctx' = [ctx EXCEPT ![t] = c]
    /\ l \in Labels \ Sending /\ c \in Context /\ Truthful(c.event, c.id)

LEMMA LeaveMoves ==
    ASSUME NEW t \in Threads, Leave(t)
    PROVE  Moves(t, "next", NoContext)
BY NullRows, NoContextTruthful DEF Leave, Goto, Moves, Labels, Sending

LEMMA ThrowMoves ==
    ASSUME TypeOK, DeliveryInvariant, NEW t \in Threads, Throw(t)
    PROVE  \E l, c : Moves(t, l, c)
<1>1. CASE ~ctx[t].inTry
  BY <1>1, LeaveMoves DEF Throw
<1>2. CASE ctx[t].inTry
  <2> DEFINE c == [ctx[t] EXCEPT !.inTry = FALSE]
  <2>1. c \in Context /\ Truthful(c.event, c.id)
    BY Locals DEF Context, Truthful
  <2>2. ctx' = [ctx EXCEPT ![t] = c] /\ pc' = [pc EXCEPT ![t] = "saveFailure"]
    BY <1>2 DEF Throw, Goto, TypeOK
  <2> QED
    BY <2>1, <2>2 DEF Moves, Labels, Sending
<1> QED
  BY <1>1, <1>2

LEMMA ScheduleRetryMoves ==
    ASSUME TypeOK, DeliveryInvariant, NEW t \in Threads, ScheduleRetry(t)
    PROVE  \E l, c : Moves(t, l, c) /\ c.event.status # "DELIVERED"
<1> DEFINE dead == [ctx[t] EXCEPT !.event.status = "DEAD_LETTER"]
           retry == [ctx[t] EXCEPT !.event.status = "RETRYING", !.event.nextRetryAt = "later"]
<1>1. /\ dead \in Context /\ Truthful(dead.event, dead.id) /\ dead.event.status # "DELIVERED"
      /\ retry \in Context /\ Truthful(retry.event, retry.id) /\ retry.event.status # "DELIVERED"
  BY Locals DEF Context, EventRow, WebhookEventStatus, Times, Truthful
<1>2. \/ ctx' = [ctx EXCEPT ![t] = dead] /\ pc' = [pc EXCEPT ![t] = "saveDeadLetter"]
      \/ ctx' = [ctx EXCEPT ![t] = retry] /\ pc' = [pc EXCEPT ![t] = "saveRetry"]
  BY DEF ScheduleRetry, Goto, TypeOK
<1> QED
  BY <1>1, <1>2 DEF Moves, Labels, Sending

(* A step that moves a handler and changes nothing shared, or saves its entity. *)
LEMMA MovingStep ==
    ASSUME TypeOK, DeliveryInvariant, NEW t \in Threads, \E l, c : Moves(t, l, c),
           events' = events \/ SaveEvent(t),
           subscriptions' \in [Subscriptions -> SubscriptionRow],
           NEW q \in Seq(Entity), \A i \in 1 .. Len(q) : Truthful(q[i].event, q[i].id),
           todo' = [todo EXCEPT ![t] = q], faults' \in 0 .. MaxFaults,
           UNCHANGED <<lastId, received, sent, crashes>>
    PROVE  Keeps
<1>0. PICK l, c : Moves(t, l, c)
  OBVIOUS
<1>1. l \in Labels /\ l \notin Sending /\ c \in Context /\ Truthful(c.event, c.id)
  BY <1>0 DEF Moves
<1>2. /\ events' \in [Events -> EventRow]
      /\ \A e \in Events : Truthful(events'[e], e) \/ events'[e] = events[e]
  <2>1. /\ events \in [Events -> EventRow] /\ ctx[t].event \in EventRow
        /\ Truthful(ctx[t].event, ctx[t].id)
    BY Locals DEF TypeOK
  <2>2. events' = events \/ events' = [events EXCEPT ![ctx[t].id] = ctx[t].event]
    BY DEF SaveEvent
  <2> QED
    BY <2>1, <2>2
<1>3. pc' = [pc EXCEPT ![t] = l] /\ ctx' = [ctx EXCEPT ![t] = c]
  BY <1>0 DEF Moves
<1> QED
  BY <1>1, <1>2, <1>3, HandlerStep DEF TypeOK, Truthful

LEMMA SaveStep ==
    ASSUME TypeOK, DeliveryInvariant, NEW t \in Threads, NEW from \in Labels, NEW to \in Labels,
           to = "send" => from = "saveAttempt", to # "saveAttempt", Save(t, from, to)
    PROVE  Keeps
<1>0. /\ UNCHANGED <<subscriptions, lastId, received, sent, faults, crashes>>
      /\ todo' = [todo EXCEPT ![t] = todo[t]] /\ SaveEvent(t) /\ pc[t] = from
  BY Locals DEF Save
<1>1. CASE ~Live(ctx[t].sub) \/ to = "next"
  <2>1. \E l, c : Moves(t, l, c)
    BY <1>1, ThrowMoves, LeaveMoves DEF Save
  <2> QED
    BY <1>0, <2>1, Locals, MovingStep DEF TypeOK
<1>2. CASE Live(ctx[t].sub) /\ to # "next"
  <2> DEFINE c == [ctx[t] EXCEPT !.inTry = @ \/ to = "send"]
  <2>0. /\ ctx[t] \in Context /\ Truthful(ctx[t].event, ctx[t].id)
        /\ (ctx[t].inTry \/ to = "send") \in BOOLEAN
    BY Locals
  <2>1. c \in Context /\ Truthful(c.event, c.id) /\ c.id = ctx[t].id
    BY <2>0 DEF Context, Truthful
  <2>2. ctx' = [ctx EXCEPT ![t] = c] /\ pc' = [pc EXCEPT ![t] = to]
    BY <1>2 DEF Save, Goto, TypeOK
  <2>3. to \in Sending => c.id \in Events
    BY <1>0, <2>1 DEF DeliveryInvariant, Sending
  <2>4. /\ events' \in [Events -> EventRow]
        /\ \A e \in Events : Truthful(events'[e], e) \/ events'[e] = events[e]
    BY <1>0, Locals DEF SaveEvent, TypeOK, Truthful
  <2> HIDE DEF c
  <2>5. c.event.status = "DELIVERED" => c.id \in received'
    BY <1>0, <2>1 DEF Truthful
  <2> QED
    BY <1>0, <2>1, <2>2, <2>3, <2>4, <2>5, Locals, HandlerStep DEF TypeOK
<1> QED
  BY <1>1, <1>2

LEMMA SendStep ==
    ASSUME TypeOK, DeliveryInvariant, NEW t \in Threads, SendHttpRequest(t)
    PROVE  Keeps
<1>0. /\ ctx[t] \in Context /\ Truthful(ctx[t].event, ctx[t].id) /\ ctx[t].id \in Events
      /\ todo[t] \in Seq(Entity) /\ todo' = [todo EXCEPT ![t] = todo[t]]
      /\ \A i \in 1 .. Len(todo[t]) : Truthful(todo[t][i].event, todo[t][i].id)
      /\ UNCHANGED <<subscriptions, events, lastId, faults, crashes>>
  BY Locals DEF SendHttpRequest, DeliveryInvariant, Sending
<1>1. PICK accepted \in BOOLEAN, success \in BOOLEAN :
        /\ success => accepted
        /\ received' = IF accepted THEN received \cup {ctx[t].id} ELSE received
        /\ \/ /\ success
              /\ Goto(t, "saveDelivered")
              /\ ctx' = [ctx EXCEPT ![t].event.status = "DELIVERED"]
           \/ ~success /\ ScheduleRetry(t)
  BY DEF SendHttpRequest
<1>2. received \subseteq received' /\ received' \subseteq Events
  BY <1>0, <1>1 DEF TypeOK
<1>3. sent' \in [Events -> Nat]
  BY <1>0 DEF SendHttpRequest, TypeOK
<1>4. CASE success
  <2> DEFINE c == [ctx[t] EXCEPT !.event.status = "DELIVERED"]
  <2>1. c \in Context /\ c.id \in received'
    BY <1>0, <1>1, <1>4 DEF Context, EventRow, WebhookEventStatus
  <2>2. ctx' = [ctx EXCEPT ![t] = c] /\ pc' = [pc EXCEPT ![t] = "saveDelivered"]
    BY <1>1, <1>4 DEF Goto, TypeOK
  <2> HIDE DEF c
  <2> QED
    BY <1>0, <1>2, <1>3, <2>1, <2>2, HandlerStep DEF TypeOK, Labels, Sending
<1>5. CASE ~success
  <2>1. PICK l, c : Moves(t, l, c) /\ c.event.status # "DELIVERED"
    BY <1>1, <1>5, ScheduleRetryMoves
  <2>2. /\ l \in Labels /\ l \notin Sending /\ c \in Context
        /\ pc' = [pc EXCEPT ![t] = l] /\ ctx' = [ctx EXCEPT ![t] = c]
    BY <2>1 DEF Moves
  <2> QED
    BY <1>0, <1>2, <1>3, <2>1, <2>2, HandlerStep DEF TypeOK
<1> QED
  BY <1>4, <1>5

LEMMA DeliveryStepKeeps ==
    ASSUME TypeOK, DeliveryInvariant, NEW t \in Threads, DeliveryStep(t)
    PROVE  Keeps
<1>1. CASE \/ SaveAttempt(t) \/ SaveDelivered(t) \/ SaveFailure(t)
           \/ SaveRetry(t) \/ SaveDeadLetter(t) \/ SaveFailed(t)
  BY <1>1, SaveStep DEF SaveAttempt, SaveDelivered, SaveFailure, SaveRetry, SaveDeadLetter,
                        SaveFailed, Labels
<1>2. CASE SendHttpRequest(t)
  BY <1>2, SendStep
<1>3. CASE RecordSuccess(t)
  <2>1. /\ pc' = [pc EXCEPT ![t] = "audit"] /\ ctx' = [ctx EXCEPT ![t] = ctx[t]]
        /\ todo' = [todo EXCEPT ![t] = todo[t]]
        /\ UNCHANGED <<events, lastId, received, sent, faults, crashes>>
    BY <1>3, Locals DEF RecordSuccess, Goto
  <2>2. subscriptions' \in [Subscriptions -> SubscriptionRow]
    <3>1. \A r \in SubscriptionRow : [r EXCEPT !.status = "ACTIVE"] \in SubscriptionRow
      BY DEF SubscriptionRow, WebhookSubscriptionStatus
    <3> QED
      BY <1>3, <3>1 DEF RecordSuccess, TypeOK
  <2>3. \E l, c : Moves(t, l, c)
    BY <2>1, Locals DEF Moves, Labels, Sending
  <2> QED
    BY <2>1, <2>2, <2>3, Locals, MovingStep
<1>4. CASE CreateAuditLog(t)
  BY <1>4, LeaveMoves, Locals, MovingStep DEF CreateAuditLog, TypeOK
<1>5. CASE RecordFailure(t)
  <2>1. \E l, c : Moves(t, l, c)
    BY <1>5, ScheduleRetryMoves DEF RecordFailure
  <2> QED
    BY <1>5, <2>1, Locals, MovingStep DEF RecordFailure, TypeOK
<1> QED
  BY <1>1, <1>2, <1>3, <1>4, <1>5 DEF DeliveryStep

LEMMA ListingStep ==
    ASSUME TypeOK, DeliveryInvariant, NEW t \in Threads,
           \/ ProcessPendingEvents(t) \/ ListPending(t)
           \/ \E s \in Subscriptions : ReplayDeadLetterEvents(t, s)
    PROVE  Keeps
<1>0. /\ BatchSize \in Nat /\ ReplayLimit \in Nat
  BY WebhookAssumption
<1>1. PICK q \in Seq(Entity), l \in Labels \ Sending :
        /\ \A i \in 1 .. Len(q) : Truthful(q[i].event, q[i].id)
        /\ todo' = [todo EXCEPT ![t] = q] /\ pc' = [pc EXCEPT ![t] = l]
        /\ UNCHANGED <<subscriptions, events, lastId, received, sent, ctx, faults, crashes>>
  <2>1. CASE ProcessPendingEvents(t)
    <3>1. PICK q \in AnyOf(ReadyForRetry, BatchSize) :
            todo' = [todo EXCEPT ![t] = Entities(q)]
      BY <2>1 DEF ProcessPendingEvents
    <3>2. ReadyForRetry \in SUBSET Events
      BY DEF ReadyForRetry, WithStatus
    <3>3. PICK T \in SUBSET Events : q \in Orders(T)
      BY <1>0, <3>2, ListedRows
    <3> QED
      BY <2>1, <3>1, <3>3, EntitiesOfRows DEF ProcessPendingEvents, Goto, Labels, Sending
  <2>2. CASE ListPending(t)
    <3>1. PICK q \in Oldest(WithStatus("PENDING"), BatchSize) :
            todo' = [todo EXCEPT ![t] = @ \o Entities(q)]
      BY <2>2 DEF ListPending
    <3>2. WithStatus("PENDING") \in SUBSET Events
      BY DEF WithStatus
    <3>3. PICK T \in SUBSET Events : q \in Orders(T)
      BY <1>0, <3>2, ListedRows
    <3>4. /\ Entities(q) \in Seq(Entity) /\ todo[t] \in Seq(Entity)
          /\ \A i \in 1 .. Len(Entities(q)) : Truthful(Entities(q)[i].event, Entities(q)[i].id)
          /\ \A i \in 1 .. Len(todo[t]) : Truthful(todo[t][i].event, todo[t][i].id)
      BY <3>3, EntitiesOfRows, Locals
    <3> DEFINE r == todo[t] \o Entities(q)
    <3>5. r \in Seq(Entity) /\ \A i \in 1 .. Len(r) : Truthful(r[i].event, r[i].id)
      <4> HIDE DEF Entities
      <4>1. /\ r \in Seq(Entity) /\ Len(r) = Len(todo[t]) + Len(Entities(q))
            /\ Len(todo[t]) \in Nat /\ Len(Entities(q)) \in Nat
        BY <3>4
      <4>2. ASSUME NEW i \in 1 .. Len(r) PROVE Truthful(r[i].event, r[i].id)
        <5>1. CASE i <= Len(todo[t])
          <6>1. r[i] = todo[t][i] /\ i \in 1 .. Len(todo[t])
            BY <3>4, <4>1, <5>1
          <6> QED
            BY <3>4, <6>1
        <5>2. CASE i > Len(todo[t])
          <6>1. /\ r[i] = Entities(q)[i - Len(todo[t])]
                /\ i - Len(todo[t]) \in 1 .. Len(Entities(q))
            BY <3>4, <4>1, <5>2
          <6> QED
            BY <3>4, <6>1
        <5> QED
          BY <4>1, <5>1, <5>2
      <4> QED
        BY <4>1, <4>2
    <3>6. todo' = [todo EXCEPT ![t] = r]
      BY <3>1 DEF TypeOK
    <3> HIDE DEF r
    <3> QED
      BY <2>2, <3>3, <3>5, <3>6 DEF ListPending, Goto, Labels, Sending
  <2>3. ASSUME NEW s \in Subscriptions, ReplayDeadLetterEvents(t, s)
        PROVE  \E q \in Seq(Entity), l \in Labels \ Sending :
        /\ \A i \in 1 .. Len(q) : Truthful(q[i].event, q[i].id)
        /\ todo' = [todo EXCEPT ![t] = q] /\ pc' = [pc EXCEPT ![t] = l]
        /\ UNCHANGED <<subscriptions, events, lastId, received, sent, ctx, faults, crashes>>
    <3> DEFINE S == {e \in WithStatus("DEAD_LETTER") : events[e].subscriptionId = s}
    <3>1. PICK q \in Newest(S, ReplayLimit) : todo' = [todo EXCEPT ![t] = Entities(q)]
      BY <2>3 DEF ReplayDeadLetterEvents
    <3>2. S \in SUBSET Events
      BY DEF WithStatus
    <3> HIDE DEF S
    <3>3. PICK T \in SUBSET Events : q \in Orders(T)
      BY <1>0, <3>2, ListedRows
    <3> QED
      BY <2>3, <3>1, <3>3, EntitiesOfRows DEF ReplayDeadLetterEvents, Goto, Labels, Sending
  <2> QED
    BY <2>1, <2>2, <2>3
<1>2. ctx' = [ctx EXCEPT ![t] = ctx[t]]
  BY <1>1, Locals
<1> QED
  BY <1>1, <1>2, Locals, LocalStep

(* A row with another status and count is a row. *)
LEMMA CountedRow ==
    ASSUME NEW x \in EventRow, NEW st \in WebhookEventStatus, NEW n \in Nat
    PROVE  /\ [x EXCEPT !.status = st, !.attemptCount = n] \in EventRow
           /\ [x EXCEPT !.status = st, !.attemptCount = n].status = st
BY DEF EventRow

LEMMA NextEventStep ==
    ASSUME TypeOK, DeliveryInvariant, NEW t \in Threads, NextEvent(t)
    PROVE  Keeps
<1>0. todo[t] # <<>> /\ todo[t] \in Seq(Entity) /\ ctx \in [Threads -> Context]
  BY DEF NextEvent, TypeOK, Context
<1>1. PICK e \in Entity, s \in Subscriptions \cup {NoSubscription} :
        /\ e = Head(todo[t]) /\ s = e.event.subscriptionId
        /\ Truthful(e.event, e.id) /\ e.id \in Events /\ e.event \in EventRow
  <2>1. Head(todo[t]) \in Entity /\ Truthful(Head(todo[t]).event, Head(todo[t]).id)
    BY <1>0, Locals, Rest
  <2> QED
    BY <2>1 DEF Entity, EventRow
<1>2. PICK d : d = Decide(e.event, s)
  OBVIOUS
<1>3. PICK r : r = IF Live(s) THEN subscriptions[s] ELSE NoRow
  OBVIOUS
<1>4. /\ d.label \in {"saveFailed", "saveDeadLetter", "saveAttempt"}
      /\ d.event \in EventRow /\ d.event.status # "DELIVERED"
  <2>1. PICK x \in EventRow : x = e.event
    BY <1>1
  <2>2. \A st \in {"FAILED", "DEAD_LETTER"} :
          /\ [x EXCEPT !.status = st] \in EventRow
          /\ [x EXCEPT !.status = st].status # "DELIVERED"
    BY DEF EventRow, WebhookEventStatus
  <2>3. /\ [x EXCEPT !.status = "RETRYING", !.attemptCount = @ + 1] \in EventRow
        /\ [x EXCEPT !.status = "RETRYING", !.attemptCount = @ + 1].status # "DELIVERED"
    <3>1. x.attemptCount + 1 \in Nat /\ "RETRYING" \in WebhookEventStatus
      BY DEF EventRow, WebhookEventStatus
    <3>2. PICK n \in Nat : n = x.attemptCount + 1
      BY <3>1
    <3>3. [x EXCEPT !.status = "RETRYING", !.attemptCount = @ + 1]
            = [x EXCEPT !.status = "RETRYING", !.attemptCount = n]
      BY <3>2 DEF EventRow
    <3>4. /\ [x EXCEPT !.status = "RETRYING", !.attemptCount = n] \in EventRow
          /\ [x EXCEPT !.status = "RETRYING", !.attemptCount = n].status = "RETRYING"
      BY <3>1, CountedRow
    <3> QED
      BY <3>3, <3>4
  <2>4. \/ d = [label |-> "saveFailed", event |-> [x EXCEPT !.status = "FAILED"]]
        \/ d = [label |-> "saveDeadLetter", event |-> [x EXCEPT !.status = "DEAD_LETTER"]]
        \/ d = [label |-> "saveAttempt",
                event |-> [x EXCEPT !.status = "RETRYING", !.attemptCount = @ + 1]]
    BY <1>2, <2>1 DEF Decide
  <2>5. PICK st \in {"saveFailed", "saveDeadLetter", "saveAttempt"}, z \in EventRow :
          d = [label |-> st, event |-> z] /\ z.status # "DELIVERED"
    BY <2>2, <2>3, <2>4
  <2> QED
    BY <2>5
<1>5. r \in SubscriptionRow
  BY <1>3, NullRows DEF Live, TypeOK
<1>6. PICK c \in Context :
        c = [id |-> e.id, event |-> d.event, sub |-> s, subscription |-> r, inTry |-> FALSE]
  BY <1>1, <1>4, <1>5 DEF Context
<1>7. c.id \in Events /\ Truthful(c.event, c.id) /\ d.label \in Labels
  BY <1>1, <1>4, <1>6 DEF Truthful, Labels
<1>8. /\ pc' = [pc EXCEPT ![t] = d.label] /\ ctx' = [ctx EXCEPT ![t] = c]
      /\ todo' = [todo EXCEPT ![t] = Tail(todo[t])]
      /\ UNCHANGED <<subscriptions, events, lastId, received, sent, faults, crashes>>
  BY <1>1, <1>2, <1>3, <1>6 DEF NextEvent, Goto, TypeOK
<1>9. /\ Tail(todo[t]) \in Seq(Entity)
      /\ \A i \in 1 .. Len(Tail(todo[t])) : Truthful(Tail(todo[t])[i].event, Tail(todo[t])[i].id)
  BY <1>0, Locals, Rest
<1> QED
  BY <1>7, <1>8, <1>9, Locals, LocalStep

LEMMA ReplayEventStep ==
    ASSUME TypeOK, DeliveryInvariant, NEW t \in Threads, ReplayEvent(t)
    PROVE  Keeps
<1>0. /\ todo[t] \in Seq(Entity) /\ ctx' = [ctx EXCEPT ![t] = ctx[t]]
      /\ todo[t] # <<>>
      /\ UNCHANGED <<subscriptions, lastId, received, faults, crashes>>
  BY Locals DEF ReplayEvent
<1>1. PICK e \in Entity : e = Head(todo[t]) /\ e.event \in EventRow /\ e.id \in Events
  <2>1. Head(todo[t]) \in Entity
    BY <1>0, Locals, Rest
  <2> QED
    BY <2>1 DEF Entity
<1>2. PICK row \in EventRow :
        /\ row = [e.event EXCEPT !.status = "PENDING", !.attemptCount = 0, !.nextRetryAt = "none"]
        /\ row.status # "DELIVERED"
  <2>1. PICK x \in EventRow : x = e.event
    BY <1>1
  <2>2. [x EXCEPT !.status = "PENDING", !.attemptCount = 0, !.nextRetryAt = "none"] \in EventRow
    BY DEF EventRow, WebhookEventStatus, Times
  <2>3. [x EXCEPT !.status = "PENDING", !.attemptCount = 0, !.nextRetryAt = "none"].status = "PENDING"
    BY DEF EventRow
  <2> QED
    BY <2>1, <2>2, <2>3
<1>3. \/ events' = events \/ events' = [events EXCEPT ![e.id] = row]
  <2>1. \/ events' = events
        \/ events' = [events EXCEPT ![Head(todo[t]).id] =
             [Head(todo[t]).event EXCEPT !.status = "PENDING", !.attemptCount = 0,
                                         !.nextRetryAt = "none"]]
    BY DEF ReplayEvent
  <2> QED
    BY <1>1, <1>2, <2>1
<1>4. /\ events' \in [Events -> EventRow]
      /\ \A f \in Events : Truthful(events'[f], f) \/ events'[f] = events[f]
  BY <1>2, <1>3 DEF TypeOK, Truthful
<1>5. sent' \in [Events -> Nat]
  <2>1. sent' = sent \/ sent' = [sent EXCEPT ![Head(todo[t]).id] = 0]
    BY DEF ReplayEvent
  <2>2. sent \in [Events -> Nat] /\ 0 \in Nat
    BY DEF TypeOK
  <2> QED
    BY <2>1, <2>2
<1>6. PICK q \in Seq(Entity) :
        /\ todo' = [todo EXCEPT ![t] = q]
        /\ \A i \in 1 .. Len(q) : Truthful(q[i].event, q[i].id)
  <2>1. todo' = [todo EXCEPT ![t] = Tail(todo[t])] \/ todo' = [todo EXCEPT ![t] = <<>>]
    BY DEF ReplayEvent, TypeOK
  <2> QED
    BY <1>0, <2>1, Locals, Rest
<1>7. PICK l \in Labels \ Sending : pc' = [pc EXCEPT ![t] = l]
  BY DEF ReplayEvent, Goto, Labels, Sending
<1> QED
  BY <1>0, <1>4, <1>5, <1>6, <1>7, Locals, HandlerStep DEF TypeOK, Truthful

LEMMA FaultStep ==
    ASSUME TypeOK, DeliveryInvariant, NEW t \in Threads, DatabaseFault(t)
    PROVE  Keeps
<1>1. /\ UNCHANGED <<subscriptions, events, lastId, received, sent, crashes>>
      /\ faults' \in 0 .. MaxFaults
  BY WebhookAssumption DEF DatabaseFault, TypeOK
<1>2. CASE pc[t] \in {"list", "replay", "saveSubscription", "remove"}
  <2>1. /\ pc' = [pc EXCEPT ![t] = "idle"] /\ ctx' = [ctx EXCEPT ![t] = NoContext]
        /\ todo' = [todo EXCEPT ![t] = <<>>]
    BY <1>2 DEF DatabaseFault, Goto
  <2> QED
    BY <1>1, <2>1, Locals, Rest, NullRows, NoContextTruthful, LocalStep DEF Labels, Sending
<1>3. CASE pc[t] \notin {"list", "replay", "saveSubscription", "remove"}
  <2>1. PICK l, c : Moves(t, l, c)
    BY <1>3, ThrowMoves DEF DatabaseFault
  <2>2. PICK q \in Seq(Entity) :
          /\ todo' = [todo EXCEPT ![t] = q]
          /\ \A i \in 1 .. Len(q) : Truthful(q[i].event, q[i].id)
    <3>1. CASE pc[t] = "next"
      <4>1. todo[t] # <<>> /\ todo' = [todo EXCEPT ![t] = Tail(todo[t])]
        BY <1>3, <3>1 DEF DatabaseFault, TypeOK
      <4> QED
        BY <4>1, Locals, Rest
    <3>2. CASE pc[t] # "next"
      BY <1>3, <3>2, Locals DEF DatabaseFault
    <3> QED
      BY <3>1, <3>2
  <2>3. /\ l \in Labels /\ l \notin Sending /\ c \in Context /\ Truthful(c.event, c.id)
        /\ pc' = [pc EXCEPT ![t] = l] /\ ctx' = [ctx EXCEPT ![t] = c]
    BY <2>1 DEF Moves
  <2> QED
    BY <1>1, <2>2, <2>3, LocalStep
<1> QED
  BY <1>2, <1>3

LEMMA FinishStep ==
    ASSUME TypeOK, DeliveryInvariant, NEW t \in Threads, FinishPass(t)
    PROVE  Keeps
<1>1. /\ pc' = [pc EXCEPT ![t] = "idle"]
      /\ ctx' = [ctx EXCEPT ![t] = ctx[t]] /\ todo' = [todo EXCEPT ![t] = todo[t]]
      /\ UNCHANGED <<subscriptions, events, lastId, received, sent, faults, crashes>>
  BY Locals DEF FinishPass, Goto
<1> QED
  BY <1>1, Locals, LocalStep DEF Labels, Sending

LEMMA TimeStep ==
    ASSUME TypeOK, DeliveryInvariant, NEW e \in Events, TimePasses(e)
    PROVE  Keeps
<1>1. /\ events' = [events EXCEPT ![e].nextRetryAt = "passed"]
      /\ UNCHANGED <<subscriptions, lastId, received, sent, todo, pc, ctx, faults, crashes>>
  BY DEF TimePasses
<1>2. /\ events' \in [Events -> EventRow]
      /\ \A f \in Events : events'[f].status = events[f].status
  <2>1. events \in [Events -> EventRow] /\ "passed" \in Times
    BY DEF TypeOK, Times
  <2>2. PICK row \in EventRow :
          row = [events[e] EXCEPT !.nextRetryAt = "passed"] /\ row.status = events[e].status
    <3>1. PICK x \in EventRow : x = events[e]
      BY <2>1
    <3>2. /\ [x EXCEPT !.nextRetryAt = "passed"] \in EventRow
          /\ [x EXCEPT !.nextRetryAt = "passed"].status = x.status
      BY <2>1 DEF EventRow
    <3> QED
      BY <3>1, <3>2
  <2>3. events' = [events EXCEPT ![e] = row]
    BY <1>1, <2>1, <2>2
  <2> QED
    BY <2>1, <2>2, <2>3
<1>3. TypeOK'
  BY <1>1, <1>2 DEF TypeOK
<1>4. DeliveryInvariant'
  BY <1>1, <1>2 DEF DeliveryInvariant, DeliveredWasReceived, Truthful
<1> QED
  BY <1>3, <1>4 DEF Keeps

LEMMA CrashStep ==
    ASSUME TypeOK, DeliveryInvariant, Crash
    PROVE  Keeps
<1>1. /\ todo' = [t \in Threads |-> <<>>] /\ pc' = [t \in Threads |-> "idle"]
      /\ ctx' = [t \in Threads |-> NoContext] /\ crashes' \in 0 .. MaxCrashes
      /\ UNCHANGED <<subscriptions, events, lastId, received, sent, faults>>
  BY WebhookAssumption DEF Crash, TypeOK
<1>2. <<>> \in Seq(Entity) /\ NoContext \in Context /\ "idle" \in Labels
  BY NullRows DEF Labels
<1>3. TypeOK'
  BY <1>1, <1>2 DEF TypeOK, Context
<1>4. DeliveryInvariant'
  <2>1. DeliveredWasReceived' /\ \A t \in Threads : (pc[t] \in Sending => ctx[t].id \in Events)'
    BY <1>1 DEF DeliveryInvariant, DeliveredWasReceived, Sending
  <2>2. \A t \in Threads : Truthful(ctx[t].event, ctx[t].id)'
    BY <1>1, NoContextTruthful DEF Truthful, NoContext, NoEvent
  <2>3. \A t \in Threads : Len(todo'[t]) = 0
    BY <1>1
  <2>4. \A t \in Threads : \A i \in 1 .. Len(todo'[t]) : Truthful(todo[t][i].event, todo[t][i].id)'
    BY <2>3
  <2> QED
    BY <2>1, <2>2, <2>4 DEF DeliveryInvariant
<1> QED
  BY <1>3, <1>4 DEF Keeps

-----------------------------------------------------------------------------
(* The specification. *)

LEMMA StartsTruthful == Init => TypeOK /\ DeliveryInvariant
<1> SUFFICES ASSUME Init PROVE TypeOK /\ DeliveryInvariant
  OBVIOUS
<1>1. <<>> \in Seq(Entity) /\ Len(<<>>) = 0
  OBVIOUS
<1>2. TypeOK
  BY <1>1, NullRows, WebhookAssumption DEF Init, TypeOK, Context, Labels
<1>3. DeliveredWasReceived /\ \A t \in Threads : pc[t] \notin Sending
  BY DEF Init, DeliveredWasReceived, NoEvent, Sending
<1>4. \A t \in Threads : Truthful(ctx[t].event, ctx[t].id) /\ Len(todo[t]) = 0
  BY <1>1, NoContextTruthful DEF Init
<1>5. \A t \in Threads : \A i \in 1 .. Len(todo[t]) : Truthful(todo[t][i].event, todo[t][i].id)
  BY <1>4
<1> QED
  BY <1>2, <1>3, <1>4, <1>5 DEF DeliveryInvariant

LEMMA EveryStepKeeps ==
    ASSUME TypeOK, DeliveryInvariant, [Next]_vars
    PROVE  Keeps
<1>1. ASSUME NEW s \in Subscriptions, CreateSubscription(s) \/ TestSubscription(s) PROVE Keeps
  BY <1>1, ServiceStep
<1>2. CASE PublishEvent
  BY <1>2, ServiceStep
<1>3. ASSUME NEW t \in Edits,
             \/ EditStep(t)
             \/ \E s \in Subscriptions : UpdateSubscription(t, s) \/ DeleteSubscription(t, s)
      PROVE  Keeps
  BY <1>3, EditorStep
<1>4. ASSUME NEW t \in Passes, ProcessPendingEvents(t) \/ PassStep(t) PROVE Keeps
  BY <1>4, ListingStep, NextEventStep, FinishStep, DeliveryStepKeeps DEF PassStep, Threads
<1>5. ASSUME NEW t \in Replays,
             ReplayEvent(t) \/ \E s \in Subscriptions : ReplayDeadLetterEvents(t, s)
      PROVE  Keeps
  BY <1>5, ReplayEventStep, ListingStep DEF Threads
<1>6. ASSUME NEW e \in Events, TimePasses(e) PROVE Keeps
  BY <1>6, TimeStep
<1>7. ASSUME NEW t \in Threads, DatabaseFault(t) PROVE Keeps
  BY <1>7, FaultStep
<1>8. CASE Crash
  BY <1>8, CrashStep
<1>9. CASE UNCHANGED vars
  <2>1. TypeOK'
    BY <1>9 DEF vars, TypeOK
  <2>2. DeliveryInvariant'
    BY <1>9 DEF vars, DeliveryInvariant, DeliveredWasReceived, Truthful
  <2> QED
    BY <2>1, <2>2 DEF Keeps
<1> QED
  BY <1>1, <1>2, <1>3, <1>4, <1>5, <1>6, <1>7, <1>8, <1>9 DEF Next

LEMMA CopiesStayTruthful == Spec => [](TypeOK /\ DeliveryInvariant)
<1>1. TypeOK /\ DeliveryInvariant /\ [Next]_vars => (TypeOK /\ DeliveryInvariant)'
  BY EveryStepKeeps DEF Keeps
<1> QED
  BY <1>1, StartsTruthful, PTL DEF Spec

(* The webhook tables and the entities the handlers hold keep their shape. *)
THEOREM WebhookTypeCorrect == Spec => []TypeOK
BY CopiesStayTruthful, PTL

(* The table never shows as DELIVERED an event no receiver accepted: every copy *)
(* of an event that shows it so is made after SendHttpRequest had its answer,   *)
(* and received only grows.                                                     *)
THEOREM NothingFalselyDelivered == Spec => []DeliveredWasReceived
<1>1. DeliveryInvariant => DeliveredWasReceived
  BY DEF DeliveryInvariant
<1> QED
  BY <1>1, CopiesStayTruthful, PTL

-----------------------------------------------------------------------------
(* One pass and one replay at a time.                                          *)

OnePass   == \A t, u \in Passes : t = u
OneReplay == \A t, u \in Replays : t = u
OneEdit   == \A t, u \in Edits : t = u

BusyLabels == {"saveAttempt", "send", "saveDelivered", "recordSuccess", "audit", "saveFailure",
               "recordFailure", "saveRetry", "saveDeadLetter", "saveFailed"}
Busy(t) == pc[t] \in BusyLabels

(* A count that some budget allows. *)
Budgeted(n) == \E m \in Budgets : n <= m

KindsOK ==
    /\ \A t \in Passes : pc[t] \in {"idle", "list", "next"} \cup BusyLabels
    /\ \A t \in Passes : ~Busy(t) => ~ctx[t].inTry
    /\ \A t \in Replays : pc[t] \in {"idle", "replay"}
    /\ \A t \in Edits : pc[t] \in {"idle", "saveSubscription", "remove"}
    /\ \A t \in Edits : todo[t] = <<>>

(* Whatever is saved, a count stays within a budget its subscription had. *)
BudgetsOK ==
    /\ \A s \in Subscriptions : subscriptions[s].row = "live" => subscriptions[s].maxRetries \in Budgets
    /\ \A t \in Edits : pc[t] = "saveSubscription" =>
         ctx[t].subscription.row = "live" /\ ctx[t].subscription.maxRetries \in Budgets
    /\ \A e \in Events : Budgeted(events[e].attemptCount)
    /\ \A t \in Threads : Budgeted(ctx[t].event.attemptCount)
    /\ \A t \in Threads : \A i \in 1 .. Len(todo[t]) : Budgeted(todo[t][i].event.attemptCount)

(* The table shows what was sent; ids not yet given out have no row. *)
TableCounts ==
    /\ \A e \in Events : e > lastId => events[e] = NoEvent /\ sent[e] = 0
    /\ \A e \in Events : Exists(e) => sent[e] <= events[e].attemptCount

(* What a pass has listed is as it was listed, or gone. *)
ListedOK(t) ==
    \A i \in 1 .. Len(todo[t]) : LET c == todo[t][i] IN
        /\ c.id <= lastId
        /\ c.event.status \in {"PENDING", "RETRYING"}
        /\ pc[t] = "list" => c.event.status = "RETRYING"
        /\ events[c.id].status \in {c.event.status, "ABSENT"}
        /\ sent[c.id] <= c.event.attemptCount
        /\ Busy(t) => ctx[t].id # c.id
        /\ \A k \in 1 .. Len(todo[t]) : todo[t][k].id = c.id => i = k

(* What a replay has listed is still dead, or gone, and no pass is to deliver it. *)
RevivedOK(r) ==
    \A i \in 1 .. Len(todo[r]) : LET e == todo[r][i].id IN
        /\ e <= lastId
        /\ events[e].status \in {"DEAD_LETTER", "ABSENT"}
        /\ \A t \in Passes : \A k \in 1 .. Len(todo[t]) : todo[t][k].id # e
        /\ \A t \in Passes : Busy(t) /\ ctx[t].id = e => ctx[t].event.status = "DEAD_LETTER"
        /\ \A k \in 1 .. Len(todo[r]) : todo[r][k].id = e => i = k

(* The event that a pass delivers: its status by label, and the requests it counts. *)
HandOK(t) == Busy(t) =>
    LET c == ctx[t] IN
    /\ c.id \in Events /\ c.id <= lastId
    /\ pc[t] \in {"saveAttempt", "send", "saveRetry"} => c.event.status = "RETRYING"
    /\ pc[t] \in {"saveDelivered", "recordSuccess"} => c.event.status = "DELIVERED"
    /\ pc[t] = "saveFailed" => c.event.status = "FAILED"
    /\ pc[t] = "saveDeadLetter" => c.event.status = "DEAD_LETTER"
    /\ c.event.status \notin {"PENDING", "ABSENT"}
    /\ IF c.event.status = "DEAD_LETTER" THEN c.event.attemptCount >= c.subscription.maxRetries
                                         ELSE events[c.id].status # "DEAD_LETTER"
    /\ sent[c.id] <= c.event.attemptCount
    /\ pc[t] \in {"saveAttempt", "send"} => sent[c.id] < c.event.attemptCount
    /\ pc[t] = "send" /\ Exists(c.id) => sent[c.id] < events[c.id].attemptCount

CountInvariant ==
    /\ KindsOK /\ BudgetsOK /\ TableCounts
    /\ \A t \in Passes : ListedOK(t) /\ HandOK(t)
    /\ \A r \in Replays : RevivedOK(r)

-----------------------------------------------------------------------------
(* One editor as well, and no database call that failed. *)

Same(row, copy) ==
    row.status = copy.status /\ row.attemptCount = copy.attemptCount /\ row.subscriptionId = copy.subscriptionId
Known(s) == s \in Subscriptions /\ subscriptions[s].row # "never"

(* What is deleted stays deleted, with its events. *)
DeletedStays ==
    /\ \A t \in Edits : pc[t] \in {"saveSubscription", "remove"} => Live(ctx[t].sub)
    /\ \A e \in Events : Exists(e) => Live(events[e].subscriptionId)

(* A row never changes its subscription. *)
Belongs(e, s) == events[e].subscriptionId \in {s, NoSubscription}

(* A copy of an event is the row, unless the subscription is gone. *)
CopyIsRow(c) ==
    /\ Known(c.event.subscriptionId) /\ c.event.status # "ABSENT"
    /\ Belongs(c.id, c.event.subscriptionId)
    /\ Live(c.event.subscriptionId) => Same(events[c.id], c.event)
CopiesAreRows == \A t \in Threads : \A i \in 1 .. Len(todo[t]) : CopyIsRow(todo[t][i])

(* What the row is that a pass is about to overwrite. *)
RowInHand(t) ==
    LET c == ctx[t]
        row == events[c.id]
    IN /\ row.subscriptionId = c.sub
       /\ pc[t] \notin {"saveFailure", "recordFailure"}
       /\ pc[t] = "saveAttempt" =>
            row.status \in {"PENDING", "RETRYING"} /\ row.attemptCount + 1 = c.event.attemptCount
       /\ pc[t] \in {"send", "saveDelivered", "saveRetry"} => row.status = "RETRYING"
       /\ pc[t] \in {"saveDeadLetter", "saveFailed"} => row.status \in {"PENDING", "RETRYING"}
       /\ pc[t] \notin {"saveAttempt", "audit"} => row.attemptCount = c.event.attemptCount
       /\ pc[t] = "saveDelivered" => sent[c.id] > 0
BusyOK(t) == Busy(t) =>
    LET c == ctx[t] IN
    /\ Known(c.sub) /\ c.event.subscriptionId = c.sub /\ Belongs(c.id, c.sub)
    /\ IF pc[t] = "saveFailed" THEN ~c.inTry ELSE c.subscription.maxRetries \in Budgets
    /\ pc[t] # "recordFailure"
    /\ Live(c.sub) => RowInHand(t)

Promises == DeletedStays /\ CopiesAreRows /\ \A t \in Passes : BusyOK(t)
PromiseInvariant == faults = 0 => Promises

-----------------------------------------------------------------------------
(* What the steps of a pass keep. *)

(* The other handlers stand where they stood. *)
Apart(t) == \A u \in Threads \ {t} : pc'[u] = pc[u] /\ ctx'[u] = ctx[u] /\ todo'[u] = todo[u]

(* No subscription comes or goes, and none has another budget. *)
SubscriptionsKept ==
    \A s \in Subscriptions : /\ subscriptions'[s].row = subscriptions[s].row
                             /\ subscriptions'[s].maxRetries = subscriptions[s].maxRetries

(* The pass saves what it holds, or sends it, or does neither. *)
SavesOrSends(t) ==
    \/ events' = events /\ sent' = sent
    \/ events' = [events EXCEPT ![ctx[t].id] = ctx[t].event] /\ sent' = sent
    \/ pc[t] = "send" /\ events' = events /\ sent' = [sent EXCEPT ![ctx[t].id] = @ + 1]

(* It goes on with the same event, which stays dead if it was. *)
GoesOn(t) ==
    /\ pc'[t] \in BusyLabels /\ ctx'[t].id = ctx[t].id
    /\ ctx[t].event.status = "DEAD_LETTER" => ctx'[t].event.status = "DEAD_LETTER"

LEMMA Kinds ==
    /\ Passes \subseteq Threads /\ Replays \subseteq Threads /\ Edits \subseteq Threads
    /\ \A t \in Passes, u \in Replays \cup Edits : t # u
    /\ \A t \in Replays, u \in Edits : t # u
BY WebhookAssumption DEF Threads

LEMMA Counts ==
    ASSUME TypeOK
    PROVE  /\ lastId \in Nat
           /\ \A e \in Events : /\ sent[e] \in Nat /\ events[e].attemptCount \in Nat
                             /\ events[e].status \in WebhookEventStatus
           /\ \A t \in Threads : ctx[t].event.attemptCount \in Nat /\ ctx[t].event \in EventRow
           /\ \A t \in Threads : Len(todo[t]) \in Nat
           /\ \A t \in Threads : \A i \in 1 .. Len(todo[t]) :
                /\ todo[t][i].id \in Events /\ todo[t][i].event \in EventRow
                /\ todo[t][i].event.attemptCount \in Nat
<1>1. lastId \in Nat
  BY WebhookAssumption DEF TypeOK
<1>2. \A e \in Events : sent[e] \in Nat /\ events[e] \in EventRow
  BY DEF TypeOK
<1>3. \A t \in Threads : ctx[t].event \in EventRow /\ todo[t] \in Seq(Entity)
  BY DEF TypeOK
<1>4. \A t \in Threads : Len(todo[t]) \in Nat /\ \A i \in 1 .. Len(todo[t]) : todo[t][i] \in Entity
  BY <1>3
<1>5. \A x \in EventRow : x.attemptCount \in Nat /\ x.status \in WebhookEventStatus
  BY DEF EventRow
<1>6. \A x \in Entity : x.id \in Events /\ x.event \in EventRow
  BY DEF Entity
<1> QED
  BY <1>1, <1>2, <1>3, <1>4, <1>5, <1>6

LEMMA PassTable ==
    ASSUME TypeOK, CountInvariant, NEW t \in Passes, Busy(t), SavesOrSends(t), lastId' = lastId
    PROVE  TableCounts'
<1>1. /\ ctx[t].id \in Events /\ ctx[t].id <= lastId /\ sent[ctx[t].id] <= ctx[t].event.attemptCount
      /\ pc[t] = "send" /\ Exists(ctx[t].id) => sent[ctx[t].id] < events[ctx[t].id].attemptCount
  BY DEF CountInvariant, HandOK
<1>2. events \in [Events -> EventRow] /\ sent \in [Events -> Nat]
  BY DEF TypeOK
<1>3. ctx[t].id \in Nat /\ lastId \in Nat /\ Events \subseteq Nat /\ t \in Threads
  BY <1>1, Counts, Kinds, WebhookAssumption DEF Events
<1>4. ASSUME NEW e \in Events, e > lastId PROVE events'[e] = NoEvent /\ sent'[e] = 0
  <2>1. e # ctx[t].id
    BY <1>1, <1>3, <1>4
  <2>2. events[e] = NoEvent /\ sent[e] = 0
    BY <1>4 DEF CountInvariant, TableCounts
  <2> QED
    BY <1>2, <2>1, <2>2 DEF SavesOrSends
<1>5. ASSUME NEW e \in Events, events'[e].status # "ABSENT" PROVE sent'[e] <= events'[e].attemptCount
  <2>1. CASE e # ctx[t].id
    <3>1. events'[e] = events[e] /\ sent'[e] = sent[e]
      BY <1>2, <2>1 DEF SavesOrSends
    <3> QED
      BY <1>5, <3>1 DEF CountInvariant, TableCounts, Exists
  <2>2. CASE e = ctx[t].id
    <3>1. CASE events' = events /\ sent' = sent
      BY <1>5, <3>1 DEF CountInvariant, TableCounts, Exists
    <3>2. CASE events' = [events EXCEPT ![ctx[t].id] = ctx[t].event] /\ sent' = sent
      BY <1>1, <1>2, <2>2, <3>2
    <3>3. CASE pc[t] = "send" /\ events' = events /\ sent' = [sent EXCEPT ![ctx[t].id] = @ + 1]
      <4>1. sent'[e] = sent[e] + 1 /\ events'[e] = events[e]
        BY <1>2, <2>2, <3>3
      <4>2. sent[e] < events[e].attemptCount
        BY <1>1, <1>5, <2>2, <3>3 DEF Exists
      <4>3. sent[e] \in Nat /\ events[e].attemptCount \in Nat
        BY Counts
      <4> QED
        BY <4>1, <4>2, <4>3
    <3> QED
      BY <3>1, <3>2, <3>3 DEF SavesOrSends
  <2> QED
    BY <2>1, <2>2
<1> QED
  BY <1>4, <1>5 DEF TableCounts, Exists

(* Rows and counts of other events stay. *)
LEMMA PassElsewhere ==
    ASSUME TypeOK, NEW t \in Passes, SavesOrSends(t), NEW e \in Events, e # ctx[t].id
    PROVE  events'[e] = events[e] /\ sent'[e] = sent[e]
BY DEF TypeOK, SavesOrSends

LEMMA PassBudgets ==
    ASSUME TypeOK, CountInvariant, NEW t \in Passes, Apart(t), SubscriptionsKept, SavesOrSends(t),
           \A i \in 1 .. Len(todo'[t]) : Budgeted(todo'[t][i].event.attemptCount),
           Budgeted(ctx'[t].event.attemptCount)
    PROVE  BudgetsOK'
<1>1. BudgetsOK /\ t \in Threads
  BY Kinds DEF CountInvariant
<1>2. \A s \in Subscriptions : subscriptions'[s].row = "live" => subscriptions'[s].maxRetries \in Budgets
  BY <1>1 DEF BudgetsOK, SubscriptionsKept
<1>3. \A u \in Edits : pc'[u] = "saveSubscription" =>
        ctx'[u].subscription.row = "live" /\ ctx'[u].subscription.maxRetries \in Budgets
  BY <1>1, Kinds DEF BudgetsOK, Apart
<1>4. \A e \in Events : Budgeted(events'[e].attemptCount)
  <2>1. events \in [Events -> EventRow]
    BY DEF TypeOK
  <2>2. events' = events \/ events' = [events EXCEPT ![ctx[t].id] = ctx[t].event]
    BY DEF SavesOrSends
  <2>3. Budgeted(ctx[t].event.attemptCount) /\ \A e \in Events : Budgeted(events[e].attemptCount)
    BY <1>1 DEF BudgetsOK
  <2> HIDE DEF Budgeted
  <2> QED
    BY <2>1, <2>2, <2>3
<1>5. \A u \in Threads : Budgeted(ctx'[u].event.attemptCount)
  BY <1>1 DEF BudgetsOK, Apart
<1>6. \A u \in Threads : \A i \in 1 .. Len(todo'[u]) : Budgeted(todo'[u][i].event.attemptCount)
  BY <1>1 DEF BudgetsOK, Apart
<1> QED
  BY <1>2, <1>3, <1>4, <1>5, <1>6 DEF BudgetsOK, Budgeted

(* A step of a pass that has an event in hand. *)
LEMMA PassKeeps ==
    ASSUME TypeOK, TypeOK', CountInvariant, OnePass, NEW t \in Passes,
           Apart(t), SubscriptionsKept, Busy(t), SavesOrSends(t), lastId' = lastId, todo'[t] = todo[t],
           Budgeted(ctx'[t].event.attemptCount),
           (pc'[t] = "next" /\ ~ctx'[t].inTry) \/ GoesOn(t), HandOK(t)'
    PROVE  CountInvariant'
<1>0. /\ KindsOK /\ BudgetsOK /\ TableCounts /\ ListedOK(t) /\ HandOK(t) /\ t \in Threads
      /\ \A u \in Passes : u = t
      /\ \A r \in Replays : RevivedOK(r)
  BY Kinds DEF CountInvariant, OnePass
<1>1. KindsOK'
  <2>1. pc'[t] \in {"idle", "list", "next"} \cup BusyLabels
    BY DEF GoesOn
  <2>2. ~Busy(t)' => ~ctx'[t].inTry
    BY DEF GoesOn, Busy
  <2> QED
    BY <1>0, <2>1, <2>2, Kinds DEF KindsOK, Apart
<1>2. BudgetsOK'
  <2>1. \A i \in 1 .. Len(todo'[t]) : Budgeted(todo'[t][i].event.attemptCount)
    BY <1>0 DEF BudgetsOK
  <2> QED
    BY <2>1, PassBudgets
<1>3. TableCounts'
  BY PassTable
<1>4. ctx[t].id \in Events
  BY <1>0 DEF HandOK
<1>5. ListedOK(t)'
  <2> SUFFICES ASSUME NEW i \in 1 .. Len(todo[t])
               PROVE  LET c == todo[t][i] IN
                      /\ c.id <= lastId'
                      /\ c.event.status \in {"PENDING", "RETRYING"}
                      /\ pc'[t] = "list" => c.event.status = "RETRYING"
                      /\ events'[c.id].status \in {c.event.status, "ABSENT"}
                      /\ sent'[c.id] <= c.event.attemptCount
                      /\ Busy(t)' => ctx'[t].id # c.id
                      /\ \A k \in 1 .. Len(todo[t]) : todo[t][k].id = c.id => i = k
    BY DEF ListedOK, Busy
  <2>1. todo[t][i].id \in Events /\ todo[t][i].id # ctx[t].id
    BY <1>0, Counts DEF ListedOK
  <2>2. events'[todo[t][i].id] = events[todo[t][i].id] /\ sent'[todo[t][i].id] = sent[todo[t][i].id]
    BY <2>1, PassElsewhere
  <2>3. pc'[t] # "list" /\ (Busy(t)' => ctx'[t].id = ctx[t].id)
    BY DEF GoesOn, Busy, BusyLabels
  <2> QED
    BY <1>0, <2>1, <2>2, <2>3 DEF ListedOK
<1>6. ASSUME NEW r \in Replays PROVE RevivedOK(r)'
  <2>1. todo'[r] = todo[r] /\ RevivedOK(r)
    BY <1>0, Kinds DEF Apart
  <2> SUFFICES ASSUME NEW i \in 1 .. Len(todo[r])
               PROVE  LET e == todo[r][i].id IN
                      /\ e <= lastId'
                      /\ events'[e].status \in {"DEAD_LETTER", "ABSENT"}
                      /\ \A u \in Passes : \A k \in 1 .. Len(todo'[u]) : todo'[u][k].id # e
                      /\ \A u \in Passes : Busy(u)' /\ ctx'[u].id = e => ctx'[u].event.status = "DEAD_LETTER"
                      /\ \A k \in 1 .. Len(todo[r]) : todo[r][k].id = e => i = k
    BY <2>1 DEF RevivedOK, Busy
  <2> DEFINE e == todo[r][i].id
  <2>2. /\ e \in Events /\ e <= lastId /\ events[e].status \in {"DEAD_LETTER", "ABSENT"}
        /\ \A k \in 1 .. Len(todo[t]) : todo[t][k].id # e
        /\ ctx[t].id = e => ctx[t].event.status = "DEAD_LETTER"
        /\ \A k \in 1 .. Len(todo[r]) : todo[r][k].id = e => i = k
    BY <2>1, Counts, Kinds DEF RevivedOK
  <2> HIDE DEF e
  <2>3. events'[e].status \in {"DEAD_LETTER", "ABSENT"}
    <3>1. CASE ctx[t].id # e
      BY <2>2, <3>1, PassElsewhere
    <3>2. CASE ctx[t].id = e
      BY <2>2, <3>2 DEF SavesOrSends, TypeOK
    <3> QED
      BY <3>1, <3>2
  <2>4. Busy(t)' /\ ctx'[t].id = e => ctx'[t].event.status = "DEAD_LETTER"
    <3>1. Busy(t)' => GoesOn(t)
      BY DEF Busy, BusyLabels
    <3> QED
      BY <2>2, <3>1 DEF GoesOn
  <2>5. \A u \in Passes : \A k \in 1 .. Len(todo'[u]) : todo'[u][k].id # e
    BY <1>0, <2>2
  <2>6. \A u \in Passes : Busy(u)' /\ ctx'[u].id = e => ctx'[u].event.status = "DEAD_LETTER"
    BY <1>0, <2>4
  <2> QED
    BY <2>2, <2>3, <2>5, <2>6 DEF e
<1>7. \A u \in Passes : ListedOK(u)' /\ HandOK(u)'
  BY <1>0, <1>5
<1> QED
  BY <1>1, <1>2, <1>3, <1>6, <1>7 DEF CountInvariant

(* A pass that goes on to the next event has none in hand. *)
LEMMA EmptyHand == ASSUME NEW t \in Passes, pc'[t] = "next" PROVE HandOK(t)'
BY DEF HandOK, Busy, BusyLabels

LEMMA NothingBudgeted ==
    Budgeted(0) /\ NoContext.event.attemptCount = 0 /\ NoEvent.attemptCount = 0 /\ ~NoContext.inTry
<1>1. PICK m \in Budgets : m \in Nat
  BY WebhookAssumption
<1>2. 0 <= m
  BY <1>1
<1> QED
  BY <1>2 DEF Budgeted, NoContext, NoEvent

(* What it holds has not changed, and the row is what it was or what it holds. *)
LEMMA HandStays ==
    ASSUME TypeOK, CountInvariant, NEW t \in Passes, Busy(t),
           ctx'[t].id = ctx[t].id, ctx'[t].event = ctx[t].event,
           ctx'[t].subscription = ctx[t].subscription,
           sent' = sent, lastId' = lastId,
           events' = events \/ events' = [events EXCEPT ![ctx[t].id] = ctx[t].event],
           \/ pc'[t] \in {"saveFailure", "recordFailure", "audit"}
           \/ pc[t] = "saveDelivered" /\ pc'[t] = "recordSuccess"
           \/ pc[t] = "saveAttempt" /\ pc'[t] = "send" /\ events' = [events EXCEPT ![ctx[t].id] = ctx[t].event]
    PROVE  HandOK(t)' /\ GoesOn(t)
<1>1. HandOK(t) /\ events \in [Events -> EventRow]
  BY DEF CountInvariant, TypeOK
<1>2. ctx[t].id \in Events /\ (events'[ctx[t].id] = events[ctx[t].id] \/ events'[ctx[t].id] = ctx[t].event)
  BY <1>1 DEF HandOK
<1>3. pc'[t] = "send" => pc[t] = "saveAttempt" /\ events'[ctx[t].id] = ctx[t].event
  BY <1>1, <1>2
<1>4. GoesOn(t)
  BY DEF GoesOn, BusyLabels
<1>5. /\ ctx[t].id <= lastId /\ ctx[t].event.status \notin {"PENDING", "ABSENT"}
      /\ pc[t] = "saveAttempt" => ctx[t].event.status = "RETRYING"
      /\ pc[t] = "saveDelivered" => ctx[t].event.status = "DELIVERED"
      /\ IF ctx[t].event.status = "DEAD_LETTER" THEN ctx[t].event.attemptCount >= ctx[t].subscription.maxRetries
                                               ELSE events[ctx[t].id].status # "DEAD_LETTER"
      /\ sent[ctx[t].id] <= ctx[t].event.attemptCount
      /\ pc[t] = "saveAttempt" => sent[ctx[t].id] < ctx[t].event.attemptCount
  BY <1>1 DEF HandOK
<1>6. HandOK(t)'
  BY <1>2, <1>3, <1>5 DEF HandOK, Exists
<1> QED
  BY <1>4, <1>6

(* Another attempt, or the dead letters. *)
LEMMA RetryHand ==
    ASSUME TypeOK, CountInvariant, NEW t \in Passes, pc[t] \in {"send", "recordFailure"}, ScheduleRetry(t),
           events' = events, lastId' = lastId,
           sent' = sent \/ (pc[t] = "send" /\ sent' = [sent EXCEPT ![ctx[t].id] = @ + 1])
    PROVE  HandOK(t)' /\ GoesOn(t) /\ ctx'[t].event.attemptCount = ctx[t].event.attemptCount
<1>1. HandOK(t) /\ Busy(t) /\ t \in Threads /\ pc \in [Threads -> Labels] /\ ctx[t] \in Context
  BY Kinds DEF CountInvariant, TypeOK, Busy, BusyLabels, Context
<1>2. /\ ctx[t].id \in Events /\ ctx[t].id <= lastId
      /\ IF ctx[t].event.status = "DEAD_LETTER" THEN ctx[t].event.attemptCount >= ctx[t].subscription.maxRetries
                                               ELSE events[ctx[t].id].status # "DEAD_LETTER"
      /\ sent[ctx[t].id] <= ctx[t].event.attemptCount
      /\ pc[t] = "send" => sent[ctx[t].id] < ctx[t].event.attemptCount
  BY <1>1 DEF HandOK
<1>3. sent'[ctx[t].id] <= ctx[t].event.attemptCount
  <2>1. sent[ctx[t].id] \in Nat /\ ctx[t].event.attemptCount \in Nat /\ sent \in [Events -> Nat]
    BY <1>1, <1>2, Counts DEF TypeOK
  <2> QED
    BY <1>2, <2>1
<1>4. CASE ctx[t].event.attemptCount >= ctx[t].subscription.maxRetries
  <2>1. /\ pc'[t] = "saveDeadLetter" /\ ctx'[t].event.status = "DEAD_LETTER" /\ ctx'[t].id = ctx[t].id
        /\ ctx'[t].event.attemptCount = ctx[t].event.attemptCount
        /\ ctx'[t].subscription = ctx[t].subscription
    BY <1>1, <1>4 DEF ScheduleRetry, Goto, TypeOK, Context, EventRow
  <2>2. GoesOn(t)
    BY <2>1 DEF GoesOn, BusyLabels
  <2>3. HandOK(t)'
    BY <1>2, <1>3, <1>4, <2>1 DEF HandOK
  <2> QED
    BY <2>1, <2>2, <2>3
<1>5. CASE ~(ctx[t].event.attemptCount >= ctx[t].subscription.maxRetries)
  <2>1. /\ pc'[t] = "saveRetry" /\ ctx'[t].event.status = "RETRYING" /\ ctx'[t].id = ctx[t].id
        /\ ctx'[t].event.attemptCount = ctx[t].event.attemptCount
    BY <1>1, <1>5 DEF ScheduleRetry, Goto, TypeOK, Context, EventRow
  <2>2. ctx[t].event.status # "DEAD_LETTER" /\ events[ctx[t].id].status # "DEAD_LETTER"
    BY <1>2, <1>5
  <2>3. GoesOn(t)
    BY <2>1, <2>2 DEF GoesOn, BusyLabels
  <2>4. HandOK(t)'
    BY <1>2, <1>3, <2>1, <2>2 DEF HandOK
  <2> QED
    BY <2>1, <2>3, <2>4
<1> QED
  BY <1>4, <1>5

(* Only handler t moves. *)
LEMMA OneMoves ==
    ASSUME TypeOK, NEW t \in Threads, NEW l, NEW c, pc' = [pc EXCEPT ![t] = l], ctx' = [ctx EXCEPT ![t] = c]
    PROVE  /\ pc'[t] = l /\ ctx'[t] = c
           /\ \A u \in Threads \ {t} : pc'[u] = pc[u] /\ ctx'[u] = ctx[u]
BY DEF TypeOK

(* The answer to an await that rejects. *)
LEMMA ThrowHand ==
    ASSUME TypeOK, CountInvariant, NEW t \in Passes, Busy(t), Throw(t),
           UNCHANGED <<events, sent, lastId>>
    PROVE  /\ \A u \in Threads \ {t} : pc'[u] = pc[u] /\ ctx'[u] = ctx[u]
           /\ (pc'[t] = "next" /\ ~ctx'[t].inTry) \/ GoesOn(t)
           /\ HandOK(t)' /\ Budgeted(ctx'[t].event.attemptCount)
<1>1. t \in Threads /\ ctx[t] \in Context /\ Budgeted(ctx[t].event.attemptCount)
  BY Kinds DEF TypeOK, Context, CountInvariant, BudgetsOK
<1>2. CASE ctx[t].inTry
  <2> DEFINE c == [ctx[t] EXCEPT !.inTry = FALSE]
  <2>1. pc' = [pc EXCEPT ![t] = "saveFailure"] /\ ctx' = [ctx EXCEPT ![t] = c]
    BY <1>2, <1>1 DEF Throw, Goto, TypeOK
  <2>2. c.id = ctx[t].id /\ c.event = ctx[t].event /\ c.subscription = ctx[t].subscription
    BY <1>1 DEF Context
  <2> HIDE DEF c
  <2>3. /\ pc'[t] = "saveFailure" /\ ctx'[t] = c
        /\ \A u \in Threads \ {t} : pc'[u] = pc[u] /\ ctx'[u] = ctx[u]
    BY <1>1, <2>1, OneMoves
  <2>4. HandOK(t)' /\ GoesOn(t)
    BY <2>2, <2>3, HandStays
  <2> QED
    BY <1>1, <2>2, <2>3, <2>4
<1>3. CASE ~ctx[t].inTry
  <2>1. /\ pc'[t] = "next" /\ ctx'[t] = NoContext
        /\ \A u \in Threads \ {t} : pc'[u] = pc[u] /\ ctx'[u] = ctx[u]
    BY <1>1, <1>3, OneMoves DEF Throw, Leave, Goto
  <2> QED
    BY <2>1, EmptyHand, NothingBudgeted
<1> QED
  BY <1>2, <1>3

(* It saves what it holds, and goes on or leaves; without its subscription it throws. *)
LEMMA SaveCounts ==
    ASSUME TypeOK, TypeOK', CountInvariant, OnePass, NEW t \in Passes, NEW from \in BusyLabels, NEW to,
           Save(t, from, to),
           \/ to \in {"next", "recordFailure", "audit"}
           \/ from = "saveDelivered" /\ to = "recordSuccess"
           \/ from = "saveAttempt" /\ to = "send"
    PROVE  CountInvariant'
<1>1. /\ t \in Threads /\ ctx[t] \in Context /\ Budgeted(ctx[t].event.attemptCount) /\ Busy(t) /\ pc[t] = from
      /\ lastId' = lastId /\ sent' = sent /\ SubscriptionsKept
      /\ todo' = todo
  BY Kinds DEF TypeOK, Context, CountInvariant, BudgetsOK, Save, Busy, SubscriptionsKept
<1>2. CASE ~Live(ctx[t].sub)
  <2>1. events' = events /\ Throw(t)
    BY <1>2 DEF Save, SaveEvent
  <2>2. SavesOrSends(t)
    BY <1>1, <2>1 DEF SavesOrSends
  <2>3. /\ \A u \in Threads \ {t} : pc'[u] = pc[u] /\ ctx'[u] = ctx[u]
        /\ (pc'[t] = "next" /\ ~ctx'[t].inTry) \/ GoesOn(t)
        /\ HandOK(t)' /\ Budgeted(ctx'[t].event.attemptCount)
    BY <1>1, <2>1, ThrowHand
  <2>4. Apart(t)
    BY <1>1, <2>3 DEF Apart
  <2> QED
    BY <1>1, <2>2, <2>3, <2>4, PassKeeps
<1>3. CASE Live(ctx[t].sub) /\ to = "next"
  <2>1. /\ pc'[t] = "next" /\ ctx'[t] = NoContext
        /\ \A u \in Threads \ {t} : pc'[u] = pc[u] /\ ctx'[u] = ctx[u]
    BY <1>1, <1>3, OneMoves DEF Save, Leave, Goto
  <2>2. SavesOrSends(t)
    BY <1>1, <1>3 DEF Save, SaveEvent, SavesOrSends
  <2>3. Apart(t) /\ HandOK(t)' /\ Budgeted(ctx'[t].event.attemptCount) /\ ~ctx'[t].inTry
    BY <1>1, <2>1, EmptyHand, NothingBudgeted DEF Apart
  <2> QED
    BY <1>1, <2>1, <2>2, <2>3, PassKeeps
<1>4. CASE Live(ctx[t].sub) /\ to # "next"
  <2> DEFINE c == [ctx[t] EXCEPT !.inTry = @ \/ to = "send"]
  <2>1. pc' = [pc EXCEPT ![t] = to] /\ ctx' = [ctx EXCEPT ![t] = c]
    BY <1>1, <1>4 DEF Save, Goto, TypeOK
  <2>2. c.id = ctx[t].id /\ c.event = ctx[t].event /\ c.subscription = ctx[t].subscription
    BY <1>1 DEF Context
  <2> HIDE DEF c
  <2>3. /\ pc'[t] = to /\ ctx'[t] = c
        /\ \A u \in Threads \ {t} : pc'[u] = pc[u] /\ ctx'[u] = ctx[u]
    BY <1>1, <2>1, OneMoves
  <2>4. events' = [events EXCEPT ![ctx[t].id] = ctx[t].event]
    BY <1>4 DEF Save, SaveEvent
  <2>5. HandOK(t)' /\ GoesOn(t)
    BY <1>1, <1>4, <2>2, <2>3, <2>4, HandStays
  <2>6. SavesOrSends(t) /\ Apart(t) /\ Budgeted(ctx'[t].event.attemptCount)
    BY <1>1, <2>2, <2>3, <2>4 DEF SavesOrSends, Apart
  <2> QED
    BY <1>1, <2>5, <2>6, PassKeeps
<1> QED
  BY <1>2, <1>3, <1>4

LEMMA SendCounts ==
    ASSUME TypeOK, TypeOK', CountInvariant, OnePass, NEW t \in Passes, SendHttpRequest(t)
    PROVE  CountInvariant'
<1>1. /\ t \in Threads /\ ctx[t] \in Context /\ Budgeted(ctx[t].event.attemptCount)
      /\ Busy(t) /\ pc[t] = "send" /\ HandOK(t)
      /\ lastId' = lastId /\ events' = events /\ SubscriptionsKept /\ todo' = todo
      /\ sent' = [sent EXCEPT ![ctx[t].id] = @ + 1]
  BY Kinds
     DEF TypeOK, Context, CountInvariant, BudgetsOK, SendHttpRequest, Busy, BusyLabels,
         SubscriptionsKept
<1>2. SavesOrSends(t)
  BY <1>1 DEF SavesOrSends
<1>3. CASE ScheduleRetry(t)
  <2>1. HandOK(t)' /\ GoesOn(t) /\ ctx'[t].event.attemptCount = ctx[t].event.attemptCount
    BY <1>1, <1>3, RetryHand
  <2>2. Apart(t)
    BY <1>1, <1>3 DEF ScheduleRetry, Goto, Apart, TypeOK
  <2> QED
    BY <1>1, <1>2, <2>1, <2>2, PassKeeps
<1>4. CASE pc' = [pc EXCEPT ![t] = "saveDelivered"] /\ ctx' = [ctx EXCEPT ![t].event.status = "DELIVERED"]
  <2>1. /\ pc'[t] = "saveDelivered" /\ ctx'[t].event.status = "DELIVERED" /\ ctx'[t].id = ctx[t].id
        /\ ctx'[t].event.attemptCount = ctx[t].event.attemptCount
    BY <1>1, <1>4 DEF TypeOK, Context, EventRow
  <2>2. Apart(t)
    BY <1>1, <1>4 DEF Apart, TypeOK
  <2>3. /\ ctx[t].id \in Events /\ ctx[t].id <= lastId /\ ctx[t].event.status = "RETRYING"
        /\ events[ctx[t].id].status # "DEAD_LETTER"
        /\ sent[ctx[t].id] < ctx[t].event.attemptCount
    BY <1>1 DEF HandOK
  <2>4. sent'[ctx[t].id] <= ctx[t].event.attemptCount
    <3>1. sent[ctx[t].id] \in Nat /\ ctx[t].event.attemptCount \in Nat /\ sent \in [Events -> Nat]
      BY <1>1, <2>3, Counts DEF TypeOK
    <3> QED
      BY <1>1, <2>3, <3>1
  <2>5. HandOK(t)'
    BY <1>1, <2>1, <2>3, <2>4 DEF HandOK
  <2>6. GoesOn(t)
    BY <2>1, <2>3 DEF GoesOn, BusyLabels
  <2> QED
    BY <1>1, <1>2, <2>1, <2>2, <2>5, <2>6, PassKeeps
<1> QED
  BY <1>3, <1>4 DEF SendHttpRequest, Goto

LEMMA DeliveryCounts ==
    ASSUME TypeOK, TypeOK', CountInvariant, OnePass, NEW t \in Passes, DeliveryStep(t)
    PROVE  CountInvariant'
<1>0. t \in Threads /\ ctx[t] \in Context /\ Budgeted(ctx[t].event.attemptCount)
  BY Kinds DEF TypeOK, Context, CountInvariant, BudgetsOK
<1>1. CASE \/ SaveAttempt(t) \/ SaveDelivered(t) \/ SaveFailure(t)
           \/ SaveRetry(t) \/ SaveDeadLetter(t) \/ SaveFailed(t)
  BY <1>1, SaveCounts DEF SaveAttempt, SaveDelivered, SaveFailure, SaveRetry, SaveDeadLetter,
                          SaveFailed, BusyLabels
<1>2. CASE SendHttpRequest(t)
  BY <1>2, SendCounts
<1>3. CASE RecordSuccess(t)
  <2>1. /\ Busy(t) /\ lastId' = lastId /\ sent' = sent /\ events' = events /\ todo' = todo /\ ctx' = ctx
        /\ pc' = [pc EXCEPT ![t] = "audit"]
    BY <1>3 DEF RecordSuccess, Goto, Busy, BusyLabels
  <2>2. pc'[t] = "audit" /\ Apart(t) /\ SavesOrSends(t)
    BY <1>0, <2>1 DEF TypeOK, Apart, SavesOrSends
  <2>3. SubscriptionsKept
    BY <1>3 DEF RecordSuccess, TypeOK, SubscriptionRow, SubscriptionsKept
  <2>4. HandOK(t)' /\ GoesOn(t)
    BY <2>1, <2>2, HandStays
  <2> QED
    BY <1>0, <2>1, <2>2, <2>3, <2>4, PassKeeps
<1>4. CASE CreateAuditLog(t)
  <2>1. /\ Busy(t) /\ lastId' = lastId /\ sent' = sent /\ events' = events /\ todo' = todo
        /\ SubscriptionsKept
    BY <1>4 DEF CreateAuditLog, Busy, BusyLabels, SubscriptionsKept
  <2>2. /\ pc'[t] = "next" /\ ctx'[t] = NoContext
        /\ \A u \in Threads \ {t} : pc'[u] = pc[u] /\ ctx'[u] = ctx[u]
    BY <1>0, <1>4, OneMoves DEF CreateAuditLog, Leave, Goto
  <2>3. /\ Apart(t) /\ SavesOrSends(t) /\ HandOK(t)'
        /\ Budgeted(ctx'[t].event.attemptCount) /\ ~ctx'[t].inTry
    BY <2>1, <2>2, EmptyHand, NothingBudgeted DEF Apart, SavesOrSends
  <2> QED
    BY <2>1, <2>2, <2>3, PassKeeps
<1>5. CASE RecordFailure(t)
  <2>1. /\ Busy(t) /\ lastId' = lastId /\ sent' = sent /\ events' = events /\ todo' = todo
        /\ SubscriptionsKept /\ pc[t] = "recordFailure" /\ ScheduleRetry(t)
    BY <1>5 DEF RecordFailure, Busy, BusyLabels, SubscriptionsKept
  <2>2. HandOK(t)' /\ GoesOn(t) /\ ctx'[t].event.attemptCount = ctx[t].event.attemptCount
    <3>1. /\ pc[t] \in {"send", "recordFailure"} /\ events' = events /\ lastId' = lastId
          /\ sent' = sent
      BY <2>1
    <3>3. sent' = sent \/ (pc[t] = "send" /\ sent' = [sent EXCEPT ![ctx[t].id] = @ + 1])
      BY <3>1, Zenon
    <3>2. ScheduleRetry(t)
      BY <1>5 DEF RecordFailure
    <3> QED
      BY <3>1, <3>2, <3>3, RetryHand, Zenon
  <2>3. Apart(t) /\ SavesOrSends(t)
    BY <1>0, <2>1 DEF ScheduleRetry, Goto, Apart, TypeOK, SavesOrSends
  <2> QED
    BY <1>0, <2>1, <2>2, <2>3, PassKeeps
<1> QED
  BY <1>1, <1>2, <1>3, <1>4, <1>5 DEF DeliveryStep

-----------------------------------------------------------------------------
(* Steps that give no pass anything to do. *)

(* Rows that were given an id stay as they were in status and count, or are gone. *)
LEMMA RowsFade ==
    ASSUME TypeOK, CountInvariant, TableCounts', KindsOK', BudgetsOK',
           sent' = sent, lastId' \in Nat, lastId <= lastId',
           \A e \in Events : e <= lastId =>
             \/ events'[e] = NoEvent
             \/ events'[e].status = events[e].status /\ events'[e].attemptCount = events[e].attemptCount,
           \A u \in Passes \cup Replays : pc'[u] = pc[u] /\ ctx'[u] = ctx[u] /\ todo'[u] = todo[u]
    PROVE  CountInvariant'
<1>0. \A e \in Events : e <= lastId => e <= lastId'
  <2>1. lastId \in Nat /\ Events \subseteq Nat
    BY Counts, WebhookAssumption DEF Events
  <2> QED
    BY <2>1
<1>1. ASSUME NEW t \in Passes PROVE ListedOK(t)'
  <2>0. ListedOK(t) /\ t \in Threads /\ todo'[t] = todo[t] /\ pc'[t] = pc[t] /\ ctx'[t] = ctx[t]
    BY Kinds DEF CountInvariant
  <2> SUFFICES ASSUME NEW i \in 1 .. Len(todo[t])
               PROVE  LET c == todo[t][i] IN
                      /\ c.id <= lastId'
                      /\ events'[c.id].status \in {c.event.status, "ABSENT"}
    BY <2>0 DEF ListedOK, Busy
  <2>1. /\ todo[t][i].id \in Events /\ todo[t][i].id <= lastId
        /\ events[todo[t][i].id].status \in {todo[t][i].event.status, "ABSENT"}
    BY <2>0, Counts DEF ListedOK
  <2> QED
    BY <1>0, <2>1 DEF NoEvent
<1>2. ASSUME NEW t \in Passes PROVE HandOK(t)'
  <2>0. HandOK(t) /\ pc'[t] = pc[t] /\ ctx'[t] = ctx[t]
    BY DEF CountInvariant
  <2> SUFFICES ASSUME Busy(t) PROVE HandOK(t)'
    BY <2>0 DEF HandOK, Busy
  <2>1. ctx[t].id \in Events /\ ctx[t].id <= lastId
    BY <2>0 DEF HandOK
  <2>2. \/ events'[ctx[t].id].status = "ABSENT"
        \/ /\ events'[ctx[t].id].status = events[ctx[t].id].status
           /\ events'[ctx[t].id].attemptCount = events[ctx[t].id].attemptCount
    BY <2>1 DEF NoEvent
  <2>3. ctx[t].id <= lastId'
    BY <1>0, <2>1
  <2> QED
    BY <2>0, <2>1, <2>2, <2>3 DEF HandOK, Exists, Busy
<1>3. ASSUME NEW r \in Replays PROVE RevivedOK(r)'
  <2>0. RevivedOK(r) /\ r \in Threads /\ todo'[r] = todo[r]
    BY Kinds DEF CountInvariant
  <2> SUFFICES ASSUME NEW i \in 1 .. Len(todo[r])
               PROVE  /\ todo[r][i].id <= lastId'
                      /\ events'[todo[r][i].id].status \in {"DEAD_LETTER", "ABSENT"}
    BY <2>0 DEF RevivedOK, Busy
  <2>1. /\ todo[r][i].id \in Events /\ todo[r][i].id <= lastId
        /\ events[todo[r][i].id].status \in {"DEAD_LETTER", "ABSENT"}
    BY <2>0, Counts DEF RevivedOK
  <2> QED
    BY <1>0, <2>1 DEF NoEvent
<1> QED
  BY <1>1, <1>2, <1>3 DEF CountInvariant

LEMMA AddEventsCounts ==
    ASSUME TypeOK, CountInvariant, NEW q \in Seq(Subscriptions), AddEvents(q)
    PROVE  CountInvariant'
<1>1. /\ Len(q) \in Nat /\ lastId \in Nat /\ lastId' = lastId + Len(q) /\ lastId <= lastId' /\ Events \subseteq Nat
      /\ lastId' \in Nat
      /\ UNCHANGED <<subscriptions, received, sent, todo, pc, ctx, faults, crashes>>
  BY Counts, WebhookAssumption DEF AddEvents, Events
<1>2. ASSUME NEW e \in Events
      PROVE  /\ e <= lastId => events'[e] = events[e]
             /\ e > lastId' => events'[e] = events[e] /\ e > lastId
             /\ \/ events'[e] = events[e]
                \/ e > lastId /\ events'[e].status = "PENDING" /\ events'[e].attemptCount = 0
  <2>1. /\ e \in Nat /\ (e > lastId' => e > lastId)
        /\ e \in lastId + 1 .. lastId + Len(q) <=> e > lastId /\ e <= lastId'
        /\ e <= lastId => ~(e > lastId)
        /\ e > lastId' => ~(e <= lastId')
    BY <1>1
  <2> QED
    BY <2>1 DEF AddEvents
<1>3. TableCounts /\ BudgetsOK /\ KindsOK
  BY DEF CountInvariant
<1>4. TableCounts'
  <2>1. \A e \in Events : e > lastId' => events'[e] = NoEvent /\ sent'[e] = 0
    BY <1>1, <1>2, <1>3 DEF TableCounts
  <2>2. \A e \in Events : events'[e].status # "ABSENT" => sent'[e] <= events'[e].attemptCount
    <3> SUFFICES ASSUME NEW e \in Events, events'[e].status # "ABSENT"
                 PROVE  sent[e] <= events'[e].attemptCount
      BY <1>1
    <3>1. CASE events'[e] = events[e]
      BY <1>3, <3>1 DEF TableCounts, Exists
    <3>2. CASE e > lastId /\ events'[e].attemptCount = 0
      <4>1. sent[e] = 0
        BY <1>3, <3>2 DEF TableCounts
      <4> QED
        BY <3>2, <4>1
    <3> QED
      BY <1>2, <3>1, <3>2
  <2> QED
    BY <2>1, <2>2 DEF TableCounts, Exists
<1>5. BudgetsOK'
  <2>1. \A e \in Events : Budgeted(events'[e].attemptCount)
    BY <1>2, <1>3, NothingBudgeted DEF BudgetsOK
  <2> QED
    BY <1>1, <1>3, <2>1 DEF BudgetsOK, Budgeted
<1>6. KindsOK'
  BY <1>1, <1>3 DEF KindsOK, Busy
<1>7. \A e \in Events : e <= lastId => events'[e] = events[e]
  BY <1>2
<1> QED
  BY <1>1, <1>4, <1>5, <1>6, <1>7, RowsFade

LEMMA ServiceCounts ==
    ASSUME TypeOK, CountInvariant,
           \/ PublishEvent
           \/ \E s \in Subscriptions : CreateSubscription(s) \/ TestSubscription(s)
    PROVE  CountInvariant'
<1>1. CASE PublishEvent
  <2>0. PICK S \in SUBSET Subscriptions : \E q \in Orders(S) : AddEvents(q)
    BY <1>1 DEF PublishEvent
  <2>1. PICK q \in Orders(S) : AddEvents(q)
    BY <2>0
  <2>2. q \in Seq(Subscriptions)
    BY OrdersAreSequences, WebhookAssumption
  <2> QED
    BY <2>1, <2>2, AddEventsCounts
<1>2. ASSUME NEW s \in Subscriptions, TestSubscription(s) PROVE CountInvariant'
  <2>1. AddEvents(<<s>>)
    BY <1>2 DEF TestSubscription
  <2>2. <<s>> \in Seq(Subscriptions)
    OBVIOUS
  <2> QED
    BY <2>1, <2>2, AddEventsCounts
<1>3. ASSUME NEW s \in Subscriptions, CreateSubscription(s) PROVE CountInvariant'
  <2>1. UNCHANGED <<events, lastId, received, sent, todo, pc, ctx, faults, crashes>>
    BY <1>3 DEF CreateSubscription
  <2>2. KindsOK /\ BudgetsOK /\ TableCounts /\ lastId \in Nat
    BY Counts DEF CountInvariant
  <2>3. \A x \in Subscriptions : subscriptions'[x] = subscriptions[x] \/ subscriptions'[x].maxRetries \in Budgets
    BY <1>3 DEF CreateSubscription, TypeOK
  <2>4. BudgetsOK'
    BY <2>1, <2>2, <2>3 DEF BudgetsOK, Budgeted
  <2>5. KindsOK' /\ TableCounts'
    BY <2>1, <2>2 DEF KindsOK, TableCounts, Exists, Busy
  <2> QED
    BY <2>1, <2>2, <2>4, <2>5, RowsFade
<1> QED
  BY <1>1, <1>2, <1>3

LEMMA EditorCounts ==
    ASSUME TypeOK, CountInvariant, NEW t \in Edits,
           \/ EditStep(t)
           \/ \E s \in Subscriptions : UpdateSubscription(t, s) \/ DeleteSubscription(t, s)
    PROVE  CountInvariant'
<1>0. /\ KindsOK /\ BudgetsOK /\ TableCounts /\ lastId \in Nat /\ t \in Threads
      /\ \A u \in Passes \cup Replays : u \in Threads \ {t}
      /\ ctx[t] \in Context
  BY Counts, Kinds DEF CountInvariant, TypeOK, Context
<1>1. ASSUME NEW l \in {"idle", "saveSubscription", "remove"}, NEW c, pc' = [pc EXCEPT ![t] = l],
             ctx' = [ctx EXCEPT ![t] = c], todo' = todo, sent' = sent, lastId' = lastId,
             Budgeted(c.event.attemptCount),
             l = "saveSubscription" => c.subscription.row = "live" /\ c.subscription.maxRetries \in Budgets,
             \A x \in Subscriptions : subscriptions'[x].row # "live" \/ subscriptions'[x].maxRetries \in Budgets,
             \A e \in Events : events'[e] = NoEvent \/ events'[e] = events[e]
      PROVE  CountInvariant'
  <2>1. /\ pc'[t] = l /\ ctx'[t] = c
        /\ \A u \in Threads \ {t} : pc'[u] = pc[u] /\ ctx'[u] = ctx[u]
    BY <1>0, <1>1, OneMoves
  <2>2. KindsOK'
    BY <1>0, <1>1, <2>1, Kinds DEF KindsOK, Busy
  <2>3. \A e \in Events : Budgeted(events'[e].attemptCount)
    BY <1>0, <1>1, NothingBudgeted DEF BudgetsOK
  <2>4. \A u \in Threads : Budgeted(ctx'[u].event.attemptCount)
    BY <1>0, <1>1, <2>1 DEF BudgetsOK
  <2>5. \A u \in Edits : pc'[u] = "saveSubscription" =>
          ctx'[u].subscription.row = "live" /\ ctx'[u].subscription.maxRetries \in Budgets
    BY <1>0, <1>1, <2>1, Kinds DEF BudgetsOK
  <2>6. \A u \in Threads : \A i \in 1 .. Len(todo'[u]) : Budgeted(todo'[u][i].event.attemptCount)
    BY <1>0, <1>1 DEF BudgetsOK
  <2>7. BudgetsOK'
    BY <1>1, <2>3, <2>4, <2>5, <2>6 DEF BudgetsOK, Budgeted
  <2>8. TableCounts'
    BY <1>0, <1>1 DEF TableCounts, Exists, NoEvent
  <2>9. \A u \in Passes \cup Replays : pc'[u] = pc[u] /\ ctx'[u] = ctx[u] /\ todo'[u] = todo[u]
    BY <1>0, <1>1, <2>1
  <2> QED
    BY <1>0, <1>1, <2>2, <2>7, <2>8, <2>9, RowsFade
<1>2. ASSUME NEW s \in Subscriptions, UpdateSubscription(t, s) PROVE CountInvariant'
  <2>1. PICK active \in BOOLEAN, status \in WebhookSubscriptionStatus, m \in Budgets :
          ctx' = [ctx EXCEPT ![t].sub = s, ![t].subscription =
             [row |-> "live", isActive |-> active, status |-> status, maxRetries |-> m]]
    BY <1>2 DEF UpdateSubscription
  <2> DEFINE c == [ctx[t] EXCEPT !.sub = s, !.subscription =
             [row |-> "live", isActive |-> active, status |-> status, maxRetries |-> m]]
  <2>2. ctx' = [ctx EXCEPT ![t] = c]
    BY <2>1 DEF TypeOK
  <2>3. c.event = ctx[t].event /\ c.subscription.row = "live" /\ c.subscription.maxRetries \in Budgets
    BY <1>0 DEF Context
  <2> HIDE DEF c
  <2>4. /\ pc' = [pc EXCEPT ![t] = "saveSubscription"]
        /\ UNCHANGED <<subscriptions, events, lastId, received, sent, todo, faults, crashes>>
    BY <1>2 DEF UpdateSubscription, Goto
  <2>5. Budgeted(c.event.attemptCount)
    BY <1>0, <2>3 DEF BudgetsOK
  <2>6. \A x \in Subscriptions : subscriptions'[x].row # "live" \/ subscriptions'[x].maxRetries \in Budgets
    BY <1>0, <2>4 DEF BudgetsOK
  <2> QED
    BY <1>1, <2>2, <2>3, <2>4, <2>5, <2>6
<1>3. ASSUME NEW s \in Subscriptions, DeleteSubscription(t, s) PROVE CountInvariant'
  <2> DEFINE c == [ctx[t] EXCEPT !.sub = s]
  <2>2. ctx' = [ctx EXCEPT ![t] = c]
    BY <1>3 DEF DeleteSubscription, TypeOK
  <2>3. c.event = ctx[t].event
    BY <1>0 DEF Context
  <2> HIDE DEF c
  <2>4. /\ pc' = [pc EXCEPT ![t] = "remove"]
        /\ UNCHANGED <<subscriptions, events, lastId, received, sent, todo, faults, crashes>>
    BY <1>3 DEF DeleteSubscription, Goto
  <2>5. Budgeted(c.event.attemptCount)
    BY <1>0, <2>3 DEF BudgetsOK
  <2>6. \A x \in Subscriptions : subscriptions'[x].row # "live" \/ subscriptions'[x].maxRetries \in Budgets
    BY <1>0, <2>4 DEF BudgetsOK
  <2> QED
    BY <1>1, <2>2, <2>4, <2>5, <2>6
<1>4. CASE SaveSubscription(t)
  <2>1. /\ pc' = [pc EXCEPT ![t] = "idle"] /\ ctx' = [ctx EXCEPT ![t] = NoContext]
        /\ UNCHANGED <<events, lastId, received, sent, todo, faults, crashes>>
    BY <1>4 DEF SaveSubscription, Goto
  <2>2. Budgeted(NoContext.event.attemptCount)
    BY NothingBudgeted
  <2>3. ctx[t].subscription.maxRetries \in Budgets
    BY <1>0, <1>4 DEF SaveSubscription, BudgetsOK
  <2>4. \A x \in Subscriptions : subscriptions'[x].row # "live" \/ subscriptions'[x].maxRetries \in Budgets
    BY <1>0, <1>4, <2>3 DEF SaveSubscription, BudgetsOK, TypeOK
  <2> QED
    BY <1>1, <2>1, <2>2, <2>4
<1>5. CASE RemoveSubscription(t)
  <2>1. /\ pc' = [pc EXCEPT ![t] = "idle"] /\ ctx' = [ctx EXCEPT ![t] = NoContext]
        /\ UNCHANGED <<lastId, received, sent, todo, faults, crashes>>
        /\ \A e \in Events : events'[e] = NoEvent \/ events'[e] = events[e]
    BY <1>5 DEF RemoveSubscription, Goto
  <2>2. Budgeted(NoContext.event.attemptCount)
    BY NothingBudgeted
  <2>4. \A x \in Subscriptions : subscriptions'[x].row # "live" \/ subscriptions'[x].maxRetries \in Budgets
    BY <1>0, <1>5 DEF RemoveSubscription, BudgetsOK, TypeOK, SubscriptionRow
  <2> QED
    BY <1>1, <2>1, <2>2, <2>4
<1> QED
  BY <1>2, <1>3, <1>4, <1>5 DEF EditStep

LEMMA TimeCounts ==
    ASSUME TypeOK, CountInvariant, NEW e \in Events, TimePasses(e)
    PROVE  CountInvariant'
<1>1. /\ events' = [events EXCEPT ![e].nextRetryAt = "passed"] /\ events[e].nextRetryAt = "later"
      /\ UNCHANGED <<subscriptions, lastId, received, sent, todo, pc, ctx, faults, crashes>>
  BY DEF TimePasses
<1>2. KindsOK /\ BudgetsOK /\ TableCounts /\ lastId \in Nat /\ events \in [Events -> EventRow]
  BY Counts DEF CountInvariant, TypeOK
<1>3. /\ \A f \in Events : events'[f].status = events[f].status /\ events'[f].attemptCount = events[f].attemptCount
      /\ \A f \in Events : f # e => events'[f] = events[f]
  BY <1>1, <1>2 DEF EventRow
<1>4. TableCounts'
  <2>1. ~(e > lastId)
    BY <1>1, <1>2 DEF TableCounts, NoEvent
  <2> QED
    BY <1>1, <1>2, <1>3, <2>1 DEF TableCounts, Exists
<1>5. KindsOK' /\ BudgetsOK'
  BY <1>1, <1>2, <1>3 DEF KindsOK, BudgetsOK, Busy, Budgeted
<1> QED
  BY <1>1, <1>2, <1>3, <1>4, <1>5, RowsFade

(* Handlers that have nothing in hand and nothing listed promise nothing. *)
LEMMA CrashCounts ==
    ASSUME TypeOK, CountInvariant, Crash
    PROVE  CountInvariant'
<1>1. /\ todo' = [t \in Threads |-> <<>>] /\ pc' = [t \in Threads |-> "idle"]
      /\ ctx' = [t \in Threads |-> NoContext]
      /\ UNCHANGED <<subscriptions, events, lastId, received, sent, faults>>
  BY DEF Crash
<1>2. \A t \in Threads : todo'[t] = <<>> /\ pc'[t] = "idle" /\ ctx'[t] = NoContext /\ Len(todo'[t]) = 0
  BY <1>1
<1>3. BudgetsOK /\ TableCounts
  BY DEF CountInvariant
<1>4. KindsOK'
  BY <1>2, Kinds, NothingBudgeted DEF KindsOK
<1>5. BudgetsOK'
  BY <1>1, <1>2, <1>3, Kinds, NothingBudgeted DEF BudgetsOK, Budgeted
<1>6. TableCounts'
  BY <1>1, <1>3 DEF TableCounts, Exists
<1>7. \A t \in Passes : ListedOK(t)' /\ HandOK(t)'
  BY <1>2, Kinds DEF ListedOK, HandOK, Busy, BusyLabels
<1>8. \A r \in Replays : RevivedOK(r)'
  BY <1>2, Kinds DEF RevivedOK
<1> QED
  BY <1>4, <1>5, <1>6, <1>7, <1>8 DEF CountInvariant

-----------------------------------------------------------------------------
(* Listing. *)

LEMMA ListedFrom ==
    ASSUME NEW S \in SUBSET Events, NEW n \in Nat,
           NEW q \in Oldest(S, n) \cup Newest(S, n) \cup AnyOf(S, n)
    PROVE  \E T \in SUBSET S : q \in Orders(T)
<1>1. CASE q \in Oldest(S, n)
  BY <1>1 DEF Oldest
<1>2. CASE q \in Newest(S, n)
  BY <1>2 DEF Newest
<1>3. CASE q \in AnyOf(S, n)
  BY <1>3 DEF AnyOf
<1> QED
  BY <1>1, <1>2, <1>3

(* A list has each row once, as it is in the table. *)
LEMMA RowsListed ==
    ASSUME TypeOK, CountInvariant, NEW S \in SUBSET Events, \A e \in S : Exists(e), NEW n \in Nat,
           NEW q \in Oldest(S, n) \cup Newest(S, n) \cup AnyOf(S, n)
    PROVE  /\ Len(Entities(q)) \in Nat /\ Entities(q) \in Seq(Entity)
           /\ \A i \in 1 .. Len(Entities(q)) :
                /\ Entities(q)[i].id \in S /\ Entities(q)[i].event = events[Entities(q)[i].id]
                /\ Entities(q)[i].id <= lastId
                /\ sent[Entities(q)[i].id] <= Entities(q)[i].event.attemptCount
                /\ Budgeted(Entities(q)[i].event.attemptCount)
                /\ \A k \in 1 .. Len(Entities(q)) : Entities(q)[k].id = Entities(q)[i].id => i = k
<1>1. PICK T \in SUBSET S : q \in Orders(T)
  BY ListedFrom
<1>2. IsFiniteSet(Events)
  BY WebhookAssumption, FS_Interval DEF Events
<1>3. /\ Cardinality(T) \in Nat /\ q \in [1 .. Cardinality(T) -> T]
      /\ \A i, k \in 1 .. Cardinality(T) : q[i] = q[k] => i = k
  <2>1. Cardinality(T) \in Nat /\ q \in [1 .. Cardinality(T) -> T]
    BY <1>1, <1>2, OrdersAreSequences
  <2> QED
    BY <1>1, <2>1 DEF Orders
<1>4. \A i \in 1 .. Cardinality(T) : q[i] \in Events /\ events[q[i]] \in EventRow
  BY <1>3 DEF TypeOK
<1>5. Entities(q) \in [1 .. Cardinality(T) -> Entity]
  BY <1>3, <1>4 DEF Entities, Entity
<1>6. Entities(q) \in Seq(Entity) /\ Len(Entities(q)) = Cardinality(T)
  BY <1>3, <1>5
<1>7. \A i \in 1 .. Cardinality(T) :
        Entities(q)[i].event = events[q[i]] /\ Entities(q)[i].id = q[i]
  BY <1>3 DEF Entities
<1>8. ASSUME NEW e \in S
      PROVE  e <= lastId /\ sent[e] <= events[e].attemptCount /\ Budgeted(events[e].attemptCount)
  <2>1. ~(e > lastId)
    BY <1>8 DEF CountInvariant, TableCounts, Exists, NoEvent
  <2>2. e \in Nat /\ lastId \in Nat
    BY Counts, WebhookAssumption DEF Events
  <2>3. sent[e] <= events[e].attemptCount
    BY <1>8 DEF CountInvariant, TableCounts
  <2>4. Budgeted(events[e].attemptCount)
    BY DEF CountInvariant, BudgetsOK
  <2> QED
    BY <2>1, <2>2, <2>3, <2>4
<1> HIDE DEF Entities
<1>9. \A i \in 1 .. Cardinality(T) : q[i] \in S
  BY <1>3
<1> QED
  BY <1>3, <1>6, <1>7, <1>8, <1>9

(* A handler that lists, or takes from its list, and touches no table. *)
LEMMA LocalCounts ==
    ASSUME TypeOK, CountInvariant, NEW t \in Passes \cup Replays,
           UNCHANGED <<subscriptions, events, lastId, sent>>, Apart(t), KindsOK',
           Budgeted(ctx'[t].event.attemptCount),
           \A i \in 1 .. Len(todo'[t]) : Budgeted(todo'[t][i].event.attemptCount),
           \A u \in Passes : ListedOK(u)' /\ HandOK(u)',
           \A r \in Replays : RevivedOK(r)'
    PROVE  CountInvariant'
<1>1. BudgetsOK /\ TableCounts /\ t \in Threads /\ \A u \in Edits : u # t /\ u \in Threads
  BY Kinds DEF CountInvariant
<1>2. TableCounts'
  BY <1>1 DEF TableCounts, Exists
<1>3. \A u \in Edits : pc'[u] = "saveSubscription" =>
        ctx'[u].subscription.row = "live" /\ ctx'[u].subscription.maxRetries \in Budgets
  BY <1>1 DEF BudgetsOK, Apart
<1>4. \A u \in Threads : Budgeted(ctx'[u].event.attemptCount)
  BY <1>1 DEF BudgetsOK, Apart
<1>5. \A u \in Threads : \A i \in 1 .. Len(todo'[u]) : Budgeted(todo'[u][i].event.attemptCount)
  BY <1>1 DEF BudgetsOK, Apart
<1>6. BudgetsOK'
  BY <1>1, <1>3, <1>4, <1>5 DEF BudgetsOK, Budgeted
<1> QED
  BY <1>2, <1>6 DEF CountInvariant

(* A replay that another handler leaves alone. *)
LEMMA RevivedStays ==
    ASSUME TypeOK, NEW r \in Replays, RevivedOK(r), OnePass, NEW t \in Passes,
           todo'[r] = todo[r], UNCHANGED <<events, lastId>>,
           \A i \in 1 .. Len(todo[r]) :
             /\ \A k \in 1 .. Len(todo'[t]) : todo'[t][k].id # todo[r][i].id
             /\ Busy(t)' => ctx'[t].id # todo[r][i].id
    PROVE  RevivedOK(r)'
BY DEF RevivedOK, OnePass

LEMMA NothingListed ==
    ASSUME NEW t \in Threads, todo'[t] = <<>>
    PROVE  /\ Len(todo'[t]) = 0
           /\ \A i \in 1 .. Len(todo'[t]) : Budgeted(todo'[t][i].event.attemptCount)
           /\ ListedOK(t)' /\ RevivedOK(t)'
<1>1. Len(todo'[t]) = 0
  OBVIOUS
<1> QED
  BY <1>1 DEF ListedOK, RevivedOK

(* What a pass may have listed. *)
Fresh(q) ==
    \A i \in 1 .. Len(q) :
        /\ q[i].id <= lastId /\ q[i].id \in Events
        /\ q[i].event.status \in {"PENDING", "RETRYING"}
        /\ events[q[i].id].status \in {q[i].event.status, "ABSENT"}
        /\ sent[q[i].id] <= q[i].event.attemptCount
        /\ Budgeted(q[i].event.attemptCount)
        /\ \A k \in 1 .. Len(q) : q[k].id = q[i].id => i = k
        /\ \A r \in Replays : \A k \in 1 .. Len(todo[r]) : todo[r][k].id # q[i].id

(* The rows with a status that a pass lists. *)
LEMMA FreshRows ==
    ASSUME TypeOK, CountInvariant, NEW S \in SUBSET Events, NEW status \in {"PENDING", "RETRYING"},
           \A e \in S : events[e].status = status, NEW n \in Nat, NEW q \in Oldest(S, n) \cup AnyOf(S, n)
    PROVE  /\ Entities(q) \in Seq(Entity) /\ Fresh(Entities(q))
           /\ \A i \in 1 .. Len(Entities(q)) :
                /\ Entities(q)[i].event.status = status
                /\ events[Entities(q)[i].id].status = status
<1>1. \A e \in S : Exists(e)
  BY DEF Exists
<1> DEFINE n1 == Entities(q)
<1>2. /\ n1 \in Seq(Entity)
      /\ \A i \in 1 .. Len(n1) :
            /\ n1[i].id \in S /\ n1[i].event = events[n1[i].id]
            /\ n1[i].id <= lastId
            /\ sent[n1[i].id] <= n1[i].event.attemptCount
            /\ Budgeted(n1[i].event.attemptCount)
            /\ \A k \in 1 .. Len(n1) : n1[k].id = n1[i].id => i = k
  BY <1>1, RowsListed
<1> HIDE DEF n1
<1>3. \A i \in 1 .. Len(n1) : n1[i].event.status = status /\ events[n1[i].id].status = status /\ n1[i].id \in Events
  BY <1>2
<1>4. ASSUME NEW i \in 1 .. Len(n1), NEW r \in Replays, NEW k \in 1 .. Len(todo[r]) PROVE todo[r][k].id # n1[i].id
  <2>1. events[todo[r][k].id].status \in {"DEAD_LETTER", "ABSENT"}
    BY DEF CountInvariant, RevivedOK
  <2> QED
    BY <1>3, <2>1
<1>5. Fresh(n1)
  BY <1>2, <1>3, <1>4 DEF Fresh
<1> QED
  BY <1>2, <1>3, <1>5 DEF n1

(* A list can grow by rows of another status. *)
LEMMA FreshTogether ==
    ASSUME NEW p \in Seq(Entity), NEW n \in Seq(Entity), Fresh(p), Fresh(n),
           \A i \in 1 .. Len(p), k \in 1 .. Len(n) : p[i].id # n[k].id
    PROVE  p \o n \in Seq(Entity) /\ Fresh(p \o n)
<1> DEFINE q == p \o n
<1>1. /\ q \in Seq(Entity) /\ Len(q) = Len(p) + Len(n) /\ Len(p) \in Nat /\ Len(n) \in Nat
      /\ \A i \in 1 .. Len(p) : q[i] = p[i]
      /\ \A i \in 1 .. Len(q) : i > Len(p) => q[i] = n[i - Len(p)] /\ i - Len(p) \in 1 .. Len(n)
  OBVIOUS
<1> HIDE DEF q
<1>2. ASSUME NEW i \in 1 .. Len(q)
      PROVE  \/ i \in 1 .. Len(p) /\ q[i] = p[i]
             \/ i - Len(p) \in 1 .. Len(n) /\ q[i] = n[i - Len(p)]
  <2>1. i <= Len(p) \/ i > Len(p)
    BY <1>1
  <2>2. i <= Len(p) => i \in 1 .. Len(p)
    BY <1>1
  <2> QED
    BY <1>1, <2>1, <2>2
<1>3. ASSUME NEW i \in 1 .. Len(q)
      PROVE  /\ q[i].id <= lastId /\ q[i].id \in Events
             /\ q[i].event.status \in {"PENDING", "RETRYING"}
             /\ events[q[i].id].status \in {q[i].event.status, "ABSENT"}
             /\ sent[q[i].id] <= q[i].event.attemptCount
             /\ Budgeted(q[i].event.attemptCount)
             /\ \A r \in Replays : \A k \in 1 .. Len(todo[r]) : todo[r][k].id # q[i].id
  <2>1. CASE i \in 1 .. Len(p) /\ q[i] = p[i]
    BY <2>1 DEF Fresh
  <2>2. CASE i - Len(p) \in 1 .. Len(n) /\ q[i] = n[i - Len(p)]
    <3> DEFINE j == i - Len(p)
    <3>1. j \in 1 .. Len(n) /\ q[i] = n[j]
      BY <2>2
    <3> HIDE DEF j
    <3> QED
      BY <3>1 DEF Fresh
  <2> QED
    BY <1>2, <2>1, <2>2
<1>4. ASSUME NEW i \in 1 .. Len(q), NEW k \in 1 .. Len(q), q[k].id = q[i].id PROVE i = k
  <2>1. CASE i \in 1 .. Len(p) /\ q[i] = p[i] /\ k \in 1 .. Len(p) /\ q[k] = p[k]
    BY <1>4, <2>1 DEF Fresh
  <2>2. CASE /\ i - Len(p) \in 1 .. Len(n) /\ q[i] = n[i - Len(p)]
             /\ k - Len(p) \in 1 .. Len(n) /\ q[k] = n[k - Len(p)]
    <3>1. i - Len(p) = k - Len(p)
      BY <1>4, <2>2 DEF Fresh
    <3> QED
      BY <1>1, <3>1
  <2> QED
    BY <1>2, <1>4, <2>1, <2>2
<1>5. Fresh(q)
  BY <1>3, <1>4 DEF Fresh
<1> QED
  BY <1>1, <1>5 DEF q

LEMMA PassListsCounts ==
    ASSUME TypeOK, CountInvariant, OnePass, NEW t \in Passes, ProcessPendingEvents(t) \/ ListPending(t)
    PROVE  CountInvariant'
<1>0. /\ t \in Threads /\ KindsOK /\ BudgetsOK /\ ListedOK(t) /\ ctx[t] \in Context /\ todo[t] \in Seq(Entity)
      /\ \A r \in Replays : RevivedOK(r)
      /\ \A u \in Passes : u = t
      /\ BatchSize \in Nat
  BY Kinds, WebhookAssumption DEF CountInvariant, TypeOK, Context, OnePass
<1>1. PICK q \in Seq(Entity), l \in {"list", "next"} :
        /\ todo' = [todo EXCEPT ![t] = q] /\ pc' = [pc EXCEPT ![t] = l]
        /\ ctx' = ctx /\ UNCHANGED <<subscriptions, events, lastId, sent>>
        /\ pc[t] \in {"idle", "list"} /\ Fresh(q)
        /\ l = "list" => \A i \in 1 .. Len(q) : q[i].event.status = "RETRYING"
  <2>1. CASE ProcessPendingEvents(t)
    <3>1. PICK p \in AnyOf(ReadyForRetry, BatchSize) : todo' = [todo EXCEPT ![t] = Entities(p)]
      BY <2>1 DEF ProcessPendingEvents
    <3>2. ReadyForRetry \in SUBSET Events /\ \A e \in ReadyForRetry : events[e].status = "RETRYING"
      BY DEF ReadyForRetry, WithStatus
    <3>3. /\ Entities(p) \in Seq(Entity) /\ Fresh(Entities(p))
          /\ \A i \in 1 .. Len(Entities(p)) : Entities(p)[i].event.status = "RETRYING"
      BY <1>0, <3>2, FreshRows
    <3> HIDE DEF Entities
    <3>6. /\ pc' = [pc EXCEPT ![t] = "list"] /\ ctx' = ctx /\ UNCHANGED <<subscriptions, events, lastId, sent>>
          /\ pc[t] = "idle"
      BY <2>1 DEF ProcessPendingEvents, Goto
    <3> QED
      BY <3>1, <3>3, <3>6
  <2>2. CASE ListPending(t)
    <3>1. PICK p \in Oldest(WithStatus("PENDING"), BatchSize) : todo' = [todo EXCEPT ![t] = @ \o Entities(p)]
      BY <2>2 DEF ListPending
    <3>2. WithStatus("PENDING") \in SUBSET Events /\ \A e \in WithStatus("PENDING") : events[e].status = "PENDING"
      BY DEF WithStatus
    <3> DEFINE n == Entities(p)
    <3>3. /\ n \in Seq(Entity) /\ Fresh(n)
          /\ \A i \in 1 .. Len(n) : events[n[i].id].status = "PENDING"
      BY <1>0, <3>2, FreshRows
    <3>5. /\ pc' = [pc EXCEPT ![t] = "next"] /\ ctx' = ctx /\ UNCHANGED <<subscriptions, events, lastId, sent>>
          /\ pc[t] = "list"
      BY <2>2 DEF ListPending, Goto
    <3>10. todo' = [todo EXCEPT ![t] = todo[t] \o n]
      BY <3>1
    <3> HIDE DEF n
    <3>6. \A i \in 1 .. Len(todo[t]) :
            todo[t][i].event.status = "RETRYING" /\ events[todo[t][i].id].status \in {"RETRYING", "ABSENT"}
      BY <1>0, <3>5 DEF ListedOK
    <3>7. Fresh(todo[t])
      <4>1. \A i \in 1 .. Len(todo[t]) : \A r \in Replays : \A k \in 1 .. Len(todo[r]) : todo[r][k].id # todo[t][i].id
        BY <1>0 DEF RevivedOK
      <4>2. \A i \in 1 .. Len(todo[t]) : todo[t][i].id \in Events /\ Budgeted(todo[t][i].event.attemptCount)
        BY <1>0, Counts DEF BudgetsOK
      <4> QED
        BY <1>0, <4>1, <4>2 DEF ListedOK, Fresh
    <3>8. \A i \in 1 .. Len(todo[t]), k \in 1 .. Len(n) : todo[t][i].id # n[k].id
      BY <3>3, <3>6
    <3>9. todo[t] \o n \in Seq(Entity) /\ Fresh(todo[t] \o n)
      BY <1>0, <3>3, <3>7, <3>8, FreshTogether
    <3> QED
      BY <3>5, <3>9, <3>10
  <2> QED
    BY <2>1, <2>2
<1>2. /\ todo'[t] = q /\ pc'[t] = l /\ ctx'[t] = ctx[t] /\ Apart(t) /\ ~Busy(t)' /\ ~Busy(t)
  BY <1>0, <1>1 DEF TypeOK, Apart, Busy, BusyLabels
<1>3. KindsOK'
  BY <1>0, <1>2, Kinds DEF KindsOK, Apart
<1>4. ListedOK(t)' /\ HandOK(t)'
  BY <1>1, <1>2 DEF ListedOK, HandOK, Fresh
<1>5. ASSUME NEW r \in Replays PROVE RevivedOK(r)'
  <2>1. todo'[r] = todo[r]
    BY <1>2, Kinds DEF Apart
  <2>2. \A i \in 1 .. Len(todo[r]) : \A k \in 1 .. Len(todo'[t]) : todo'[t][k].id # todo[r][i].id
    BY <1>1, <1>2 DEF Fresh
  <2> QED
    BY <1>0, <1>1, <1>2, <2>1, <2>2, RevivedStays
<1>6. Budgeted(ctx'[t].event.attemptCount) /\ \A i \in 1 .. Len(todo'[t]) : Budgeted(todo'[t][i].event.attemptCount)
  BY <1>0, <1>1, <1>2 DEF BudgetsOK, Fresh
<1> QED
  BY <1>0, <1>1, <1>2, <1>3, <1>4, <1>5, <1>6, LocalCounts

-----------------------------------------------------------------------------
(* Walking a list. *)

LEMMA Shift ==
    ASSUME NEW q \in Seq(Entity), q # <<>>
    PROVE  /\ Head(q) = q[1] /\ 1 \in 1 .. Len(q) /\ Head(q) \in Entity
           /\ Len(Tail(q)) \in Nat
           /\ \A i \in 1 .. Len(Tail(q)) : i + 1 \in 1 .. Len(q) /\ i + 1 # 1 /\ Tail(q)[i] = q[i + 1]
           /\ \A i, k \in 1 .. Len(Tail(q)) : i + 1 = k + 1 => i = k
<1>1. /\ Head(q) = q[1] /\ 1 \in 1 .. Len(q) /\ Head(q) \in Entity
      /\ Len(Tail(q)) = Len(q) - 1 /\ Len(q) \in Nat /\ Len(Tail(q)) \in Nat
      /\ \A i \in 1 .. Len(Tail(q)) : Tail(q)[i] = q[i + 1]
  OBVIOUS
<1>2. \A i \in 1 .. Len(Tail(q)) : i \in Nat /\ i + 1 \in 1 .. Len(q) /\ i + 1 # 1
  BY <1>1
<1>3. \A i, k \in 1 .. Len(Tail(q)) : i + 1 = k + 1 => i = k
  BY <1>1
<1> QED
  BY <1>1, <1>2, <1>3

(* A pass that has taken the head of its list. *)
LEMMA TailListed ==
    ASSUME TypeOK, NEW t \in Passes, ListedOK(t), ~Busy(t), todo[t] # <<>>, todo'[t] = Tail(todo[t]),
           UNCHANGED <<events, lastId, sent>>, pc'[t] # "list",
           Busy(t)' => ctx'[t].id = Head(todo[t]).id
    PROVE  ListedOK(t)' /\ (BudgetsOK => \A i \in 1 .. Len(todo'[t]) : Budgeted(todo'[t][i].event.attemptCount))
<1>0. todo[t] \in Seq(Entity) /\ t \in Threads
  BY Kinds DEF TypeOK
<1>1. /\ Head(todo[t]) = todo[t][1] /\ 1 \in 1 .. Len(todo[t])
      /\ \A i \in 1 .. Len(todo'[t]) : i + 1 \in 1 .. Len(todo[t]) /\ i + 1 # 1 /\ todo'[t][i] = todo[t][i + 1]
      /\ \A i, k \in 1 .. Len(todo'[t]) : i + 1 = k + 1 => i = k
  BY <1>0, Shift
<1>2. ASSUME NEW i \in 1 .. Len(todo'[t])
      PROVE  LET c == todo'[t][i] IN
             /\ c.id <= lastId'
             /\ c.event.status \in {"PENDING", "RETRYING"}
             /\ events'[c.id].status \in {c.event.status, "ABSENT"}
             /\ sent'[c.id] <= c.event.attemptCount
             /\ Busy(t)' => ctx'[t].id # c.id
             /\ \A k \in 1 .. Len(todo'[t]) : todo'[t][k].id = c.id => i = k
  <2>1. PICK j \in 1 .. Len(todo[t]) : j = i + 1 /\ j # 1 /\ todo'[t][i] = todo[t][j]
    BY <1>1
  <2>2. Busy(t)' => ctx'[t].id # todo[t][j].id
    BY <1>1, <2>1 DEF ListedOK
  <2>3. ASSUME NEW k \in 1 .. Len(todo'[t]), todo'[t][k].id = todo[t][j].id PROVE i = k
    <3>1. PICK m \in 1 .. Len(todo[t]) : m = k + 1 /\ todo'[t][k] = todo[t][m]
      BY <1>1
    <3>2. m = j
      BY <2>3, <3>1 DEF ListedOK
    <3> QED
      BY <1>1, <2>1, <3>1, <3>2
  <2> QED
    BY <2>1, <2>2, <2>3 DEF ListedOK
<1>3. ListedOK(t)'
  BY <1>2 DEF ListedOK, Busy
<1>4. BudgetsOK => \A i \in 1 .. Len(todo'[t]) : Budgeted(todo'[t][i].event.attemptCount)
  BY <1>0, <1>1 DEF BudgetsOK
<1> QED
  BY <1>3, <1>4

LEMMA TailRevived ==
    ASSUME TypeOK, OnePass, NEW t \in Passes, NEW r \in Replays, RevivedOK(r), todo[t] # <<>>,
           todo'[r] = todo[r], todo'[t] = Tail(todo[t]), UNCHANGED <<events, lastId>>,
           Busy(t)' => ctx'[t].id = Head(todo[t]).id
    PROVE  RevivedOK(r)'
<1>0. todo[t] \in Seq(Entity)
  BY Kinds DEF TypeOK
<1>1. /\ Head(todo[t]) = todo[t][1] /\ 1 \in 1 .. Len(todo[t])
      /\ \A i \in 1 .. Len(todo'[t]) : i + 1 \in 1 .. Len(todo[t]) /\ todo'[t][i] = todo[t][i + 1]
  BY <1>0, Shift
<1>2. ASSUME NEW i \in 1 .. Len(todo[r])
      PROVE  /\ \A k \in 1 .. Len(todo'[t]) : todo'[t][k].id # todo[r][i].id
             /\ Busy(t)' => ctx'[t].id # todo[r][i].id
  <2>1. \A k \in 1 .. Len(todo[t]) : todo[t][k].id # todo[r][i].id
    BY DEF RevivedOK
  <2> QED
    BY <1>1, <2>1
<1> QED
  BY <1>2, RevivedStays

(* What deliverEvent makes of a listed event. *)
LEMMA Decided ==
    ASSUME TypeOK, BudgetsOK, NEW e \in EventRow, Budgeted(e.attemptCount),
           e.status \in {"PENDING", "RETRYING"}, NEW s, NEW d, d = Decide(e, s)
    PROVE  /\ \/ d.label = "saveFailed" /\ d.event.status = "FAILED" /\ d.event.attemptCount = e.attemptCount
              \/ /\ d.label = "saveDeadLetter" /\ d.event.status = "DEAD_LETTER" /\ Live(s)
                 /\ d.event.attemptCount = e.attemptCount /\ e.attemptCount >= subscriptions[s].maxRetries
              \/ /\ d.label = "saveAttempt" /\ d.event.status = "RETRYING" /\ Live(s)
                 /\ d.event.attemptCount = e.attemptCount + 1
           /\ Budgeted(d.event.attemptCount)
<1>1. CASE ~Active(s)
  BY <1>1 DEF Decide, EventRow
<1>2. CASE Active(s) /\ e.attemptCount >= subscriptions[s].maxRetries
  BY <1>2 DEF Decide, EventRow, Active
<1>3. CASE Active(s) /\ ~(e.attemptCount >= subscriptions[s].maxRetries)
  <2>1. d.label = "saveAttempt" /\ d.event.status = "RETRYING" /\ d.event.attemptCount = e.attemptCount + 1
    BY <1>3 DEF Decide, EventRow
  <2>2. Live(s) /\ subscriptions[s].maxRetries \in Budgets
    BY <1>3 DEF Active, Live, BudgetsOK
  <2>3. PICK m \in Nat : m = subscriptions[s].maxRetries /\ m \in Budgets
    BY <2>2, WebhookAssumption
  <2>4. PICK n \in Nat : n = e.attemptCount
    BY DEF EventRow
  <2>5. n + 1 <= m
    BY <1>3, <2>3, <2>4
  <2>6. Budgeted(d.event.attemptCount)
    BY <2>1, <2>3, <2>4, <2>5 DEF Budgeted
  <2> QED
    BY <2>1, <2>2, <2>6
<1> QED
  BY <1>1, <1>2, <1>3

LEMMA NextEventCounts ==
    ASSUME TypeOK, CountInvariant, OnePass, NEW t \in Passes, NextEvent(t)
    PROVE  CountInvariant'
<1>0. /\ t \in Threads /\ KindsOK /\ BudgetsOK /\ ListedOK(t) /\ todo[t] \in Seq(Entity)
      /\ \A r \in Replays : RevivedOK(r) /\ r # t /\ r \in Threads
      /\ \A u \in Passes : u = t
  BY Kinds DEF CountInvariant, TypeOK, OnePass
<1>1. /\ pc[t] = "next" /\ todo[t] # <<>> /\ ~Busy(t)
      /\ UNCHANGED <<subscriptions, events, lastId, received, sent, faults>>
      /\ todo' = [todo EXCEPT ![t] = Tail(todo[t])]
  BY DEF NextEvent, Busy, BusyLabels, TypeOK
<1>2. PICK e \in Entity : e = Head(todo[t]) /\ e = todo[t][1] /\ 1 \in 1 .. Len(todo[t])
  BY <1>0, <1>1, Shift
<1>3. /\ e.id \in Events /\ e.event \in EventRow /\ e.id <= lastId
      /\ e.event.status \in {"PENDING", "RETRYING"}
      /\ events[e.id].status \in {e.event.status, "ABSENT"}
      /\ sent[e.id] <= e.event.attemptCount
      /\ Budgeted(e.event.attemptCount)
  BY <1>0, <1>2 DEF ListedOK, Entity, BudgetsOK
<1>4. PICK s : s = e.event.subscriptionId
  OBVIOUS
<1>5. PICK d : d = Decide(e.event, s)
  OBVIOUS
<1>6. PICK c : c = [id |-> e.id, event |-> d.event, sub |-> s,
                    subscription |-> IF Live(s) THEN subscriptions[s] ELSE NoRow, inTry |-> FALSE]
  OBVIOUS
<1>7. pc' = [pc EXCEPT ![t] = d.label] /\ ctx' = [ctx EXCEPT ![t] = c]
  BY <1>2, <1>4, <1>5, <1>6 DEF NextEvent, Goto
<1>8. /\ pc'[t] = d.label /\ ctx'[t] = c
      /\ \A u \in Threads \ {t} : pc'[u] = pc[u] /\ ctx'[u] = ctx[u]
  BY <1>0, <1>7, OneMoves
<1>9. /\ \/ d.label = "saveFailed" /\ d.event.status = "FAILED" /\ d.event.attemptCount = e.event.attemptCount
         \/ /\ d.label = "saveDeadLetter" /\ d.event.status = "DEAD_LETTER" /\ Live(s)
            /\ d.event.attemptCount = e.event.attemptCount /\ e.event.attemptCount >= subscriptions[s].maxRetries
         \/ /\ d.label = "saveAttempt" /\ d.event.status = "RETRYING" /\ Live(s)
            /\ d.event.attemptCount = e.event.attemptCount + 1
      /\ Budgeted(d.event.attemptCount)
  BY <1>0, <1>3, <1>5, Decided
<1>10. todo'[t] = Tail(todo[t]) /\ Apart(t) /\ Busy(t)' /\ c.id = e.id /\ c.event = d.event
  BY <1>0, <1>1, <1>6, <1>8, <1>9 DEF TypeOK, Apart, Busy, BusyLabels
<1>11. KindsOK'
  BY <1>0, <1>8, <1>9, <1>10, Kinds DEF KindsOK, Apart, BusyLabels
<1>12. HandOK(t)'
  <2>0. sent[e.id] \in Nat /\ e.event.attemptCount \in Nat
    BY <1>3, Counts DEF EventRow
  <2>1. events'[e.id].status # "DEAD_LETTER"
    BY <1>1, <1>3
  <2>2. c.subscription = IF Live(s) THEN subscriptions[s] ELSE NoRow
    BY <1>6
  <2>3. CASE d.label = "saveFailed" /\ d.event.status = "FAILED" /\ d.event.attemptCount = e.event.attemptCount
    BY <1>1, <1>3, <1>8, <1>10, <2>1, <2>3 DEF HandOK
  <2>4. CASE /\ d.label = "saveDeadLetter" /\ d.event.status = "DEAD_LETTER" /\ Live(s)
             /\ d.event.attemptCount = e.event.attemptCount /\ e.event.attemptCount >= subscriptions[s].maxRetries
    BY <1>1, <1>3, <1>8, <1>10, <2>2, <2>4 DEF HandOK
  <2>5. CASE /\ d.label = "saveAttempt" /\ d.event.status = "RETRYING"
             /\ d.event.attemptCount = e.event.attemptCount + 1
    <3>1. sent[e.id] <= d.event.attemptCount /\ sent[e.id] < d.event.attemptCount
      BY <1>3, <2>0, <2>5
    <3> QED
      BY <1>1, <1>3, <1>8, <1>10, <2>1, <2>5, <3>1 DEF HandOK
  <2> QED
    BY <1>9, <2>3, <2>4, <2>5
<1>13. ListedOK(t)' /\ \A i \in 1 .. Len(todo'[t]) : Budgeted(todo'[t][i].event.attemptCount)
  <2>1. pc'[t] # "list"
    BY <1>8, <1>9
  <2>2. ctx'[t].id = Head(todo[t]).id
    BY <1>2, <1>8, <1>10
  <2> QED
    BY <1>0, <1>1, <1>10, <2>1, <2>2, TailListed
<1>14. ASSUME NEW r \in Replays PROVE RevivedOK(r)'
  <2>1. todo'[r] = todo[r] /\ ctx'[t].id = Head(todo[t]).id
    BY <1>0, <1>2, <1>8, <1>10 DEF Apart
  <2> QED
    BY <1>0, <1>1, <1>10, <2>1, TailRevived
<1>15. Budgeted(ctx'[t].event.attemptCount)
  BY <1>8, <1>9, <1>10
<1> QED
  BY <1>0, <1>1, <1>10, <1>11, <1>12, <1>13, <1>14, <1>15, LocalCounts

LEMMA FinishCounts ==
    ASSUME TypeOK, CountInvariant, OnePass, NEW t \in Passes, FinishPass(t)
    PROVE  CountInvariant'
<1>0. /\ t \in Threads /\ KindsOK /\ BudgetsOK
      /\ \A r \in Replays : RevivedOK(r)
      /\ \A u \in Passes : u = t
  BY Kinds DEF CountInvariant, OnePass
<1>1. /\ pc'[t] = "idle" /\ Apart(t) /\ todo' = todo /\ ctx' = ctx /\ todo'[t] = <<>> /\ ~Busy(t) /\ ~Busy(t)'
      /\ UNCHANGED <<subscriptions, events, lastId, sent>>
  BY <1>0 DEF FinishPass, Goto, TypeOK, Apart, Busy, BusyLabels
<1>2. KindsOK'
  BY <1>0, <1>1, Kinds DEF KindsOK, Apart
<1>3. HandOK(t)' /\ ListedOK(t)' /\ \A i \in 1 .. Len(todo'[t]) : Budgeted(todo'[t][i].event.attemptCount)
  BY <1>0, <1>1, NothingListed DEF HandOK
<1>4. \A r \in Replays : RevivedOK(r)'
  BY <1>0, <1>1 DEF RevivedOK
<1>5. Budgeted(ctx'[t].event.attemptCount)
  BY <1>0, <1>1 DEF BudgetsOK
<1> QED
  BY <1>0, <1>1, <1>2, <1>3, <1>4, <1>5, LocalCounts

-----------------------------------------------------------------------------
(* Replays. *)

LEMMA ReplayListsCounts ==
    ASSUME TypeOK, CountInvariant, OneReplay, NEW t \in Replays, NEW s \in Subscriptions,
           ReplayDeadLetterEvents(t, s)
    PROVE  CountInvariant'
<1>0. /\ t \in Threads /\ KindsOK /\ BudgetsOK /\ ReplayLimit \in Nat
      /\ \A u \in Passes : ListedOK(u) /\ HandOK(u) /\ u # t /\ u \in Threads
      /\ \A r \in Replays : r = t
  BY Kinds, WebhookAssumption DEF CountInvariant, OneReplay
<1> DEFINE S == {e \in WithStatus("DEAD_LETTER") : events[e].subscriptionId = s}
<1>1. PICK p \in Newest(S, ReplayLimit) : todo' = [todo EXCEPT ![t] = Entities(p)]
  BY DEF ReplayDeadLetterEvents
<1>2. S \in SUBSET Events /\ \A e \in S : Exists(e) /\ events[e].status = "DEAD_LETTER"
  BY DEF WithStatus, Exists
<1> HIDE DEF S
<1> DEFINE q == Entities(p)
<1>3. \A i \in 1 .. Len(q) :
        /\ q[i].id \in S /\ q[i].id <= lastId
        /\ Budgeted(q[i].event.attemptCount)
        /\ \A k \in 1 .. Len(q) : q[k].id = q[i].id => i = k
  BY <1>0, <1>2, RowsListed
<1> HIDE DEF q
<1>4. /\ todo'[t] = q /\ pc'[t] = "replay" /\ Apart(t) /\ ctx' = ctx
      /\ UNCHANGED <<subscriptions, events, lastId, sent>>
  BY <1>0, <1>1 DEF ReplayDeadLetterEvents, Goto, TypeOK, Apart, q
<1>5. KindsOK'
  BY <1>0, <1>4, Kinds DEF KindsOK, Apart, Busy
<1>6. \A u \in Passes : todo'[u] = todo[u] /\ pc'[u] = pc[u] /\ ctx'[u] = ctx[u]
  BY <1>0, <1>4 DEF Apart
<1>7. ASSUME NEW u \in Passes PROVE ListedOK(u)' /\ HandOK(u)'
  BY <1>0, <1>4, <1>6 DEF ListedOK, HandOK, Busy, Exists
<1>8. ASSUME NEW i \in 1 .. Len(q)
      PROVE  /\ events[q[i].id].status = "DEAD_LETTER"
             /\ \A u \in Passes : \A k \in 1 .. Len(todo[u]) : todo[u][k].id # q[i].id
             /\ \A u \in Passes : Busy(u) /\ ctx[u].id = q[i].id => ctx[u].event.status = "DEAD_LETTER"
  <2>1. events[q[i].id].status = "DEAD_LETTER"
    BY <1>2, <1>3
  <2> QED
    BY <1>0, <2>1 DEF ListedOK, HandOK
<1>9. RevivedOK(t)'
  BY <1>3, <1>4, <1>6, <1>8 DEF RevivedOK, Busy
<1>10. Budgeted(ctx'[t].event.attemptCount) /\ \A i \in 1 .. Len(todo'[t]) : Budgeted(todo'[t][i].event.attemptCount)
  BY <1>0, <1>3, <1>4 DEF BudgetsOK
<1> QED
  BY <1>0, <1>4, <1>5, <1>7, <1>9, <1>10, LocalCounts

(* The list a replay still has to walk. *)
LEMMA TailToRevive ==
    ASSUME TypeOK, NEW t \in Replays, RevivedOK(t), todo[t] # <<>>, todo'[t] = Tail(todo[t]),
           \A u \in Passes : todo'[u] = todo[u] /\ pc'[u] = pc[u] /\ ctx'[u] = ctx[u],
           \A e \in Events : e # Head(todo[t]).id => events'[e] = events[e], lastId' = lastId
    PROVE  RevivedOK(t)' /\ (BudgetsOK => \A i \in 1 .. Len(todo'[t]) : Budgeted(todo'[t][i].event.attemptCount))
<1>0. todo[t] \in Seq(Entity) /\ t \in Threads
  BY Kinds DEF TypeOK
<1>1. /\ Head(todo[t]) = todo[t][1] /\ 1 \in 1 .. Len(todo[t])
      /\ \A i \in 1 .. Len(todo'[t]) : i + 1 \in 1 .. Len(todo[t]) /\ i + 1 # 1 /\ todo'[t][i] = todo[t][i + 1]
      /\ \A i, k \in 1 .. Len(todo'[t]) : i + 1 = k + 1 => i = k
  BY <1>0, Shift
<1>2. ASSUME NEW i \in 1 .. Len(todo'[t])
      PROVE  LET e == todo'[t][i].id IN
             /\ e <= lastId'
             /\ events'[e].status \in {"DEAD_LETTER", "ABSENT"}
             /\ \A u \in Passes : \A k \in 1 .. Len(todo'[u]) : todo'[u][k].id # e
             /\ \A u \in Passes : Busy(u)' /\ ctx'[u].id = e => ctx'[u].event.status = "DEAD_LETTER"
             /\ \A k \in 1 .. Len(todo'[t]) : todo'[t][k].id = e => i = k
  <2>1. PICK j \in 1 .. Len(todo[t]) : j = i + 1 /\ j # 1 /\ todo'[t][i] = todo[t][j]
    BY <1>1
  <2>2. todo[t][j].id # Head(todo[t]).id /\ todo[t][j].id \in Events
    BY <1>0, <1>1, <2>1, Counts DEF RevivedOK
  <2>3. ASSUME NEW k \in 1 .. Len(todo'[t]), todo'[t][k].id = todo[t][j].id PROVE i = k
    <3>1. PICK m \in 1 .. Len(todo[t]) : m = k + 1 /\ todo'[t][k] = todo[t][m]
      BY <1>1
    <3>2. m = j
      BY <2>3, <3>1 DEF RevivedOK
    <3> QED
      BY <1>1, <2>1, <3>1, <3>2
  <2>4. events'[todo[t][j].id].status \in {"DEAD_LETTER", "ABSENT"}
    BY <2>2 DEF RevivedOK
  <2>5. \A u \in Passes : Busy(u)' /\ ctx'[u].id = todo[t][j].id => ctx'[u].event.status = "DEAD_LETTER"
    BY DEF RevivedOK, Busy
  <2>6. todo[t][j].id <= lastId' /\ \A u \in Passes : \A k \in 1 .. Len(todo'[u]) : todo'[u][k].id # todo[t][j].id
    BY DEF RevivedOK
  <2> QED
    BY <2>1, <2>3, <2>4, <2>5, <2>6
<1>3. RevivedOK(t)'
  BY <1>2 DEF RevivedOK, Busy
<1>4. BudgetsOK => \A i \in 1 .. Len(todo'[t]) : Budgeted(todo'[t][i].event.attemptCount)
  BY <1>0, <1>1 DEF BudgetsOK
<1> QED
  BY <1>3, <1>4

LEMMA ReplayEventCounts ==
    ASSUME TypeOK, CountInvariant, OneReplay, NEW t \in Replays, ReplayEvent(t)
    PROVE  CountInvariant'
<1>0. /\ t \in Threads /\ KindsOK /\ BudgetsOK /\ TableCounts /\ RevivedOK(t) /\ todo[t] \in Seq(Entity)
      /\ \A u \in Passes : ListedOK(u) /\ HandOK(u) /\ u # t /\ u \in Threads
      /\ \A r \in Replays : r = t
      /\ \A u \in Edits : u # t /\ u \in Threads
  BY Kinds DEF CountInvariant, OneReplay, TypeOK
<1>1. /\ todo[t] # <<>> /\ ctx' = ctx
      /\ UNCHANGED <<subscriptions, lastId>>
      /\ \E l \in {"idle", "replay"} : pc' = [pc EXCEPT ![t] = l]
  BY DEF ReplayEvent, Goto
<1>2. PICK e \in Events : e = Head(todo[t]).id /\ e = todo[t][1].id /\ 1 \in 1 .. Len(todo[t])
  <2>1. Head(todo[t]) = todo[t][1] /\ 1 \in 1 .. Len(todo[t]) /\ Head(todo[t]) \in Entity
    BY <1>0, <1>1, Shift
  <2> QED
    BY <2>1 DEF Entity
<1>3. /\ e <= lastId /\ events[e].status \in {"DEAD_LETTER", "ABSENT"}
      /\ \A u \in Passes : \A k \in 1 .. Len(todo[u]) : todo[u][k].id # e
      /\ \A u \in Passes : Busy(u) /\ ctx[u].id = e => ctx[u].event.status = "DEAD_LETTER"
  BY <1>0, <1>2 DEF RevivedOK
<1>4. pc'[t] \in {"idle", "replay"} /\ \A u \in Threads \ {t} : pc'[u] = pc[u] /\ ctx'[u] = ctx[u]
  BY <1>0, <1>1 DEF TypeOK
<1>5. todo' = [todo EXCEPT ![t] = Tail(todo[t])] \/ todo' = [todo EXCEPT ![t] = <<>>]
  BY DEF ReplayEvent, TypeOK
<1>6. \A u \in Threads \ {t} : todo'[u] = todo[u]
  BY <1>0, <1>5 DEF TypeOK
<1>7. Apart(t) /\ KindsOK'
  BY <1>0, <1>1, <1>4, <1>6, Kinds DEF Apart, KindsOK, Busy
<1>8. \A u \in Passes : todo'[u] = todo[u] /\ pc'[u] = pc[u] /\ ctx'[u] = ctx[u]
  BY <1>0, <1>4, <1>6
<1>9. CASE ~Live(Head(todo[t]).event.subscriptionId)
  <2>1. events' = events /\ sent' = sent /\ todo' = [todo EXCEPT ![t] = <<>>]
    BY <1>9 DEF ReplayEvent
  <2>2. todo'[t] = <<>>
    BY <1>0, <2>1 DEF TypeOK
  <2>3. RevivedOK(t)' /\ \A i \in 1 .. Len(todo'[t]) : Budgeted(todo'[t][i].event.attemptCount)
    BY <1>0, <2>2, NothingListed
  <2>4. \A u \in Passes : ListedOK(u)' /\ HandOK(u)'
    BY <1>0, <1>1, <1>8, <2>1 DEF ListedOK, HandOK, Busy, Exists
  <2>5. Budgeted(ctx'[t].event.attemptCount)
    BY <1>0, <1>1 DEF BudgetsOK
  <2>6. \A r \in Replays : RevivedOK(r)'
    BY <1>0, <2>3
  <2> QED
    BY <1>0, <1>1, <1>7, <2>1, <2>3, <2>4, <2>5, <2>6, LocalCounts
<1>10. CASE Live(Head(todo[t]).event.subscriptionId)
  <2>1. PICK row : row.status = "PENDING" /\ row.attemptCount = 0 /\ events' = [events EXCEPT ![e] = row]
    <3>1. Head(todo[t]).event \in EventRow
      BY <1>0, <1>1, Shift DEF Entity
    <3> DEFINE row == [Head(todo[t]).event EXCEPT !.status = "PENDING", !.attemptCount = 0, !.nextRetryAt = "none"]
    <3>2. row.status = "PENDING" /\ row.attemptCount = 0
      BY <3>1 DEF EventRow
    <3>3. events' = [events EXCEPT ![e] = row]
      BY <1>2, <1>10 DEF ReplayEvent
    <3> QED
      BY <3>2, <3>3
  <2>2. sent' = [sent EXCEPT ![e] = 0] /\ todo' = [todo EXCEPT ![t] = Tail(todo[t])]
    BY <1>2, <1>10 DEF ReplayEvent, TypeOK
  <2>3. /\ events'[e] = row /\ sent'[e] = 0 /\ todo'[t] = Tail(todo[t])
        /\ \A f \in Events : f # e => events'[f] = events[f] /\ sent'[f] = sent[f]
    BY <1>0, <2>1, <2>2 DEF TypeOK
  <2>4. TableCounts'
    <3>1. ~(e > lastId)
      <4>1. e \in Nat /\ lastId \in Nat
        BY Counts, WebhookAssumption DEF Events
      <4> QED
        BY <1>3, <4>1
    <3>2. \A f \in Events : f > lastId' => events'[f] = NoEvent /\ sent'[f] = 0
      BY <1>0, <1>1, <2>3, <3>1 DEF TableCounts
    <3>3. \A f \in Events : events'[f].status # "ABSENT" => sent'[f] <= events'[f].attemptCount
      BY <1>0, <2>1, <2>3 DEF TableCounts, Exists
    <3> QED
      BY <3>2, <3>3 DEF TableCounts, Exists
  <2>5. RevivedOK(t)' /\ \A i \in 1 .. Len(todo'[t]) : Budgeted(todo'[t][i].event.attemptCount)
    BY <1>0, <1>1, <1>2, <1>8, <2>3, TailToRevive
  <2>6. BudgetsOK'
    <3>1. \A f \in Events : Budgeted(events'[f].attemptCount)
      BY <1>0, <2>1, <2>3, NothingBudgeted DEF BudgetsOK
    <3>2. \A u \in Threads : Budgeted(ctx'[u].event.attemptCount)
      BY <1>0, <1>1 DEF BudgetsOK
    <3>3. \A u \in Threads : \A i \in 1 .. Len(todo'[u]) : Budgeted(todo'[u][i].event.attemptCount)
      BY <1>0, <1>6, <2>5 DEF BudgetsOK
    <3>4. \A u \in Edits : pc'[u] = "saveSubscription" =>
            ctx'[u].subscription.row = "live" /\ ctx'[u].subscription.maxRetries \in Budgets
      BY <1>0, <1>4 DEF BudgetsOK
    <3> QED
      BY <1>0, <1>1, <3>1, <3>2, <3>3, <3>4 DEF BudgetsOK, Budgeted
  <2>7. ASSUME NEW u \in Passes PROVE ListedOK(u)'
    <3>1. ListedOK(u) /\ \A i \in 1 .. Len(todo[u]) : todo[u][i].id # e /\ todo[u][i].id \in Events
      BY <1>0, <1>3, Counts
    <3>2. \A i \in 1 .. Len(todo[u]) :
            events'[todo[u][i].id] = events[todo[u][i].id] /\ sent'[todo[u][i].id] = sent[todo[u][i].id]
      BY <2>3, <3>1
    <3> QED
      BY <1>1, <1>8, <3>1, <3>2 DEF ListedOK, Busy
  <2>8. ASSUME NEW u \in Passes PROVE HandOK(u)'
    <3> SUFFICES ASSUME Busy(u) PROVE HandOK(u)'
      BY <1>8 DEF HandOK, Busy
    <3>1. HandOK(u) /\ ctx[u].id \in Events /\ ctx'[u] = ctx[u] /\ pc'[u] = pc[u] /\ lastId' = lastId
      BY <1>0, <1>1, <1>8 DEF HandOK
    <3>2. CASE ctx[u].id # e
      <4>1. events'[ctx[u].id] = events[ctx[u].id] /\ sent'[ctx[u].id] = sent[ctx[u].id]
        BY <2>3, <3>1, <3>2
      <4> QED
        BY <3>1, <4>1 DEF HandOK, Busy, Exists
    <3>3. CASE ctx[u].id = e
      <4>1. ctx[u].event.status = "DEAD_LETTER" /\ sent'[e] = 0 /\ 0 <= ctx[u].event.attemptCount
        BY <1>0, <1>3, <2>3, <3>3, Counts
      <4>2. pc[u] \notin {"saveAttempt", "send"}
        BY <3>1, <4>1 DEF HandOK
      <4> QED
        BY <3>1, <3>3, <4>1, <4>2 DEF HandOK, Busy, Exists
    <3> QED
      BY <3>2, <3>3
  <2>9. \A r \in Replays : RevivedOK(r)'
    BY <1>0, <2>5
  <2> QED
    BY <1>7, <2>4, <2>6, <2>7, <2>8, <2>9 DEF CountInvariant
<1> QED
  BY <1>9, <1>10

-----------------------------------------------------------------------------
(* Database calls that fail. *)

LEMMA FaultCounts ==
    ASSUME TypeOK, TypeOK', CountInvariant, OnePass, NEW t \in Threads, DatabaseFault(t)
    PROVE  CountInvariant'
<1>0. /\ KindsOK /\ BudgetsOK /\ TableCounts
      /\ UNCHANGED <<subscriptions, events, lastId, received, sent, crashes>>
      /\ \A u \in Passes : ListedOK(u) /\ HandOK(u)
      /\ \A r \in Replays : RevivedOK(r)
  BY DEF CountInvariant, DatabaseFault
<1>1. CASE pc[t] \in {"list", "replay", "saveSubscription", "remove"}
  <2>1. /\ pc' = [pc EXCEPT ![t] = "idle"] /\ ctx' = [ctx EXCEPT ![t] = NoContext]
        /\ todo' = [todo EXCEPT ![t] = <<>>]
    BY <1>1 DEF DatabaseFault, Goto
  <2>2. /\ pc'[t] = "idle" /\ ctx'[t] = NoContext /\ todo'[t] = <<>> /\ Apart(t)
        /\ ~Busy(t)'
    BY <2>1 DEF TypeOK, Apart, Busy, BusyLabels
  <2>3. KindsOK'
    BY <1>0, <2>2, Kinds, NothingBudgeted DEF KindsOK, Apart, Busy
  <2>4. /\ Budgeted(ctx'[t].event.attemptCount)
        /\ \A i \in 1 .. Len(todo'[t]) : Budgeted(todo'[t][i].event.attemptCount)
        /\ ListedOK(t)' /\ RevivedOK(t)' /\ HandOK(t)' /\ Len(todo'[t]) = 0
    BY <2>2, NothingListed, NothingBudgeted DEF HandOK
  <2>5. ASSUME NEW u \in Passes PROVE ListedOK(u)' /\ HandOK(u)'
    <3>1. CASE u = t
      BY <2>4, <3>1
    <3>2. CASE u # t
      <4>1. pc'[u] = pc[u] /\ ctx'[u] = ctx[u] /\ todo'[u] = todo[u]
        BY <2>2, <3>2, Kinds DEF Apart
      <4> QED
        BY <1>0, <4>1 DEF ListedOK, HandOK, Busy, Exists
    <3> QED
      BY <3>1, <3>2
  <2>6. ASSUME NEW r \in Replays PROVE RevivedOK(r)'
    <3>1. CASE r = t
      BY <2>4, <3>1
    <3>2. CASE r # t
      <4>1. todo'[r] = todo[r] /\ RevivedOK(r)
        BY <1>0, <2>2, <3>2, Kinds DEF Apart
      <4>2. \A u \in Passes : (todo'[u] = todo[u] \/ Len(todo'[u]) = 0)
                              /\ (Busy(u)' => Busy(u) /\ ctx'[u] = ctx[u])
        BY <2>2, <2>4, Kinds DEF Apart, Busy
      <4>3. \A u \in Passes : \A k \in 1 .. Len(todo'[u]) : todo'[u][k] = todo[u][k] /\ k \in 1 .. Len(todo[u])
        BY <4>2
      <4> QED
        BY <1>0, <4>1, <4>2, <4>3 DEF RevivedOK
    <3> QED
      BY <3>1, <3>2
  <2>7. \A u \in Threads : Budgeted(ctx'[u].event.attemptCount)
    BY <1>0, <2>2, <2>4 DEF BudgetsOK, Apart
  <2>8. \A u \in Threads : \A i \in 1 .. Len(todo'[u]) : Budgeted(todo'[u][i].event.attemptCount)
    BY <1>0, <2>2, <2>4 DEF BudgetsOK, Apart
  <2>9. \A u \in Edits : pc'[u] = "saveSubscription" =>
          ctx'[u].subscription.row = "live" /\ ctx'[u].subscription.maxRetries \in Budgets
    BY <1>0, <2>2, Kinds DEF BudgetsOK, Apart
  <2>10. BudgetsOK' /\ TableCounts'
    BY <1>0, <2>7, <2>8, <2>9 DEF BudgetsOK, Budgeted, TableCounts, Exists
  <2> QED
    BY <2>3, <2>5, <2>6, <2>10 DEF CountInvariant
<1>2. CASE pc[t] \notin {"list", "replay", "saveSubscription", "remove"}
  <2>0. /\ t \in Passes /\ (pc[t] = "next" \/ Busy(t)) /\ Throw(t)
        /\ \A r \in Replays : r # t
    <3>1. pc[t] # "idle"
      BY DEF DatabaseFault
    <3>2. t \in Passes
      BY <1>0, <1>2, <3>1 DEF KindsOK, Threads
    <3> QED
      BY <1>0, <1>2, <3>1, <3>2, Kinds DEF KindsOK, DatabaseFault, Busy
  <2>1. CASE Busy(t)
    <3>1. todo' = todo
      BY <1>2, <2>1 DEF DatabaseFault, Busy, BusyLabels
    <3>2. /\ \A u \in Threads \ {t} : pc'[u] = pc[u] /\ ctx'[u] = ctx[u]
          /\ (pc'[t] = "next" /\ ~ctx'[t].inTry) \/ GoesOn(t)
          /\ HandOK(t)' /\ Budgeted(ctx'[t].event.attemptCount)
      BY <1>0, <2>0, <2>1, ThrowHand
    <3>3. Apart(t) /\ SavesOrSends(t) /\ SubscriptionsKept
      BY <1>0, <3>1, <3>2 DEF Apart, SavesOrSends, SubscriptionsKept
    <3> QED
      BY <1>0, <2>0, <2>1, <3>1, <3>2, <3>3, PassKeeps
  <2>2. CASE pc[t] = "next"
    <3>1. ~Busy(t) /\ ~ctx[t].inTry /\ todo[t] # <<>> /\ todo' = [todo EXCEPT ![t] = Tail(todo[t])]
      BY <1>0, <1>2, <2>0, <2>2 DEF KindsOK, Busy, BusyLabels, DatabaseFault, TypeOK
    <3>2. /\ pc'[t] = "next" /\ ctx'[t] = NoContext
          /\ \A u \in Threads \ {t} : pc'[u] = pc[u] /\ ctx'[u] = ctx[u]
      BY <2>0, <3>1, OneMoves DEF Throw, Leave, Goto
    <3>3. todo'[t] = Tail(todo[t]) /\ Apart(t) /\ ~Busy(t)' /\ ~ctx'[t].inTry
      BY <3>1, <3>2, NothingBudgeted DEF TypeOK, Apart, Busy, BusyLabels
    <3>4. KindsOK'
      BY <1>0, <2>0, <3>2, <3>3, Kinds DEF KindsOK, Apart, Busy
    <3>5. Budgeted(ctx'[t].event.attemptCount) /\ HandOK(t)'
      BY <2>0, <3>2, NothingBudgeted, EmptyHand
    <3>6. ListedOK(t)' /\ \A i \in 1 .. Len(todo'[t]) : Budgeted(todo'[t][i].event.attemptCount)
      BY <1>0, <2>0, <3>1, <3>2, <3>3, TailListed
    <3>7. ASSUME NEW r \in Replays PROVE RevivedOK(r)'
      <4>1. todo'[r] = todo[r]
        BY <2>0, <3>3, Kinds DEF Apart
      <4> QED
        BY <1>0, <2>0, <3>1, <3>3, <4>1, TailRevived
    <3>8. \A u \in Passes : u = t
      BY <2>0 DEF OnePass
    <3> QED
      BY <1>0, <2>0, <3>3, <3>4, <3>5, <3>6, <3>7, <3>8, LocalCounts
  <2> QED
    BY <2>0, <2>1, <2>2
<1> QED
  BY <1>1, <1>2

-----------------------------------------------------------------------------
(* One pass and one replay: the counts, and what a replay revives. *)

LEMMA StartsCounted == Init => CountInvariant
<1> SUFFICES ASSUME Init PROVE CountInvariant
  OBVIOUS
<1>1. \A t \in Threads : todo[t] = <<>> /\ pc[t] = "idle" /\ ctx[t] = NoContext /\ Len(todo[t]) = 0
  BY DEF Init
<1>2. /\ \A s \in Subscriptions : subscriptions[s].row = "never"
      /\ \A e \in Events : events[e] = NoEvent /\ sent[e] = 0
  BY DEF Init, NoRow
<1>3. KindsOK
  BY <1>1, Kinds, NothingBudgeted DEF KindsOK
<1>4. BudgetsOK
  BY <1>1, <1>2, Kinds, NothingBudgeted DEF BudgetsOK
<1>5. TableCounts
  BY <1>2 DEF TableCounts, Exists, NoEvent
<1>6. \A t \in Passes : ListedOK(t) /\ HandOK(t)
  BY <1>1, Kinds DEF ListedOK, HandOK, Busy, BusyLabels
<1>7. \A r \in Replays : RevivedOK(r)
  BY <1>1, Kinds DEF RevivedOK
<1> QED
  BY <1>3, <1>4, <1>5, <1>6, <1>7 DEF CountInvariant

LEMMA EveryStepCounts ==
    ASSUME TypeOK, TypeOK', CountInvariant, OnePass, OneReplay, [Next]_vars
    PROVE  CountInvariant'
<1>1. CASE PublishEvent \/ \E s \in Subscriptions : CreateSubscription(s) \/ TestSubscription(s)
  BY <1>1, ServiceCounts
<1>2. ASSUME NEW t \in Edits,
             EditStep(t) \/ \E s \in Subscriptions : UpdateSubscription(t, s) \/ DeleteSubscription(t, s)
      PROVE  CountInvariant'
  BY <1>2, EditorCounts
<1>3. ASSUME NEW t \in Passes, ProcessPendingEvents(t) \/ PassStep(t) PROVE CountInvariant'
  BY <1>3, PassListsCounts, NextEventCounts, FinishCounts, DeliveryCounts DEF PassStep
<1>4. ASSUME NEW t \in Replays,
             ReplayEvent(t) \/ \E s \in Subscriptions : ReplayDeadLetterEvents(t, s)
      PROVE  CountInvariant'
  BY <1>4, ReplayEventCounts, ReplayListsCounts
<1>5. ASSUME NEW e \in Events, TimePasses(e) PROVE CountInvariant'
  BY <1>5, TimeCounts
<1>6. ASSUME NEW t \in Threads, DatabaseFault(t) PROVE CountInvariant'
  BY <1>6, FaultCounts
<1>7. CASE Crash
  BY <1>7, CrashCounts
<1>8. CASE UNCHANGED vars
  <2>1. KindsOK' /\ BudgetsOK' /\ TableCounts'
    BY <1>8 DEF vars, CountInvariant, KindsOK, BudgetsOK, TableCounts, Busy, Budgeted, Exists
  <2>2. \A t \in Passes : ListedOK(t)' /\ HandOK(t)'
    BY <1>8 DEF vars, CountInvariant, ListedOK, HandOK, Busy, Exists
  <2>3. \A r \in Replays : RevivedOK(r)'
    BY <1>8 DEF vars, CountInvariant, RevivedOK, Busy
  <2> QED
    BY <2>1, <2>2, <2>3 DEF CountInvariant
<1> QED
  BY <1>1, <1>2, <1>3, <1>4, <1>5, <1>6, <1>7, <1>8 DEF Next

LEMMA CountsStay ==
    ASSUME OnePass, OneReplay
    PROVE  Spec => [](TypeOK /\ CountInvariant)
<1>1. Init => TypeOK /\ CountInvariant
  BY StartsTruthful, StartsCounted
<1>2. TypeOK /\ TypeOK' /\ CountInvariant /\ [Next]_vars => CountInvariant'
  BY EveryStepCounts
<1> QED
  BY <1>1, <1>2, CopiesStayTruthful, PTL DEF Spec

(* With one pass at a time, and one replay, the receiver is never sent more     *)
(* requests for an event than its row counts, nor more than maxRetries: for any *)
(* subscriptions, editors, budgets, failures and crashes.                       *)
THEOREM AttemptsStayWithinBudget ==
    ASSUME OnePass, OneReplay
    PROVE  Spec => []AttemptsWithinBudget
<1>1. TypeOK /\ CountInvariant => AttemptsWithinBudget
  BY DEF CountInvariant, BudgetsOK, TableCounts, Budgeted, AttemptsWithinBudget
<1> QED
  BY <1>1, CountsStay, PTL

(* What ReplaysReviveSettledEvents says of one step. *)
Revives(e) == Exists(e) /\ events[e].status # "PENDING" /\ events'[e].status = "PENDING"
Settled(e) == events[e].status = "DEAD_LETTER" /\ \A t \in Passes : ctx[t].id = e => pc[t] \notin Held

LEMMA NoRevival ==
    ASSUME NEW e \in Events, \/ events'[e] = events[e] \/ events'[e] = NoEvent
                             \/ events'[e].status = events[e].status \/ events'[e].status # "PENDING"
    PROVE  ~Revives(e)
BY DEF Revives, NoEvent

LEMMA AddEventsRevives ==
    ASSUME TypeOK, CountInvariant, NEW q, AddEvents(q), Len(q) \in Nat, NEW e \in Events
    PROVE  ~Revives(e)
<1>1. CASE e \in lastId + 1 .. lastId + Len(q)
  <2>1. e \in Nat /\ lastId \in Nat
    BY Counts, WebhookAssumption DEF Events
  <2>2. e > lastId
    BY <1>1, <2>1
  <2> QED
    BY <2>2 DEF CountInvariant, TableCounts, Revives, Exists, NoEvent
<1>2. CASE e \notin lastId + 1 .. lastId + Len(q)
  BY <1>2, NoRevival DEF AddEvents
<1> QED
  BY <1>1, <1>2

LEMMA PassRevives ==
    ASSUME TypeOK, CountInvariant, NEW t \in Passes, PassStep(t), NEW e \in Events
    PROVE  ~Revives(e)
<1>1. events' = events \/ (Busy(t) /\ events' = [events EXCEPT ![ctx[t].id] = ctx[t].event])
  <2>1. CASE ListPending(t) \/ NextEvent(t) \/ FinishPass(t)
    BY <2>1 DEF ListPending, NextEvent, FinishPass
  <2>2. CASE SendHttpRequest(t) \/ RecordSuccess(t) \/ CreateAuditLog(t) \/ RecordFailure(t)
    BY <2>2 DEF SendHttpRequest, RecordSuccess, CreateAuditLog, RecordFailure
  <2>3. CASE \/ SaveAttempt(t) \/ SaveDelivered(t) \/ SaveFailure(t)
             \/ SaveRetry(t) \/ SaveDeadLetter(t) \/ SaveFailed(t)
    BY <2>3 DEF SaveAttempt, SaveDelivered, SaveFailure, SaveRetry, SaveDeadLetter, SaveFailed,
                Save, SaveEvent, Busy, BusyLabels
  <2> QED
    BY <2>1, <2>2, <2>3 DEF PassStep, DeliveryStep
<1>2. Busy(t) => ctx[t].event.status # "PENDING"
  BY DEF CountInvariant, HandOK
<1>3. events \in [Events -> EventRow]
  BY DEF TypeOK
<1> QED
  BY <1>1, <1>2, <1>3, NoRevival

LEMMA ReplayRevives ==
    ASSUME TypeOK, CountInvariant, NEW t \in Replays, ReplayEvent(t), NEW e \in Events, Revives(e)
    PROVE  Settled(e)
<1>0. todo[t] \in Seq(Entity) /\ todo[t] # <<>> /\ RevivedOK(t)
  BY Kinds DEF TypeOK, ReplayEvent, CountInvariant
<1>1. Head(todo[t]) = todo[t][1] /\ 1 \in 1 .. Len(todo[t])
  BY <1>0, Shift
<1>2. \A f \in Events : f # Head(todo[t]).id => events'[f] = events[f]
  BY DEF ReplayEvent, TypeOK
<1>3. e = todo[t][1].id
  BY <1>1, <1>2, NoRevival
<1>4. /\ events[e].status = "DEAD_LETTER"
      /\ \A u \in Passes : Busy(u) /\ ctx[u].id = e => ctx[u].event.status = "DEAD_LETTER"
  BY <1>0, <1>1, <1>3 DEF RevivedOK, Revives, Exists
<1>5. ASSUME NEW u \in Passes, ctx[u].id = e, pc[u] \in Held PROVE FALSE
  <2>1. Busy(u)
    BY <1>5 DEF Busy, BusyLabels, Held
  <2>2. ctx[u].event.status \in {"RETRYING", "DELIVERED"}
    BY <1>5, <2>1 DEF CountInvariant, HandOK, Held
  <2> QED
    BY <1>4, <1>5, <2>1, <2>2
<1> QED
  BY <1>4, <1>5 DEF Settled

LEMMA StepsRevive ==
    ASSUME TypeOK, CountInvariant, [Next]_vars, NEW e \in Events, Revives(e)
    PROVE  Settled(e)
<1>1. CASE PublishEvent
  <2>0. PICK S \in SUBSET Subscriptions : \E q \in Orders(S) : AddEvents(q)
    BY <1>1 DEF PublishEvent
  <2>1. PICK q \in Orders(S) : AddEvents(q)
    BY <2>0
  <2>2. Len(q) \in Nat
    BY OrdersAreSequences, WebhookAssumption
  <2> QED
    BY <2>1, <2>2, AddEventsRevives
<1>2. ASSUME NEW s \in Subscriptions, CreateSubscription(s) \/ TestSubscription(s) PROVE Settled(e)
  <2>1. CASE CreateSubscription(s)
    BY <2>1, NoRevival DEF CreateSubscription
  <2>2. CASE TestSubscription(s)
    <3>1. AddEvents(<<s>>) /\ Len(<<s>>) \in Nat
      BY <2>2 DEF TestSubscription
    <3> QED
      BY <3>1, AddEventsRevives
  <2> QED
    BY <1>2, <2>1, <2>2
<1>3. ASSUME NEW t \in Edits,
             EditStep(t) \/ \E s \in Subscriptions : UpdateSubscription(t, s) \/ DeleteSubscription(t, s)
      PROVE  Settled(e)
  <2>1. events'[e] = events[e] \/ events'[e] = NoEvent
    BY <1>3 DEF EditStep, SaveSubscription, RemoveSubscription, UpdateSubscription, DeleteSubscription
  <2> QED
    BY <2>1, NoRevival
<1>4. ASSUME NEW t \in Passes, ProcessPendingEvents(t) \/ PassStep(t) PROVE Settled(e)
  <2>1. CASE ProcessPendingEvents(t)
    BY <2>1, NoRevival DEF ProcessPendingEvents
  <2> QED
    BY <1>4, <2>1, PassRevives
<1>5. ASSUME NEW t \in Replays,
             ReplayEvent(t) \/ \E s \in Subscriptions : ReplayDeadLetterEvents(t, s)
      PROVE  Settled(e)
  <2>1. CASE \E s \in Subscriptions : ReplayDeadLetterEvents(t, s)
    BY <2>1, NoRevival DEF ReplayDeadLetterEvents
  <2> QED
    BY <1>5, <2>1, ReplayRevives
<1>6. ASSUME NEW f \in Events, TimePasses(f) PROVE Settled(e)
  <2>1. events' = [events EXCEPT ![f].nextRetryAt = "passed"] /\ events \in [Events -> EventRow]
    BY <1>6 DEF TimePasses, TypeOK
  <2>2. events'[e].status = events[e].status
    BY <2>1 DEF EventRow
  <2> QED
    BY <2>2, NoRevival
<1>7. ASSUME NEW t \in Threads, DatabaseFault(t) PROVE Settled(e)
  BY <1>7, NoRevival DEF DatabaseFault
<1>8. CASE Crash \/ UNCHANGED vars
  BY <1>8, NoRevival DEF Crash, vars
<1> QED
  BY <1>1, <1>2, <1>3, <1>4, <1>5, <1>6, <1>7, <1>8 DEF Next

(* With one pass at a time, and one replay, only a dead letter is revived, and  *)
(* never while the pass holds it between an attempt and its outcome: what a     *)
(* replay saves was read earlier, and is not stale.                             *)
THEOREM RevivedWereSettled ==
    ASSUME OnePass, OneReplay
    PROVE  Spec => ReplaysReviveSettledEvents
<1>1. TypeOK /\ CountInvariant /\ [Next]_vars =>
        [\A e \in Events : Exists(e) /\ events[e].status # "PENDING" /\ events'[e].status = "PENDING" =>
           /\ events[e].status = "DEAD_LETTER"
           /\ \A t \in Passes : ctx[t].id = e => pc[t] \notin Held]_vars
  BY StepsRevive DEF Revives, Settled
<1> QED
  BY <1>1, CountsStay, PTL DEF Spec, ReplaysReviveSettledEvents

-----------------------------------------------------------------------------
(* One editor as well: what holds until a database call fails. *)

KnownNext(s) == s \in Subscriptions /\ subscriptions'[s].row # "never"
LiveNext(s) == s \in Subscriptions /\ subscriptions'[s].row = "live"

(* No subscription comes back. *)
LivesOn == \A s : Known(s) => KnownNext(s) /\ (LiveNext(s) => Live(s))

LEMMA LivesOnIf ==
    ASSUME \A s \in Subscriptions : subscriptions[s].row # "never" =>
             subscriptions'[s].row # "never" /\ (subscriptions'[s].row = "live" => subscriptions[s].row = "live")
    PROVE  LivesOn
BY DEF LivesOn, Known, Live, KnownNext, LiveNext

LEMMA KeptLivesOn ==
    ASSUME SubscriptionsKept
    PROVE  LivesOn /\ \A s : LiveNext(s) <=> Live(s)
BY DEF SubscriptionsKept, LivesOn, Live, Known, KnownNext, LiveNext

(* A row stays as it was, or goes with its subscription. *)
Fades(e) ==
    \/ Same(events'[e], events[e])
    \/ events'[e] = NoEvent /\ ~LiveNext(events[e].subscriptionId)

(* CopyIsRow and BusyOK after the step. *)
CopyNext(c) ==
    /\ KnownNext(c.event.subscriptionId) /\ c.event.status # "ABSENT"
    /\ events'[c.id].subscriptionId \in {c.event.subscriptionId, NoSubscription}
    /\ LiveNext(c.event.subscriptionId) => Same(events'[c.id], c.event)

LEMMA CopiesNext ==
    ASSUME \A u \in Threads : \A i \in 1 .. Len(todo'[u]) : CopyNext(todo'[u][i])
    PROVE  CopiesAreRows'
BY DEF CopiesAreRows, CopyIsRow, CopyNext, KnownNext, LiveNext, Known, Live, Belongs

BusyNext(t) ==
    LET c == ctx'[t] IN
    /\ KnownNext(c.sub) /\ c.event.subscriptionId = c.sub
    /\ events'[c.id].subscriptionId \in {c.sub, NoSubscription}
    /\ IF pc'[t] = "saveFailed" THEN ~c.inTry ELSE c.subscription.maxRetries \in Budgets
    /\ pc'[t] # "recordFailure"
    /\ LiveNext(c.sub) => RowInHand(t)'

LEMMA HandNext ==
    ASSUME NEW t \in Passes, pc'[t] \in BusyLabels => BusyNext(t)
    PROVE  BusyOK(t)'
BY DEF BusyOK, BusyNext, KnownNext, LiveNext, Known, Live, Belongs, Busy

LEMMA CopyStays ==
    ASSUME LivesOn, NEW c, CopyIsRow(c), Fades(c.id)
    PROVE  CopyNext(c)
<1>1. KnownNext(c.event.subscriptionId) /\ (LiveNext(c.event.subscriptionId) => Live(c.event.subscriptionId))
  BY DEF CopyIsRow, LivesOn
<1>2. CASE Same(events'[c.id], events[c.id])
  BY <1>1, <1>2 DEF CopyIsRow, CopyNext, Same, Belongs
<1>3. CASE events'[c.id] = NoEvent /\ ~LiveNext(events[c.id].subscriptionId)
  <2>1. ~LiveNext(c.event.subscriptionId)
    BY <1>1, <1>3 DEF CopyIsRow, Same
  <2> QED
    BY <1>1, <1>3, <2>1 DEF CopyIsRow, CopyNext, NoEvent
<1> QED
  BY <1>2, <1>3 DEF Fades

LEMMA InHandStays ==
    ASSUME LivesOn, NEW t \in Passes, BusyOK(t), pc'[t] = pc[t], ctx'[t] = ctx[t],
           Busy(t) => Fades(ctx[t].id) /\ sent'[ctx[t].id] = sent[ctx[t].id]
    PROVE  BusyOK(t)'
<1> SUFFICES ASSUME Busy(t) PROVE BusyNext(t)
  BY HandNext DEF Busy
<1>0. Known(ctx[t].sub) /\ Belongs(ctx[t].id, ctx[t].sub) /\ (Live(ctx[t].sub) => RowInHand(t))
  BY DEF BusyOK
<1>1. KnownNext(ctx[t].sub) /\ (LiveNext(ctx[t].sub) => Live(ctx[t].sub))
  BY <1>0 DEF LivesOn
<1>2. CASE Same(events'[ctx[t].id], events[ctx[t].id])
  <2>1. events'[ctx[t].id].subscriptionId \in {ctx[t].sub, NoSubscription}
    BY <1>0, <1>2 DEF Same, Belongs
  <2>2. LiveNext(ctx[t].sub) => RowInHand(t)'
    BY <1>0, <1>1, <1>2 DEF Same, RowInHand
  <2> QED
    BY <1>1, <2>1, <2>2 DEF BusyOK, BusyNext
<1>3. CASE events'[ctx[t].id] = NoEvent /\ ~LiveNext(events[ctx[t].id].subscriptionId)
  <2>1. events'[ctx[t].id].subscriptionId \in {ctx[t].sub, NoSubscription}
    BY <1>3 DEF NoEvent
  <2>2. ~LiveNext(ctx[t].sub)
    BY <1>0, <1>1, <1>3 DEF RowInHand
  <2> QED
    BY <1>1, <2>1, <2>2 DEF BusyOK, BusyNext
<1> QED
  BY <1>2, <1>3 DEF Fades

(* Steps that no pass and no replay takes. *)
LEMMA PromisesFade ==
    ASSUME TypeOK, CountInvariant, CountInvariant', Promises, LivesOn, DeletedStays', sent' = sent,
           \A e \in Events : e <= lastId => Fades(e),
           \A u \in Passes \cup Replays : pc'[u] = pc[u] /\ ctx'[u] = ctx[u] /\ todo'[u] = todo[u]
    PROVE  Promises'
<1>1. ASSUME NEW u \in Threads, NEW i \in 1 .. Len(todo'[u]) PROVE CopyNext(todo'[u][i])
  <2>1. CASE u \in Edits
    <3>1. todo'[u] = <<>>
      BY <2>1 DEF CountInvariant, KindsOK
    <3>2. Len(todo'[u]) = 0
      BY <3>1
    <3> QED
      BY <1>1, <3>2
  <2>2. CASE u \in Passes \cup Replays
    <3>1. todo'[u] = todo[u] /\ i \in 1 .. Len(todo[u])
      BY <1>1, <2>2
    <3>2. todo[u][i].id \in Events /\ todo[u][i].id <= lastId
      BY <2>2, <3>1, Counts DEF CountInvariant, ListedOK, RevivedOK
    <3>3. CopyIsRow(todo[u][i])
      BY <3>1 DEF Promises, CopiesAreRows
    <3>4. Fades(todo[u][i].id)
      BY <3>2
    <3> QED
      BY <3>1, <3>3, <3>4, CopyStays
  <2> QED
    BY <2>1, <2>2 DEF Threads
<1>2. ASSUME NEW u \in Passes PROVE BusyOK(u)'
  <2>1. Busy(u) => ctx[u].id \in Events /\ ctx[u].id <= lastId
    BY DEF CountInvariant, HandOK
  <2> QED
    BY <2>1, InHandStays DEF Promises
<1>3. CopiesAreRows'
  BY <1>1, CopiesNext
<1> QED
  BY <1>2, <1>3 DEF Promises

LEMMA DeletedNext ==
    ASSUME \A t \in Edits : pc'[t] \in {"saveSubscription", "remove"} => LiveNext(ctx'[t].sub),
           \A e \in Events : events'[e].status # "ABSENT" => LiveNext(events'[e].subscriptionId)
    PROVE  DeletedStays'
BY DEF DeletedStays, LiveNext, Live, Exists

LEMMA SameAsBefore ==
    /\ \A e : events'[e] = events[e] => Fades(e)
    /\ UNCHANGED subscriptions => SubscriptionsKept
BY DEF Fades, Same, SubscriptionsKept

LEMMA AddEventsPromises ==
    ASSUME TypeOK, CountInvariant, CountInvariant', Promises, NEW q \in Seq(Subscriptions),
           \A i \in 1 .. Len(q) : Live(q[i]), AddEvents(q)
    PROVE  Promises'
<1>1. /\ Len(q) \in Nat /\ lastId \in Nat /\ Events \subseteq Nat
      /\ UNCHANGED <<subscriptions, received, sent, todo, pc, ctx, faults, crashes>>
  BY Counts, WebhookAssumption DEF AddEvents, Events
<1>2. LivesOn /\ \A s : LiveNext(s) <=> Live(s)
  BY <1>1, SameAsBefore, KeptLivesOn
<1>3. ASSUME NEW e \in Events
      PROVE  \/ events'[e] = events[e]
             \/ ~(e <= lastId) /\ Live(events'[e].subscriptionId)
  <2>1. CASE e \in lastId + 1 .. lastId + Len(q)
    <3>1. ~(e <= lastId) /\ e - lastId \in 1 .. Len(q)
      BY <1>1, <2>1
    <3>2. events'[e].subscriptionId = q[e - lastId]
      BY <2>1 DEF AddEvents
    <3> QED
      BY <3>1, <3>2
  <2>2. CASE e \notin lastId + 1 .. lastId + Len(q)
    BY <2>2 DEF AddEvents
  <2> QED
    BY <2>1, <2>2
<1>4. DeletedStays'
  <2>1. \A t \in Edits : pc'[t] \in {"saveSubscription", "remove"} => LiveNext(ctx'[t].sub)
    BY <1>1, <1>2 DEF Promises, DeletedStays
  <2>2. \A e \in Events : events'[e].status # "ABSENT" => LiveNext(events'[e].subscriptionId)
    BY <1>2, <1>3 DEF Promises, DeletedStays, Exists
  <2> QED
    BY <2>1, <2>2, DeletedNext
<1>5. \A e \in Events : e <= lastId => Fades(e)
  BY <1>3, SameAsBefore
<1> QED
  BY <1>1, <1>2, <1>4, <1>5, PromisesFade

LEMMA ServicePromises ==
    ASSUME TypeOK, CountInvariant, CountInvariant', Promises,
           \/ PublishEvent
           \/ \E s \in Subscriptions : CreateSubscription(s) \/ TestSubscription(s)
    PROVE  Promises'
<1>1. CASE PublishEvent
  <2>0. PICK S \in SUBSET {s \in Subscriptions : Active(s)} : \E q \in Orders(S) : AddEvents(q)
    BY <1>1 DEF PublishEvent
  <2>1. PICK q \in Orders(S) : AddEvents(q)
    BY <2>0
  <2>2. q \in Seq(Subscriptions) /\ q \in [1 .. Cardinality(S) -> S] /\ Len(q) = Cardinality(S)
    BY OrdersAreSequences, WebhookAssumption
  <2>3. \A i \in 1 .. Len(q) : Live(q[i])
    BY <2>2 DEF Active
  <2> QED
    BY <2>1, <2>2, <2>3, AddEventsPromises
<1>2. ASSUME NEW s \in Subscriptions, TestSubscription(s) PROVE Promises'
  <2>1. AddEvents(<<s>>) /\ Live(s)
    BY <1>2 DEF TestSubscription
  <2>2. <<s>> \in Seq(Subscriptions) /\ \A i \in 1 .. Len(<<s>>) : <<s>>[i] = s
    OBVIOUS
  <2> QED
    BY <2>1, <2>2, AddEventsPromises
<1>3. ASSUME NEW s \in Subscriptions, CreateSubscription(s) PROVE Promises'
  <2>1. /\ UNCHANGED <<events, lastId, received, sent, todo, pc, ctx, faults, crashes>>
        /\ subscriptions[s].row = "never" /\ subscriptions'[s].row = "live"
        /\ \A x \in Subscriptions \ {s} : subscriptions'[x] = subscriptions[x]
    BY <1>3 DEF CreateSubscription, TypeOK
  <2>2. LivesOn
    BY <2>1, LivesOnIf
  <2>3. \A x : Live(x) => LiveNext(x)
    BY <2>1 DEF Live, LiveNext
  <2>4. DeletedStays'
    BY <2>1, <2>3, DeletedNext DEF Promises, DeletedStays, Exists
  <2> QED
    BY <2>1, <2>2, <2>4, SameAsBefore, PromisesFade
<1> QED
  BY <1>1, <1>2, <1>3

LEMMA EditorPromises ==
    ASSUME TypeOK, CountInvariant, CountInvariant', Promises, OneEdit, NEW t \in Edits,
           \/ EditStep(t)
           \/ \E s \in Subscriptions : UpdateSubscription(t, s) \/ DeleteSubscription(t, s)
    PROVE  Promises'
<1>0. /\ t \in Threads /\ DeletedStays /\ BudgetsOK
      /\ \A u \in Passes \cup Replays : u \in Threads \ {t}
      /\ \A u \in Edits : u = t
      /\ ctx[t] \in Context /\ pc \in [Threads -> Labels]
      /\ ctx \in [Threads -> Context]
  BY Kinds DEF Promises, CountInvariant, TypeOK, Context, OneEdit
<1>1. ASSUME NEW s \in Subscriptions, Live(s), ctx'[t].sub = s, UNCHANGED <<subscriptions, events, lastId, sent, todo>>,
             \A u \in Threads \ {t} : pc'[u] = pc[u] /\ ctx'[u] = ctx[u]
      PROVE  Promises'
  <2>1. LivesOn /\ \A x : LiveNext(x) <=> Live(x)
    BY <1>1, SameAsBefore, KeptLivesOn
  <2>2. DeletedStays'
    BY <1>0, <1>1, <2>1, DeletedNext DEF DeletedStays, Exists
  <2> QED
    BY <1>0, <1>1, <2>1, <2>2, SameAsBefore, PromisesFade
<1>2. ASSUME NEW s \in Subscriptions, UpdateSubscription(t, s) PROVE Promises'
  <2>1. /\ Live(s) /\ UNCHANGED <<subscriptions, events, lastId, sent, todo>>
        /\ pc' = [pc EXCEPT ![t] = "saveSubscription"]
    BY <1>2 DEF UpdateSubscription, Goto
  <2>2. PICK c : ctx' = [ctx EXCEPT ![t].sub = s, ![t].subscription = c]
    BY <1>2 DEF UpdateSubscription
  <2>3. ctx'[t].sub = s /\ \A u \in Threads \ {t} : pc'[u] = pc[u] /\ ctx'[u] = ctx[u]
    BY <1>0, <2>1, <2>2 DEF Context
  <2> QED
    BY <1>1, <2>1, <2>3
<1>3. ASSUME NEW s \in Subscriptions, DeleteSubscription(t, s) PROVE Promises'
  <2>1. /\ Live(s) /\ UNCHANGED <<subscriptions, events, lastId, sent, todo>>
        /\ pc' = [pc EXCEPT ![t] = "remove"] /\ ctx' = [ctx EXCEPT ![t].sub = s]
    BY <1>3 DEF DeleteSubscription, Goto
  <2>3. ctx'[t].sub = s /\ \A u \in Threads \ {t} : pc'[u] = pc[u] /\ ctx'[u] = ctx[u]
    BY <1>0, <2>1 DEF Context
  <2> QED
    BY <1>1, <2>1, <2>3
<1>4. CASE SaveSubscription(t)
  <2>1. /\ pc'[t] = "idle" /\ \A u \in Threads \ {t} : pc'[u] = pc[u] /\ ctx'[u] = ctx[u]
        /\ UNCHANGED <<events, lastId, sent, todo>>
    BY <1>0, <1>4 DEF SaveSubscription, Goto
  <2>2. PICK s \in Subscriptions : s = ctx[t].sub /\ Live(s)
    BY <1>0, <1>4 DEF SaveSubscription, DeletedStays, Live
  <2>3. ctx[t].subscription.row = "live"
    BY <1>0, <1>4 DEF SaveSubscription, BudgetsOK
  <2>4. subscriptions'[s].row = "live" /\ \A x \in Subscriptions \ {s} : subscriptions'[x] = subscriptions[x]
    BY <1>4, <2>2, <2>3 DEF SaveSubscription, TypeOK
  <2>5. LivesOn
    BY <2>2, <2>4, LivesOnIf DEF Live
  <2>6. \A x : Live(x) => LiveNext(x)
    BY <2>4 DEF Live, LiveNext
  <2>7. DeletedStays'
    BY <1>0, <2>1, <2>6, DeletedNext DEF DeletedStays, Exists
  <2> QED
    BY <1>0, <2>1, <2>5, <2>7, SameAsBefore, PromisesFade
<1>5. CASE RemoveSubscription(t)
  <2>1. /\ pc'[t] = "idle" /\ \A u \in Threads \ {t} : pc'[u] = pc[u] /\ ctx'[u] = ctx[u]
        /\ UNCHANGED <<lastId, sent, todo>>
    BY <1>0, <1>5 DEF RemoveSubscription, Goto
  <2>2. PICK s \in Subscriptions : s = ctx[t].sub
    BY <1>0, <1>5 DEF RemoveSubscription, DeletedStays, Live
  <2>3. subscriptions'[s].row = "deleted" /\ \A x \in Subscriptions \ {s} : subscriptions'[x] = subscriptions[x]
    BY <1>5, <2>2 DEF RemoveSubscription, TypeOK, SubscriptionRow
  <2>4. LivesOn
    BY <2>3, LivesOnIf
  <2>5. \A e \in Events : events'[e] = IF events[e].subscriptionId = s THEN NoEvent ELSE events[e]
    BY <1>5, <2>2 DEF RemoveSubscription
  <2>6. ~LiveNext(s)
    BY <2>3 DEF LiveNext
  <2>7. \A e \in Events : Fades(e)
    BY <2>5, <2>6, SameAsBefore DEF Fades
  <2>8. \A x : Live(x) /\ x # s => LiveNext(x)
    BY <2>3 DEF Live, LiveNext
  <2>9. DeletedStays'
    <3>1. \A e \in Events : events'[e].status # "ABSENT" => LiveNext(events'[e].subscriptionId)
      BY <1>0, <2>5, <2>8 DEF DeletedStays, Exists, NoEvent
    <3> QED
      BY <1>0, <2>1, <3>1, DeletedNext
  <2> QED
    BY <1>0, <2>1, <2>4, <2>7, <2>9, PromisesFade
<1> QED
  BY <1>2, <1>3, <1>4, <1>5 DEF EditStep

LEMMA TimePromises ==
    ASSUME TypeOK, CountInvariant, CountInvariant', Promises, NEW e \in Events, TimePasses(e)
    PROVE  Promises'
<1>1. /\ events' = [events EXCEPT ![e].nextRetryAt = "passed"]
      /\ UNCHANGED <<subscriptions, lastId, received, sent, todo, pc, ctx, faults, crashes>>
  BY DEF TimePasses
<1>2. \A f \in Events : Same(events'[f], events[f])
  BY <1>1 DEF TypeOK, EventRow, Same
<1>3. LivesOn /\ \A s : LiveNext(s) <=> Live(s)
  BY <1>1, SameAsBefore, KeptLivesOn
<1>4. DeletedStays'
  BY <1>1, <1>2, <1>3, DeletedNext DEF Promises, DeletedStays, Exists, Same
<1> QED
  BY <1>1, <1>2, <1>3, <1>4, PromisesFade DEF Fades

LEMMA CrashPromises ==
    ASSUME TypeOK, Promises, Crash
    PROVE  Promises'
<1>1. /\ \A t \in Threads : Len(todo'[t]) = 0 /\ pc'[t] = "idle"
      /\ UNCHANGED <<subscriptions, events>>
  BY DEF Crash
<1>2. \A s : LiveNext(s) <=> Live(s)
  BY <1>1, SameAsBefore, KeptLivesOn
<1>3. DeletedStays'
  BY <1>1, <1>2, DeletedNext, Kinds DEF Promises, DeletedStays, Exists
<1>4. CopiesAreRows'
  BY <1>1 DEF CopiesAreRows
<1>5. \A t \in Passes : BusyOK(t)'
  BY <1>1, Kinds DEF BusyOK, Busy, BusyLabels
<1> QED
  BY <1>3, <1>4, <1>5 DEF Promises

(* The pass saves what it holds. *)
SaveLabels ==
    {"saveAttempt", "saveDelivered", "saveFailure", "saveRetry", "saveDeadLetter", "saveFailed"}
Saves(t) ==
    /\ pc[t] \in SaveLabels /\ Live(ctx[t].sub)
    /\ events' = [events EXCEPT ![ctx[t].id] = ctx[t].event]

(* It never overwrites a dead letter. *)
LEMMA SavesOpenRows ==
    ASSUME CountInvariant, Promises, NEW t \in Passes, Saves(t)
    PROVE  /\ Busy(t) /\ ctx[t].id \in Events /\ events[ctx[t].id].subscriptionId = ctx[t].sub
           /\ ctx[t].event.subscriptionId = ctx[t].sub
           /\ ctx[t].event.status # "DEAD_LETTER" \/ events[ctx[t].id].status \in {"PENDING", "RETRYING"}
<1>1. Busy(t)
  BY DEF Saves, Busy, BusyLabels, SaveLabels
<1>2. BusyOK(t) /\ RowInHand(t) /\ HandOK(t)
  BY <1>1 DEF Promises, CountInvariant, Saves, BusyOK
<1> QED
  BY <1>1, <1>2 DEF BusyOK, RowInHand, HandOK, Saves, SaveLabels

LEMMA PassPromises ==
    ASSUME TypeOK, CountInvariant, CountInvariant', Promises, OnePass, NEW t \in Passes, Apart(t),
           SubscriptionsKept, events' = events \/ Saves(t),
           \A i \in 1 .. Len(todo'[t]) : CopyNext(todo'[t][i]), BusyOK(t)'
    PROVE  Promises'
<1>0. /\ LivesOn /\ (\A s : LiveNext(s) <=> Live(s)) /\ events \in [Events -> EventRow]
      /\ \A u \in Passes : u = t
      /\ DeletedStays /\ CopiesAreRows
  BY KeptLivesOn DEF TypeOK, OnePass, Promises
<1>1. ASSUME NEW e \in Events
      PROVE  events'[e] = events[e] \/ (Saves(t) /\ e = ctx[t].id /\ events'[e] = ctx[t].event)
  BY <1>0 DEF Saves
<1>2. DeletedStays'
  <2>1. \A u \in Edits : pc'[u] \in {"saveSubscription", "remove"} => LiveNext(ctx'[u].sub)
    BY <1>0, Kinds DEF DeletedStays, Apart
  <2>2. ASSUME NEW e \in Events, events'[e].status # "ABSENT" PROVE LiveNext(events'[e].subscriptionId)
    <3>1. CASE events'[e] = events[e]
      BY <1>0, <2>2, <3>1 DEF DeletedStays, Exists
    <3>2. CASE Saves(t) /\ e = ctx[t].id /\ events'[e] = ctx[t].event
      <4>1. ctx[t].event.subscriptionId = ctx[t].sub /\ Live(ctx[t].sub)
        BY <3>2, SavesOpenRows DEF Saves
      <4> QED
        BY <1>0, <3>2, <4>1
    <3> QED
      BY <1>1, <3>1, <3>2
  <2> QED
    BY <2>1, <2>2, DeletedNext
<1>3. ASSUME NEW u \in Threads, NEW i \in 1 .. Len(todo'[u]) PROVE CopyNext(todo'[u][i])
  <2>1. CASE u = t
    BY <1>3, <2>1
  <2>2. CASE u \in Edits
    <3>1. todo'[u] = <<>>
      BY <2>2 DEF CountInvariant, KindsOK
    <3>2. Len(todo'[u]) = 0
      BY <3>1
    <3> QED
      BY <1>3, <3>2
  <2>3. CASE u \in Replays
    <3>1. todo'[u] = todo[u] /\ i \in 1 .. Len(todo[u])
      BY <1>3, <2>3, Kinds DEF Apart
    <3>2. /\ todo[u][i].id \in Events /\ events[todo[u][i].id].status \in {"DEAD_LETTER", "ABSENT"}
          /\ Busy(t) /\ ctx[t].id = todo[u][i].id => ctx[t].event.status = "DEAD_LETTER"
      BY <2>3, <3>1, Counts, Kinds DEF CountInvariant, RevivedOK
    <3>3. events'[todo[u][i].id] = events[todo[u][i].id]
      BY <1>1, <3>2, SavesOpenRows
    <3>4. CopyIsRow(todo[u][i]) /\ Fades(todo[u][i].id)
      BY <1>0, <3>1, <3>3, SameAsBefore DEF CopiesAreRows
    <3> QED
      BY <1>0, <3>1, <3>4, CopyStays
  <2> QED
    BY <1>0, <2>1, <2>2, <2>3 DEF Threads
<1>4. CopiesAreRows'
  BY <1>3, CopiesNext
<1>5. \A u \in Passes : BusyOK(u)'
  BY <1>0
<1> QED
  BY <1>2, <1>4, <1>5 DEF Promises

(* What a busy pass has listed besides. *)
LEMMA OwnList ==
    ASSUME TypeOK, CountInvariant, Promises, NEW t \in Passes, Busy(t), todo'[t] = todo[t],
           SubscriptionsKept, events' = events \/ Saves(t)
    PROVE  \A i \in 1 .. Len(todo'[t]) : CopyNext(todo'[t][i])
<1> SUFFICES ASSUME NEW i \in 1 .. Len(todo[t]) PROVE CopyNext(todo[t][i])
  OBVIOUS
<1>1. t \in Threads /\ todo[t][i].id \in Events /\ ctx[t].id # todo[t][i].id
  BY Counts, Kinds DEF CountInvariant, ListedOK
<1>2. events'[todo[t][i].id] = events[todo[t][i].id]
  BY <1>1 DEF Saves, TypeOK
<1>3. LivesOn /\ CopyIsRow(todo[t][i]) /\ Fades(todo[t][i].id)
  BY <1>1, <1>2, KeptLivesOn, SameAsBefore DEF Promises, CopiesAreRows
<1> QED
  BY <1>3, CopyStays

(* A throw: only the subscription's end makes one. *)
LEMMA SavePromises ==
    ASSUME TypeOK, CountInvariant, CountInvariant', Promises, OnePass, NEW t \in Passes,
           NEW from \in SaveLabels, NEW to, Save(t, from, to),
           \/ to = "next"
           \/ from = "saveDeadLetter" /\ to = "audit"
           \/ from = "saveFailure" /\ to = "recordFailure"
           \/ from = "saveDelivered" /\ to = "recordSuccess"
           \/ from = "saveAttempt" /\ to = "send"
    PROVE  Promises'
<1>1. /\ t \in Threads /\ ctx[t] \in Context /\ Busy(t) /\ pc[t] = from /\ BusyOK(t) /\ HandOK(t)
      /\ SubscriptionsKept /\ todo' = todo /\ sent' = sent
  BY Kinds
     DEF TypeOK, Context, CountInvariant, Promises, Save, Busy, BusyLabels, SaveLabels,
         SubscriptionsKept
<1>2. LivesOn /\ (\A s : LiveNext(s) <=> Live(s)) /\ events \in [Events -> EventRow]
  BY <1>1, KeptLivesOn DEF TypeOK
<1>3. ASSUME Apart(t), events' = events \/ Saves(t), BusyOK(t)' PROVE Promises'
  <2>1. \A i \in 1 .. Len(todo'[t]) : CopyNext(todo'[t][i])
    BY <1>1, <1>3, OwnList
  <2> QED
    BY <1>1, <1>3, <2>1, PassPromises
<1>4. CASE ~Live(ctx[t].sub)
  <2>1. events' = events /\ Throw(t)
    BY <1>4 DEF Save, SaveEvent
  <2>2. CASE ctx[t].inTry
    <3> DEFINE c == [ctx[t] EXCEPT !.inTry = FALSE]
    <3>1. pc' = [pc EXCEPT ![t] = "saveFailure"] /\ ctx' = [ctx EXCEPT ![t] = c]
      BY <1>1, <2>1, <2>2 DEF Throw, Goto, TypeOK
    <3>2. /\ c.id = ctx[t].id /\ c.event = ctx[t].event /\ c.subscription = ctx[t].subscription
          /\ c.sub = ctx[t].sub
      BY <1>1 DEF Context
    <3> HIDE DEF c
    <3>3. /\ pc'[t] = "saveFailure" /\ ctx'[t] = c
          /\ \A u \in Threads \ {t} : pc'[u] = pc[u] /\ ctx'[u] = ctx[u]
      BY <1>1, <3>1, OneMoves
    <3>4. /\ KnownNext(c.sub) /\ ~LiveNext(c.sub) /\ c.event.subscriptionId = c.sub
          /\ events'[c.id].subscriptionId \in {c.sub, NoSubscription}
          /\ c.subscription.maxRetries \in Budgets
      BY <1>1, <1>2, <1>4, <2>1, <2>2, <3>2 DEF BusyOK, LivesOn, Belongs
    <3>5. BusyOK(t)'
      BY <3>3, <3>4, HandNext DEF BusyNext
    <3> QED
      BY <1>1, <1>3, <2>1, <3>3, <3>5 DEF Apart
  <2>3. CASE ~ctx[t].inTry
    <3>1. /\ pc'[t] = "next" /\ ctx'[t] = NoContext
          /\ \A u \in Threads \ {t} : pc'[u] = pc[u] /\ ctx'[u] = ctx[u]
      BY <1>1, <2>1, <2>3, OneMoves DEF Throw, Leave, Goto
    <3>2. BusyOK(t)'
      BY <3>1 DEF BusyOK, Busy, BusyLabels
    <3> QED
      BY <1>1, <1>3, <2>1, <3>1, <3>2 DEF Apart
  <2> QED
    BY <2>2, <2>3
<1>5. CASE Live(ctx[t].sub) /\ to = "next"
  <2>1. /\ pc'[t] = "next" /\ ctx'[t] = NoContext
        /\ \A u \in Threads \ {t} : pc'[u] = pc[u] /\ ctx'[u] = ctx[u]
    BY <1>1, <1>5, OneMoves DEF Save, Leave, Goto
  <2>2. Saves(t) /\ BusyOK(t)'
    BY <1>1, <1>5, <2>1 DEF Save, SaveEvent, Saves, BusyOK, Busy, BusyLabels
  <2> QED
    BY <1>1, <1>3, <2>1, <2>2 DEF Apart
<1>6. CASE Live(ctx[t].sub) /\ to # "next"
  <2> DEFINE c == [ctx[t] EXCEPT !.inTry = @ \/ to = "send"]
  <2>1. pc' = [pc EXCEPT ![t] = to] /\ ctx' = [ctx EXCEPT ![t] = c]
    BY <1>1, <1>6 DEF Save, Goto, TypeOK
  <2>2. /\ c.id = ctx[t].id /\ c.event = ctx[t].event /\ c.subscription = ctx[t].subscription
        /\ c.sub = ctx[t].sub
    BY <1>1 DEF Context
  <2> HIDE DEF c
  <2>3. /\ pc'[t] = to /\ ctx'[t] = c
        /\ \A u \in Threads \ {t} : pc'[u] = pc[u] /\ ctx'[u] = ctx[u]
    BY <1>1, <2>1, OneMoves
  <2>4. Saves(t) /\ events' = [events EXCEPT ![ctx[t].id] = ctx[t].event] /\ RowInHand(t)
    BY <1>1, <1>6 DEF Save, SaveEvent, Saves, BusyOK
  <2>5. events'[c.id] = c.event /\ from # "saveFailure"
    BY <1>1, <1>2, <2>2, <2>4, SavesOpenRows DEF RowInHand
  <2>6. to \in {"audit", "recordSuccess", "send"} /\ (to = "send" => c.event.status = "RETRYING")
        /\ from # "saveFailed"
    BY <1>1, <1>6, <2>2, <2>5 DEF HandOK
  <2>7. RowInHand(t)'
    BY <1>1, <2>2, <2>3, <2>5, <2>6 DEF RowInHand, BusyOK
  <2>8. BusyOK(t)'
    <3>1. KnownNext(c.sub) /\ c.event.subscriptionId = c.sub
      BY <1>1, <1>2, <2>2 DEF BusyOK, LivesOn
    <3>2. c.subscription.maxRetries \in Budgets
      BY <1>1, <2>2, <2>6 DEF BusyOK
    <3> QED
      BY <2>3, <2>5, <2>6, <2>7, <3>1, <3>2, HandNext DEF BusyNext
  <2> QED
    BY <1>1, <1>3, <2>3, <2>4, <2>8 DEF Apart
<1> QED
  BY <1>4, <1>5, <1>6

LEMMA SendPromises ==
    ASSUME TypeOK, CountInvariant, CountInvariant', Promises, OnePass, NEW t \in Passes, SendHttpRequest(t)
    PROVE  Promises'
<1>1. /\ t \in Threads /\ ctx[t] \in Context /\ Busy(t) /\ pc[t] = "send" /\ BusyOK(t) /\ HandOK(t)
      /\ SubscriptionsKept /\ todo' = todo /\ events' = events
      /\ sent' = [sent EXCEPT ![ctx[t].id] = @ + 1] /\ ctx[t].id \in Events
  BY Kinds DEF TypeOK, Context, CountInvariant, Promises, SendHttpRequest, Busy, BusyLabels,
               SubscriptionsKept, HandOK
<1>2. LivesOn /\ (\A s : LiveNext(s) <=> Live(s)) /\ sent \in [Events -> Nat]
  BY <1>1, KeptLivesOn DEF TypeOK
<1>3. /\ pc'[t] \in {"saveDelivered", "saveDeadLetter", "saveRetry"}
      /\ ctx'[t].id = ctx[t].id /\ ctx'[t].sub = ctx[t].sub /\ ctx'[t].subscription = ctx[t].subscription
      /\ ctx'[t].event.subscriptionId = ctx[t].event.subscriptionId
      /\ ctx'[t].event.attemptCount = ctx[t].event.attemptCount
      /\ Apart(t)
  <2>1. CASE ScheduleRetry(t)
    <3>1. CASE ctx[t].event.attemptCount >= ctx[t].subscription.maxRetries
      BY <1>1, <2>1, <3>1 DEF ScheduleRetry, Goto, Apart, TypeOK, Context, EventRow
    <3>2. CASE ~(ctx[t].event.attemptCount >= ctx[t].subscription.maxRetries)
      BY <1>1, <2>1, <3>2 DEF ScheduleRetry, Goto, Apart, TypeOK, Context, EventRow
    <3> QED
      BY <3>1, <3>2
  <2>2. CASE pc' = [pc EXCEPT ![t] = "saveDelivered"] /\ ctx' = [ctx EXCEPT ![t].event.status = "DELIVERED"]
    BY <1>1, <2>2 DEF Apart, TypeOK, Context, EventRow
  <2> QED
    BY <2>1, <2>2 DEF SendHttpRequest, Goto
<1>4. LiveNext(ctx'[t].sub) => RowInHand(t)'
  <2> SUFFICES ASSUME LiveNext(ctx'[t].sub) PROVE RowInHand(t)'
    OBVIOUS
  <2>1. RowInHand(t)
    BY <1>1, <1>2, <1>3 DEF BusyOK
  <2>2. sent'[ctx'[t].id] > 0
    BY <1>1, <1>2, <1>3
  <2> QED
    BY <1>1, <1>3, <2>1, <2>2 DEF RowInHand
<1>5. BusyOK(t)'
  <2>1. /\ KnownNext(ctx'[t].sub) /\ ctx'[t].event.subscriptionId = ctx'[t].sub /\ ctx'[t].subscription.maxRetries \in Budgets
        /\ events'[ctx'[t].id].subscriptionId \in {ctx'[t].sub, NoSubscription}
    BY <1>1, <1>2, <1>3 DEF BusyOK, LivesOn, Belongs
  <2> QED
    BY <1>3, <1>4, <2>1, HandNext DEF BusyNext
<1>6. \A i \in 1 .. Len(todo'[t]) : CopyNext(todo'[t][i])
  BY <1>1, OwnList
<1> QED
  BY <1>1, <1>3, <1>5, <1>6, PassPromises

LEMMA DeliveryPromises ==
    ASSUME TypeOK, CountInvariant, CountInvariant', Promises, OnePass, NEW t \in Passes, DeliveryStep(t)
    PROVE  Promises'
<1>0. t \in Threads /\ ctx[t] \in Context /\ BusyOK(t)
  BY Kinds DEF TypeOK, Context, Promises
<1>1. CASE \/ SaveAttempt(t) \/ SaveDelivered(t) \/ SaveFailure(t)
           \/ SaveRetry(t) \/ SaveDeadLetter(t) \/ SaveFailed(t)
  BY <1>1, SavePromises DEF SaveAttempt, SaveDelivered, SaveFailure, SaveRetry, SaveDeadLetter,
                            SaveFailed, SaveLabels
<1>2. CASE SendHttpRequest(t)
  BY <1>2, SendPromises
<1>3. CASE RecordSuccess(t)
  <2>1. /\ Busy(t) /\ sent' = sent /\ events' = events /\ todo' = todo /\ ctx' = ctx
        /\ pc' = [pc EXCEPT ![t] = "audit"] /\ pc[t] = "recordSuccess"
    BY <1>3 DEF RecordSuccess, Goto, Busy, BusyLabels
  <2>2. pc'[t] = "audit" /\ Apart(t)
    BY <1>0, <2>1 DEF TypeOK, Apart
  <2>3. SubscriptionsKept
    BY <1>3 DEF RecordSuccess, TypeOK, SubscriptionRow, SubscriptionsKept
  <2>4. LivesOn /\ \A s : LiveNext(s) <=> Live(s)
    BY <2>3, KeptLivesOn
  <2>5. BusyOK(t)'
    <3>1. /\ KnownNext(ctx[t].sub) /\ ctx[t].event.subscriptionId = ctx[t].sub
          /\ ctx[t].subscription.maxRetries \in Budgets
          /\ events'[ctx[t].id].subscriptionId \in {ctx[t].sub, NoSubscription}
      BY <1>0, <2>1, <2>4 DEF BusyOK, LivesOn, Belongs
    <3>2. LiveNext(ctx[t].sub) => RowInHand(t)'
      BY <1>0, <2>1, <2>2, <2>4 DEF BusyOK, RowInHand
    <3> QED
      BY <2>1, <2>2, <3>1, <3>2, HandNext DEF BusyNext
  <2>6. \A i \in 1 .. Len(todo'[t]) : CopyNext(todo'[t][i])
    BY <2>1, <2>3, OwnList
  <2> QED
    BY <2>1, <2>2, <2>3, <2>5, <2>6, PassPromises
<1>4. CASE CreateAuditLog(t)
  <2>1. /\ Busy(t) /\ events' = events /\ todo' = todo /\ SubscriptionsKept
    BY <1>4 DEF CreateAuditLog, Busy, BusyLabels, SubscriptionsKept
  <2>2. /\ pc'[t] = "next" /\ \A u \in Threads \ {t} : pc'[u] = pc[u] /\ ctx'[u] = ctx[u]
    BY <1>0, <1>4, OneMoves DEF CreateAuditLog, Leave, Goto
  <2>3. Apart(t) /\ BusyOK(t)'
    BY <2>1, <2>2 DEF Apart, BusyOK, Busy, BusyLabels
  <2>4. \A i \in 1 .. Len(todo'[t]) : CopyNext(todo'[t][i])
    BY <2>1, OwnList
  <2> QED
    BY <2>1, <2>3, <2>4, PassPromises
<1>5. CASE RecordFailure(t)
  <2>1. Busy(t) /\ pc[t] = "recordFailure"
    BY <1>5 DEF RecordFailure, Busy, BusyLabels
  <2> QED
    BY <1>0, <2>1 DEF BusyOK
<1> QED
  BY <1>1, <1>2, <1>3, <1>4, <1>5 DEF DeliveryStep

(* The rows a handler lists are their own copies. *)
LEMMA ListedCopies ==
    ASSUME TypeOK, CountInvariant, Promises, NEW S \in SUBSET Events, \A e \in S : Exists(e), NEW n \in Nat,
           NEW q \in Oldest(S, n) \cup Newest(S, n) \cup AnyOf(S, n)
    PROVE  Entities(q) \in Seq(Entity) /\ \A i \in 1 .. Len(Entities(q)) : CopyIsRow(Entities(q)[i])
<1> DEFINE m == Entities(q)
<1>1. /\ m \in Seq(Entity)
      /\ \A i \in 1 .. Len(m) :
            /\ m[i].id \in S /\ m[i].event = events[m[i].id]
            /\ m[i].id <= lastId
            /\ sent[m[i].id] <= m[i].event.attemptCount
            /\ Budgeted(m[i].event.attemptCount)
            /\ \A k \in 1 .. Len(m) : m[k].id = m[i].id => i = k
  BY RowsListed
<1> HIDE DEF m
<1>2. ASSUME NEW i \in 1 .. Len(m) PROVE CopyIsRow(m[i])
  <2>1. Exists(m[i].id) /\ m[i].id \in Events /\ m[i].event = events[m[i].id]
    BY <1>1
  <2>2. Live(m[i].event.subscriptionId)
    BY <2>1 DEF Promises, DeletedStays
  <2> QED
    BY <2>1, <2>2 DEF CopyIsRow, Known, Live, Belongs, Same, Exists
<1> QED
  BY <1>1, <1>2 DEF m

(* A pass that has nothing in hand and touches no table. *)
LEMMA IdlePassPromises ==
    ASSUME TypeOK, CountInvariant, CountInvariant', Promises, OnePass, NEW t \in Passes, Apart(t),
           UNCHANGED <<subscriptions, events>>, pc'[t] \notin BusyLabels,
           \A i \in 1 .. Len(todo'[t]) : CopyIsRow(todo'[t][i])
    PROVE  Promises'
<1>1. SubscriptionsKept /\ LivesOn
  BY SameAsBefore, KeptLivesOn
<1>2. ASSUME NEW i \in 1 .. Len(todo'[t]) PROVE CopyNext(todo'[t][i])
  <2>1. Fades(todo'[t][i].id) /\ CopyIsRow(todo'[t][i])
    BY SameAsBefore
  <2> QED
    BY <1>1, <2>1, CopyStays
<1>3. BusyOK(t)'
  BY DEF BusyOK, Busy
<1> QED
  BY <1>1, <1>2, <1>3, PassPromises

LEMMA PassListsPromises ==
    ASSUME TypeOK, CountInvariant, CountInvariant', Promises, OnePass, NEW t \in Passes,
           ProcessPendingEvents(t) \/ ListPending(t) \/ FinishPass(t)
    PROVE  Promises'
<1>0. /\ t \in Threads /\ BatchSize \in Nat /\ todo[t] \in Seq(Entity)
      /\ \A i \in 1 .. Len(todo[t]) : CopyIsRow(todo[t][i])
  BY Kinds, WebhookAssumption DEF TypeOK, Promises, CopiesAreRows
<1>1. CASE ProcessPendingEvents(t)
  <2>1. PICK p \in AnyOf(ReadyForRetry, BatchSize) : todo' = [todo EXCEPT ![t] = Entities(p)]
    BY <1>1 DEF ProcessPendingEvents
  <2>2. ReadyForRetry \in SUBSET Events /\ \A e \in ReadyForRetry : Exists(e)
    BY DEF ReadyForRetry, WithStatus, Exists
  <2>3. \A i \in 1 .. Len(Entities(p)) : CopyIsRow(Entities(p)[i])
    BY <1>0, <2>2, ListedCopies
  <2> HIDE DEF Entities
  <2>4. /\ todo'[t] = Entities(p) /\ pc'[t] \notin BusyLabels /\ Apart(t)
        /\ UNCHANGED <<subscriptions, events>>
    BY <1>0, <1>1, <2>1 DEF ProcessPendingEvents, Goto, TypeOK, Apart, BusyLabels
  <2> QED
    BY <2>3, <2>4, IdlePassPromises
<1>2. CASE ListPending(t)
  <2>1. PICK p \in Oldest(WithStatus("PENDING"), BatchSize) : todo' = [todo EXCEPT ![t] = @ \o Entities(p)]
    BY <1>2 DEF ListPending
  <2>2. WithStatus("PENDING") \in SUBSET Events /\ \A e \in WithStatus("PENDING") : Exists(e)
    BY DEF WithStatus, Exists
  <2>3. Entities(p) \in Seq(Entity) /\ \A i \in 1 .. Len(Entities(p)) : CopyIsRow(Entities(p)[i])
    BY <1>0, <2>2, ListedCopies
  <2> HIDE DEF Entities
  <2> DEFINE q == todo[t] \o Entities(p)
  <2>4. /\ todo'[t] = q /\ pc'[t] \notin BusyLabels /\ Apart(t)
        /\ UNCHANGED <<subscriptions, events>>
    BY <1>0, <1>2, <2>1 DEF ListPending, Goto, TypeOK, Apart, BusyLabels
  <2>5. ASSUME NEW i \in 1 .. Len(q)
        PROVE  \/ i \in 1 .. Len(todo[t]) /\ q[i] = todo[t][i]
               \/ i - Len(todo[t]) \in 1 .. Len(Entities(p)) /\ q[i] = Entities(p)[i - Len(todo[t])]
    BY <1>0, <2>3
  <2>6. \A i \in 1 .. Len(q) : CopyIsRow(q[i])
    BY <1>0, <2>3, <2>5
  <2> QED
    BY <2>4, <2>6, IdlePassPromises
<1>3. CASE FinishPass(t)
  <2>1. /\ todo' = todo /\ pc'[t] \notin BusyLabels /\ Apart(t) /\ UNCHANGED <<subscriptions, events>>
    BY <1>0, <1>3 DEF FinishPass, Goto, TypeOK, Apart, BusyLabels
  <2> QED
    BY <1>0, <2>1, IdlePassPromises
<1> QED
  BY <1>1, <1>2, <1>3

LEMMA NextEventPromises ==
    ASSUME TypeOK, CountInvariant, CountInvariant', Promises, OnePass, NEW t \in Passes, NextEvent(t)
    PROVE  Promises'
<1>0. /\ t \in Threads /\ BudgetsOK /\ ListedOK(t) /\ todo[t] \in Seq(Entity)
      /\ \A i \in 1 .. Len(todo[t]) : CopyIsRow(todo[t][i])
  BY Kinds DEF CountInvariant, TypeOK, Promises, CopiesAreRows
<1>1. /\ todo[t] # <<>> /\ UNCHANGED <<subscriptions, events>>
      /\ todo' = [todo EXCEPT ![t] = Tail(todo[t])]
  BY DEF NextEvent, TypeOK
<1>2. PICK e \in Entity : e = Head(todo[t]) /\ e = todo[t][1] /\ 1 \in 1 .. Len(todo[t])
  BY <1>0, <1>1, Shift
<1>3. CopyIsRow(e) /\ e.event \in EventRow /\ e.event.status \in {"PENDING", "RETRYING"} /\ Budgeted(e.event.attemptCount)
  BY <1>0, <1>2 DEF ListedOK, Entity, BudgetsOK
<1>4. PICK s : s = e.event.subscriptionId
  OBVIOUS
<1>5. PICK d : d = Decide(e.event, s)
  OBVIOUS
<1>6. PICK c : c = [id |-> e.id, event |-> d.event, sub |-> s,
                    subscription |-> IF Live(s) THEN subscriptions[s] ELSE NoRow, inTry |-> FALSE]
  OBVIOUS
<1>7. pc' = [pc EXCEPT ![t] = d.label] /\ ctx' = [ctx EXCEPT ![t] = c]
  BY <1>2, <1>4, <1>5, <1>6 DEF NextEvent, Goto
<1>8. /\ pc'[t] = d.label /\ ctx'[t] = c
      /\ \A u \in Threads \ {t} : pc'[u] = pc[u] /\ ctx'[u] = ctx[u]
  BY <1>0, <1>7, OneMoves
<1>9. /\ \/ d.label = "saveFailed" /\ d.event.status = "FAILED" /\ d.event.attemptCount = e.event.attemptCount
         \/ /\ d.label = "saveDeadLetter" /\ d.event.status = "DEAD_LETTER" /\ Live(s)
            /\ d.event.attemptCount = e.event.attemptCount /\ e.event.attemptCount >= subscriptions[s].maxRetries
         \/ /\ d.label = "saveAttempt" /\ d.event.status = "RETRYING" /\ Live(s)
            /\ d.event.attemptCount = e.event.attemptCount + 1
  BY <1>0, <1>3, <1>5, Decided
<1>10. d.event.subscriptionId = s
  BY <1>3, <1>4, <1>5 DEF Decide, EventRow
<1>11. /\ c.id = e.id /\ c.event = d.event /\ c.sub = s /\ ~c.inTry
       /\ c.subscription = IF Live(s) THEN subscriptions[s] ELSE NoRow
  BY <1>6
<1>12. SubscriptionsKept /\ LivesOn /\ \A x : LiveNext(x) <=> Live(x)
  BY <1>1, SameAsBefore, KeptLivesOn
<1>13. BusyOK(t)'
  <2>1. KnownNext(s) /\ events'[e.id].subscriptionId \in {s, NoSubscription}
    BY <1>1, <1>3, <1>4, <1>12 DEF CopyIsRow, LivesOn, Belongs
  <2>2. Live(s) => c.subscription.maxRetries \in Budgets
    BY <1>0, <1>11 DEF Live, BudgetsOK
  <2>3. Live(s) => Same(events'[e.id], e.event)
    BY <1>1, <1>3, <1>4 DEF CopyIsRow
  <2>4. LiveNext(s) => RowInHand(t)'
    <3> SUFFICES ASSUME Live(s) PROVE RowInHand(t)'
      BY <1>12
    <3>1. /\ events'[e.id].subscriptionId = s /\ events'[e.id].status \in {"PENDING", "RETRYING"}
          /\ events'[e.id].attemptCount = e.event.attemptCount
      BY <1>3, <1>4, <2>3 DEF Same
    <3> QED
      BY <1>8, <1>9, <1>11, <3>1 DEF RowInHand
  <2> QED
    BY <1>8, <1>9, <1>10, <1>11, <2>1, <2>2, <2>4, HandNext DEF BusyNext
<1>14. todo'[t] = Tail(todo[t]) /\ Apart(t)
  BY <1>0, <1>1, <1>8 DEF TypeOK, Apart
<1>15. ASSUME NEW i \in 1 .. Len(todo'[t]) PROVE CopyNext(todo'[t][i])
  <2>1. CopyIsRow(todo'[t][i])
    BY <1>0, <1>1, <1>14, Shift
  <2> QED
    BY <1>1, <1>12, <2>1, SameAsBefore, CopyStays
<1> QED
  BY <1>1, <1>12, <1>13, <1>14, <1>15, PassPromises

LEMMA ReplayListsPromises ==
    ASSUME TypeOK, CountInvariant, Promises, NEW t \in Replays, NEW s \in Subscriptions,
           ReplayDeadLetterEvents(t, s)
    PROVE  Promises'
<1>0. /\ t \in Threads /\ ReplayLimit \in Nat
      /\ \A u \in Passes \cup Edits : u # t /\ u \in Threads
  BY Kinds, WebhookAssumption
<1> DEFINE S == {e \in WithStatus("DEAD_LETTER") : events[e].subscriptionId = s}
<1>1. PICK p \in Newest(S, ReplayLimit) : todo' = [todo EXCEPT ![t] = Entities(p)]
  BY DEF ReplayDeadLetterEvents
<1>2. S \in SUBSET Events /\ \A e \in S : Exists(e)
  BY DEF WithStatus, Exists
<1> HIDE DEF S
<1>3. \A i \in 1 .. Len(Entities(p)) : CopyIsRow(Entities(p)[i])
  BY <1>0, <1>2, ListedCopies
<1>4. /\ todo'[t] = Entities(p) /\ ctx' = ctx /\ UNCHANGED <<subscriptions, events, sent>>
      /\ \A u \in Threads \ {t} : pc'[u] = pc[u] /\ todo'[u] = todo[u]
  BY <1>0, <1>1 DEF ReplayDeadLetterEvents, Goto, TypeOK
<1> HIDE DEF Entities
<1>5. SubscriptionsKept /\ LivesOn /\ \A x : LiveNext(x) <=> Live(x)
  BY <1>4, SameAsBefore, KeptLivesOn
<1>6. DeletedStays'
  BY <1>0, <1>4, <1>5, DeletedNext DEF Promises, DeletedStays, Exists
<1>7. ASSUME NEW u \in Threads, NEW i \in 1 .. Len(todo'[u]) PROVE CopyNext(todo'[u][i])
  <2>1. CopyIsRow(todo'[u][i])
    BY <1>3, <1>4, <1>7 DEF Promises, CopiesAreRows
  <2> QED
    BY <1>4, <1>5, <2>1, SameAsBefore, CopyStays
<1>8. \A u \in Passes : BusyOK(u)'
  BY <1>0, <1>4, <1>5, SameAsBefore, InHandStays DEF Promises
<1>9. CopiesAreRows'
  BY <1>7, CopiesNext
<1> QED
  BY <1>6, <1>8, <1>9 DEF Promises

LEMMA ReplayEventPromises ==
    ASSUME TypeOK, CountInvariant, CountInvariant', Promises, NEW t \in Replays, OneReplay, ReplayEvent(t)
    PROVE  Promises'
<1>0. /\ t \in Threads /\ RevivedOK(t) /\ todo[t] \in Seq(Entity) /\ todo[t] # <<>>
      /\ \A u \in Passes \cup Edits : u # t /\ u \in Threads
      /\ events \in [Events -> EventRow] /\ sent \in [Events -> Nat]
      /\ \A r \in Replays : r = t
      /\ ctx' = ctx /\ UNCHANGED subscriptions
  BY Kinds DEF CountInvariant, TypeOK, ReplayEvent, OneReplay
<1>1. PICK c \in Entity : c = Head(todo[t]) /\ c = todo[t][1] /\ 1 \in 1 .. Len(todo[t])
  BY <1>0, Shift
<1>2. /\ c.id \in Events /\ events[c.id].status \in {"DEAD_LETTER", "ABSENT"}
      /\ \A u \in Passes : \A k \in 1 .. Len(todo[u]) : todo[u][k].id # c.id
      /\ \A u \in Passes : Busy(u) /\ ctx[u].id = c.id => ctx[u].event.status = "DEAD_LETTER"
      /\ CopyIsRow(c) /\ c.event \in EventRow
  BY <1>0, <1>1 DEF RevivedOK, Entity, Promises, CopiesAreRows
<1>3. SubscriptionsKept /\ LivesOn /\ \A x : LiveNext(x) <=> Live(x)
  BY <1>0, SameAsBefore, KeptLivesOn
<1>4. \A u \in Threads \ {t} : pc'[u] = pc[u] /\ todo'[u] = todo[u]
  <2>1. \E l : pc' = [pc EXCEPT ![t] = l]
    BY DEF ReplayEvent, Goto
  <2>2. \E q : todo' = [todo EXCEPT ![t] = q]
    BY DEF ReplayEvent
  <2> QED
    BY <2>1, <2>2 DEF TypeOK
<1>5. \/ events' = events /\ sent' = sent
      \/ /\ Live(c.event.subscriptionId)
         /\ events'[c.id].subscriptionId = c.event.subscriptionId
         /\ \A e \in Events : e # c.id => events'[e] = events[e] /\ sent'[e] = sent[e]
  <2>1. CASE ~Live(c.event.subscriptionId)
    BY <1>1, <2>1 DEF ReplayEvent
  <2>2. CASE Live(c.event.subscriptionId)
    <3>1. /\ events' = [events EXCEPT ![c.id] =
                 [c.event EXCEPT !.status = "PENDING", !.attemptCount = 0, !.nextRetryAt = "none"]]
          /\ sent' = [sent EXCEPT ![c.id] = 0]
      BY <1>1, <2>2 DEF ReplayEvent
    <3>2. events'[c.id].subscriptionId = c.event.subscriptionId
      BY <1>0, <1>2, <3>1 DEF EventRow
    <3> QED
      BY <1>0, <2>2, <3>1, <3>2
  <2> QED
    BY <2>1, <2>2
<1>6. Live(c.event.subscriptionId) => events[c.id].subscriptionId = c.event.subscriptionId
  BY <1>2 DEF CopyIsRow, Same
<1>7. DeletedStays'
  <2>1. \A u \in Edits : pc'[u] \in {"saveSubscription", "remove"} => LiveNext(ctx'[u].sub)
    BY <1>0, <1>3, <1>4 DEF Promises, DeletedStays
  <2>2. \A e \in Events : events'[e].status # "ABSENT" => LiveNext(events'[e].subscriptionId)
    BY <1>3, <1>5 DEF Promises, DeletedStays, Exists
  <2> QED
    BY <2>1, <2>2, DeletedNext
<1>8. ASSUME NEW u \in Threads, NEW i \in 1 .. Len(todo'[u]) PROVE CopyNext(todo'[u][i])
  <2>1. todo'[u][i].id # c.id /\ CopyIsRow(todo'[u][i]) /\ todo'[u][i].id \in Events
    <3>1. CASE u \in Passes
      BY <1>0, <1>2, <1>4, <1>8, <3>1, Counts DEF Promises, CopiesAreRows
    <3>2. CASE u \in Edits
      <4>1. todo'[u] = <<>>
        BY <3>2 DEF CountInvariant, KindsOK
      <4>2. Len(todo'[u]) = 0
        BY <4>1
      <4> QED
        BY <1>8, <4>2
    <3>3. CASE u = t
      <4>1. todo' = [todo EXCEPT ![t] = Tail(todo[t])] \/ todo' = [todo EXCEPT ![t] = <<>>]
        BY DEF ReplayEvent, TypeOK
      <4>2. todo'[t] # <<>>
        <5>1. Len(<<>>) = 0
          OBVIOUS
        <5> QED
          BY <1>8, <3>3, <5>1
      <4>3. todo'[t] = Tail(todo[t])
        BY <1>0, <4>1, <4>2 DEF TypeOK
      <4>4. PICK j \in 1 .. Len(todo[t]) : j # 1 /\ todo'[t][i] = todo[t][j]
        BY <1>0, <1>8, <3>3, <4>3, Shift
      <4> QED
        BY <1>0, <1>1, <3>3, <4>4, Counts DEF RevivedOK, Promises, CopiesAreRows
    <3> QED
      BY <1>0, <3>1, <3>2, <3>3 DEF Threads
  <2>2. Fades(todo'[u][i].id)
    BY <1>5, <2>1, SameAsBefore
  <2> QED
    BY <1>3, <2>1, <2>2, CopyStays
<1>9. ASSUME NEW u \in Passes PROVE BusyOK(u)'
  <2>0. pc'[u] = pc[u] /\ ctx'[u] = ctx[u] /\ BusyOK(u) /\ HandOK(u)
    BY <1>0, <1>4 DEF Promises, CountInvariant
  <2>1. CASE ~Busy(u) \/ ctx[u].id # c.id \/ (events' = events /\ sent' = sent)
    <3>1. Busy(u) => Fades(ctx[u].id) /\ sent'[ctx[u].id] = sent[ctx[u].id]
      BY <1>5, <2>0, <2>1, SameAsBefore DEF HandOK
    <3> QED
      BY <1>3, <2>0, <3>1, InHandStays
  <2>2. CASE /\ Busy(u) /\ ctx[u].id = c.id /\ Live(c.event.subscriptionId)
             /\ events'[c.id].subscriptionId = c.event.subscriptionId
    <3>1. ctx[u].event.status = "DEAD_LETTER" /\ events[c.id].status \in {"DEAD_LETTER", "ABSENT"}
      BY <1>2, <2>2
    <3>2. pc[u] \in {"audit", "saveFailure", "recordFailure", "saveDeadLetter"}
      BY <2>0, <2>2, <3>1 DEF HandOK, Busy, BusyLabels
    <3>3. events'[c.id].subscriptionId = events[c.id].subscriptionId
      BY <1>6, <2>2
    <3>4. LiveNext(ctx[u].sub) => pc[u] = "audit" /\ events'[c.id].subscriptionId = ctx[u].sub
      BY <1>3, <2>0, <2>2, <3>1, <3>2, <3>3 DEF BusyOK, RowInHand
    <3>5. LiveNext(ctx[u].sub) => RowInHand(u)'
      BY <2>0, <2>2, <3>4 DEF RowInHand
    <3>6. /\ KnownNext(ctx[u].sub) /\ events'[c.id].subscriptionId \in {ctx[u].sub, NoSubscription}
          /\ ctx[u].event.subscriptionId = ctx[u].sub /\ ctx[u].subscription.maxRetries \in Budgets
          /\ pc[u] # "recordFailure"
      BY <1>3, <2>0, <2>2, <3>2, <3>3 DEF BusyOK, LivesOn, Belongs
    <3> QED
      BY <2>0, <2>2, <3>2, <3>5, <3>6, HandNext DEF BusyNext
  <2> QED
    BY <1>5, <2>1, <2>2
<1>10. CopiesAreRows'
  BY <1>8, CopiesNext
<1> QED
  BY <1>7, <1>9, <1>10 DEF Promises

LEMMA StartsPromised == Init => Promises
<1> SUFFICES ASSUME Init PROVE Promises
  OBVIOUS
<1>1. /\ \A t \in Threads : Len(todo[t]) = 0 /\ pc[t] = "idle"
      /\ \A e \in Events : events[e] = NoEvent
  BY DEF Init
<1>2. DeletedStays
  BY <1>1, Kinds DEF DeletedStays, Exists, NoEvent
<1>3. CopiesAreRows
  BY <1>1 DEF CopiesAreRows
<1>4. \A t \in Passes : BusyOK(t)
  BY <1>1, Kinds DEF BusyOK, Busy, BusyLabels
<1> QED
  BY <1>2, <1>3, <1>4 DEF Promises

(* Only a failed call is counted as one. *)
LEMMA FaultsCounted ==
    ASSUME TypeOK, [Next]_vars, faults' = 0
    PROVE  faults = 0 /\ \A t \in Threads : ~DatabaseFault(t)
<1>1. faults \in Nat
  BY WebhookAssumption DEF TypeOK
<1>2. ASSUME NEW t \in Threads, DatabaseFault(t) PROVE FALSE
  BY <1>1, <1>2 DEF DatabaseFault
<1>3. ASSUME PublishEvent \/ \E s \in Subscriptions : CreateSubscription(s) \/ TestSubscription(s)
      PROVE  faults' = faults
  <2>1. \A q : AddEvents(q) => faults' = faults
    BY DEF AddEvents
  <2>2. CASE PublishEvent
    BY <2>1, <2>2 DEF PublishEvent
  <2>3. ASSUME NEW s \in Subscriptions, CreateSubscription(s) PROVE faults' = faults
    BY <2>3 DEF CreateSubscription
  <2>4. ASSUME NEW s \in Subscriptions, TestSubscription(s) PROVE faults' = faults
    BY <2>1, <2>4 DEF TestSubscription
  <2> QED
    BY <1>3, <2>2, <2>3, <2>4
<1>4. ASSUME NEW t \in Edits,
             EditStep(t) \/ \E s \in Subscriptions : UpdateSubscription(t, s) \/ DeleteSubscription(t, s)
      PROVE  faults' = faults
  BY <1>4 DEF EditStep, SaveSubscription, RemoveSubscription, UpdateSubscription, DeleteSubscription
<1>5. ASSUME NEW t \in Passes, ProcessPendingEvents(t) \/ PassStep(t) PROVE faults' = faults
  <2>1. CASE ProcessPendingEvents(t) \/ ListPending(t) \/ NextEvent(t) \/ FinishPass(t)
    BY <2>1 DEF ProcessPendingEvents, ListPending, NextEvent, FinishPass
  <2>2. CASE DeliveryStep(t)
    BY <2>2
       DEF DeliveryStep, SaveAttempt, SaveDelivered, SaveFailure, SaveRetry, SaveDeadLetter,
           SaveFailed,
                Save, SendHttpRequest, RecordSuccess, CreateAuditLog, RecordFailure
  <2> QED
    BY <1>5, <2>1, <2>2 DEF PassStep
<1>6. ASSUME NEW t \in Replays,
             ReplayEvent(t) \/ \E s \in Subscriptions : ReplayDeadLetterEvents(t, s)
      PROVE  faults' = faults
  BY <1>6 DEF ReplayEvent, ReplayDeadLetterEvents
<1>7. ASSUME (\E e \in Events : TimePasses(e)) \/ Crash \/ UNCHANGED vars
      PROVE  faults' = faults
  <2>1. ASSUME NEW e \in Events, TimePasses(e) PROVE faults' = faults
    BY <2>1 DEF TimePasses
  <2>2. CASE Crash
    BY <2>2 DEF Crash
  <2>3. CASE UNCHANGED vars
    BY <2>3 DEF vars
  <2> QED
    BY <1>7, <2>1, <2>2, <2>3
<1>8. faults' = faults \/ \E t \in Threads : DatabaseFault(t)
  BY <1>3, <1>4, <1>5, <1>6, <1>7 DEF Next
<1> QED
  BY <1>2, <1>8

LEMMA EveryStepPromises ==
    ASSUME TypeOK, CountInvariant, CountInvariant', PromiseInvariant, OnePass, OneReplay, OneEdit, [Next]_vars
    PROVE  PromiseInvariant'
<1> SUFFICES ASSUME faults' = 0 PROVE Promises'
  BY DEF PromiseInvariant
<1>0. Promises /\ \A t \in Threads : ~DatabaseFault(t)
  BY FaultsCounted DEF PromiseInvariant
<1>1. CASE PublishEvent \/ \E s \in Subscriptions : CreateSubscription(s) \/ TestSubscription(s)
  BY <1>0, <1>1, ServicePromises
<1>2. ASSUME NEW t \in Edits,
             EditStep(t) \/ \E s \in Subscriptions : UpdateSubscription(t, s) \/ DeleteSubscription(t, s)
      PROVE  Promises'
  BY <1>0, <1>2, EditorPromises
<1>3. ASSUME NEW t \in Passes, ProcessPendingEvents(t) \/ PassStep(t) PROVE Promises'
  BY <1>0, <1>3, PassListsPromises, NextEventPromises, DeliveryPromises DEF PassStep
<1>4. ASSUME NEW t \in Replays,
             ReplayEvent(t) \/ \E s \in Subscriptions : ReplayDeadLetterEvents(t, s)
      PROVE  Promises'
  BY <1>0, <1>4, ReplayEventPromises, ReplayListsPromises
<1>5. ASSUME NEW e \in Events, TimePasses(e) PROVE Promises'
  BY <1>0, <1>5, TimePromises
<1>6. CASE Crash
  BY <1>0, <1>6, CrashPromises
<1>7. CASE UNCHANGED vars
  BY <1>0, <1>7 DEF vars, Promises, DeletedStays, CopiesAreRows, CopyIsRow, BusyOK, RowInHand, Busy, Exists,
                    Known, Live, Belongs, Same
<1> QED
  BY <1>0, <1>1, <1>2, <1>3, <1>4, <1>5, <1>6, <1>7 DEF Next

LEMMA PromisesStay ==
    ASSUME OnePass, OneReplay, OneEdit
    PROVE  Spec => [](TypeOK /\ CountInvariant /\ PromiseInvariant)
<1>1. Init => PromiseInvariant
  BY StartsPromised DEF PromiseInvariant
<1>2. TypeOK /\ CountInvariant /\ CountInvariant' /\ PromiseInvariant /\ [Next]_vars => PromiseInvariant'
  BY EveryStepPromises
<1>3. Spec => [](TypeOK /\ CountInvariant)
  BY CountsStay
<1> QED
  BY <1>1, <1>2, <1>3, PTL DEF Spec

-----------------------------------------------------------------------------
(* Every step keeps the promises of EventDelivery. *)

Delivers == [Promise!Next]_(Promise!vars)

LEMMA Stutters ==
    ASSUME \A e \in Events : /\ events'[e].status = events[e].status
                             /\ events'[e].attemptCount = events[e].attemptCount
                             /\ Exists(e) => sent'[e] = sent[e]
    PROVE  Delivers
<1>1. ShownSent' = ShownSent
  BY DEF ShownSent, Exists
<1> QED
  BY <1>1 DEF Delivers, Promise!vars

LEMMA SameTables ==
    ASSUME UNCHANGED <<events, sent>>
    PROVE  Delivers
BY Stutters

(* A save that changes one row, which was there and stays there. *)
LEMMA OneRowShown ==
    ASSUME NEW e \in Events, Exists(e), events'[e].status # "ABSENT", sent' = sent,
           \A f \in Events : f # e => events'[f] = events[f]
    PROVE  /\ ShownSent' = ShownSent
           /\ [f \in Events |-> events[f].status]'
                = [f \in Events |-> IF f \in {e} THEN events'[e].status ELSE [g \in Events |-> events[g].status][f]]
           /\ [f \in Events |-> events[f].attemptCount]'
                = [[f \in Events |-> events[f].attemptCount] EXCEPT ![e] = events'[e].attemptCount]
BY DEF ShownSent, Exists

LEMMA SavesDeliver ==
    ASSUME TypeOK, CountInvariant, Promises, NEW t \in Passes, Saves(t), sent' = sent
    PROVE  Delivers
<1>0. Busy(t) /\ BusyOK(t) /\ RowInHand(t) /\ HandOK(t) /\ t \in Threads
  BY SavesOpenRows, Kinds DEF Promises, CountInvariant, Saves, BusyOK
<1>1. PICK e \in Events : e = ctx[t].id
  BY <1>0 DEF HandOK
<1>2. /\ events'[e] = ctx[t].event /\ \A f \in Events : f # e => events'[f] = events[f]
      /\ events[e].status \in {"PENDING", "RETRYING"} /\ events'[e].status # "ABSENT"
  BY <1>0, <1>1 DEF Saves, SaveLabels, TypeOK, RowInHand, HandOK
<1>3. /\ ShownSent' = ShownSent
      /\ [f \in Events |-> events[f].status]'
           = [f \in Events |-> IF f \in {e} THEN events'[e].status ELSE [g \in Events |-> events[g].status][f]]
      /\ [f \in Events |-> events[f].attemptCount]'
           = [[f \in Events |-> events[f].attemptCount] EXCEPT ![e] = events'[e].attemptCount]
  BY <1>2, OneRowShown DEF Exists
<1>4. /\ [f \in Events |-> events[f].status][e] = events[e].status
      /\ [f \in Events |-> events[f].attemptCount][e] = events[e].attemptCount
      /\ ShownSent[e] = sent[e]
      /\ events[e].attemptCount \in Nat /\ events'[e].attemptCount \in Nat /\ sent[e] \in Nat
  BY <1>0, <1>2, Counts DEF ShownSent, Exists
<1>5. CASE pc[t] = "saveAttempt"
  <2>1. events'[e].status = "RETRYING" /\ events'[e].attemptCount = events[e].attemptCount + 1
    BY <1>0, <1>1, <1>2, <1>5 DEF RowInHand, HandOK
  <2>2. PICK m \in Budgets : ctx[t].event.attemptCount <= m
    BY <1>0 DEF CountInvariant, BudgetsOK, Budgeted
  <2>3. events[e].attemptCount < m
    BY <1>2, <1>4, <2>1, <2>2, WebhookAssumption
  <2>4. Promise!Count(e)
    BY <1>2, <1>3, <1>4, <2>1, <2>3 DEF Promise!Count, Promise!Open, Promise!Become
  <2> QED
    BY <2>4 DEF Delivers, Promise!Next
<1>6. CASE pc[t] # "saveAttempt"
  <2>0. events'[e].attemptCount = events[e].attemptCount
    BY <1>0, <1>1, <1>2, <1>6 DEF RowInHand, Saves, SaveLabels
  <2>1. [[f \in Events |-> events[f].attemptCount] EXCEPT ![e] = events'[e].attemptCount]
          = [f \in Events |-> events[f].attemptCount]
    BY <2>0
  <2>2. CASE pc[t] = "saveDelivered"
    <3>1. events[e].status = "RETRYING" /\ events'[e].status = "DELIVERED" /\ sent[e] > 0
      BY <1>0, <1>1, <1>2, <2>2 DEF RowInHand, HandOK
    <3>2. Promise!Deliver(e)
      BY <1>3, <1>4, <2>1, <3>1 DEF Promise!Deliver, Promise!Become
    <3> QED
      BY <3>2 DEF Delivers, Promise!Next
  <2>3. CASE pc[t] = "saveDeadLetter"
    <3>1. /\ events'[e].status = "DEAD_LETTER" /\ ctx[t].subscription.maxRetries \in Budgets
          /\ events[e].attemptCount >= ctx[t].subscription.maxRetries
      BY <1>0, <1>1, <1>2, <2>0, <2>3 DEF BusyOK, HandOK
    <3>2. Promise!Bury(e)
      BY <1>2, <1>3, <1>4, <2>1, <3>1 DEF Promise!Bury, Promise!Open, Promise!Become
    <3> QED
      BY <3>2 DEF Delivers, Promise!Next
  <2>4. CASE pc[t] = "saveFailed"
    <3>1. events'[e].status = "FAILED"
      BY <1>0, <1>2, <2>4 DEF HandOK
    <3>2. Promise!Fail(e)
      BY <1>2, <1>3, <1>4, <2>1, <3>1 DEF Promise!Fail, Promise!Open, Promise!Become
    <3> QED
      BY <3>2 DEF Delivers, Promise!Next
  <2>5. CASE pc[t] = "saveRetry"
    <3>1. events[e].status = "RETRYING" /\ events'[e].status = "RETRYING"
      BY <1>0, <1>1, <1>2, <2>5 DEF RowInHand, HandOK
    <3> QED
      BY <1>2, <2>0, <3>1, Stutters
  <2> QED
    BY <1>0, <1>6, <2>2, <2>3, <2>4, <2>5 DEF Saves, SaveLabels, RowInHand
<1> QED
  BY <1>5, <1>6

LEMMA SendDelivers ==
    ASSUME TypeOK, CountInvariant, Promises, NEW t \in Passes, SendHttpRequest(t)
    PROVE  Delivers
<1>0. /\ Busy(t) /\ BusyOK(t) /\ HandOK(t) /\ t \in Threads /\ pc[t] = "send" /\ events' = events
      /\ sent' = [sent EXCEPT ![ctx[t].id] = @ + 1] /\ sent \in [Events -> Nat]
  BY Kinds DEF Promises, CountInvariant, SendHttpRequest, Busy, BusyLabels, TypeOK
<1>1. PICK e \in Events : e = ctx[t].id
  BY <1>0 DEF HandOK
<1>2. sent'[e] = sent[e] + 1 /\ \A f \in Events : f # e => sent'[f] = sent[f]
  BY <1>0, <1>1
<1>3. CASE ~Exists(e)
  BY <1>0, <1>2, <1>3, Stutters
<1>4. CASE Exists(e)
  <2>1. Live(ctx[t].sub)
    BY <1>0, <1>1, <1>4, WebhookAssumption DEF Promises, DeletedStays, BusyOK, Belongs, Live
  <2>2. events[e].status = "RETRYING" /\ sent[e] < events[e].attemptCount
    BY <1>0, <1>1, <1>4, <2>1 DEF BusyOK, RowInHand, HandOK
  <2>3. ShownSent[e] = sent[e] /\ ShownSent' = [ShownSent EXCEPT ![e] = @ + 1]
    BY <1>0, <1>2, <1>4 DEF ShownSent, Exists
  <2>4. Promise!Send(e)
    BY <1>0, <2>2, <2>3 DEF Promise!Send
  <2> QED
    BY <2>4 DEF Delivers, Promise!Next
<1> QED
  BY <1>3, <1>4

LEMMA ReplayDelivers ==
    ASSUME TypeOK, CountInvariant, Promises, NEW t \in Replays, ReplayEvent(t)
    PROVE  Delivers
<1>0. /\ t \in Threads /\ RevivedOK(t) /\ todo[t] \in Seq(Entity) /\ todo[t] # <<>>
      /\ events \in [Events -> EventRow] /\ sent \in [Events -> Nat]
  BY Kinds DEF CountInvariant, TypeOK, ReplayEvent
<1>1. PICK c \in Entity : c = Head(todo[t]) /\ c = todo[t][1] /\ 1 \in 1 .. Len(todo[t])
  BY <1>0, Shift
<1>2. PICK e \in Events : e = c.id
  BY <1>1 DEF Entity
<1>3. events[e].status \in {"DEAD_LETTER", "ABSENT"} /\ CopyIsRow(c) /\ c.event \in EventRow
  BY <1>0, <1>1, <1>2 DEF RevivedOK, Entity, Promises, CopiesAreRows
<1>4. CASE ~Live(c.event.subscriptionId)
  <2>1. events' = events /\ sent' = sent
    BY <1>1, <1>4 DEF ReplayEvent
  <2> QED
    BY <2>1, SameTables
<1>5. CASE Live(c.event.subscriptionId)
  <2>1. events[e].status = "DEAD_LETTER"
    BY <1>2, <1>3, <1>5 DEF CopyIsRow, Same
  <2>2. /\ events' = [events EXCEPT ![e] =
                 [c.event EXCEPT !.status = "PENDING", !.attemptCount = 0, !.nextRetryAt = "none"]]
        /\ sent' = [sent EXCEPT ![e] = 0]
    BY <1>1, <1>2, <1>5 DEF ReplayEvent
  <2>3. /\ events'[e].status = "PENDING" /\ events'[e].attemptCount = 0 /\ sent'[e] = 0
        /\ \A f \in Events : f # e => events'[f] = events[f] /\ sent'[f] = sent[f]
    BY <1>0, <1>3, <2>2 DEF EventRow
  <2>4. Promise!Replay(e)
    BY <2>1, <2>3 DEF Promise!Replay, Promise!Become, ShownSent, Exists
  <2> QED
    BY <2>4 DEF Delivers, Promise!Next
<1> QED
  BY <1>4, <1>5

(* New rows: ids beyond lastId, which nobody has seen. *)
LEMMA AddEventsDelivers ==
    ASSUME TypeOK, CountInvariant, NEW q, Len(q) \in Nat, AddEvents(q)
    PROVE  Delivers
<1>1. PICK E \in SUBSET Events : E = {e \in Events : e \in lastId + 1 .. lastId + Len(q)}
  OBVIOUS
<1>2. lastId \in Nat /\ sent' = sent
  BY Counts DEF AddEvents
<1>3. \A e \in E : events[e] = NoEvent /\ sent[e] = 0
  BY <1>1, <1>2 DEF CountInvariant, TableCounts
<1>4. /\ \A e \in E : events'[e].status = "PENDING" /\ events'[e].attemptCount = 0
      /\ \A e \in Events \ E : events'[e] = events[e]
  BY <1>1 DEF AddEvents
<1>5. \A e \in E : events[e].status = "ABSENT" /\ events[e].attemptCount = 0
  BY <1>3 DEF NoEvent
<1>6. ShownSent' = ShownSent
  BY <1>2, <1>3, <1>4, <1>5 DEF ShownSent, Exists
<1>7. [e \in Events |-> events'[e].attemptCount] = [e \in Events |-> events[e].attemptCount]
  BY <1>4, <1>5
<1>8. [e \in Events |-> events'[e].status]
        = [e \in Events |-> IF e \in E THEN "PENDING" ELSE [f \in Events |-> events[f].status][e]]
  BY <1>4
<1>9. Promise!Publish(E)
  BY <1>5, <1>6, <1>7, <1>8 DEF Promise!Publish, Promise!Become
<1> QED
  BY <1>9 DEF Delivers, Promise!Next

LEMMA RemoveDelivers ==
    ASSUME TypeOK, NEW t, RemoveSubscription(t)
    PROVE  Delivers
<1>1. PICK E \in SUBSET Events : E = {e \in Events : events[e].subscriptionId = ctx[t].sub}
  OBVIOUS
<1>2. sent' = sent
  BY DEF RemoveSubscription
<1>3. /\ \A e \in E : events'[e].status = "ABSENT" /\ events'[e].attemptCount = 0
      /\ \A e \in Events \ E : events'[e] = events[e]
  BY <1>1 DEF RemoveSubscription, NoEvent
<1>4. ShownSent' = [e \in Events |-> IF e \in E THEN 0 ELSE ShownSent[e]]
  BY <1>2, <1>3 DEF ShownSent, Exists
<1>5. [e \in Events |-> events'[e].attemptCount]
        = [e \in Events |-> IF e \in E THEN 0 ELSE [f \in Events |-> events[f].attemptCount][e]]
  BY <1>3
<1>6. [e \in Events |-> events'[e].status]
        = [e \in Events |-> IF e \in E THEN "ABSENT" ELSE [f \in Events |-> events[f].status][e]]
  BY <1>3
<1>7. Promise!Remove(E)
  BY <1>4, <1>5, <1>6 DEF Promise!Remove, Promise!Become
<1> QED
  BY <1>7 DEF Delivers, Promise!Next

LEMMA TimeDelivers ==
    ASSUME TypeOK, NEW e \in Events, TimePasses(e)
    PROVE  Delivers
<1>1. /\ sent' = sent /\ events' = [events EXCEPT ![e].nextRetryAt = "passed"]
      /\ events \in [Events -> EventRow]
  BY DEF TimePasses, TypeOK
<1>2. \A f \in Events : /\ events'[f].status = events[f].status
                        /\ events'[f].attemptCount = events[f].attemptCount
  BY <1>1 DEF EventRow
<1> QED
  BY <1>1, <1>2, Stutters

LEMMA SaveDelivers ==
    ASSUME TypeOK, CountInvariant, Promises, NEW t \in Passes, NEW from \in SaveLabels, NEW to, Save(t, from, to)
    PROVE  Delivers
<1>1. sent' = sent
  BY DEF Save
<1>2. CASE Live(ctx[t].sub)
  <2>1. Saves(t)
    BY <1>2 DEF Saves, Save, SaveEvent
  <2> QED
    BY <1>1, <2>1, SavesDeliver
<1>3. CASE ~Live(ctx[t].sub)
  <2>1. events' = events
    BY <1>3 DEF Save, SaveEvent
  <2> QED
    BY <1>1, <2>1, SameTables
<1> QED
  BY <1>2, <1>3

LEMMA PassDelivers ==
    ASSUME TypeOK, CountInvariant, Promises, NEW t \in Passes, ProcessPendingEvents(t) \/ PassStep(t)
    PROVE  Delivers
<1>1. CASE \/ ProcessPendingEvents(t) \/ ListPending(t) \/ NextEvent(t) \/ FinishPass(t)
           \/ RecordSuccess(t) \/ CreateAuditLog(t) \/ RecordFailure(t)
  <2>1. events' = events /\ sent' = sent
    BY <1>1 DEF ProcessPendingEvents, ListPending, NextEvent, FinishPass, RecordSuccess, CreateAuditLog,
                RecordFailure
  <2> QED
    BY <2>1, SameTables
<1>2. CASE \/ SaveAttempt(t) \/ SaveDelivered(t) \/ SaveFailure(t)
           \/ SaveRetry(t) \/ SaveDeadLetter(t) \/ SaveFailed(t)
  BY <1>2, SaveDelivers DEF SaveAttempt, SaveDelivered, SaveFailure, SaveRetry, SaveDeadLetter, SaveFailed,
                            SaveLabels
<1>3. CASE SendHttpRequest(t)
  BY <1>3, SendDelivers
<1> QED
  BY <1>1, <1>2, <1>3 DEF PassStep, DeliveryStep

LEMMA EveryStepDelivers ==
    ASSUME TypeOK, CountInvariant, PromiseInvariant, [Next]_vars, faults' = 0
    PROVE  Delivers
<1>0. Promises /\ \A t \in Threads : ~DatabaseFault(t)
  BY FaultsCounted DEF PromiseInvariant
<1>1. CASE PublishEvent
  <2>0. PICK S \in SUBSET Subscriptions : \E q \in Orders(S) : AddEvents(q)
    BY <1>1 DEF PublishEvent
  <2>1. PICK q \in Orders(S) : AddEvents(q)
    BY <2>0
  <2>2. Len(q) \in Nat
    BY OrdersAreSequences, WebhookAssumption
  <2> QED
    BY <2>1, <2>2, AddEventsDelivers
<1>2. ASSUME NEW s \in Subscriptions, CreateSubscription(s) PROVE Delivers
  BY <1>2, SameTables DEF CreateSubscription
<1>3. ASSUME NEW s \in Subscriptions, TestSubscription(s) PROVE Delivers
  <2>1. AddEvents(<<s>>) /\ Len(<<s>>) \in Nat
    BY <1>3 DEF TestSubscription
  <2> QED
    BY <2>1, AddEventsDelivers
<1>4. ASSUME NEW t \in Edits,
             SaveSubscription(t) \/ \E s \in Subscriptions : UpdateSubscription(t, s) \/ DeleteSubscription(t, s)
      PROVE  Delivers
  <2>1. events' = events /\ sent' = sent
    BY <1>4 DEF SaveSubscription, UpdateSubscription, DeleteSubscription
  <2> QED
    BY <2>1, SameTables
<1>5. ASSUME NEW t \in Edits, RemoveSubscription(t) PROVE Delivers
  BY <1>5, RemoveDelivers
<1>6. ASSUME NEW t \in Passes, ProcessPendingEvents(t) \/ PassStep(t) PROVE Delivers
  BY <1>0, <1>6, PassDelivers
<1>7. ASSUME NEW t \in Replays, ReplayEvent(t) PROVE Delivers
  BY <1>0, <1>7, ReplayDelivers
<1>8. ASSUME NEW t \in Replays, NEW s \in Subscriptions, ReplayDeadLetterEvents(t, s) PROVE Delivers
  BY <1>8, SameTables DEF ReplayDeadLetterEvents
<1>9. ASSUME NEW e \in Events, TimePasses(e) PROVE Delivers
  BY <1>9, TimeDelivers
<1>10. CASE Crash
  BY <1>10, SameTables DEF Crash
<1>11. CASE UNCHANGED vars
  BY <1>11, SameTables DEF vars
<1> QED
  BY <1>0, <1>1, <1>2, <1>3, <1>4, <1>5, <1>6, <1>7, <1>8, <1>9, <1>10, <1>11 DEF Next, EditStep

LEMMA DeliveredStays ==
    ASSUME Delivers, NEW e \in Events, events[e].status = "DELIVERED"
    PROVE  events'[e].status \in {"DELIVERED", "ABSENT"}
<1> DEFINE shown == [f \in Events |-> events[f].status]
<1>0. /\ shown[e] = "DELIVERED"
      /\ shown'[e] = events'[e].status
      /\ ~Promise!Open(e)
  BY DEF Promise!Open
<1>1. CASE UNCHANGED Promise!vars
  <2>1. shown' = shown
    BY <1>1 DEF Promise!vars
  <2> QED
    BY <1>0, <2>1
<1>2. ASSUME NEW E \in SUBSET Events, Promise!Publish(E) PROVE shown'[e] = "DELIVERED"
  BY <1>0, <1>2 DEF Promise!Publish, Promise!Become
<1>3. ASSUME NEW E \in SUBSET Events, Promise!Remove(E) PROVE shown'[e] \in {"DELIVERED", "ABSENT"}
  BY <1>0, <1>3 DEF Promise!Remove, Promise!Become
<1>4. ASSUME NEW f \in Events, Promise!Count(f) \/ Promise!Send(f) \/ Promise!Deliver(f)
      PROVE  shown'[e] = "DELIVERED"
  BY <1>0, <1>4 DEF Promise!Count, Promise!Send, Promise!Deliver, Promise!Become, Promise!Open
<1>5. ASSUME NEW f \in Events, Promise!Bury(f) \/ Promise!Fail(f) \/ Promise!Replay(f)
      PROVE  shown'[e] = "DELIVERED"
  BY <1>0, <1>5 DEF Promise!Bury, Promise!Fail, Promise!Replay, Promise!Become, Promise!Open
<1> QED
  BY <1>0, <1>1, <1>2, <1>3, <1>4, <1>5 DEF Delivers, Promise!Next

(* With one pass, one replay and one editor at a time, and as long as no        *)
(* database call has failed, no stale save takes a DELIVERED event back: it     *)
(* stays delivered until it is deleted with its subscription.                   *)
THEOREM DeliveredStaysFinal ==
    ASSUME OnePass, OneReplay, OneEdit
    PROVE  Spec => DeliveredIsFinal
<1>1. /\ TypeOK /\ CountInvariant /\ PromiseInvariant /\ [Next]_vars
      => [faults' = 0 => \A e \in Events : events[e].status = "DELIVERED" =>
                            events'[e].status \in {"DELIVERED", "ABSENT"}]_vars
  BY EveryStepDelivers, DeliveredStays
<1>2. Spec => [](TypeOK /\ CountInvariant /\ PromiseInvariant)
  BY PromisesStay
<1> QED
  BY <1>1, <1>2, PTL DEF Spec, DeliveredIsFinal

(* Under the same assumptions, in a run in which no database call fails, every  *)
(* step of the handlers, crashes included, is a step of the promise clients see *)
(* or changes nothing they see: attempts counted first, outcomes after their    *)
(* attempt, DELIVERED and FAILED final.                                         *)
THEOREM WebhooksDeliver ==
    ASSUME OnePass, OneReplay, OneEdit
    PROVE  Spec /\ [](faults = 0) => ImplementsDelivery
<1>1. Init => Promise!Init
  BY DEF Init, Promise!Init, ShownSent, Exists, NoEvent
<1>2. /\ TypeOK /\ CountInvariant /\ PromiseInvariant /\ [Next]_vars /\ (faults = 0)'
      => [Promise!Next]_(Promise!vars)
  BY EveryStepDelivers DEF Delivers
<1>3. Spec => [](TypeOK /\ CountInvariant /\ PromiseInvariant)
  BY PromisesStay
<1> QED
  BY <1>1, <1>2, <1>3, PTL DEF Spec, ImplementsDelivery, Promise!Spec
=============================================================================
