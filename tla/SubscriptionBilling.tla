------------------------- MODULE SubscriptionBilling -------------------------
(***************************************************************************)
(* Tenant subscriptions (src/src/subscriptions): the requests of the       *)
(* administrators, the payment gateway's messages, and the nightly job     *)
(* that ends what is over.  Every write is an UPDATE of a few columns      *)
(* decided from a row that was read earlier.  Messages of the gateway come *)
(* at any time, in any order and more than once.                           *)
(*                                                                         *)
(* A label names the await a handler stands at.  The metadata column is    *)
(* left out, with the handlers and the awaits that write nothing else: no  *)
(* decision looks at it.                                                   *)
(***************************************************************************)
EXTENDS Integers, FiniteSets

CONSTANTS
    Tenants,
    NoTenant,
    MaxSubscriptions,   \* bound: rows of subscriptions ever created
    Requests,           \* requests of administrators
    Messages,           \* processWebhook calls for the gateway's messages
    Nightly,            \* runs of checkExpiringSubscriptions or runManually
    Creations,          \* what clients ask for: the columns a creation sets
    HandEdits,          \* and those an update by hand sets
    MaxBillingFailures  \* bound: database calls that fail and crashes of the server

Handlers == Requests \cup Messages \cup Nightly
Ids == 1 .. MaxSubscriptions
Ends == {"none", "later", "passed"}     \* of a period: "later" or "passed"

SubscriptionStatus ==
    {"NONE", "ACTIVE", "TRIAL", "PAST_DUE", "CANCELED", "EXPIRED", "SUSPENDED"}

Subscription ==
    [tenant: Tenants \cup {NoTenant}, status: SubscriptionStatus,
     currentPeriodEnd: Ends, cancelAtPeriodEnd: BOOLEAN, canceledAt: BOOLEAN,
     gracePeriodEnd: Ends]

(* The row r with the columns of e. *)
Edited(r, e) == [c \in DOMAIN r |-> IF c \in DOMAIN e THEN e[c] ELSE r[c]]

ASSUME BillingAssumption ==
    /\ NoTenant \notin Tenants
    /\ MaxSubscriptions \in Nat
    /\ Requests \cap Messages = {} /\ Requests \cap Nightly = {} /\ Messages \cap Nightly = {}
    /\ \A e \in Creations \cup HandEdits : \A r \in Subscription :
         r.status # "NONE" =>
            Edited(r, e) \in Subscription /\ Edited(r, e).status # "NONE" /\ Edited(r, e).tenant = r.tenant
    /\ \A e \in Creations : "canceledAt" \notin DOMAIN e
    /\ MaxBillingFailures \in Nat

NoSubscriptionRow ==
    [tenant |-> NoTenant, status |-> "NONE", currentPeriodEnd |-> "none",
     cancelAtPeriodEnd |-> FALSE, canceledAt |-> FALSE, gracePeriodEnd |-> "none"]

NoCopy == [id |-> 0, tenant |-> NoTenant, status |-> "NONE"]

VARIABLES
    billed,         \* rows of admin.subscriptions
    listed,         \* the rows a nightly run has listed and still has to walk
    at,             \* the await a handler stands at
    copy,           \* of the row a handler has read, what its writes are decided on
    irregular,      \* history: rows written by hand, from a stale copy, or half written
    billingFailures

billingVars == <<billed, listed, at, copy, irregular, billingFailures>>

CopyOf(s) == [NoCopy EXCEPT !.id = s, !.status = billed[s].status]
Created(s) == billed[s].status # "NONE"
IsActive(r) == r.status \in {"ACTIVE", "TRIAL"}
IsCanceled(r) == r.status = "CANCELED" \/ r.canceledAt
CanBeRenewed(r) == r.status \in {"ACTIVE", "TRIAL", "PAST_DUE"}

BillingInit ==
    /\ billed = [s \in Ids |-> NoSubscriptionRow]
    /\ listed = [t \in Nightly |-> {}]
    /\ at = [t \in Handlers |-> "idle"]
    /\ copy = [t \in Handlers |-> NoCopy]
    /\ irregular = {}
    /\ billingFailures = 0

Step(t, label) == at' = [at EXCEPT ![t] = label]
Return(t) == Step(t, "idle") /\ copy' = [copy EXCEPT ![t] = NoCopy]

(* The status a handler's write was decided on is no longer the row's. *)
Stale(t) == billed[copy[t].id].status # copy[t].status

(* findById, or findByPaymentGatewayId: the handler goes on to `label` with row s. *)
Read(t, s, label) ==
    /\ at[t] = "idle"
    /\ Created(s)
    /\ Step(t, label)
    /\ copy' = [copy EXCEPT ![t] = CopyOf(s)]
    /\ UNCHANGED <<billed, listed, irregular, billingFailures>>

(* repository.update: `row` is the row as it is now, with the changed columns. *)
Now(t) == billed[copy[t].id]
Update(t, from, row, to) ==
    LET s == copy[t].id IN
    /\ at[t] = from
    /\ billed' = [billed EXCEPT ![s] = row]
    /\ copy' = [copy EXCEPT ![t] = IF to \in {"idle", "expired", "graceOver"} THEN NoCopy
                                   ELSE [@ EXCEPT !.status = row.status]]
    /\ irregular' = IF Stale(t) /\ row # billed[s] THEN irregular \cup {s} ELSE irregular
    /\ Step(t, to)
    /\ UNCHANGED <<listed, billingFailures>>

-----------------------------------------------------------------------------
(* SubscriptionsService. *)

(* The tenant and the plan exist; findActiveByTenantId finds nothing. *)
CreateSubscription(t, tenant) ==
    /\ at[t] = "idle"
    /\ \A s \in Ids : ~(billed[s].tenant = tenant /\ billed[s].status = "ACTIVE")
    /\ Step(t, "insert")
    /\ copy' = [copy EXCEPT ![t].tenant = tenant]
    /\ UNCHANGED <<billed, listed, irregular, billingFailures>>

(* ACTIVE unless asked for otherwise, or with a trial. *)
InsertSubscription(t) ==
    \E e \in Creations, s \in Ids :
        LET new == [NoSubscriptionRow EXCEPT !.tenant = copy[t].tenant, !.status = "ACTIVE",
                                             !.currentPeriodEnd = "later"]
        IN /\ at[t] = "insert"
           /\ ~Created(s) /\ \A r \in Ids : r < s => Created(r)
           /\ billed' = [billed EXCEPT ![s] = Edited(new, e)]
           /\ irregular' = IF IsActive(Edited(new, e)) THEN irregular ELSE irregular \cup {s}
           /\ Return(t)
           /\ UNCHANGED <<listed, billingFailures>>

(* A write that no column of the row decides: any moment after the read is as good. *)
BlindUpdate(t, s, row) ==
    /\ at[t] = "idle"
    /\ Created(s)
    /\ billed' = [billed EXCEPT ![s] = row]
    /\ UNCHANGED <<listed, at, copy, billingFailures>>

(* updateSubscription: any columns, as the client says. *)
UpdateSubscription(t, s) ==
    /\ \E e \in HandEdits : BlindUpdate(t, s, Edited(billed[s], e))
    /\ irregular' = irregular \cup {s}

(* Mutant: the row is not looked at. *)
RenewSubscriptionUnchecked(t, s) == Read(t, s, "renew")

(* cancelSubscription and renewSubscription, as far as their first write. *)
CancelSubscription(t, s) == ~IsCanceled(billed[s]) /\ Read(t, s, "cancel")
RenewSubscription(t, s) == CanBeRenewed(billed[s]) /\ Read(t, s, "renew")

(* The end of a cancellation is the period's end (the default), or now. *)
SaveCancellation(t) ==
    \/ Update(t, "cancel", [Now(t) EXCEPT !.cancelAtPeriodEnd = TRUE], "idle")
    \/ Update(t, "cancel", [Now(t) EXCEPT !.cancelAtPeriodEnd = FALSE, !.status = "CANCELED",
                                         !.canceledAt = TRUE], "idle")

SaveRenewal(t) ==
    Update(t, "renew", [Now(t) EXCEPT !.status = "ACTIVE", !.currentPeriodEnd = "later",
                                      !.cancelAtPeriodEnd = FALSE, !.canceledAt = FALSE], "idle")

-----------------------------------------------------------------------------
(* SubscriptionRenewalService and SubscriptionPlansService. *)

(* A renewal falls due a day before the period's end.  Payments always succeed in *)
(* this build, and then renewSubscription reads the row again: its status only.   *)
(* processManualRenewal checks no more than renewSubscription will.               *)
ProcessAutomaticRenewal(t, s) ==
    /\ CanBeRenewed(billed[s])
    /\ ~billed[s].cancelAtPeriodEnd
    /\ Read(t, s, "renewAgain")

ProcessRenewalWithPayment(t) ==
    LET s == copy[t].id IN
    /\ at[t] = "renewAgain"
    /\ IF CanBeRenewed(billed[s])
       THEN Step(t, "renew") /\ copy' = [copy EXCEPT ![t] = CopyOf(s)]
       ELSE Return(t)
    /\ UNCHANGED <<billed, listed, irregular, billingFailures>>

(* changePlan writes the plan's columns and, when it is immediate, a new period. *)
ChangePlan(t, s) == IsActive(billed[s]) /\ Read(t, s, "changePeriod")
UpdateBillingPeriod(t) ==
    Update(t, "changePeriod", [Now(t) EXCEPT !.currentPeriodEnd = "later"], "idle")

-----------------------------------------------------------------------------
(* SubscriptionWebhookService.processWebhook: one action for each kind of message. *)

HandlePaymentSucceeded(t, s) ==
    billed[s].status = "PAST_DUE" /\ Read(t, s, "activate")

ActivatePaid(t) ==
    Update(t, "activate", [Now(t) EXCEPT !.status = "ACTIVE"], "clearGrace")

ClearGracePeriod(t) ==
    Update(t, "clearGrace", [Now(t) EXCEPT !.gracePeriodEnd = "none"], "idle")

(* Mutant: whatever its status. *)
HandlePaymentFailedAnyStatus(t, s) == Read(t, s, "pastDue")

(* Also handleSubscriptionPastDue. *)
HandlePaymentFailed(t, s) ==
    IsActive(billed[s]) /\ Read(t, s, "pastDue")

SetPastDue(t) ==
    Update(t, "pastDue", [Now(t) EXCEPT !.status = "PAST_DUE"], "setGrace")

SetGracePeriod(t) ==
    Update(t, "setGrace", [Now(t) EXCEPT !.gracePeriodEnd = "later", !.status = "PAST_DUE"], "idle")

(* A new period, then a new cancelAtPeriodEnd; either may be missing. *)
HandleSubscriptionUpdated(t, s) ==
    /\ \/ \E end \in {"later", "passed"} :
            BlindUpdate(t, s, [billed[s] EXCEPT !.currentPeriodEnd = end])
       \/ \E flag \in BOOLEAN :
            BlindUpdate(t, s, [billed[s] EXCEPT !.cancelAtPeriodEnd = flag])
    /\ UNCHANGED irregular

(* Through the services' handlers, which read the row for themselves. *)
HandleSubscriptionCanceled(t, s) == CancelSubscription(t, s)
HandleSubscriptionRenewed(t, s) == RenewSubscription(t, s)

HandleSubscriptionExpired(t, s) ==
    /\ BlindUpdate(t, s, [billed[s] EXCEPT !.status = "EXPIRED"])
    /\ UNCHANGED irregular

HandleTrialEnded(t, s) == billed[s].status = "TRIAL" /\ Read(t, s, "trialEnded")
(* Mutant: a status the enumeration does not have. *)
ActivateTrialUnknown(t) ==
    Update(t, "trialEnded", [Now(t) EXCEPT !.status = "CONVERTED"], "idle")

ActivateTrial(t) ==
    Update(t, "trialEnded", [Now(t) EXCEPT !.status = "ACTIVE"], "idle")

-----------------------------------------------------------------------------
(* SubscriptionExpirationJob. *)

Listing(S) == {CopyOf(s) : s \in S}

(* findExpired. *)
CheckExpiringSubscriptions(t) ==
    /\ at[t] = "idle"
    /\ listed' = [listed EXCEPT ![t] =
         Listing({s \in Ids : billed[s].status = "ACTIVE" /\ billed[s].currentPeriodEnd = "passed"})]
    /\ Step(t, "expired")
    /\ UNCHANGED <<billed, copy, irregular, billingFailures>>

(* The next listed row: its notice, then the update. *)
NextListed(t, from, to) ==
    \E c \in listed[t] :
        /\ at[t] = from
        /\ Step(t, to)
        /\ copy' = [copy EXCEPT ![t] = c]
        /\ listed' = [listed EXCEPT ![t] = @ \ {c}]
        /\ UNCHANGED <<billed, irregular, billingFailures>>

ProcessExpired(t) == NextListed(t, "expired", "expire")

(* Mutant: the notice is all there is. *)
ExpireForgotten(t) ==
    /\ at[t] = "expire"
    /\ Step(t, "expired")
    /\ copy' = [copy EXCEPT ![t] = NoCopy]
    /\ UNCHANGED <<billed, listed, irregular, billingFailures>>

Expire(t) ==
    Update(t, "expire", [Now(t) EXCEPT !.status = "EXPIRED"], "expired")

(* findInGracePeriod selects ends that lie ahead; those that have passed by the *)
(* time of `now` are the ones that came between the query and it.               *)
ListGracePeriods(t) ==
    /\ at[t] = "expired"
    /\ listed[t] = {}
    /\ listed' = [listed EXCEPT ![t] =
         Listing({s \in Ids : billed[s].status = "PAST_DUE" /\ billed[s].gracePeriodEnd = "later"})]
    /\ Step(t, "now")
    /\ UNCHANGED <<billed, copy, irregular, billingFailures>>

ProcessGracePeriodExpired(t) ==
    /\ at[t] = "now"
    /\ listed' = [listed EXCEPT ![t] = {c \in @ : billed[c.id].gracePeriodEnd = "passed"}]
    /\ Step(t, "graceOver")
    /\ UNCHANGED <<billed, copy, irregular, billingFailures>>

ProcessGraceOver(t) == NextListed(t, "graceOver", "graceExpire")

GraceExpire(t) ==
    Update(t, "graceExpire", [Now(t) EXCEPT !.status = "EXPIRED"], "graceClear")

GraceClear(t) ==
    Update(t, "graceClear", [Now(t) EXCEPT !.gracePeriodEnd = "none"], "graceOver")

EndOfJob(t) ==
    /\ at[t] = "graceOver"
    /\ listed[t] = {}
    /\ Return(t)
    /\ UNCHANGED <<billed, listed, irregular, billingFailures>>

-----------------------------------------------------------------------------
(* The environment. *)

PeriodEnds(s) ==
    /\ billed[s].currentPeriodEnd = "later"
    /\ billed' = [billed EXCEPT ![s].currentPeriodEnd = "passed"]
    /\ UNCHANGED <<listed, at, copy, irregular, billingFailures>>

GracePeriodEnds(s) ==
    /\ billed[s].gracePeriodEnd = "later"
    /\ billed' = [billed EXCEPT ![s].gracePeriodEnd = "passed"]
    /\ UNCHANGED <<listed, at, copy, irregular, billingFailures>>

(* A handler that ends here leaves a row behind that is PAST_DUE without end. *)
HalfWritten(t) == IF at[t] = "setGrace" THEN {copy[t].id} ELSE {}

(* An await rejects: requests and messages end; the job goes on with its next row, *)
(* or ends when a query fails.                                                     *)
BillingFault(t) ==
    /\ at[t] # "idle"
    /\ billingFailures < MaxBillingFailures
    /\ billingFailures' = billingFailures + 1
    /\ irregular' = irregular \cup HalfWritten(t)
    /\ copy' = [copy EXCEPT ![t] = NoCopy]
    /\ CASE at[t] = "expire" -> Step(t, "expired") /\ UNCHANGED listed
         [] at[t] \in {"graceExpire", "graceClear"} -> Step(t, "graceOver") /\ UNCHANGED listed
         [] OTHER -> Step(t, "idle") /\ listed' = [u \in Nightly |-> IF u = t THEN {} ELSE listed[u]]
    /\ UNCHANGED billed

BillingCrash ==
    /\ billingFailures < MaxBillingFailures
    /\ billingFailures' = billingFailures + 1
    /\ irregular' = irregular \cup UNION {HalfWritten(t) : t \in Handlers}
    /\ at' = [t \in Handlers |-> "idle"]
    /\ copy' = [t \in Handlers |-> NoCopy]
    /\ listed' = [t \in Nightly |-> {}]
    /\ UNCHANGED billed

-----------------------------------------------------------------------------
RequestStep(t) ==
    \/ InsertSubscription(t) \/ SaveCancellation(t) \/ SaveRenewal(t)
    \/ ProcessRenewalWithPayment(t) \/ UpdateBillingPeriod(t)

Request(t, s) ==
    \/ UpdateSubscription(t, s) \/ CancelSubscription(t, s) \/ RenewSubscription(t, s)
    \/ ProcessAutomaticRenewal(t, s) \/ ChangePlan(t, s)

MessageStep(t) ==
    \/ ActivatePaid(t) \/ ClearGracePeriod(t) \/ SetPastDue(t) \/ SetGracePeriod(t)
    \/ SaveCancellation(t) \/ SaveRenewal(t) \/ ActivateTrial(t)

ProcessWebhook(t, s) ==
    \/ HandlePaymentSucceeded(t, s) \/ HandlePaymentFailed(t, s)
    \/ HandleSubscriptionUpdated(t, s) \/ HandleSubscriptionCanceled(t, s)
    \/ HandleSubscriptionRenewed(t, s) \/ HandleSubscriptionExpired(t, s)
    \/ HandleTrialEnded(t, s)

JobStep(t) ==
    \/ ProcessExpired(t) \/ Expire(t) \/ ListGracePeriods(t) \/ ProcessGracePeriodExpired(t)
    \/ ProcessGraceOver(t) \/ GraceExpire(t) \/ GraceClear(t) \/ EndOfJob(t)

BillingNext ==
    \/ \E t \in Requests : \/ RequestStep(t)
                           \/ \E tenant \in Tenants : CreateSubscription(t, tenant)
                           \/ \E s \in Ids : Request(t, s)
    \/ \E t \in Messages : MessageStep(t) \/ \E s \in Ids : ProcessWebhook(t, s)
    \/ \E t \in Nightly : CheckExpiringSubscriptions(t) \/ JobStep(t)
    \/ \E s \in Ids : PeriodEnds(s) \/ GracePeriodEnds(s)
    \/ \E t \in Handlers : BillingFault(t)
    \/ BillingCrash

BillingSpec == BillingInit /\ [][BillingNext]_billingVars

(* Cron runs the job every night, and a handler that has begun runs to its end. *)
FairBillingSpec ==
    /\ BillingSpec
    /\ \A t \in Requests : WF_billingVars(RequestStep(t))
    /\ \A t \in Messages : WF_billingVars(MessageStep(t))
    /\ \A t \in Nightly : WF_billingVars(CheckExpiringSubscriptions(t)) /\ WF_billingVars(JobStep(t))
    /\ \A s \in Ids : WF_billingVars(PeriodEnds(s)) /\ WF_billingVars(GracePeriodEnds(s))

-----------------------------------------------------------------------------
(* Properties. *)

Copy ==
    [id: 0 .. MaxSubscriptions, tenant: Tenants \cup {NoTenant},
     status: SubscriptionStatus]
JobLabels == {"expired", "expire", "now", "graceOver", "graceExpire", "graceClear"}
BillingLabels ==
    {"idle", "insert", "cancel", "renew", "renewAgain", "changePeriod", "activate",
     "clearGrace", "pastDue", "setGrace", "trialEnded"} \cup JobLabels

(* The table and the handlers' local entities keep the shape of their columns. *)
BillingTypeOK ==
    /\ billed \in [Ids -> Subscription]
    /\ listed \in [Nightly -> SUBSET Copy]
    /\ at \in [Handlers -> BillingLabels]
    /\ copy \in [Handlers -> Copy]
    /\ irregular \subseteq Ids
    /\ billingFailures \in 0 .. MaxBillingFailures

(* What the columns say together: a cancellation has its time, a row that is not  *)
(* over has none, and PAST_DUE has an end (or a handler that is about to set it). *)
Consistent(s) ==
    LET r == billed[s] IN
    /\ r.status = "CANCELED" => r.canceledAt
    /\ r.canceledAt => r.status \in {"CANCELED", "EXPIRED"}
    /\ r.status = "PAST_DUE" =>
         \/ r.gracePeriodEnd # "none"
         \/ \E t \in Messages : at[t] = "setGrace" /\ copy[t].id = s

(* The columns of a row contradict each other only after an update by hand, a   *)
(* write decided on an older status, or a failure between the two writes of a   *)
(* failed payment.  No other order of requests, messages and nightly runs, and  *)
(* no other failure, does it.                                                   *)
RegularRowsAreConsistent == \A s \in Ids \ irregular : Consistent(s)

(* What has ended (cancelled or expired) comes back by hand or by a write decided *)
(* on an older status: no message or renewal that read it ended revives it.       *)
Ended(r) == r.status \in {"CANCELED", "EXPIRED"}
EndedStaysEnded ==
    [][\A s \in Ids : Ended(billed[s]) /\ ~Ended(billed'[s]) => s \in irregular']_billingVars

(* Every overdue ACTIVE subscription ends, is renewed or falls past due, although  *)
(* a row's failure is only logged and runs of the job may overlap.                 *)
OverdueSubscriptionsEnd ==
    \A s \in Ids :
        billed[s].status = "ACTIVE" /\ billed[s].currentPeriodEnd = "passed" ~>
            billed[s].status # "ACTIVE" \/ billed[s].currentPeriodEnd # "passed"

(* "Process subscriptions whose grace period has expired." *)
GracePeriodsEnd ==
    \A s \in Ids :
        billed[s].status = "PAST_DUE" /\ billed[s].gracePeriodEnd = "passed" ~>
            billed[s].status # "PAST_DUE" \/ billed[s].gracePeriodEnd # "passed"
=============================================================================
