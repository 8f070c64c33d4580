----------------------- MODULE SubscriptionBillingProofs -----------------------
(* Theorems about SubscriptionBilling for any tenants, rows, requests,        *)
(* messages, nightly runs, edits and failures.                                *)
EXTENDS SubscriptionPromises, TLAPS

(* Labels at which no row is in hand. *)
EmptyLabels == {"idle", "insert", "expired", "now", "graceOver"}
Renewable == {"ACTIVE", "TRIAL", "PAST_DUE"}

(* A copy of a row that was there. *)
OfRow(c) == c.id \in Ids /\ c.status # "NONE"

(* What a label says of the copy c that the next write is decided on. *)
Decision(l, c) ==
    /\ l \notin EmptyLabels => OfRow(c)
    /\ l \in {"renew", "renewAgain"} => c.status \in Renewable
    /\ l \in {"activate", "setGrace"} => c.status = "PAST_DUE"
    /\ l = "clearGrace" => c.status = "ACTIVE"
    /\ l = "pastDue" => c.status \in {"ACTIVE", "TRIAL"}
    /\ l = "trialEnded" => c.status = "TRIAL"
    /\ l = "graceClear" => c.status = "EXPIRED"

BillingInvariant ==
    /\ BillingTypeOK
    /\ \A t \in Handlers : Decision(at[t], copy[t])
    /\ \A t \in Nightly : \A c \in listed[t] : OfRow(c)
    /\ RegularRowsAreConsistent

(* The moves of the lifecycle, and none. *)
Lawful(from, to) ==
    \/ from = to
    \/ from = "NONE" /\ to \in {"ACTIVE", "TRIAL"}
    \/ from \in {"TRIAL", "PAST_DUE"} /\ to = "ACTIVE"
    \/ from \in {"ACTIVE", "TRIAL"} /\ to = "PAST_DUE"
    \/ from # "NONE" /\ to \in {"CANCELED", "EXPIRED"}

(* What one step does to the statuses: nothing, though it may mark rows; *)
(* or one row's moves lawfully, or the row is marked.                    *)
SameStatuses ==
    /\ \A s \in Ids : billed'[s].status = billed[s].status
    /\ irregular \subseteq irregular'
OneMoves(s) ==
    /\ \A r \in Ids \ {s} : billed'[r].status = billed[r].status
    /\ billed'[s].status # "NONE"
    /\ \/ irregular' = irregular /\ Lawful(billed[s].status, billed'[s].status)
       \/ irregular' = irregular \cup {s}
LawfulStep == SameStatuses \/ \E s \in Ids : OneMoves(s)

BillingKeeps == BillingInvariant' /\ LawfulStep

-----------------------------------------------------------------------------
LEMMA BillingConstants ==
    /\ MaxSubscriptions \in Nat /\ MaxBillingFailures \in Nat /\ NoTenant \notin Tenants
    /\ Ids \subseteq Nat /\ 0 \notin Ids /\ \A s \in Ids : s \in 0 .. MaxSubscriptions
BY BillingAssumption DEF Ids

LEMMA NullCopy == NoCopy \in Copy /\ NoSubscriptionRow \in Subscription
BY BillingConstants DEF NoCopy, Copy, NoSubscriptionRow, Subscription, SubscriptionStatus, Ends

LEMMA CopyOfRow ==
    ASSUME BillingTypeOK, NEW s \in Ids
    PROVE  /\ Created(s) => OfRow(CopyOf(s))
           /\ CopyOf(s) \in Copy /\ CopyOf(s).id = s /\ CopyOf(s).status = billed[s].status
           /\ billed[s] \in Subscription
BY NullCopy, BillingConstants DEF CopyOf, NoCopy, Copy, BillingTypeOK, Subscription, Created, OfRow

LEMMA BillingStart == BillingInit => BillingInvariant
<1> SUFFICES ASSUME BillingInit PROVE BillingInvariant
  OBVIOUS
<1>1. BillingTypeOK
  BY NullCopy, BillingConstants DEF BillingInit, BillingTypeOK, BillingLabels
<1>2. \A t \in Handlers : Decision(at[t], copy[t])
  BY DEF BillingInit, Decision, EmptyLabels
<1>3. RegularRowsAreConsistent
  BY DEF BillingInit, RegularRowsAreConsistent, Consistent, NoSubscriptionRow
<1>4. \A t \in Nightly : \A c \in listed[t] : OfRow(c)
  BY DEF BillingInit
<1> QED
  BY <1>1, <1>2, <1>3, <1>4 DEF BillingInvariant

-----------------------------------------------------------------------------
(* Steps that leave the table alone.  A message that was to set a grace period *)
(* still is, or its row is marked.                                             *)

LEMMA LocalKeeps ==
    ASSUME BillingInvariant, UNCHANGED billed, BillingTypeOK', irregular \subseteq irregular',
           \A t \in Handlers : Decision(at'[t], copy'[t]),
           \A t \in Nightly : \A c \in listed'[t] : OfRow(c),
           \A t \in Messages : at[t] = "setGrace" =>
             \/ at'[t] = "setGrace" /\ copy'[t].id = copy[t].id
             \/ copy[t].id \in irregular'
    PROVE  BillingKeeps
<1>1. RegularRowsAreConsistent'
  <2> SUFFICES ASSUME NEW s \in Ids \ irregular' PROVE Consistent(s)'
    BY DEF RegularRowsAreConsistent
  <2>1. Consistent(s)
    BY DEF BillingInvariant, RegularRowsAreConsistent
  <2> QED
    BY <2>1 DEF Consistent
<1>2. LawfulStep
  BY DEF LawfulStep, SameStatuses
<1> QED
  BY <1>1, <1>2 DEF BillingKeeps, BillingInvariant

(* A handler t moves to label l with copy c and has no grace period to set. *)
LEMMA HandlerMoves ==
    ASSUME BillingInvariant, NEW t \in Handlers, NEW l \in BillingLabels, NEW c \in Copy,
           at' = [at EXCEPT ![t] = l], copy' = [copy EXCEPT ![t] = c],
           Decision(l, c), at[t] # "setGrace",
           UNCHANGED <<billed, irregular>>, billingFailures' \in 0 .. MaxBillingFailures,
           listed' \in [Nightly -> SUBSET Copy],
           \A u \in Nightly : \A b \in listed'[u] : OfRow(b)
    PROVE  BillingKeeps
<1>1. BillingTypeOK'
  BY DEF BillingInvariant, BillingTypeOK
<1>2. \A u \in Handlers : Decision(at'[u], copy'[u])
  BY DEF BillingInvariant, BillingTypeOK
<1>3. \A u \in Messages : at[u] = "setGrace" => at'[u] = "setGrace" /\ copy'[u].id = copy[u].id
  BY DEF BillingInvariant, BillingTypeOK, Handlers
<1> QED
  BY <1>1, <1>2, <1>3, LocalKeeps

(* Reading row s for a write that is decided on it. *)
LEMMA ReadKeeps ==
    ASSUME BillingInvariant, NEW t \in Handlers, NEW s \in Ids, NEW l \in BillingLabels,
           Read(t, s, l), OfRow(CopyOf(s)) => Decision(l, CopyOf(s))
    PROVE  BillingKeeps
<1>1. /\ at' = [at EXCEPT ![t] = l] /\ copy' = [copy EXCEPT ![t] = CopyOf(s)] /\ at[t] = "idle"
      /\ UNCHANGED <<billed, listed, irregular, billingFailures>>
  BY DEF Read, Step
<1>2. CopyOf(s) \in Copy /\ OfRow(CopyOf(s))
  BY CopyOfRow DEF BillingInvariant, Read
<1> QED
  BY <1>1, <1>2, HandlerMoves DEF BillingInvariant, BillingTypeOK

-----------------------------------------------------------------------------
(* Updates.  A row decided on its present status ... *)
SoundChange(t, row, from, to) ==
    LET r == Now(t) IN
    /\ row.status = "CANCELED" => row.canceledAt
    /\ row.canceledAt => row.status \in {"CANCELED", "EXPIRED"}
    /\ row.status = "PAST_DUE" =>
         \/ row.gracePeriodEnd # "none"
         \/ to = "setGrace" /\ t \in Messages
         \/ from # "setGrace" /\ r.status = "PAST_DUE" /\ row.gracePeriodEnd = r.gracePeriodEnd

(* The copy after an update by a handler that goes on with it. *)
Restated(t, row) == [copy[t] EXCEPT !.status = row.status]

(* ... and an update that makes one, or was decided on an older status, *)
SoundUpdate(t, from, row, to) ==
    /\ from \in BillingLabels \ EmptyLabels /\ row \in Subscription /\ to \in BillingLabels
    /\ Update(t, from, row, to)
    /\ to \in {"idle", "expired", "graceOver"} \/ Decision(to, Restated(t, row))
    /\ Now(t).status = copy[t].status /\ copy[t].id \notin irregular => SoundChange(t, row, from, to)
    /\ Now(t).status = copy[t].status => Lawful(copy[t].status, row.status)
    /\ row.status = Now(t).status \/ row.status \in SubscriptionStatus \ {"NONE"}
    /\ from = "setGrace" => row.gracePeriodEnd # "none"

(* keeps the invariant: in the second case the row is marked. *)
LEMMA UpdateKeeps ==
    ASSUME BillingInvariant, NEW t \in Handlers, NEW from, NEW row, NEW to,
           SoundUpdate(t, from, row, to)
    PROVE  BillingKeeps
<1> /\ from \in BillingLabels \ EmptyLabels /\ row \in Subscription /\ to \in BillingLabels
    /\ Update(t, from, row, to)
    /\ to \in {"idle", "expired", "graceOver"} \/ Decision(to, [copy[t] EXCEPT !.status = row.status])
    /\ Now(t).status = copy[t].status /\ copy[t].id \notin irregular => SoundChange(t, row, from, to)
    /\ Now(t).status = copy[t].status => Lawful(copy[t].status, row.status)
    /\ row.status = Now(t).status \/ row.status \in SubscriptionStatus \ {"NONE"}
    /\ from = "setGrace" => row.gracePeriodEnd # "none"
  BY DEF SoundUpdate, Restated
<1> DEFINE s == copy[t].id
           c == IF to \in {"idle", "expired", "graceOver"} THEN NoCopy
                ELSE [copy[t] EXCEPT !.status = row.status]
<1>1. /\ at[t] = from /\ s \in Ids /\ copy[t] \in Copy /\ billed[s] \in Subscription
      /\ Now(t) = billed[s]
  BY DEF Update, BillingInvariant, BillingTypeOK, Decision, OfRow, Now
<1>2. /\ billed' = [billed EXCEPT ![s] = row] /\ copy' = [copy EXCEPT ![t] = c]
      /\ irregular' = (IF Stale(t) /\ row # billed[s] THEN irregular \cup {s} ELSE irregular)
      /\ at' = [at EXCEPT ![t] = to] /\ UNCHANGED <<listed, billingFailures>>
  BY DEF Update, Step
<1>3. c \in Copy
  <2>1. row.status \in SubscriptionStatus
    BY DEF Subscription
  <2> QED
    BY <1>1, <2>1, NullCopy DEF Copy
<1>4. Decision(to, c)
  BY DEF Decision, EmptyLabels
<1>5. BillingTypeOK'
  BY <1>1, <1>2, <1>3 DEF BillingInvariant, BillingTypeOK
<1>6. \A u \in Handlers : Decision(at'[u], copy'[u])
  BY <1>2, <1>4 DEF BillingInvariant, BillingTypeOK
<1>7. \A u \in Nightly : \A b \in listed'[u] : OfRow(b)
  BY <1>2 DEF BillingInvariant
<1>8. ASSUME NEW r \in Ids \ irregular' PROVE Consistent(r)'
  <2>1. Consistent(r) /\ r \notin irregular
    BY <1>2 DEF BillingInvariant, RegularRowsAreConsistent
  <2>2. /\ \A u \in Handlers \ {t} : at'[u] = at[u] /\ copy'[u] = copy[u]
        /\ at'[t] = to /\ copy'[t] = c
    BY <1>2 DEF BillingInvariant, BillingTypeOK
  <2>3. CASE r # s
    <3>1. billed'[r] = billed[r]
      BY <1>1, <1>2, <2>3 DEF BillingInvariant, BillingTypeOK
    <3>2. \A u \in Messages : at[u] = "setGrace" /\ copy[u].id = r => at'[u] = "setGrace" /\ copy'[u].id = r
      BY <2>2, <2>3 DEF Handlers
    <3> QED
      BY <2>1, <3>1, <3>2 DEF Consistent
  <2>4. CASE r = s /\ row = billed[s]
    <3>1. billed'[r] = billed[r]
      BY <1>1, <1>2, <2>4 DEF BillingInvariant, BillingTypeOK
    <3>2. row.gracePeriodEnd # "none" \/ at[t] # "setGrace"
      BY <1>1
    <3>3. ASSUME NEW u \in Messages, at[u] = "setGrace", copy[u].id = r, row.gracePeriodEnd = "none"
          PROVE  at'[u] = "setGrace" /\ copy'[u].id = r
      BY <2>2, <3>2, <3>3 DEF Handlers
    <3> QED
      BY <2>1, <2>4, <3>1, <3>3 DEF Consistent
  <2>5. CASE r = s /\ row # billed[s]
    <3>1. Now(t).status = copy[t].status
      BY <1>1, <1>2, <2>5 DEF Stale
    <3>2. SoundChange(t, row, from, to) /\ billed'[r] = row
      BY <1>1, <1>2, <2>1, <2>5, <3>1 DEF BillingInvariant, BillingTypeOK
    <3>3. to = "setGrace" => copy'[t].id = s
      BY <1>1, <2>2 DEF Copy
    <3>4. \A u \in Messages : at[u] = "setGrace" /\ from # "setGrace" =>
             at'[u] = "setGrace" /\ copy'[u].id = copy[u].id
      BY <1>1, <2>2 DEF Handlers
    <3> QED
      BY <1>1, <2>1, <2>2, <2>5, <3>2, <3>3, <3>4 DEF Consistent, SoundChange
  <2> QED
    BY <2>3, <2>4, <2>5
<1>9. LawfulStep
  <2>1. billed'[s] = row /\ \A r \in Ids \ {s} : billed'[r].status = billed[r].status
    BY <1>1, <1>2 DEF BillingInvariant, BillingTypeOK
  <2>2. CASE row.status = billed[s].status
    BY <1>2, <2>1, <2>2 DEF LawfulStep, SameStatuses
  <2>3. CASE row.status # billed[s].status
    <3>1. row # billed[s] /\ row.status # "NONE"
      BY <1>1, <2>3
    <3>2. OneMoves(s)
      BY <1>1, <1>2, <2>1, <3>1 DEF OneMoves, Stale
    <3> QED
      BY <1>1, <3>2 DEF LawfulStep
  <2> QED
    BY <2>2, <2>3
<1> QED
  BY <1>5, <1>6, <1>7, <1>8, <1>9 DEF BillingKeeps, BillingInvariant, RegularRowsAreConsistent

-----------------------------------------------------------------------------
(* The updates one by one. *)

(* The copy in hand names a row; the row has its type. *)
LEMMA RowInHand ==
    ASSUME BillingInvariant, NEW t \in Handlers, at[t] \notin EmptyLabels
    PROVE  /\ Now(t) \in Subscription /\ copy[t] \in Copy /\ copy[t].id \in Ids
           /\ Decision(at[t], copy[t])
           /\ copy[t].id \notin irregular => Consistent(copy[t].id)
BY DEF BillingInvariant, BillingTypeOK, Decision, OfRow, Now, RegularRowsAreConsistent

LEMMA LabelsAreLabels ==
    /\ {"cancel", "renew", "renewAgain", "changePeriod", "activate", "clearGrace", "pastDue",
        "setGrace", "trialEnded", "expire", "graceExpire", "graceClear"} \subseteq BillingLabels \ EmptyLabels
    /\ {"idle", "expired", "graceOver"} \subseteq BillingLabels
BY DEF BillingLabels, EmptyLabels, JobLabels

LEMMA SaveCancellationKeeps ==
    ASSUME BillingInvariant, NEW t \in Handlers, SaveCancellation(t)
    PROVE  BillingKeeps
<1>1. at[t] = "cancel"
  BY DEF SaveCancellation, Update
<1>2. /\ Now(t) \in Subscription /\ copy[t] \in Copy /\ Decision("cancel", copy[t])
      /\ copy[t].id \notin irregular => Consistent(copy[t].id)
  BY <1>1, RowInHand DEF EmptyLabels
<1>3. ASSUME NEW row \in Subscription, Update(t, "cancel", row, "idle"),
             row.status = Now(t).status, row.canceledAt = Now(t).canceledAt,
             row.gracePeriodEnd = Now(t).gracePeriodEnd
      PROVE  BillingKeeps
  <2>1. copy[t].id \notin irregular => SoundChange(t, row, "cancel", "idle")
    BY <1>1, <1>2, <1>3 DEF SoundChange, Consistent, Now
  <2>2. SoundUpdate(t, "cancel", row, "idle")
    BY <1>3, <2>1, LabelsAreLabels DEF SoundUpdate, Lawful
  <2> QED
    BY <2>2, UpdateKeeps
<1> DEFINE kept == [Now(t) EXCEPT !.cancelAtPeriodEnd = TRUE]
           over == [Now(t) EXCEPT !.cancelAtPeriodEnd = FALSE, !.status = "CANCELED", !.canceledAt = TRUE]
<1>4. CASE Update(t, "cancel", kept, "idle")
  <2>1. kept \in Subscription /\ kept.status = Now(t).status /\ kept.canceledAt = Now(t).canceledAt
        /\ kept.gracePeriodEnd = Now(t).gracePeriodEnd
    BY <1>2 DEF Subscription
  <2> HIDE DEF kept
  <2> QED
    BY <1>3, <1>4, <2>1
<1>5. CASE Update(t, "cancel", over, "idle")
  <2>1. over \in Subscription /\ over.status = "CANCELED" /\ over.canceledAt = TRUE
    BY <1>2 DEF Subscription, SubscriptionStatus
  <2>2. copy[t].id \notin irregular => SoundChange(t, over, "cancel", "idle")
    BY <1>1, <1>2, <2>1 DEF SoundChange, Consistent, Now
  <2>3. Lawful(copy[t].status, over.status) /\ over.status \in SubscriptionStatus \ {"NONE"}
    BY <1>2, <2>1 DEF Lawful, Decision, OfRow, EmptyLabels, SubscriptionStatus
  <2> HIDE DEF over
  <2>4. SoundUpdate(t, "cancel", over, "idle")
    BY <1>5, <2>1, <2>2, <2>3, LabelsAreLabels DEF SoundUpdate
  <2> QED
    BY <2>4, UpdateKeeps
<1> QED
  BY <1>4, <1>5 DEF SaveCancellation

LEMMA SaveRenewalKeeps ==
    ASSUME BillingInvariant, NEW t \in Handlers, SaveRenewal(t)
    PROVE  BillingKeeps
<1> DEFINE row == [Now(t) EXCEPT !.status = "ACTIVE", !.currentPeriodEnd = "later",
                                  !.cancelAtPeriodEnd = FALSE, !.canceledAt = FALSE]
<1>1. Update(t, "renew", row, "idle") /\ at[t] = "renew"
  BY DEF SaveRenewal, Update
<1>2. /\ Now(t) \in Subscription /\ copy[t] \in Copy /\ Decision("renew", copy[t])
      /\ copy[t].id \notin irregular => Consistent(copy[t].id)
  BY <1>1, RowInHand DEF EmptyLabels
<1>3. row \in Subscription
  BY <1>2 DEF Subscription, SubscriptionStatus, Ends
<1>4. Now(t).status = copy[t].status /\ copy[t].id \notin irregular => SoundChange(t, row, "renew", "idle")
  BY <1>1, <1>2 DEF SoundChange, Subscription, Decision, Consistent, Renewable, Now, EmptyLabels
<1>6. /\ Now(t).status = copy[t].status => Lawful(copy[t].status, row.status)
      /\ row.status = Now(t).status \/ row.status \in SubscriptionStatus \ {"NONE"}
  BY <1>1, <1>2 DEF Lawful, Decision, OfRow, EmptyLabels, Renewable, Subscription, SubscriptionStatus
<1> HIDE DEF row
<1>7. SoundUpdate(t, "renew", row, "idle")
  BY <1>1, <1>3, <1>4, <1>6, LabelsAreLabels DEF SoundUpdate
<1> QED
  BY <1>7, UpdateKeeps

LEMMA UpdateBillingPeriodKeeps ==
    ASSUME BillingInvariant, NEW t \in Handlers, UpdateBillingPeriod(t)
    PROVE  BillingKeeps
<1> DEFINE row == [Now(t) EXCEPT !.currentPeriodEnd = "later"]
<1>1. Update(t, "changePeriod", row, "idle") /\ at[t] = "changePeriod"
  BY DEF UpdateBillingPeriod, Update
<1>2. /\ Now(t) \in Subscription /\ copy[t] \in Copy /\ Decision("changePeriod", copy[t])
      /\ copy[t].id \notin irregular => Consistent(copy[t].id)
  BY <1>1, RowInHand DEF EmptyLabels
<1>3. row \in Subscription
  BY <1>2 DEF Subscription, SubscriptionStatus, Ends
<1>4. Now(t).status = copy[t].status /\ copy[t].id \notin irregular => SoundChange(t, row, "changePeriod", "idle")
  BY <1>1, <1>2 DEF SoundChange, Subscription, Decision, Consistent, Renewable, Now, EmptyLabels
<1>6. /\ Now(t).status = copy[t].status => Lawful(copy[t].status, row.status)
      /\ row.status = Now(t).status \/ row.status \in SubscriptionStatus \ {"NONE"}
  BY <1>1, <1>2 DEF Lawful, Decision, OfRow, EmptyLabels, Renewable, Subscription, SubscriptionStatus
<1> HIDE DEF row
<1>7. SoundUpdate(t, "changePeriod", row, "idle")
  BY <1>1, <1>3, <1>4, <1>6, LabelsAreLabels DEF SoundUpdate
<1> QED
  BY <1>7, UpdateKeeps

LEMMA ActivatePaidKeeps ==
    ASSUME BillingInvariant, NEW t \in Handlers, ActivatePaid(t)
    PROVE  BillingKeeps
<1> DEFINE row == [Now(t) EXCEPT !.status = "ACTIVE"]
<1>1. Update(t, "activate", row, "clearGrace") /\ at[t] = "activate"
  BY DEF ActivatePaid, Update
<1>2. /\ Now(t) \in Subscription /\ copy[t] \in Copy /\ Decision("activate", copy[t])
      /\ copy[t].id \notin irregular => Consistent(copy[t].id)
  BY <1>1, RowInHand DEF EmptyLabels
<1>3. row \in Subscription
  BY <1>2 DEF Subscription, SubscriptionStatus, Ends
<1>4. Now(t).status = copy[t].status /\ copy[t].id \notin irregular => SoundChange(t, row, "activate", "clearGrace")
  BY <1>1, <1>2 DEF SoundChange, Subscription, Decision, Consistent, Renewable, Now, EmptyLabels
<1>5. Decision("clearGrace", Restated(t, row))
  BY <1>2, <1>3 DEF Restated, Decision, OfRow, EmptyLabels, Copy, Subscription
<1>6. /\ Now(t).status = copy[t].status => Lawful(copy[t].status, row.status)
      /\ row.status = Now(t).status \/ row.status \in SubscriptionStatus \ {"NONE"}
  BY <1>1, <1>2 DEF Lawful, Decision, OfRow, EmptyLabels, Renewable, Subscription, SubscriptionStatus
<1> HIDE DEF row
<1>7. SoundUpdate(t, "activate", row, "clearGrace")
  BY <1>1, <1>3, <1>4, <1>5, <1>6, LabelsAreLabels DEF SoundUpdate
<1> QED
  BY <1>7, UpdateKeeps

LEMMA ClearGracePeriodKeeps ==
    ASSUME BillingInvariant, NEW t \in Handlers, ClearGracePeriod(t)
    PROVE  BillingKeeps
<1> DEFINE row == [Now(t) EXCEPT !.gracePeriodEnd = "none"]
<1>1. Update(t, "clearGrace", row, "idle") /\ at[t] = "clearGrace"
  BY DEF ClearGracePeriod, Update
<1>2. /\ Now(t) \in Subscription /\ copy[t] \in Copy /\ Decision("clearGrace", copy[t])
      /\ copy[t].id \notin irregular => Consistent(copy[t].id)
  BY <1>1, RowInHand DEF EmptyLabels
<1>3. row \in Subscription
  BY <1>2 DEF Subscription, SubscriptionStatus, Ends
<1>4. Now(t).status = copy[t].status /\ copy[t].id \notin irregular => SoundChange(t, row, "clearGrace", "idle")
  BY <1>1, <1>2 DEF SoundChange, Subscription, Decision, Consistent, Renewable, Now, EmptyLabels
<1>6. /\ Now(t).status = copy[t].status => Lawful(copy[t].status, row.status)
      /\ row.status = Now(t).status \/ row.status \in SubscriptionStatus \ {"NONE"}
  BY <1>1, <1>2 DEF Lawful, Decision, OfRow, EmptyLabels, Renewable, Subscription, SubscriptionStatus
<1> HIDE DEF row
<1>7. SoundUpdate(t, "clearGrace", row, "idle")
  BY <1>1, <1>3, <1>4, <1>6, LabelsAreLabels DEF SoundUpdate
<1> QED
  BY <1>7, UpdateKeeps

LEMMA SetPastDueKeeps ==
    ASSUME BillingInvariant, NEW t \in Messages, SetPastDue(t)
    PROVE  BillingKeeps
<1> t \in Handlers
  BY DEF Handlers
<1> DEFINE row == [Now(t) EXCEPT !.status = "PAST_DUE"]
<1>1. Update(t, "pastDue", row, "setGrace") /\ at[t] = "pastDue"
  BY DEF SetPastDue, Update
<1>2. /\ Now(t) \in Subscription /\ copy[t] \in Copy /\ Decision("pastDue", copy[t])
      /\ copy[t].id \notin irregular => Consistent(copy[t].id)
  BY <1>1, RowInHand DEF EmptyLabels
<1>3. row \in Subscription
  BY <1>2 DEF Subscription, SubscriptionStatus, Ends
<1>4. Now(t).status = copy[t].status /\ copy[t].id \notin irregular => SoundChange(t, row, "pastDue", "setGrace")
  BY <1>1, <1>2 DEF SoundChange, Subscription, Decision, Consistent, Renewable, Now, EmptyLabels
<1>5. Decision("setGrace", Restated(t, row))
  BY <1>2, <1>3 DEF Restated, Decision, OfRow, EmptyLabels, Copy, Subscription
<1>6. /\ Now(t).status = copy[t].status => Lawful(copy[t].status, row.status)
      /\ row.status = Now(t).status \/ row.status \in SubscriptionStatus \ {"NONE"}
  BY <1>1, <1>2 DEF Lawful, Decision, OfRow, EmptyLabels, Renewable, Subscription, SubscriptionStatus
<1> HIDE DEF row
<1>7. SoundUpdate(t, "pastDue", row, "setGrace")
  BY <1>1, <1>3, <1>4, <1>5, <1>6, LabelsAreLabels DEF SoundUpdate
<1> QED
  BY <1>7, UpdateKeeps

LEMMA SetGracePeriodKeeps ==
    ASSUME BillingInvariant, NEW t \in Handlers, SetGracePeriod(t)
    PROVE  BillingKeeps
<1> DEFINE row == [Now(t) EXCEPT !.gracePeriodEnd = "later", !.status = "PAST_DUE"]
<1>1. Update(t, "setGrace", row, "idle") /\ at[t] = "setGrace"
  BY DEF SetGracePeriod, Update
<1>2. /\ Now(t) \in Subscription /\ copy[t] \in Copy /\ Decision("setGrace", copy[t])
      /\ copy[t].id \notin irregular => Consistent(copy[t].id)
  BY <1>1, RowInHand DEF EmptyLabels
<1>3. row \in Subscription
  BY <1>2 DEF Subscription, SubscriptionStatus, Ends
<1>4. Now(t).status = copy[t].status /\ copy[t].id \notin irregular => SoundChange(t, row, "setGrace", "idle")
  BY <1>1, <1>2 DEF SoundChange, Subscription, Decision, Consistent, Renewable, Now, EmptyLabels
<1>5. row.gracePeriodEnd # "none"
  BY <1>2 DEF Subscription
<1>6. /\ Now(t).status = copy[t].status => Lawful(copy[t].status, row.status)
      /\ row.status = Now(t).status \/ row.status \in SubscriptionStatus \ {"NONE"}
  BY <1>1, <1>2 DEF Lawful, Decision, OfRow, EmptyLabels, Renewable, Subscription, SubscriptionStatus
<1> HIDE DEF row
<1>7. SoundUpdate(t, "setGrace", row, "idle")
  BY <1>1, <1>3, <1>4, <1>5, <1>6, LabelsAreLabels DEF SoundUpdate
<1> QED
  BY <1>7, UpdateKeeps

LEMMA ActivateTrialKeeps ==
    ASSUME BillingInvariant, NEW t \in Handlers, ActivateTrial(t)
    PROVE  BillingKeeps
<1> DEFINE row == [Now(t) EXCEPT !.status = "ACTIVE"]
<1>1. Update(t, "trialEnded", row, "idle") /\ at[t] = "trialEnded"
  BY DEF ActivateTrial, Update
<1>2. /\ Now(t) \in Subscription /\ copy[t] \in Copy /\ Decision("trialEnded", copy[t])
      /\ copy[t].id \notin irregular => Consistent(copy[t].id)
  BY <1>1, RowInHand DEF EmptyLabels
<1>3. row \in Subscription
  BY <1>2 DEF Subscription, SubscriptionStatus, Ends
<1>4. Now(t).status = copy[t].status /\ copy[t].id \notin irregular => SoundChange(t, row, "trialEnded", "idle")
  BY <1>1, <1>2 DEF SoundChange, Subscription, Decision, Consistent, Renewable, Now, EmptyLabels
<1>6. /\ Now(t).status = copy[t].status => Lawful(copy[t].status, row.status)
      /\ row.status = Now(t).status \/ row.status \in SubscriptionStatus \ {"NONE"}
  BY <1>1, <1>2 DEF Lawful, Decision, OfRow, EmptyLabels, Renewable, Subscription, SubscriptionStatus
<1> HIDE DEF row
<1>7. SoundUpdate(t, "trialEnded", row, "idle")
  BY <1>1, <1>3, <1>4, <1>6, LabelsAreLabels DEF SoundUpdate
<1> QED
  BY <1>7, UpdateKeeps

LEMMA ExpireKeeps ==
    ASSUME BillingInvariant, NEW t \in Handlers, Expire(t)
    PROVE  BillingKeeps
<1> DEFINE row == [Now(t) EXCEPT !.status = "EXPIRED"]
<1>1. Update(t, "expire", row, "expired") /\ at[t] = "expire"
  BY DEF Expire, Update
<1>2. /\ Now(t) \in Subscription /\ copy[t] \in Copy /\ Decision("expire", copy[t])
      /\ copy[t].id \notin irregular => Consistent(copy[t].id)
  BY <1>1, RowInHand DEF EmptyLabels
<1>3. row \in Subscription
  BY <1>2 DEF Subscription, SubscriptionStatus, Ends
<1>4. Now(t).status = copy[t].status /\ copy[t].id \notin irregular => SoundChange(t, row, "expire", "expired")
  BY <1>1, <1>2 DEF SoundChange, Subscription, Decision, Consistent, Renewable, Now, EmptyLabels
<1>6. /\ Now(t).status = copy[t].status => Lawful(copy[t].status, row.status)
      /\ row.status = Now(t).status \/ row.status \in SubscriptionStatus \ {"NONE"}
  BY <1>1, <1>2 DEF Lawful, Decision, OfRow, EmptyLabels, Renewable, Subscription, SubscriptionStatus
<1> HIDE DEF row
<1>7. SoundUpdate(t, "expire", row, "expired")
  BY <1>1, <1>3, <1>4, <1>6, LabelsAreLabels DEF SoundUpdate
<1> QED
  BY <1>7, UpdateKeeps

LEMMA GraceExpireKeeps ==
    ASSUME BillingInvariant, NEW t \in Handlers, GraceExpire(t)
    PROVE  BillingKeeps
<1> DEFINE row == [Now(t) EXCEPT !.status = "EXPIRED"]
<1>1. Update(t, "graceExpire", row, "graceClear") /\ at[t] = "graceExpire"
  BY DEF GraceExpire, Update
<1>2. /\ Now(t) \in Subscription /\ copy[t] \in Copy /\ Decision("graceExpire", copy[t])
      /\ copy[t].id \notin irregular => Consistent(copy[t].id)
  BY <1>1, RowInHand DEF EmptyLabels
<1>3. row \in Subscription
  BY <1>2 DEF Subscription, SubscriptionStatus, Ends
<1>4. Now(t).status = copy[t].status /\ copy[t].id \notin irregular => SoundChange(t, row, "graceExpire", "graceClear")
  BY <1>1, <1>2 DEF SoundChange, Subscription, Decision, Consistent, Renewable, Now, EmptyLabels
<1>5. Decision("graceClear", Restated(t, row))
  BY <1>2, <1>3 DEF Restated, Decision, OfRow, EmptyLabels, Copy, Subscription
<1>6. /\ Now(t).status = copy[t].status => Lawful(copy[t].status, row.status)
      /\ row.status = Now(t).status \/ row.status \in SubscriptionStatus \ {"NONE"}
  BY <1>1, <1>2 DEF Lawful, Decision, OfRow, EmptyLabels, Renewable, Subscription, SubscriptionStatus
<1> HIDE DEF row
<1>7. SoundUpdate(t, "graceExpire", row, "graceClear")
  BY <1>1, <1>3, <1>4, <1>5, <1>6, LabelsAreLabels DEF SoundUpdate
<1> QED
  BY <1>7, UpdateKeeps

LEMMA GraceClearKeeps ==
    ASSUME BillingInvariant, NEW t \in Handlers, GraceClear(t)
    PROVE  BillingKeeps
<1> DEFINE row == [Now(t) EXCEPT !.gracePeriodEnd = "none"]
<1>1. Update(t, "graceClear", row, "graceOver") /\ at[t] = "graceClear"
  BY DEF GraceClear, Update
<1>2. /\ Now(t) \in Subscription /\ copy[t] \in Copy /\ Decision("graceClear", copy[t])
      /\ copy[t].id \notin irregular => Consistent(copy[t].id)
  BY <1>1, RowInHand DEF EmptyLabels
<1>3. row \in Subscription
  BY <1>2 DEF Subscription, SubscriptionStatus, Ends
<1>4. Now(t).status = copy[t].status /\ copy[t].id \notin irregular => SoundChange(t, row, "graceClear", "graceOver")
  BY <1>1, <1>2 DEF SoundChange, Subscription, Decision, Consistent, Renewable, Now, EmptyLabels
<1>6. /\ Now(t).status = copy[t].status => Lawful(copy[t].status, row.status)
      /\ row.status = Now(t).status \/ row.status \in SubscriptionStatus \ {"NONE"}
  BY <1>1, <1>2 DEF Lawful, Decision, OfRow, EmptyLabels, Renewable, Subscription, SubscriptionStatus
<1> HIDE DEF row
<1>7. SoundUpdate(t, "graceClear", row, "graceOver")
  BY <1>1, <1>3, <1>4, <1>6, LabelsAreLabels DEF SoundUpdate
<1> QED
  BY <1>7, UpdateKeeps

-----------------------------------------------------------------------------
(* Reads. *)

LEMMA ReadersKeep ==
    ASSUME BillingInvariant, NEW t \in Handlers, NEW s \in Ids,
           \/ CancelSubscription(t, s) \/ RenewSubscription(t, s) \/ ProcessAutomaticRenewal(t, s)
           \/ ChangePlan(t, s) \/ HandlePaymentSucceeded(t, s) \/ HandlePaymentFailed(t, s)
           \/ HandleTrialEnded(t, s)
    PROVE  BillingKeeps
<1>1. CopyOf(s).id = s /\ CopyOf(s).status = billed[s].status
  BY CopyOfRow DEF BillingInvariant
<1>2. ASSUME NEW l \in BillingLabels, Read(t, s, l), OfRow(CopyOf(s)) => Decision(l, CopyOf(s))
      PROVE  BillingKeeps
  BY <1>2, ReadKeeps
<1>3. CASE CancelSubscription(t, s)
  <2>1. Read(t, s, "cancel") /\ (OfRow(CopyOf(s)) => Decision("cancel", CopyOf(s)))
    BY <1>1, <1>3 DEF CancelSubscription, Decision, EmptyLabels
  <2> QED
    BY <1>2, <2>1, LabelsAreLabels
<1>4. CASE RenewSubscription(t, s)
  <2>1. Read(t, s, "renew") /\ (OfRow(CopyOf(s)) => Decision("renew", CopyOf(s)))
    BY <1>1, <1>4 DEF RenewSubscription, CanBeRenewed, Renewable, Decision, EmptyLabels
  <2> QED
    BY <1>2, <2>1, LabelsAreLabels
<1>5. CASE ProcessAutomaticRenewal(t, s)
  <2>1. Read(t, s, "renewAgain") /\ (OfRow(CopyOf(s)) => Decision("renewAgain", CopyOf(s)))
    BY <1>1, <1>5 DEF ProcessAutomaticRenewal, CanBeRenewed, Renewable, Decision, EmptyLabels
  <2> QED
    BY <1>2, <2>1, LabelsAreLabels
<1>6. CASE ChangePlan(t, s)
  <2>1. Read(t, s, "changePeriod") /\ (OfRow(CopyOf(s)) => Decision("changePeriod", CopyOf(s)))
    BY <1>1, <1>6 DEF ChangePlan, Decision, EmptyLabels
  <2> QED
    BY <1>2, <2>1, LabelsAreLabels
<1>7. CASE HandlePaymentSucceeded(t, s)
  <2>1. Read(t, s, "activate") /\ (OfRow(CopyOf(s)) => Decision("activate", CopyOf(s)))
    BY <1>1, <1>7 DEF HandlePaymentSucceeded, Decision, EmptyLabels
  <2> QED
    BY <1>2, <2>1, LabelsAreLabels
<1>8. CASE HandlePaymentFailed(t, s)
  <2>1. Read(t, s, "pastDue") /\ (OfRow(CopyOf(s)) => Decision("pastDue", CopyOf(s)))
    BY <1>1, <1>8 DEF HandlePaymentFailed, IsActive, Decision, EmptyLabels
  <2> QED
    BY <1>2, <2>1, LabelsAreLabels
<1>9. CASE HandleTrialEnded(t, s)
  <2>1. Read(t, s, "trialEnded") /\ (OfRow(CopyOf(s)) => Decision("trialEnded", CopyOf(s)))
    BY <1>1, <1>9 DEF HandleTrialEnded, Decision, EmptyLabels
  <2> QED
    BY <1>2, <2>1, LabelsAreLabels
<1> QED
  BY <1>3, <1>4, <1>5, <1>6, <1>7, <1>8, <1>9

(* The renewal reads the status again before it writes. *)
LEMMA ProcessRenewalWithPaymentKeeps ==
    ASSUME BillingInvariant, NEW t \in Handlers, ProcessRenewalWithPayment(t)
    PROVE  BillingKeeps
<1> DEFINE s == copy[t].id
<1>1. at[t] = "renewAgain" /\ UNCHANGED <<billed, listed, irregular, billingFailures>> /\ s \in Ids
  BY RowInHand DEF ProcessRenewalWithPayment, EmptyLabels
<1>2. CASE CanBeRenewed(billed[s])
  <2>1. CopyOf(s) \in Copy /\ CopyOf(s).id = s /\ CopyOf(s).status = billed[s].status
    BY <1>1, CopyOfRow DEF BillingInvariant
  <2>2. Decision("renew", CopyOf(s))
    BY <1>1, <1>2, <2>1 DEF OfRow, Decision, EmptyLabels, CanBeRenewed, Renewable
  <2>3. at' = [at EXCEPT ![t] = "renew"] /\ copy' = [copy EXCEPT ![t] = CopyOf(s)]
    BY <1>1, <1>2 DEF ProcessRenewalWithPayment, Step
  <2> QED
    BY <1>1, <2>1, <2>2, <2>3, HandlerMoves, LabelsAreLabels DEF BillingInvariant, BillingTypeOK
<1>3. CASE ~CanBeRenewed(billed[s])
  <2>1. at' = [at EXCEPT ![t] = "idle"] /\ copy' = [copy EXCEPT ![t] = NoCopy]
    BY <1>1, <1>3 DEF ProcessRenewalWithPayment, Return, Step
  <2>2. Decision("idle", NoCopy)
    BY DEF Decision, EmptyLabels
  <2> QED
    BY <1>1, <2>1, <2>2, HandlerMoves, NullCopy, LabelsAreLabels DEF BillingInvariant, BillingTypeOK
<1> QED
  BY <1>2, <1>3

LEMMA CreateSubscriptionKeeps ==
    ASSUME BillingInvariant, NEW t \in Handlers, NEW tenant \in Tenants, CreateSubscription(t, tenant)
    PROVE  BillingKeeps
<1> DEFINE c == [copy[t] EXCEPT !.tenant = tenant]
<1>1. c \in Copy /\ "insert" \in BillingLabels /\ Decision("insert", c)
  BY DEF BillingInvariant, BillingTypeOK, Copy, BillingLabels, Decision, EmptyLabels
<1>2. /\ at' = [at EXCEPT ![t] = "insert"] /\ copy' = [copy EXCEPT ![t] = c] /\ at[t] # "setGrace"
      /\ UNCHANGED <<billed, listed, irregular, billingFailures>>
  BY DEF CreateSubscription, Step
<1> HIDE DEF c
<1> QED
  BY <1>1, <1>2, HandlerMoves DEF BillingInvariant, BillingTypeOK

-----------------------------------------------------------------------------
(* Writes that no copy decides. *)

SoundRow(r, row) ==
    /\ row.status = "CANCELED" => row.canceledAt
    /\ row.canceledAt => row.status \in {"CANCELED", "EXPIRED"}
    /\ row.status = "PAST_DUE" =>
         \/ row.gracePeriodEnd # "none"
         \/ r.status = "PAST_DUE" /\ row.gracePeriodEnd = r.gracePeriodEnd

(* The status is lawful, or the row is marked. *)
StatusWritten(s, row) ==
    \/ irregular' = irregular /\ row.status = billed[s].status
    \/ /\ row.status # "NONE"
       /\ irregular' = irregular => s \in irregular \/ Lawful(billed[s].status, row.status)

LEMMA RowWritten ==
    ASSUME BillingInvariant, NEW s \in Ids, NEW row \in Subscription,
           billed' = [billed EXCEPT ![s] = row], UNCHANGED <<listed, billingFailures>>,
           at' \in [Handlers -> BillingLabels], copy' \in [Handlers -> Copy],
           \A u \in Handlers : Decision(at'[u], copy'[u]),
           \A u \in Messages : at[u] = "setGrace" => at'[u] = "setGrace" /\ copy'[u].id = copy[u].id,
           irregular' \in {irregular, irregular \cup {s}},
           s \notin irregular' => SoundRow(billed[s], row), StatusWritten(s, row)
    PROVE  BillingKeeps
<1>1. BillingTypeOK'
  BY DEF BillingInvariant, BillingTypeOK
<1>2. ASSUME NEW r \in Ids \ irregular' PROVE Consistent(r)'
  <2>1. Consistent(r) /\ r \notin irregular
    BY DEF BillingInvariant, RegularRowsAreConsistent
  <2>2. CASE r # s
    <3>1. billed'[r] = billed[r]
      BY <2>2 DEF BillingInvariant, BillingTypeOK
    <3> QED
      BY <2>1, <3>1 DEF Consistent
  <2>3. CASE r = s
    <3>1. billed'[r] = row /\ SoundRow(billed[s], row)
      BY <2>3 DEF BillingInvariant, BillingTypeOK
    <3> QED
      BY <2>1, <2>3, <3>1 DEF Consistent, SoundRow
  <2> QED
    BY <2>2, <2>3
<1>3. LawfulStep
  <2>1. billed'[s] = row /\ \A r \in Ids \ {s} : billed'[r].status = billed[r].status
    BY DEF BillingInvariant, BillingTypeOK
  <2>2. SameStatuses \/ OneMoves(s)
    BY <2>1 DEF StatusWritten, SameStatuses, OneMoves
  <2> QED
    BY <2>2 DEF LawfulStep
<1>4. \A u \in Nightly : \A b \in listed'[u] : OfRow(b)
  BY DEF BillingInvariant
<1> QED
  BY <1>1, <1>2, <1>3, <1>4 DEF BillingKeeps, BillingInvariant, RegularRowsAreConsistent

(* The handlers stay where they are. *)
LEMMA TableWritten ==
    ASSUME BillingInvariant, NEW s \in Ids, NEW row \in Subscription,
           billed' = [billed EXCEPT ![s] = row], UNCHANGED <<listed, at, copy, billingFailures>>,
           irregular' \in {irregular, irregular \cup {s}},
           s \notin irregular' => SoundRow(billed[s], row), StatusWritten(s, row)
    PROVE  BillingKeeps
BY RowWritten DEF BillingInvariant, BillingTypeOK

LEMMA ListedRow ==
    ASSUME BillingInvariant, NEW s \in Ids
    PROVE  billed[s] \in Subscription /\ (s \notin irregular => Consistent(s))
BY DEF BillingInvariant, BillingTypeOK, RegularRowsAreConsistent

LEMMA InsertSubscriptionKeeps ==
    ASSUME BillingInvariant, NEW t \in Requests, InsertSubscription(t)
    PROVE  BillingKeeps
<1> DEFINE new == [NoSubscriptionRow EXCEPT !.tenant = copy[t].tenant, !.status = "ACTIVE",
                                             !.currentPeriodEnd = "later"]
<1>1. t \in Handlers /\ at[t] = "insert" /\ UNCHANGED <<listed, billingFailures>>
  BY DEF InsertSubscription, Handlers
<1>2. new \in Subscription /\ new.status # "NONE" /\ new.canceledAt = FALSE
  BY <1>1, NullCopy DEF BillingInvariant, BillingTypeOK, Copy, NoSubscriptionRow, Subscription,
     SubscriptionStatus, Ends
<1>3. PICK e \in Creations, s \in Ids :
         /\ ~Created(s) /\ billed' = [billed EXCEPT ![s] = Edited(new, e)]
         /\ irregular' = IF IsActive(Edited(new, e)) THEN irregular ELSE irregular \cup {s}
  BY DEF InsertSubscription
<1>4. at' = [at EXCEPT ![t] = "idle"] /\ copy' = [copy EXCEPT ![t] = NoCopy]
  BY DEF InsertSubscription, Return, Step
<1>5. Edited(new, e).canceledAt = FALSE /\ Edited(new, e) \in Subscription
  <2> HIDE DEF new
  <2>1. Edited(new, e) \in Subscription
    BY <1>2, BillingAssumption
  <2>2. "canceledAt" \in DOMAIN new /\ "canceledAt" \notin DOMAIN e
    BY <1>2, BillingAssumption DEF Subscription
  <2>3. Edited(new, e).canceledAt = new.canceledAt
    BY <2>2 DEF Edited
  <2> QED
    BY <1>2, <2>1, <2>3
<1> DEFINE row == Edited(new, e)
<1>6. row \in Subscription /\ row.canceledAt = FALSE /\ billed' = [billed EXCEPT ![s] = row]
      /\ irregular' = IF IsActive(row) THEN irregular ELSE irregular \cup {s}
  BY <1>3, <1>5
<1>7. row.status # "NONE" /\ billed[s].status = "NONE"
  BY <1>2, <1>3, BillingAssumption DEF Created
<1> HIDE DEF row, new
<1>8. s \notin irregular' => SoundRow(billed[s], row)
  BY <1>3, <1>6 DEF SoundRow, IsActive, Created
<1>9. at' \in [Handlers -> BillingLabels] /\ copy' \in [Handlers -> Copy]
  BY <1>4, NullCopy, LabelsAreLabels DEF BillingInvariant, BillingTypeOK
<1>10. \A u \in Handlers : Decision(at'[u], copy'[u])
  BY <1>1, <1>4 DEF BillingInvariant, BillingTypeOK, Decision, EmptyLabels
<1>11. \A u \in Messages : at[u] = "setGrace" => at'[u] = "setGrace" /\ copy'[u].id = copy[u].id
  BY <1>1, <1>4 DEF BillingInvariant, BillingTypeOK, Handlers
<1>12. irregular' \in {irregular, irregular \cup {s}}
  BY <1>6
<1>13. StatusWritten(s, row)
  BY <1>6, <1>7 DEF StatusWritten, Lawful, IsActive
<1> QED
  BY <1>1, <1>6, <1>8, <1>9, <1>10, <1>11, <1>12, <1>13, RowWritten

LEMMA UpdateSubscriptionKeeps ==
    ASSUME BillingInvariant, NEW t \in Handlers, NEW s \in Ids, UpdateSubscription(t, s)
    PROVE  BillingKeeps
<1>1. PICK e \in HandEdits : BlindUpdate(t, s, Edited(billed[s], e))
  BY DEF UpdateSubscription
<1>2. Edited(billed[s], e) \in Subscription /\ Edited(billed[s], e).status # "NONE"
  BY <1>1, ListedRow, BillingAssumption DEF BlindUpdate, Created
<1> DEFINE row == Edited(billed[s], e)
<1>3. billed' = [billed EXCEPT ![s] = row] /\ UNCHANGED <<listed, at, copy, billingFailures>>
      /\ irregular' = irregular \cup {s}
  BY <1>1 DEF BlindUpdate, UpdateSubscription
<1> HIDE DEF row
<1>4. s \in irregular' /\ irregular' \in {irregular, irregular \cup {s}} /\ row \in Subscription
  BY <1>2, <1>3 DEF row
<1>5. StatusWritten(s, row)
  BY <1>2, <1>3, <1>4 DEF StatusWritten, row
<1> QED
  BY <1>3, <1>4, <1>5, TableWritten

(* A column of the gateway's or the clock's: the status stays, or becomes EXPIRED. *)
LEMMA ColumnWritten ==
    ASSUME BillingInvariant, NEW s \in Ids, NEW row \in Subscription,
           billed' = [billed EXCEPT ![s] = row], UNCHANGED <<listed, at, copy, irregular, billingFailures>>,
           \/ /\ row.status = billed[s].status /\ row.canceledAt = billed[s].canceledAt
              /\ row.gracePeriodEnd \in {billed[s].gracePeriodEnd, "passed"}
           \/ row.status = "EXPIRED" /\ Created(s)
    PROVE  BillingKeeps
<1>1. s \notin irregular => SoundRow(billed[s], row)
  BY ListedRow DEF SoundRow, Consistent
<1>2. StatusWritten(s, row)
  BY DEF StatusWritten, Lawful, Created
<1> QED
  BY <1>1, <1>2, TableWritten

LEMMA ColumnsWritten ==
    ASSUME BillingInvariant, NEW t \in Handlers, NEW s \in Ids,
           HandleSubscriptionUpdated(t, s) \/ HandleSubscriptionExpired(t, s)
    PROVE  BillingKeeps
<1>1. ASSUME NEW end \in Ends, BlindUpdate(t, s, [billed[s] EXCEPT !.currentPeriodEnd = end]),
             UNCHANGED irregular
      PROVE  BillingKeeps
  <2> DEFINE row == [billed[s] EXCEPT !.currentPeriodEnd = end]
  <2>1. /\ row \in Subscription
        /\ row.status = billed[s].status /\ row.canceledAt = billed[s].canceledAt
        /\ row.gracePeriodEnd = billed[s].gracePeriodEnd
    BY ListedRow DEF Subscription
  <2>2. billed' = [billed EXCEPT ![s] = row] /\ UNCHANGED <<listed, at, copy, irregular, billingFailures>>
    BY <1>1 DEF BlindUpdate
  <2> HIDE DEF row
  <2> QED
    BY <2>1, <2>2, ColumnWritten
<1>2. ASSUME NEW flag \in BOOLEAN, BlindUpdate(t, s, [billed[s] EXCEPT !.cancelAtPeriodEnd = flag]),
             UNCHANGED irregular
      PROVE  BillingKeeps
  <2> DEFINE row == [billed[s] EXCEPT !.cancelAtPeriodEnd = flag]
  <2>1. /\ row \in Subscription
        /\ row.status = billed[s].status /\ row.canceledAt = billed[s].canceledAt
        /\ row.gracePeriodEnd = billed[s].gracePeriodEnd
    BY ListedRow DEF Subscription
  <2>2. billed' = [billed EXCEPT ![s] = row] /\ UNCHANGED <<listed, at, copy, irregular, billingFailures>>
    BY <1>2 DEF BlindUpdate
  <2> HIDE DEF row
  <2> QED
    BY <2>1, <2>2, ColumnWritten
<1>3. CASE HandleSubscriptionUpdated(t, s)
  <2>1. CASE \E end \in {"later", "passed"} : BlindUpdate(t, s, [billed[s] EXCEPT !.currentPeriodEnd = end])
    <3>1. PICK end \in {"later", "passed"} : BlindUpdate(t, s, [billed[s] EXCEPT !.currentPeriodEnd = end])
      BY <2>1
    <3>2. end \in Ends /\ UNCHANGED irregular
      BY <1>3 DEF HandleSubscriptionUpdated, Ends
    <3> QED
      BY <1>1, <3>1, <3>2, Zenon
  <2>2. CASE \E flag \in BOOLEAN : BlindUpdate(t, s, [billed[s] EXCEPT !.cancelAtPeriodEnd = flag])
    <3>1. PICK flag \in BOOLEAN : BlindUpdate(t, s, [billed[s] EXCEPT !.cancelAtPeriodEnd = flag])
      BY <2>2
    <3>2. UNCHANGED irregular
      BY <1>3 DEF HandleSubscriptionUpdated
    <3> QED
      BY <1>2, <3>1, <3>2, Zenon
  <2> QED
    BY <1>3, <2>1, <2>2, Zenon DEF HandleSubscriptionUpdated
<1>4. CASE HandleSubscriptionExpired(t, s)
  <2> DEFINE row == [billed[s] EXCEPT !.status = "EXPIRED"]
  <2>1. row \in Subscription /\ row.status = "EXPIRED" /\ Created(s)
    BY <1>4, ListedRow DEF Subscription, SubscriptionStatus, HandleSubscriptionExpired, BlindUpdate
  <2>2. billed' = [billed EXCEPT ![s] = row] /\ UNCHANGED <<listed, at, copy, irregular, billingFailures>>
    BY <1>4 DEF HandleSubscriptionExpired, BlindUpdate
  <2> HIDE DEF row
  <2> QED
    BY <2>1, <2>2, ColumnWritten
<1> QED
  BY <1>3, <1>4

LEMMA ClockKeeps ==
    ASSUME BillingInvariant, NEW s \in Ids, PeriodEnds(s) \/ GracePeriodEnds(s)
    PROVE  BillingKeeps
<1>1. CASE PeriodEnds(s)
  <2> DEFINE row == [billed[s] EXCEPT !.currentPeriodEnd = "passed"]
  <2>1. /\ row \in Subscription
        /\ row.status = billed[s].status /\ row.canceledAt = billed[s].canceledAt
        /\ row.gracePeriodEnd = billed[s].gracePeriodEnd
    BY ListedRow DEF Subscription, Ends
  <2>2. billed' = [billed EXCEPT ![s] = row] /\ UNCHANGED <<listed, at, copy, irregular, billingFailures>>
    BY <1>1 DEF PeriodEnds
  <2> HIDE DEF row
  <2> QED
    BY <2>1, <2>2, ColumnWritten
<1>2. CASE GracePeriodEnds(s)
  <2> DEFINE row == [billed[s] EXCEPT !.gracePeriodEnd = "passed"]
  <2>1. /\ row \in Subscription
        /\ row.status = billed[s].status /\ row.canceledAt = billed[s].canceledAt
        /\ row.gracePeriodEnd = "passed"
    BY ListedRow DEF Subscription, Ends
  <2>2. billed' = [billed EXCEPT ![s] = row] /\ UNCHANGED <<listed, at, copy, irregular, billingFailures>>
    BY <1>2 DEF GracePeriodEnds
  <2> HIDE DEF row
  <2> QED
    BY <2>1, <2>2, ColumnWritten
<1> QED
  BY <1>1, <1>2

-----------------------------------------------------------------------------
(* The nightly job's lists. *)

(* A handler that keeps the copy it has, at a label without a row in hand. *)
LEMMA ListKeeps ==
    ASSUME BillingInvariant, NEW t \in Nightly, NEW l \in EmptyLabels, NEW L \in SUBSET Copy,
           \A c \in L : OfRow(c), at[t] # "setGrace",
           at' = [at EXCEPT ![t] = l], listed' = [listed EXCEPT ![t] = L],
           UNCHANGED <<billed, copy, irregular, billingFailures>>
    PROVE  BillingKeeps
<1>1. t \in Handlers /\ l \in BillingLabels
  BY DEF Handlers, EmptyLabels, BillingLabels, JobLabels
<1>2. copy[t] \in Copy /\ copy' = [copy EXCEPT ![t] = copy[t]]
  BY <1>1 DEF BillingInvariant, BillingTypeOK
<1>3. Decision(l, copy[t])
  BY DEF Decision, EmptyLabels
<1>4. listed' \in [Nightly -> SUBSET Copy] /\ \A u \in Nightly : \A b \in listed'[u] : OfRow(b)
  BY DEF BillingInvariant, BillingTypeOK
<1>5. billingFailures' \in 0 .. MaxBillingFailures
  BY DEF BillingInvariant, BillingTypeOK
<1> QED
  BY <1>1, <1>2, <1>3, <1>4, <1>5, HandlerMoves

LEMMA ListingOfRows ==
    ASSUME BillingInvariant, NEW S \in SUBSET Ids, \A s \in S : Created(s)
    PROVE  Listing(S) \in SUBSET Copy /\ \A c \in Listing(S) : OfRow(c)
BY CopyOfRow DEF BillingInvariant, Listing

LEMMA ListsKeep ==
    ASSUME BillingInvariant, NEW t \in Nightly,
           CheckExpiringSubscriptions(t) \/ ListGracePeriods(t) \/ ProcessGracePeriodExpired(t)
    PROVE  BillingKeeps
<1>1. CASE CheckExpiringSubscriptions(t)
  <2> DEFINE S == {s \in Ids : billed[s].status = "ACTIVE" /\ billed[s].currentPeriodEnd = "passed"}
             L == Listing(S)
  <2>1. L \in SUBSET Copy /\ \A c \in L : OfRow(c)
    BY ListingOfRows DEF Created
  <2>2. /\ at' = [at EXCEPT ![t] = "expired"] /\ listed' = [listed EXCEPT ![t] = L] /\ at[t] # "setGrace"
        /\ UNCHANGED <<billed, copy, irregular, billingFailures>>
    BY <1>1 DEF CheckExpiringSubscriptions, Step
  <2> HIDE DEF L
  <2> QED
    BY <2>1, <2>2, ListKeeps DEF EmptyLabels
<1>2. CASE ListGracePeriods(t)
  <2> DEFINE S == {s \in Ids : billed[s].status = "PAST_DUE" /\ billed[s].gracePeriodEnd = "later"}
             L == Listing(S)
  <2>1. L \in SUBSET Copy /\ \A c \in L : OfRow(c)
    BY ListingOfRows DEF Created
  <2>2. /\ at' = [at EXCEPT ![t] = "now"] /\ listed' = [listed EXCEPT ![t] = L] /\ at[t] # "setGrace"
        /\ UNCHANGED <<billed, copy, irregular, billingFailures>>
    BY <1>2 DEF ListGracePeriods, Step
  <2> HIDE DEF L
  <2> QED
    BY <2>1, <2>2, ListKeeps DEF EmptyLabels
<1>3. CASE ProcessGracePeriodExpired(t)
  <2> DEFINE L == {c \in listed[t] : billed[c.id].gracePeriodEnd = "passed"}
  <2>1. L \in SUBSET Copy /\ \A c \in L : OfRow(c)
    BY DEF BillingInvariant, BillingTypeOK
  <2>2. /\ at' = [at EXCEPT ![t] = "graceOver"] /\ listed' = [listed EXCEPT ![t] = L] /\ at[t] # "setGrace"
        /\ UNCHANGED <<billed, copy, irregular, billingFailures>>
    BY <1>3 DEF ProcessGracePeriodExpired, Step
  <2> HIDE DEF L
  <2> QED
    BY <2>1, <2>2, ListKeeps DEF EmptyLabels
<1> QED
  BY <1>1, <1>2, <1>3

(* The next row of a list. *)
LEMMA NextListedKeeps ==
    ASSUME BillingInvariant, NEW t \in Nightly, ProcessExpired(t) \/ ProcessGraceOver(t)
    PROVE  BillingKeeps
<1>1. ASSUME NEW from \in EmptyLabels, NEW to \in {"expire", "graceExpire"}, NextListed(t, from, to)
      PROVE  BillingKeeps
  <2>1. PICK c \in listed[t] :
          /\ at[t] = from /\ at' = [at EXCEPT ![t] = to] /\ copy' = [copy EXCEPT ![t] = c]
          /\ listed' = [listed EXCEPT ![t] = @ \ {c}] /\ UNCHANGED <<billed, irregular, billingFailures>>
    BY <1>1 DEF NextListed, Step
  <2>2. t \in Handlers /\ c \in Copy /\ OfRow(c) /\ to \in BillingLabels /\ at[t] # "setGrace"
    BY <2>1, LabelsAreLabels DEF BillingInvariant, BillingTypeOK, Handlers, EmptyLabels
  <2>3. Decision(to, c)
    BY <2>2 DEF Decision, EmptyLabels
  <2>4. listed' \in [Nightly -> SUBSET Copy] /\ \A u \in Nightly : \A b \in listed'[u] : OfRow(b)
    BY <2>1 DEF BillingInvariant, BillingTypeOK
  <2>5. billingFailures' \in 0 .. MaxBillingFailures
    BY <2>1 DEF BillingInvariant, BillingTypeOK
  <2> QED
    BY <2>1, <2>2, <2>3, <2>4, <2>5, HandlerMoves
<1> QED
  BY <1>1 DEF ProcessExpired, ProcessGraceOver, EmptyLabels

LEMMA EndOfJobKeeps ==
    ASSUME BillingInvariant, NEW t \in Nightly, EndOfJob(t)
    PROVE  BillingKeeps
<1>1. /\ at' = [at EXCEPT ![t] = "idle"] /\ copy' = [copy EXCEPT ![t] = NoCopy] /\ at[t] # "setGrace"
      /\ UNCHANGED <<billed, listed, irregular, billingFailures>> /\ t \in Handlers
  BY DEF EndOfJob, Return, Step, Handlers
<1>2. Decision("idle", NoCopy)
  BY DEF Decision, EmptyLabels
<1> QED
  BY <1>1, <1>2, HandlerMoves, NullCopy, LabelsAreLabels DEF BillingInvariant, BillingTypeOK

-----------------------------------------------------------------------------
(* Failures: a row left half written is marked. *)

LEMMA FaultKeeps ==
    ASSUME BillingInvariant, NEW t \in Handlers, BillingFault(t)
    PROVE  BillingKeeps
<1>1. PICK l \in {"idle", "expired", "graceOver"} :
         /\ at' = [at EXCEPT ![t] = l]
         /\ listed' = listed \/ listed' = [u \in Nightly |-> IF u = t THEN {} ELSE listed[u]]
  BY DEF BillingFault, Step
<1>2. /\ billingFailures < MaxBillingFailures /\ billingFailures' = billingFailures + 1
      /\ irregular' = irregular \cup HalfWritten(t) /\ copy' = [copy EXCEPT ![t] = NoCopy]
      /\ UNCHANGED billed
  BY DEF BillingFault
<1>3. HalfWritten(t) \subseteq Ids /\ (at[t] = "setGrace" => copy[t].id \in HalfWritten(t))
  BY DEF HalfWritten, BillingInvariant, Decision, OfRow, EmptyLabels
<1>4. listed' \in [Nightly -> SUBSET Copy] /\ \A u \in Nightly : \A b \in listed'[u] : OfRow(b)
  BY <1>1 DEF BillingInvariant, BillingTypeOK
<1>5. billingFailures' \in 0 .. MaxBillingFailures
  BY <1>2, BillingConstants DEF BillingInvariant, BillingTypeOK
<1>6. BillingTypeOK'
  BY <1>1, <1>2, <1>3, <1>4, <1>5, NullCopy, LabelsAreLabels DEF BillingInvariant, BillingTypeOK
<1>7. \A u \in Handlers : Decision(at'[u], copy'[u])
  BY <1>1, <1>2 DEF BillingInvariant, BillingTypeOK, Decision, EmptyLabels
<1>8. \A u \in Messages : at[u] = "setGrace" =>
         \/ at'[u] = "setGrace" /\ copy'[u].id = copy[u].id
         \/ copy[u].id \in irregular'
  BY <1>1, <1>2, <1>3 DEF BillingInvariant, BillingTypeOK, Handlers
<1> QED
  BY <1>2, <1>4, <1>6, <1>7, <1>8, LocalKeeps

LEMMA CrashKeeps ==
    ASSUME BillingInvariant, BillingCrash
    PROVE  BillingKeeps
<1>1. /\ at' = [t \in Handlers |-> "idle"] /\ copy' = [t \in Handlers |-> NoCopy]
      /\ listed' = [t \in Nightly |-> {}] /\ UNCHANGED billed
      /\ irregular' = irregular \cup UNION {HalfWritten(t) : t \in Handlers}
      /\ billingFailures < MaxBillingFailures /\ billingFailures' = billingFailures + 1
  BY DEF BillingCrash
<1>2. \A t \in Handlers : /\ HalfWritten(t) \subseteq Ids
                          /\ at[t] = "setGrace" => copy[t].id \in HalfWritten(t)
  BY DEF HalfWritten, BillingInvariant, Decision, OfRow, EmptyLabels
<1>3. irregular' \subseteq Ids
  BY <1>1, <1>2 DEF BillingInvariant, BillingTypeOK
<1>4. billingFailures' \in 0 .. MaxBillingFailures
  BY <1>1, BillingConstants DEF BillingInvariant, BillingTypeOK
<1>5. BillingTypeOK'
  BY <1>1, <1>3, <1>4, NullCopy, LabelsAreLabels DEF BillingInvariant, BillingTypeOK
<1>6. \A t \in Handlers : Decision(at'[t], copy'[t])
  BY <1>1 DEF Decision, EmptyLabels
<1>7. \A t \in Nightly : \A c \in listed'[t] : OfRow(c)
  BY <1>1
<1>8. \A t \in Messages : at[t] = "setGrace" => copy[t].id \in irregular'
  BY <1>1, <1>2 DEF Handlers
<1> QED
  BY <1>1, <1>5, <1>6, <1>7, <1>8, LocalKeeps

-----------------------------------------------------------------------------
LEMMA StutterKeeps ==
    ASSUME BillingInvariant, UNCHANGED billingVars
    PROVE  BillingKeeps
BY DEF BillingInvariant, BillingTypeOK, BillingKeeps, LawfulStep, SameStatuses, billingVars,
       RegularRowsAreConsistent, Consistent, Decision

LEMMA BillingInduction ==
    ASSUME BillingInvariant, [BillingNext]_billingVars
    PROVE  BillingKeeps
<1> Requests \subseteq Handlers /\ Messages \subseteq Handlers /\ Nightly \subseteq Handlers
  BY DEF Handlers
<1>1. ASSUME NEW t \in Requests, RequestStep(t) PROVE BillingKeeps
  BY <1>1, InsertSubscriptionKeeps, SaveCancellationKeeps, SaveRenewalKeeps,
     ProcessRenewalWithPaymentKeeps, UpdateBillingPeriodKeeps DEF RequestStep
<1>2. ASSUME NEW t \in Requests, NEW tenant \in Tenants, CreateSubscription(t, tenant) PROVE BillingKeeps
  BY <1>2, CreateSubscriptionKeeps
<1>3. ASSUME NEW t \in Requests, NEW s \in Ids, Request(t, s) PROVE BillingKeeps
  BY <1>3, UpdateSubscriptionKeeps, ReadersKeep DEF Request
<1>4. ASSUME NEW t \in Messages, MessageStep(t) PROVE BillingKeeps
  BY <1>4, ActivatePaidKeeps, ClearGracePeriodKeeps, SetPastDueKeeps, SetGracePeriodKeeps,
     SaveCancellationKeeps, SaveRenewalKeeps, ActivateTrialKeeps DEF MessageStep
<1>5. ASSUME NEW t \in Messages, NEW s \in Ids, ProcessWebhook(t, s) PROVE BillingKeeps
  BY <1>5, ReadersKeep, ColumnsWritten
     DEF ProcessWebhook, HandleSubscriptionCanceled, HandleSubscriptionRenewed
<1>6. ASSUME NEW t \in Nightly, CheckExpiringSubscriptions(t) \/ JobStep(t) PROVE BillingKeeps
  BY <1>6, ListsKeep, NextListedKeeps, EndOfJobKeeps, ExpireKeeps, GraceExpireKeeps, GraceClearKeeps
     DEF JobStep
<1>7. ASSUME NEW s \in Ids, PeriodEnds(s) \/ GracePeriodEnds(s) PROVE BillingKeeps
  BY <1>7, ClockKeeps
<1>8. CASE UNCHANGED billingVars
  BY <1>8, StutterKeeps
<1> QED
  BY <1>1, <1>2, <1>3, <1>4, <1>5, <1>6, <1>7, <1>8, FaultKeeps, CrashKeeps DEF BillingNext

(* The invariant of every reachable state, and what every step keeps. *)
LEMMA BillingInvariantHolds == BillingSpec => []BillingInvariant /\ [][LawfulStep]_billingVars
<1>1. BillingInit => BillingInvariant
  BY BillingStart
<1>2. BillingInvariant /\ [BillingNext]_billingVars => BillingInvariant'
  BY BillingInduction DEF BillingKeeps
<1>3. BillingInvariant /\ [BillingNext]_billingVars => [LawfulStep]_billingVars
  BY BillingInduction DEF BillingKeeps
<1> QED
  BY <1>1, <1>2, <1>3, PTL DEF BillingSpec

(* The table and the handlers' copies keep the types of their columns, however *)
(* many tenants, handlers and failures there are.                              *)
THEOREM BillingTypeCorrect == BillingSpec => []BillingTypeOK
<1>1. BillingInvariant => BillingTypeOK
  BY DEF BillingInvariant
<1> QED
  BY <1>1, BillingInvariantHolds, PTL

(* Only an update by hand, a write decided on an older status or a half written *)
(* failed payment makes the columns of a row contradict each other.             *)
THEOREM RegularConsistent == BillingSpec => []RegularRowsAreConsistent
<1>1. BillingInvariant => RegularRowsAreConsistent
  BY DEF BillingInvariant
<1> QED
  BY <1>1, BillingInvariantHolds, PTL

(* No message, renewal or nightly run that read a row ended revives it. *)
THEOREM EndedStay == BillingSpec => EndedStaysEnded
<1>1. LawfulStep => \A s \in Ids : Ended(billed[s]) /\ ~Ended(billed'[s]) => s \in irregular'
  BY DEF LawfulStep, SameStatuses, OneMoves, Lawful, Ended
<1>2. [LawfulStep]_billingVars =>
         [\A s \in Ids : Ended(billed[s]) /\ ~Ended(billed'[s]) => s \in irregular']_billingVars
  BY <1>1
<1> QED
  BY <1>2, BillingInvariantHolds, PTL DEF EndedStaysEnded

-----------------------------------------------------------------------------
(* The refinement: a step of billing is a step of the lifecycle or a stutter. *)

LEMMA LifecycleStatuses == Promised!Statuses = SubscriptionStatus \ {"NONE"}
BY DEF Promised!Statuses, SubscriptionStatus

LEMMA LifecycleStarts == BillingInit => Promised!Init
BY DEF BillingInit, Promised!Init, NoSubscriptionRow

LEMMA LawfulStepIsPromised ==
    ASSUME BillingTypeOK, BillingTypeOK', LawfulStep
    PROVE  [Promised!Next]_(Promised!vars)
<1> DEFINE before == [s \in Ids |-> billed[s].status]
           after == [s \in Ids |-> billed'[s].status]
<1>1. CASE SameStatuses
  <2>1. after = before /\ irregular' = irregular \cup irregular' /\ irregular' \in SUBSET Ids
    BY <1>1 DEF SameStatuses, BillingTypeOK
  <2>2. Promised!Interrupt
    BY <2>1 DEF Promised!Interrupt
  <2> QED
    BY <2>2 DEF Promised!Next
<1>2. ASSUME NEW s \in Ids, OneMoves(s) PROVE [Promised!Next]_(Promised!vars)
  <2> DEFINE from == billed[s].status
             to == billed'[s].status
  <2>1. /\ from \in SubscriptionStatus /\ to \in SubscriptionStatus \ {"NONE"} /\ before[s] = from
        /\ after = [before EXCEPT ![s] = to]
    BY <1>2 DEF OneMoves, BillingTypeOK, Subscription
  <2>2. CASE irregular' = irregular \cup {s}
    <3>1. Promised!Override(s)
      BY <2>1, <2>2, LifecycleStatuses DEF Promised!Override
    <3> QED
      BY <3>1 DEF Promised!Next
  <2>3. CASE irregular' = irregular /\ Lawful(from, to)
    <3>1. CASE from = to
      <4>1. after = before
        BY <2>1, <3>1
      <4> QED
        BY <2>3, <4>1 DEF Promised!vars
    <3>2. CASE from = "NONE" /\ to \in {"ACTIVE", "TRIAL"}
      <4>1. Promised!Open(s)
        BY <2>1, <2>3, <3>2 DEF Promised!Open, Promised!Move
      <4> QED
        BY <4>1 DEF Promised!Next
    <3>3. CASE from \in {"TRIAL", "PAST_DUE"} /\ to = "ACTIVE"
      <4>1. Promised!Activate(s)
        BY <2>1, <2>3, <3>3 DEF Promised!Activate, Promised!Move
      <4> QED
        BY <4>1 DEF Promised!Next
    <3>4. CASE from \in {"ACTIVE", "TRIAL"} /\ to = "PAST_DUE"
      <4>1. Promised!FallBehind(s)
        BY <2>1, <2>3, <3>4 DEF Promised!FallBehind, Promised!Move
      <4> QED
        BY <4>1 DEF Promised!Next
    <3>5. CASE from # "NONE" /\ to \in {"CANCELED", "EXPIRED"}
      <4>1. Promised!Cancel(s) \/ Promised!Expire(s)
        BY <2>1, <2>3, <3>5, LifecycleStatuses DEF Promised!Cancel, Promised!Expire, Promised!Move
      <4> QED
        BY <4>1 DEF Promised!Next
    <3> QED
      BY <2>3, <3>1, <3>2, <3>3, <3>4, <3>5 DEF Lawful
  <2> QED
    BY <1>2, <2>2, <2>3 DEF OneMoves
<1> QED
  BY <1>1, <1>2 DEF LawfulStep

(* Billing implements the lifecycle, whatever the numbers of tenants, requests,  *)
(* messages and nightly runs, and whatever fails: a status moves only as the     *)
(* lifecycle says, but for updates by hand and writes decided on an older one.   *)
THEOREM BillingImplementsLifecycle == BillingSpec => ImplementsSubscription
<1>1. BillingInit => Promised!Init
  BY LifecycleStarts
<1>2. BillingTypeOK /\ BillingTypeOK' /\ [LawfulStep]_billingVars => [Promised!Next]_(Promised!vars)
  <2>1. UNCHANGED billingVars => UNCHANGED Promised!vars
    BY DEF billingVars, Promised!vars
  <2> QED
    BY <2>1, LawfulStepIsPromised
<1>3. BillingInvariant => BillingTypeOK
  BY DEF BillingInvariant
<1> QED
  BY <1>1, <1>2, <1>3, BillingInvariantHolds, PTL
     DEF BillingSpec, ImplementsSubscription, Promised!Spec
=============================================================================
