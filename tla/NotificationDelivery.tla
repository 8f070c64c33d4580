------------------------ MODULE NotificationDelivery ------------------------
(***************************************************************************)
(* The notifications of a tenant (src/src/notifications): a request saves  *)
(* one and delivers it, and passes deliver again what is PENDING.  Every   *)
(* step of a delivery saves the copy the handler holds.  Nothing in the    *)
(* repository calls the passes ("called by scheduled job"): they are the   *)
(* external caller's.  findRetryable wants FAILED rows with attempts left, *)
(* of which AttemptsAreCounted says there are none.                        *)
(***************************************************************************)
EXTENDS Integers

CONSTANTS
    Notices,            \* notifications ever sent
    Channels,           \* of "EMAIL", "IN_APP", "SMS"; EMAIL stands for WEBHOOK too, SMS for PUSH
    MaxDeliveryAttempts,
    EmailRetries,       \* of EmailService within one attempt: 3 in the code
    Deliverers,         \* requests and passes under way at a time
    MaxNoticeFaults     \* bound: saves that reject, and crashes

ASSUME NoticeAssumption ==
    /\ "SMS" \in Channels /\ Channels \subseteq {"EMAIL", "IN_APP", "SMS"}
    /\ "none" \notin Notices
    /\ MaxDeliveryAttempts \in Nat \ {0} /\ EmailRetries \in Nat /\ MaxNoticeFaults \in Nat

NotificationStatus == {"NONE", "PENDING", "QUEUED", "SENT", "DELIVERED", "FAILED"}
Notification == [status: NotificationStatus, channel: Channels, deliveryAttempts: Nat]
NoNotification == [status |-> "NONE", channel |-> "SMS", deliveryAttempts |-> 0]

VARIABLES
    notices,        \* rows of notifications
    mails,          \* messages that left the server, by notification
    npc,            \* deliverer -> the await it stands at
    pending,        \* deliverer -> what its pass has still to do, as listed
    copy,           \* deliverer -> the notification it delivers, as it will save it
    tries,          \* deliverer -> retryCount of the e-mail it is sending
    noticeFaults,
    twice           \* history: notifications two deliverers held at once

noticeVars == <<notices, mails, npc, pending, copy, tries, noticeFaults, twice>>

NoCopy == [id |-> "none", row |-> NoNotification]
NoticeCopy == [id: Notices \cup {"none"}, row: Notification]
CopyOf(n) == [id |-> n, row |-> notices[n]]

NoticeInit ==
    /\ notices = [n \in Notices |-> NoNotification]
    /\ mails = [n \in Notices |-> 0]
    /\ npc = [d \in Deliverers |-> "idle"]
    /\ pending = [d \in Deliverers |-> {}]
    /\ copy = [d \in Deliverers |-> NoCopy]
    /\ tries = [d \in Deliverers |-> 0]
    /\ noticeFaults = 0
    /\ twice = {}

DelivererAt(d, label, rest, c) ==
    /\ npc' = [npc EXCEPT ![d] = label]
    /\ pending' = [pending EXCEPT ![d] = rest]
    /\ copy' = [copy EXCEPT ![d] = c]
Delivering(d, label, row) == DelivererAt(d, label, pending[d], [copy[d] EXCEPT !.row = row])
(* The delivery is over; its pass goes on with the next. *)
DeliveryEnds(d) == DelivererAt(d, IF pending[d] = {} THEN "idle" ELSE "list", pending[d], NoCopy)

Save(d, row) == notices' = [notices EXCEPT ![copy[d].id] = row]
Holders(n) == {d \in Deliverers : copy[d].id = n \/ \E c \in pending[d] : c.id = n}

-----------------------------------------------------------------------------
(* sendNotification saves the row as PENDING and queues it: for later, or at once. *)
SendNotification(d) ==
    \E n \in Notices, channel \in Channels, later \in BOOLEAN :
        LET row == [status |-> "PENDING", channel |-> channel, deliveryAttempts |-> 0] IN
        /\ npc[d] = "idle"
        /\ notices[n].status = "NONE"
        /\ notices' = [notices EXCEPT ![n] = row]
        /\ DelivererAt(d, IF later THEN "later" ELSE "start", {}, [id |-> n, row |-> row])
        /\ UNCHANGED <<mails, tries, noticeFaults, twice>>

(* Scheduled for later: no pass looks for QUEUED. *)
QueueForLater(d) ==
    /\ npc[d] = "later"
    /\ Save(d, [copy[d].row EXCEPT !.status = "QUEUED"])
    /\ DeliveryEnds(d)
    /\ UNCHANGED <<mails, tries, noticeFaults, twice>>

(* findPending does not look at nextRetryAt. *)
ProcessPendingNotifications(d) ==
    LET found == {n \in Notices : notices[n].status = "PENDING"} IN
    /\ npc[d] = "idle"
    /\ found # {}
    /\ DelivererAt(d, "list", {CopyOf(n) : n \in found}, NoCopy)
    /\ twice' = twice \cup {n \in found : Holders(n) # {}}
    /\ UNCHANGED <<notices, mails, tries, noticeFaults>>

NextPending(d) ==
    /\ npc[d] = "list"
    /\ \E c \in pending[d] : DelivererAt(d, "start", pending[d] \ {c}, c)
    /\ UNCHANGED <<notices, mails, tries, noticeFaults, twice>>

-----------------------------------------------------------------------------
(* The attempt is counted and saved before anything is sent.  IN_APP sends nothing, *)
(* nor do SMS and PUSH, which are stubs; an e-mail needs an address.                *)
StartDelivery(d) ==
    LET row == [copy[d].row EXCEPT !.status = "QUEUED", !.deliveryAttempts = @ + 1] IN
    /\ npc[d] = "start"
    /\ Save(d, row)
    /\ \E label \in IF row.channel = "EMAIL" THEN {"address", "send"} ELSE {"delivered"} :
         Delivering(d, label, row)
    /\ UNCHANGED <<mails, tries, noticeFaults, twice>>

(* It is looked up, unless the row has one, and saved with the row; or there is none. *)
FindAddress(d) ==
    /\ npc[d] = "address"
    /\ \/ Save(d, copy[d].row) /\ Delivering(d, "send", copy[d].row)
       \/ Delivering(d, "failed", copy[d].row) /\ UNCHANGED notices
    /\ UNCHANGED <<mails, tries, noticeFaults, twice>>

(* EmailService.sendEmail: the message leaves, or does not, and the handler may see it  *)
(* fail either way; what looks like the network is tried again within the attempt.      *)
Transmit(d) ==
    /\ npc[d] = "send"
    /\ \E left \in BOOLEAN, result \in {"delivered", "failed", "send"} :
         /\ result = "delivered" => left
         /\ result = "send" => tries[d] < EmailRetries
         /\ mails' = [mails EXCEPT ![copy[d].id] = IF left THEN @ + 1 ELSE @]
         /\ tries' = [tries EXCEPT ![d] = IF result = "send" THEN @ + 1 ELSE 0]
         /\ Delivering(d, result, copy[d].row)
    /\ UNCHANGED <<notices, noticeFaults, twice>>

(* deliverEmail, deliverInApp, deliverWebhook save DELIVERED, deliverSMS and    *)
(* deliverPush SENT.                                                            *)
SaveDelivered(d) ==
    LET row == [copy[d].row EXCEPT !.status = IF copy[d].row.channel = "SMS" THEN "SENT" ELSE "DELIVERED"] IN
    /\ npc[d] = "delivered"
    /\ Save(d, row)
    /\ Delivering(d, "sent", row)
    /\ UNCHANGED <<mails, tries, noticeFaults, twice>>

(* And deliverNotification saves SENT over it. *)
SaveSent(d) ==
    /\ npc[d] = "sent"
    /\ Save(d, [copy[d].row EXCEPT !.status = "SENT"])
    /\ DeliveryEnds(d)
    /\ UNCHANGED <<mails, tries, noticeFaults, twice>>

(* Mutant: one attempt too many. *)
AfterFailureLate(row) ==
    [row EXCEPT !.status = IF row.deliveryAttempts > MaxDeliveryAttempts THEN "FAILED" ELSE "PENDING"]

AfterFailure(row) ==
    [row EXCEPT !.status = IF row.deliveryAttempts >= MaxDeliveryAttempts THEN "FAILED" ELSE "PENDING"]
HandleDeliveryFailure(d) ==
    /\ npc[d] = "failed"
    /\ Save(d, AfterFailure(copy[d].row))
    /\ DeliveryEnds(d)
    /\ UNCHANGED <<mails, tries, noticeFaults, twice>>

(* A save of the delivery rejects and is handled as its failure; the save of that, *)
(* or of a scheduled one, rejects and ends request or pass.                        *)
SaveFault(d) ==
    /\ npc[d] \in {"start", "address", "delivered", "sent", "failed", "later"}
    /\ noticeFaults < MaxNoticeFaults
    /\ noticeFaults' = noticeFaults + 1
    /\ IF npc[d] \in {"failed", "later"} THEN DelivererAt(d, "idle", {}, NoCopy)
       ELSE Delivering(d, "failed", [copy[d].row EXCEPT !.deliveryAttempts = IF npc[d] = "start" THEN @ + 1 ELSE @])
    /\ UNCHANGED <<notices, mails, tries, twice>>

(* The server stops. *)
NoticeCrash ==
    /\ noticeFaults < MaxNoticeFaults
    /\ noticeFaults' = noticeFaults + 1
    /\ npc' = [d \in Deliverers |-> "idle"]
    /\ pending' = [d \in Deliverers |-> {}]
    /\ copy' = [d \in Deliverers |-> NoCopy]
    /\ tries' = [d \in Deliverers |-> 0]
    /\ UNCHANGED <<notices, mails, twice>>

NoticeNext ==
    \/ \E d \in Deliverers :
         \/ SendNotification(d) \/ QueueForLater(d) \/ ProcessPendingNotifications(d) \/ NextPending(d)
         \/ StartDelivery(d) \/ FindAddress(d) \/ Transmit(d)
         \/ SaveDelivered(d) \/ SaveSent(d) \/ HandleDeliveryFailure(d) \/ SaveFault(d)
    \/ NoticeCrash

NoticeSpec == NoticeInit /\ [][NoticeNext]_noticeVars

-----------------------------------------------------------------------------
(* Properties. *)

(* The rows keep the shape of their columns. *)
NoticeTypeOK ==
    /\ notices \in [Notices -> Notification]
    /\ mails \in [Notices -> Nat]
    /\ npc \in [Deliverers -> {"idle", "later", "list", "start", "address", "send", "delivered", "sent", "failed"}]
    /\ tries \in [Deliverers -> 0 .. EmailRetries]
    /\ copy \in [Deliverers -> NoticeCopy]
    /\ pending \in [Deliverers -> SUBSET NoticeCopy]
    /\ noticeFaults \in 0 .. MaxNoticeFaults
    /\ twice \subseteq Notices

(* What k attempts may send. *)
Sendable(k) == (EmailRetries + 1) * k

(* No more attempts are counted than allowed, FAILED says that these are used up,  *)
(* and SENT that an e-mail did leave.  An attempt is counted before its first      *)
(* message, and its retries are bounded: however often a save fails after the      *)
(* message or the server stops, no more messages leave than the attempts counted   *)
(* on the row may send - unless two deliverers, who both count from the same row,  *)
(* had the notification in hand.                                                   *)
AttemptsAreCounted == \A n \in Notices :
    LET row == notices[n] IN
    /\ row.deliveryAttempts <= MaxDeliveryAttempts
    /\ row.status = "FAILED" => row.deliveryAttempts = MaxDeliveryAttempts
    /\ row.status \in {"SENT", "DELIVERED"} /\ row.channel = "EMAIL" => mails[n] > 0
    /\ n \notin twice => mails[n] <= Sendable(row.deliveryAttempts)
=============================================================================
