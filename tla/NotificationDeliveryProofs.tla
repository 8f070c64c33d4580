---------------------- MODULE NotificationDeliveryProofs ----------------------
(* Theorems about NotificationDelivery for any notifications, deliverers,    *)
(* attempts and bounds.                                                      *)
EXTENDS NotificationDelivery, TLAPS

Holds(d, n) == copy[d].id = n \/ \E c \in pending[d] : c.id = n

(* What the row of a notification says, and what PENDING leaves to be tried. *)
RowCounts(n) ==
    LET row == notices[n] IN
    /\ row.deliveryAttempts <= MaxDeliveryAttempts
    /\ row.status = "FAILED" => row.deliveryAttempts = MaxDeliveryAttempts
    /\ row.status \in {"SENT", "DELIVERED"} /\ row.channel = "EMAIL" => mails[n] > 0
    /\ row.status = "PENDING" => row.deliveryAttempts < MaxDeliveryAttempts
    /\ row.status = "NONE" => mails[n] = 0 /\ \A d \in Deliverers : ~Holds(d, n)

(* What a deliverer has in hand: the copy it is about to save, and the list. *)
CopyCounts(d) ==
    /\ npc[d] \in {"idle", "list"} <=> copy[d].id = "none"
    /\ npc[d] = "idle" => pending[d] = {}
    /\ copy[d].row.deliveryAttempts <= MaxDeliveryAttempts
    /\ npc[d] \in {"start", "later"} => copy[d].row.deliveryAttempts < MaxDeliveryAttempts
    /\ npc[d] = "address" => copy[d].row.status = "QUEUED"
    /\ npc[d] # "send" => tries[d] = 0
    /\ npc[d] \in {"delivered", "sent"} /\ copy[d].row.channel = "EMAIL" => mails[copy[d].id] > 0
    /\ \A c \in pending[d] : c.id \in Notices /\ c.row.deliveryAttempts < MaxDeliveryAttempts

(* A notification that never had two deliverers has one copy at most, and every *)
(* copy of it has counted enough attempts for the messages sent so far; the one *)
(* that sends has counted enough for all that its attempt may still send.       *)
OneCopy(n) ==
    /\ \A d, e \in Deliverers : Holds(d, n) /\ Holds(e, n) => d = e
    /\ \A d \in Deliverers : copy[d].id = n => \A c \in pending[d] : c.id # n
    /\ \A d \in Deliverers : \A b, c \in pending[d] : b.id = n /\ c.id = n => b = c
MayStillSend(d) == EmailRetries + 1 - tries[d]
CopiesCount(n) ==
    /\ mails[n] <= Sendable(notices[n].deliveryAttempts)
    /\ \A d \in Deliverers : copy[d].id = n => mails[n] <= Sendable(copy[d].row.deliveryAttempts)
    /\ \A d \in Deliverers : \A c \in pending[d] : c.id = n => mails[n] <= Sendable(c.row.deliveryAttempts)
    /\ \A d \in Deliverers : npc[d] \in {"address", "send"} /\ copy[d].id = n =>
         /\ mails[n] + MayStillSend(d) <= Sendable(copy[d].row.deliveryAttempts)
         /\ mails[n] + MayStillSend(d) <= Sendable(notices[n].deliveryAttempts)

NoticeInvariant ==
    /\ NoticeTypeOK
    /\ \A n \in Notices : RowCounts(n)
    /\ \A d \in Deliverers : CopyCounts(d)
    /\ \A n \in Notices \ twice : OneCopy(n) /\ CopiesCount(n)

-----------------------------------------------------------------------------
LEMMA NoticeConstants ==
    /\ MaxDeliveryAttempts \in Nat /\ MaxDeliveryAttempts > 0
    /\ EmailRetries \in Nat /\ "none" \notin Notices /\ MaxNoticeFaults \in Nat /\ "SMS" \in Channels
BY NoticeAssumption

(* One attempt more may send one message and its retries. *)
LEMMA SendableGrows ==
    /\ Sendable(0) = 0
    /\ \A k \in Nat : Sendable(k) \in Nat /\ Sendable(k + 1) = Sendable(k) + EmailRetries + 1
<1>1. \A m \in Nat : m * 0 = 0 /\ \A k \in Nat : m * k \in Nat /\ m * (k + 1) = m * k + m
  OBVIOUS
<1>2. EmailRetries \in Nat /\ EmailRetries + 1 \in Nat
  BY NoticeConstants
<1> QED
  BY <1>1, <1>2 DEF Sendable

LEMMA NoCopyType == NoCopy \in NoticeCopy /\ NoCopy.id = "none" /\ NoCopy.row.deliveryAttempts = 0
BY NoticeConstants DEF NoCopy, NoNotification, NoticeCopy, Notification, NotificationStatus

(* Copies with some fields changed. *)
LEMMA WithAttempt ==
    ASSUME NEW r \in Notification
    PROVE  \E row \in Notification :
             /\ row = [r EXCEPT !.status = "QUEUED", !.deliveryAttempts = @ + 1]
             /\ row.status = "QUEUED" /\ row.deliveryAttempts = r.deliveryAttempts + 1
<1> DEFINE row == [r EXCEPT !.status = "QUEUED", !.deliveryAttempts = @ + 1]
<1> row \in Notification /\ row.status = "QUEUED" /\ row.deliveryAttempts = r.deliveryAttempts + 1
  <2> DEFINE k == r.deliveryAttempts + 1
             changed == [r EXCEPT !.status = "QUEUED", !.deliveryAttempts = k]
  <2>1. k \in Nat /\ "QUEUED" \in NotificationStatus
    BY DEF Notification, NotificationStatus
  <2>2. changed \in Notification /\ changed.status = "QUEUED" /\ changed.deliveryAttempts = k
    <3> HIDE DEF k
    <3> QED
      BY <2>1 DEF Notification
  <2> QED
    BY <2>2
<1> WITNESS row \in Notification
<1> QED
  OBVIOUS

LEMMA WithStatus ==
    ASSUME NEW r \in Notification, NEW status \in NotificationStatus
    PROVE  \E row \in Notification :
             /\ row = [r EXCEPT !.status = status]
             /\ row.status = status /\ row.deliveryAttempts = r.deliveryAttempts /\ row.channel = r.channel
<1> DEFINE row == [r EXCEPT !.status = status]
<1> /\ row \in Notification /\ row.status = status
    /\ row.deliveryAttempts = r.deliveryAttempts /\ row.channel = r.channel
  BY DEF Notification
<1> WITNESS row \in Notification
<1> QED
  OBVIOUS

LEMMA WithCount ==
    ASSUME NEW r \in Notification, NEW k \in Nat
    PROVE  \E row \in Notification :
             row = [r EXCEPT !.deliveryAttempts = k] /\ row.deliveryAttempts = k
<1> DEFINE row == [r EXCEPT !.deliveryAttempts = k]
<1> row \in Notification /\ row.deliveryAttempts = k
  BY DEF Notification
<1> WITNESS row \in Notification
<1> QED
  OBVIOUS

LEMMA WithRow ==
    ASSUME NEW b \in NoticeCopy, NEW r \in Notification
    PROVE  \E c \in NoticeCopy : c = [b EXCEPT !.row = r] /\ c.row = r /\ c.id = b.id
<1> DEFINE c == [b EXCEPT !.row = r]
<1> c \in NoticeCopy /\ c.row = r /\ c.id = b.id
  BY DEF NoticeCopy
<1> WITNESS c \in NoticeCopy
<1> QED
  OBVIOUS

LEMMA NoticesStart == NoticeInit => NoticeInvariant
<1> SUFFICES ASSUME NoticeInit PROVE NoticeInvariant
  OBVIOUS
<1>1. NoticeTypeOK
  BY NoCopyType, NoticeConstants
     DEF NoticeInit, NoticeTypeOK, NoNotification, Notification, NotificationStatus
<1>2. ASSUME NEW n \in Notices PROVE RowCounts(n) /\ OneCopy(n) /\ CopiesCount(n)
  <2>1. notices[n].status = "NONE" /\ notices[n].deliveryAttempts = 0 /\ mails[n] = 0
    BY DEF NoticeInit, NoNotification
  <2>2. \A d \in Deliverers : copy[d].id = "none" /\ pending[d] = {} /\ ~Holds(d, n)
    BY NoCopyType, NoticeConstants DEF NoticeInit, Holds
  <2>3. RowCounts(n)
    BY <2>1, <2>2, NoticeConstants DEF RowCounts
  <2>4. OneCopy(n)
    BY <2>2, NoticeConstants DEF OneCopy
  <2>5. CopiesCount(n)
    <3>1. mails[n] <= Sendable(notices[n].deliveryAttempts)
      BY <2>1, SendableGrows
    <3> QED
      BY <2>2, <3>1, NoticeConstants DEF CopiesCount
  <2> QED
    BY <2>3, <2>4, <2>5
<1>3. \A d \in Deliverers : CopyCounts(d)
  BY NoCopyType, NoticeConstants DEF NoticeInit, CopyCounts
<1> QED
  BY <1>1, <1>2, <1>3 DEF NoticeInvariant

LEMMA SendNotificationKeeps ==
    ASSUME NoticeInvariant, NEW d \in Deliverers, SendNotification(d)
    PROVE  NoticeInvariant'
<1>1. PICK n \in Notices, channel \in Channels, later \in BOOLEAN :
        LET row == [status |-> "PENDING", channel |-> channel, deliveryAttempts |-> 0] IN
        /\ npc[d] = "idle"
        /\ notices[n].status = "NONE"
        /\ notices' = [notices EXCEPT ![n] = row]
        /\ DelivererAt(d, IF later THEN "later" ELSE "start", {}, [id |-> n, row |-> row])
        /\ UNCHANGED <<mails, tries, noticeFaults, twice>>
  BY DEF SendNotification
<1> DEFINE row == [status |-> "PENDING", channel |-> channel, deliveryAttempts |-> 0]
<1>2. row \in Notification
  BY DEF Notification, NotificationStatus
<1>3. NoticeTypeOK'
  BY <1>1, <1>2 DEF NoticeInvariant, NoticeTypeOK, DelivererAt, NoticeCopy
<1>4. \A m \in Notices : RowCounts(m)'
  BY <1>1, <1>2, NoticeConstants DEF NoticeInvariant, NoticeTypeOK, DelivererAt, RowCounts, Holds
<1>5. \A e \in Deliverers : CopyCounts(e)'
  BY <1>1, <1>2, NoticeConstants DEF NoticeInvariant, NoticeTypeOK, DelivererAt, CopyCounts
<1>6. /\ npc'[d] \notin {"address", "send"} /\ pending'[d] = {} /\ copy'[d].id = n /\ copy'[d].row = row
      /\ \A e \in Deliverers \ {d} : npc'[e] = npc[e] /\ pending'[e] = pending[e] /\ copy'[e] = copy[e]
      /\ notices'[n] = row /\ \A m \in Notices \ {n} : notices'[m] = notices[m]
  BY <1>1, <1>2 DEF NoticeInvariant, NoticeTypeOK, DelivererAt
<1>7. mails[n] = 0 /\ \A e \in Deliverers : copy[e].id # n /\ \A c \in pending[e] : c.id # n
  BY <1>1 DEF NoticeInvariant, RowCounts, Holds
<1>8. ASSUME NEW m \in Notices \ twice' PROVE OneCopy(m)' /\ CopiesCount(m)'
  <2>1. OneCopy(m) /\ CopiesCount(m)
    BY <1>1 DEF NoticeInvariant
  <2>2. OneCopy(m)'
    BY <1>6, <1>7, <2>1 DEF OneCopy, Holds
  <2>3. CASE m = n
    <3>1. mails[n] <= Sendable(row.deliveryAttempts)
      BY <1>7, SendableGrows
    <3> QED
      BY <1>1, <1>6, <1>7, <2>2, <2>3, <3>1 DEF CopiesCount
  <2>4. CASE m # n
    BY <1>1, <1>6, <2>1, <2>2, <2>4 DEF CopiesCount, MayStillSend
  <2> QED
    BY <2>3, <2>4
<1> QED
  BY <1>3, <1>4, <1>5, <1>8 DEF NoticeInvariant

Labels == {"idle", "later", "list", "start", "address", "send", "delivered", "sent", "failed"}

(* A step of deliverer d changes what d has in hand and the row of it, no more. *)
Moves(d) ==
    /\ npc' = [npc EXCEPT ![d] = npc'[d]] /\ npc'[d] \in Labels
    /\ pending' = [pending EXCEPT ![d] = pending'[d]] /\ pending'[d] \subseteq pending[d]
    /\ copy' = [copy EXCEPT ![d] = copy'[d]] /\ copy'[d] \in NoticeCopy
    /\ noticeFaults' \in 0 .. MaxNoticeFaults
    /\ twice \subseteq twice' /\ twice' \subseteq Notices

(* What the row r, saved for notification n, has to say. *)
SavedRow(r, n) ==
    /\ r \in Notification /\ r.status # "NONE"
    /\ r.deliveryAttempts <= MaxDeliveryAttempts
    /\ r.status = "FAILED" => r.deliveryAttempts = MaxDeliveryAttempts
    /\ r.status \in {"SENT", "DELIVERED"} /\ r.channel = "EMAIL" => mails[n] > 0
    /\ r.status = "PENDING" => r.deliveryAttempts < MaxDeliveryAttempts
    /\ n \notin twice' => mails[n] <= Sendable(r.deliveryAttempts)

(* And the copy c of it that a deliverer goes on with at label l. *)
KeptCopy(c, l, n) ==
    /\ IF l \in {"idle", "list"} THEN c.id = "none" ELSE c.id = n
    /\ l \notin {"start", "later"}
    /\ c.row.deliveryAttempts <= MaxDeliveryAttempts
    /\ l \in {"delivered", "sent"} /\ c.row.channel = "EMAIL" => mails[n] > 0
    /\ l = "address" => c.row.status = "QUEUED"
    /\ n \notin twice' => mails[n] <= Sendable(c.row.deliveryAttempts) \/ c.id = "none"
    /\ n \notin twice' /\ l \in {"address", "send"} =>
         /\ mails[n] + EmailRetries + 1 <= Sendable(c.row.deliveryAttempts)
         /\ mails[n] + EmailRetries + 1 <= Sendable(notices'[n].deliveryAttempts)

LEMMA DeliveryStep ==
    ASSUME NoticeInvariant, NEW d \in Deliverers, NEW n \in Notices, copy[d].id = n,
           npc[d] # "send", Moves(d), npc'[d] = "idle" => pending'[d] = {},
           notices' = [notices EXCEPT ![n] = notices'[n]], SavedRow(notices'[n], n),
           KeptCopy(copy'[d], npc'[d], n), UNCHANGED <<mails, tries>>
    PROVE  NoticeInvariant'
<1>1. \A e \in Deliverers \ {d} :
           npc'[e] = npc[e] /\ pending'[e] = pending[e] /\ copy'[e] = copy[e]
  BY DEF NoticeInvariant, NoticeTypeOK, Moves
<1>2. \A m \in Notices \ {n} : notices'[m] = notices[m]
  BY DEF NoticeInvariant, NoticeTypeOK
<1>3. \A e \in Deliverers, m \in Notices : Holds(e, m)' => Holds(e, m)
  BY <1>1, NoticeConstants DEF Holds, Moves, KeptCopy
<1>4. NoticeTypeOK'
  BY <1>1 DEF NoticeInvariant, NoticeTypeOK, Moves, Labels, SavedRow
<1>5. \A m \in Notices : RowCounts(m)'
  BY <1>2, <1>3 DEF NoticeInvariant, RowCounts, SavedRow
<1>6. ASSUME NEW e \in Deliverers PROVE CopyCounts(e)'
  <2>1. CASE e = d
    BY <2>1, NoticeConstants DEF NoticeInvariant, CopyCounts, KeptCopy, Moves
  <2>2. CASE e # d
    BY <1>1, <2>2 DEF NoticeInvariant, CopyCounts
  <2> QED
    BY <2>1, <2>2
<1>7. ASSUME NEW m \in Notices \ twice' PROVE OneCopy(m)' /\ CopiesCount(m)'
  <2>1. m \in Notices \ twice /\ OneCopy(m) /\ CopiesCount(m)
    BY DEF NoticeInvariant, Moves
  <2>2. OneCopy(m)'
    BY <1>1, <1>3, <2>1, NoticeConstants DEF OneCopy, Moves, KeptCopy
  <2>3. CopiesCount(m)'
    <3>1. CASE m = n
      <4>1. \A e \in Deliverers \ {d} : ~Holds(e, n)
        BY <2>1, <3>1 DEF OneCopy, Holds
      <4>2. \A b \in pending[d] : b.id # n
        BY <2>1, <3>1 DEF OneCopy
      <4>3. \A e \in Deliverers \ {d} : copy'[e].id # n /\ \A b \in pending'[e] : b.id # n
        BY <1>1, <4>1 DEF Holds
      <4>4. mails'[n] <= Sendable(notices'[n].deliveryAttempts)
        BY <3>1 DEF SavedRow
      <4>5. \A b \in pending'[d] : b.id # n
        BY <4>2 DEF Moves
      <4>6. copy'[d].id = n => mails'[n] <= Sendable(copy'[d].row.deliveryAttempts)
        BY <3>1, NoticeConstants DEF KeptCopy
      <4>7. npc'[d] \in {"address", "send"} =>
              /\ mails'[n] + MayStillSend(d)' <= Sendable(copy'[d].row.deliveryAttempts)
              /\ mails'[n] + MayStillSend(d)' <= Sendable(notices'[n].deliveryAttempts)
        <5>1. tries[d] = 0 /\ mails[n] \in Nat
          BY DEF NoticeInvariant, NoticeTypeOK, CopyCounts
        <5>2. mails'[n] + MayStillSend(d)' = mails[n] + EmailRetries + 1
          BY <5>1, NoticeConstants DEF MayStillSend
        <5> QED
          BY <3>1, <5>2 DEF KeptCopy
      <4> QED
        BY <3>1, <4>3, <4>4, <4>5, <4>6, <4>7 DEF CopiesCount
    <3>2. CASE m # n
      <4>1. copy'[d].id # m
        BY <3>2, NoticeConstants DEF KeptCopy
      <4>2. \A b \in pending'[d] : b \in pending[d]
        BY DEF Moves
      <4> QED
        BY <1>1, <1>2, <2>1, <3>2, <4>1, <4>2 DEF CopiesCount, MayStillSend
    <3> QED
      BY <3>1, <3>2
  <2> QED
    BY <2>2, <2>3
<1> QED
  BY <1>4, <1>5, <1>6, <1>7 DEF NoticeInvariant

(* What the invariant says of a deliverer that has notification n in hand. *)
LEMMA InHand ==
    ASSUME NoticeInvariant, NEW d \in Deliverers, npc[d] \notin {"idle", "list"}
    PROVE  /\ copy[d] \in NoticeCopy /\ copy[d].id \in Notices /\ copy[d].row \in Notification
           /\ pending[d] \in SUBSET NoticeCopy /\ mails[copy[d].id] \in Nat
           /\ notices[copy[d].id] \in Notification
           /\ copy[d].row.deliveryAttempts \in Nat
           /\ copy[d].row.deliveryAttempts <= MaxDeliveryAttempts
           /\ npc[d] \in {"start", "later"} => copy[d].row.deliveryAttempts < MaxDeliveryAttempts
           /\ npc[d] \in {"delivered", "sent"} /\ copy[d].row.channel = "EMAIL" => mails[copy[d].id] > 0
           /\ copy[d].id \notin twice => mails[copy[d].id] <= Sendable(copy[d].row.deliveryAttempts)
           /\ noticeFaults \in 0 .. MaxNoticeFaults /\ twice \subseteq Notices
<1>1. copy[d] \in NoticeCopy /\ CopyCounts(d)
  BY DEF NoticeInvariant, NoticeTypeOK
<1>2. copy[d].id \in Notices
  BY <1>1 DEF CopyCounts, NoticeCopy
<1> QED
  BY <1>1, <1>2 DEF NoticeInvariant, NoticeTypeOK, CopyCounts, CopiesCount, NoticeCopy, Notification

(* A deliverer saves the row and is done with it. *)
LEMMA SavesAndEnds ==
    ASSUME NoticeInvariant, NEW d \in Deliverers, npc[d] \in {"later", "sent", "failed"},
           NEW row \in Notification,
           notices' = [notices EXCEPT ![copy[d].id] = row],
           DelivererAt(d, IF pending[d] = {} THEN "idle" ELSE "list", pending[d], NoCopy),
           UNCHANGED <<mails, tries, noticeFaults, twice>>, SavedRow(row, copy[d].id)
    PROVE  NoticeInvariant'
<1>1. notices'[copy[d].id] = row /\ notices' = [notices EXCEPT ![copy[d].id] = notices'[copy[d].id]]
  BY InHand DEF NoticeInvariant, NoticeTypeOK
<1>2. copy'[d] = NoCopy /\ npc'[d] = IF pending[d] = {} THEN "idle" ELSE "list"
  BY DEF DelivererAt, NoticeInvariant, NoticeTypeOK
<1>3. Moves(d) /\ (npc'[d] = "idle" => pending'[d] = {})
  BY InHand, NoCopyType DEF Moves, DelivererAt, NoticeInvariant, NoticeTypeOK, Labels
<1>4. KeptCopy(NoCopy, npc'[d], copy[d].id)
  BY <1>2, NoCopyType, NoticeConstants DEF KeptCopy
<1> QED
  BY <1>1, <1>2, <1>3, <1>4, InHand, DeliveryStep

LEMMA QueueForLaterKeeps ==
    ASSUME NoticeInvariant, NEW d \in Deliverers, QueueForLater(d)
    PROVE  NoticeInvariant'
<1>1. npc[d] = "later"
  BY DEF QueueForLater
<1>2. PICK row \in Notification :
        /\ row = [copy[d].row EXCEPT !.status = "QUEUED"] /\ row.status = "QUEUED"
        /\ row.deliveryAttempts = copy[d].row.deliveryAttempts /\ row.channel = copy[d].row.channel
  <2>1. copy[d].row \in Notification /\ "QUEUED" \in NotificationStatus
    BY <1>1, InHand DEF NotificationStatus
  <2> QED
    BY <2>1, WithStatus
<1>3. /\ notices' = [notices EXCEPT ![copy[d].id] = row]
      /\ DelivererAt(d, IF pending[d] = {} THEN "idle" ELSE "list", pending[d], NoCopy)
      /\ UNCHANGED <<mails, tries, noticeFaults, twice>>
  BY <1>2 DEF QueueForLater, Save, DeliveryEnds
<1>4. SavedRow(row, copy[d].id)
  BY <1>1, <1>2, <1>3, InHand DEF SavedRow
<1> QED
  BY <1>1, <1>3, <1>4, SavesAndEnds

LEMMA StartDeliveryKeeps ==
    ASSUME NoticeInvariant, NEW d \in Deliverers, StartDelivery(d)
    PROVE  NoticeInvariant'
<1>1. npc[d] = "start"
  BY DEF StartDelivery
<1>2. PICK row \in Notification :
        /\ row = [copy[d].row EXCEPT !.status = "QUEUED", !.deliveryAttempts = @ + 1]
        /\ row.status = "QUEUED" /\ row.deliveryAttempts = copy[d].row.deliveryAttempts + 1
  <2>1. copy[d].row \in Notification
    BY <1>1, InHand
  <2> QED
    BY <2>1, WithAttempt, Zenon
<1>3. PICK c \in NoticeCopy : c = [copy[d] EXCEPT !.row = row] /\ c.row = row /\ c.id = copy[d].id
  <2>1. copy[d] \in NoticeCopy
    BY <1>1, InHand
  <2> QED
    BY <2>1, WithRow
<1>4. PICK label \in {"address", "send", "delivered"} :
        /\ notices' = [notices EXCEPT ![copy[d].id] = row]
        /\ DelivererAt(d, label, pending[d], c)
        /\ label = "delivered" => row.channel # "EMAIL"
        /\ UNCHANGED <<mails, tries, noticeFaults, twice>>
  <2>1. PICK label \in IF row.channel = "EMAIL" THEN {"address", "send"} ELSE {"delivered"} :
          Delivering(d, label, row)
    BY <1>2 DEF StartDelivery
  <2>2. notices' = [notices EXCEPT ![copy[d].id] = row] /\ UNCHANGED <<mails, tries, noticeFaults, twice>>
    BY <1>2 DEF StartDelivery, Save
  <2>3. DelivererAt(d, label, pending[d], c)
    BY <1>3, <2>1 DEF Delivering
  <2> QED
    BY <2>1, <2>2, <2>3
<1>5. notices'[copy[d].id] = row /\ notices' = [notices EXCEPT ![copy[d].id] = notices'[copy[d].id]]
  BY <1>1, <1>4, InHand DEF NoticeInvariant, NoticeTypeOK
<1>6. copy'[d] = c /\ npc'[d] = label
  BY <1>4 DEF DelivererAt, NoticeInvariant, NoticeTypeOK
<1>7. Moves(d) /\ npc'[d] # "idle"
  BY <1>1, <1>4, InHand DEF Moves, DelivererAt, NoticeInvariant, NoticeTypeOK, Labels
<1>8. /\ copy[d].id \in Notices
      /\ row.deliveryAttempts \in Nat /\ row.deliveryAttempts <= MaxDeliveryAttempts
      /\ copy[d].id \notin twice' =>
           /\ mails[copy[d].id] <= Sendable(row.deliveryAttempts)
           /\ mails[copy[d].id] + EmailRetries + 1 <= Sendable(row.deliveryAttempts)
  <2>1. PICK k \in Nat : k = copy[d].row.deliveryAttempts /\ k < MaxDeliveryAttempts
    BY <1>1, InHand
  <2>2. PICK m \in Nat : m = mails[copy[d].id]
    BY <1>1, InHand
  <2>3. copy[d].id \notin twice' => m <= Sendable(k)
    BY <1>1, <1>4, <2>1, <2>2, InHand
  <2>4. Sendable(k) \in Nat /\ Sendable(k + 1) = Sendable(k) + EmailRetries + 1 /\ EmailRetries \in Nat
    BY SendableGrows, NoticeConstants
  <2>5. Sendable(row.deliveryAttempts) = Sendable(k) + EmailRetries + 1
    BY <1>2, <2>1, <2>4
  <2> QED
    BY <1>1, <1>2, <2>1, <2>2, <2>3, <2>4, <2>5, InHand, NoticeConstants
<1>9. SavedRow(row, copy[d].id)
  BY <1>2, <1>8 DEF SavedRow
<1>10. KeptCopy(c, npc'[d], copy[d].id)
  BY <1>2, <1>3, <1>4, <1>5, <1>6, <1>8 DEF KeptCopy
<1> QED
  BY <1>1, <1>4, <1>5, <1>6, <1>7, <1>9, <1>10, InHand, DeliveryStep

(* The copy is saved once more, with the address, or the delivery has failed. *)
LEMMA FindAddressKeeps ==
    ASSUME NoticeInvariant, NEW d \in Deliverers, FindAddress(d)
    PROVE  NoticeInvariant'
<1> DEFINE n == copy[d].id
<1>1. npc[d] = "address" /\ n \in Notices /\ UNCHANGED <<mails, tries, noticeFaults, twice>>
  BY InHand DEF FindAddress
<1>2. [copy[d] EXCEPT !.row = copy[d].row] = copy[d] /\ copy[d] \in NoticeCopy
  BY <1>1, InHand DEF NoticeCopy
<1>3. PICK label \in {"send", "failed"} :
        /\ DelivererAt(d, label, pending[d], copy[d])
        /\ \/ notices' = [notices EXCEPT ![n] = copy[d].row]
           \/ notices' = notices /\ label = "failed"
  BY <1>2 DEF FindAddress, Delivering, Save
<1>4. copy'[d] = copy[d] /\ npc'[d] = label /\ Moves(d)
  BY <1>1, <1>3, InHand DEF Moves, DelivererAt, NoticeInvariant, NoticeTypeOK, Labels
<1>5. CopyCounts(d) /\ RowCounts(n) /\ notices[n] \in Notification
  BY <1>1 DEF NoticeInvariant, NoticeTypeOK
<1>6. notices'[n] \in {notices[n], copy[d].row} /\ notices' = [notices EXCEPT ![n] = notices'[n]]
  BY <1>1, <1>3 DEF NoticeInvariant, NoticeTypeOK
<1>7. n \notin twice => CopiesCount(n)
  BY <1>1 DEF NoticeInvariant
<1>8. n \notin twice =>
        /\ mails[n] + EmailRetries + 1 <= Sendable(copy[d].row.deliveryAttempts)
        /\ mails[n] + EmailRetries + 1 <= Sendable(notices[n].deliveryAttempts)
  <2>1. tries[d] = 0 /\ mails[n] \in Nat
    BY <1>1, <1>5, InHand DEF CopyCounts
  <2>2. mails[n] + MayStillSend(d) = mails[n] + EmailRetries + 1
    BY <2>1, NoticeConstants DEF MayStillSend
  <2> QED
    BY <1>1, <1>7, <2>2 DEF CopiesCount
<1>9. SavedRow(copy[d].row, n)
  BY <1>1, <1>5, InHand DEF SavedRow, CopyCounts
<1>10. SavedRow(notices[n], n)
  <2>1. notices[n].status # "NONE"
    BY <1>5 DEF RowCounts, Holds
  <2> QED
    BY <1>1, <1>5, <1>7, <2>1 DEF SavedRow, RowCounts, CopiesCount
<1>11. KeptCopy(copy[d], label, n)
  <2>1. label = "send" => notices'[n] = copy[d].row
    BY <1>1, <1>3 DEF NoticeInvariant, NoticeTypeOK
  <2> QED
    BY <1>1, <1>8, <2>1, InHand, NoticeConstants DEF KeptCopy
<1> QED
  BY <1>1, <1>4, <1>6, <1>9, <1>10, <1>11, DeliveryStep

LEMMA SaveDeliveredKeeps ==
    ASSUME NoticeInvariant, NEW d \in Deliverers, SaveDelivered(d)
    PROVE  NoticeInvariant'
<1>1. npc[d] = "delivered"
  BY DEF SaveDelivered
<1> DEFINE status == IF copy[d].row.channel = "SMS" THEN "SENT" ELSE "DELIVERED"
<1>2. PICK row \in Notification :
        /\ row = [copy[d].row EXCEPT !.status = status] /\ row.status = status
        /\ row.deliveryAttempts = copy[d].row.deliveryAttempts /\ row.channel = copy[d].row.channel
  <2>1. copy[d].row \in Notification /\ status \in NotificationStatus
    BY <1>1, InHand DEF NotificationStatus
  <2> HIDE DEF status
  <2> QED
    BY <2>1, WithStatus
<1>3. PICK c \in NoticeCopy : c = [copy[d] EXCEPT !.row = row] /\ c.row = row /\ c.id = copy[d].id
  <2>1. copy[d] \in NoticeCopy
    BY <1>1, InHand
  <2> QED
    BY <2>1, WithRow
<1>4. /\ notices' = [notices EXCEPT ![copy[d].id] = row]
      /\ DelivererAt(d, "sent", pending[d], c)
      /\ UNCHANGED <<mails, tries, noticeFaults, twice>>
  BY <1>2, <1>3 DEF SaveDelivered, Save, Delivering
<1> HIDE DEF status
<1>5. notices'[copy[d].id] = row /\ notices' = [notices EXCEPT ![copy[d].id] = notices'[copy[d].id]]
  BY <1>1, <1>4, InHand DEF NoticeInvariant, NoticeTypeOK
<1>6. copy'[d] = c /\ npc'[d] = "sent"
  BY <1>4 DEF DelivererAt, NoticeInvariant, NoticeTypeOK
<1>7. Moves(d) /\ npc'[d] # "idle"
  BY <1>1, <1>4, InHand DEF Moves, DelivererAt, NoticeInvariant, NoticeTypeOK, Labels
<1>8. /\ row.deliveryAttempts <= MaxDeliveryAttempts
      /\ row.channel = "EMAIL" => mails[copy[d].id] > 0
      /\ copy[d].id \notin twice' => mails[copy[d].id] <= Sendable(row.deliveryAttempts)
  BY <1>1, <1>2, <1>4, InHand
<1>9. SavedRow(row, copy[d].id)
  <2>1. status \in {"SENT", "DELIVERED"}
    BY DEF status
  <2> QED
    BY <1>2, <1>8, <2>1 DEF SavedRow
<1>10. KeptCopy(c, npc'[d], copy[d].id)
  BY <1>3, <1>6, <1>8 DEF KeptCopy
<1> QED
  BY <1>1, <1>4, <1>5, <1>6, <1>7, <1>9, <1>10, InHand, DeliveryStep

LEMMA SaveSentKeeps ==
    ASSUME NoticeInvariant, NEW d \in Deliverers, SaveSent(d)
    PROVE  NoticeInvariant'
<1>1. npc[d] = "sent"
  BY DEF SaveSent
<1>2. PICK row \in Notification :
        /\ row = [copy[d].row EXCEPT !.status = "SENT"] /\ row.status = "SENT"
        /\ row.deliveryAttempts = copy[d].row.deliveryAttempts /\ row.channel = copy[d].row.channel
  <2>1. copy[d].row \in Notification /\ "SENT" \in NotificationStatus
    BY <1>1, InHand DEF NotificationStatus
  <2> QED
    BY <2>1, WithStatus
<1>3. /\ notices' = [notices EXCEPT ![copy[d].id] = row]
      /\ DelivererAt(d, IF pending[d] = {} THEN "idle" ELSE "list", pending[d], NoCopy)
      /\ UNCHANGED <<mails, tries, noticeFaults, twice>>
  BY <1>2 DEF SaveSent, Save, DeliveryEnds
<1>4. SavedRow(row, copy[d].id)
  BY <1>1, <1>2, <1>3, InHand DEF SavedRow
<1> QED
  BY <1>1, <1>3, <1>4, SavesAndEnds

LEMMA HandleDeliveryFailureKeeps ==
    ASSUME NoticeInvariant, NEW d \in Deliverers, HandleDeliveryFailure(d)
    PROVE  NoticeInvariant'
<1>1. npc[d] = "failed"
  BY DEF HandleDeliveryFailure
<1>2. PICK row \in Notification :
        /\ row = AfterFailure(copy[d].row)
        /\ row.status = IF copy[d].row.deliveryAttempts >= MaxDeliveryAttempts THEN "FAILED" ELSE "PENDING"
        /\ row.deliveryAttempts = copy[d].row.deliveryAttempts
  <2>1. /\ copy[d].row \in Notification
        /\ (IF copy[d].row.deliveryAttempts >= MaxDeliveryAttempts THEN "FAILED" ELSE "PENDING")
             \in NotificationStatus
    BY <1>1, InHand DEF NotificationStatus
  <2> QED
    BY <2>1, WithStatus DEF AfterFailure
<1>3. /\ notices' = [notices EXCEPT ![copy[d].id] = row]
      /\ DelivererAt(d, IF pending[d] = {} THEN "idle" ELSE "list", pending[d], NoCopy)
      /\ UNCHANGED <<mails, tries, noticeFaults, twice>>
  BY <1>2 DEF HandleDeliveryFailure, Save, DeliveryEnds
<1>4. SavedRow(row, copy[d].id)
  <2>1. row.status = "PENDING" => row.deliveryAttempts < MaxDeliveryAttempts
    BY <1>1, <1>2, InHand, NoticeConstants
  <2>2. row.status = "FAILED" => row.deliveryAttempts = MaxDeliveryAttempts
    BY <1>1, <1>2, InHand, NoticeConstants
  <2> QED
    BY <1>1, <1>2, <1>3, <2>1, <2>2, InHand DEF SavedRow
<1> QED
  BY <1>1, <1>3, <1>4, SavesAndEnds

(* A save that rejects leaves the row as it is. *)
LEMMA SaveFaultKeeps ==
    ASSUME NoticeInvariant, NEW d \in Deliverers, SaveFault(d)
    PROVE  NoticeInvariant'
<1>1. npc[d] \in {"start", "address", "delivered", "sent", "failed", "later"}
  BY DEF SaveFault
<1>2. UNCHANGED <<notices, mails, tries, twice>> /\ noticeFaults' \in 0 .. MaxNoticeFaults
  BY NoticeConstants DEF SaveFault, NoticeInvariant, NoticeTypeOK
<1>3. notices' = [notices EXCEPT ![copy[d].id] = notices'[copy[d].id]]
  BY <1>1, <1>2, InHand DEF NoticeInvariant, NoticeTypeOK
<1>4. twice \subseteq twice' /\ twice' \subseteq Notices
  BY <1>1, <1>2, InHand
<1>5. SavedRow(notices'[copy[d].id], copy[d].id)
  <2>1. copy[d].id \in Notices /\ RowCounts(copy[d].id) /\ notices[copy[d].id] \in Notification
    BY <1>1, InHand DEF NoticeInvariant
  <2>2. notices[copy[d].id].status # "NONE"
    BY <2>1 DEF RowCounts, Holds
  <2>3. copy[d].id \notin twice' => mails[copy[d].id] <= Sendable(notices[copy[d].id].deliveryAttempts)
    BY <1>2, <2>1 DEF NoticeInvariant, CopiesCount
  <2> QED
    BY <1>2, <2>1, <2>2, <2>3 DEF RowCounts, SavedRow
<1>6. CASE npc[d] \in {"failed", "later"}
  <2>1. DelivererAt(d, "idle", {}, NoCopy)
    BY <1>6 DEF SaveFault
  <2>2. npc'[d] = "idle" /\ pending'[d] = {} /\ copy'[d] = NoCopy
    BY <2>1 DEF DelivererAt, NoticeInvariant, NoticeTypeOK
  <2>3. Moves(d) /\ KeptCopy(copy'[d], npc'[d], copy[d].id)
    BY <1>2, <1>4, <1>6, <2>1, <2>2, NoCopyType, NoticeConstants
       DEF Moves, DelivererAt, KeptCopy, Labels, NoticeInvariant, NoticeTypeOK
  <2> QED
    BY <1>1, <1>2, <1>3, <1>5, <2>2, <2>3, InHand, DeliveryStep
<1>7. CASE npc[d] \in {"start", "address", "delivered", "sent"}
  <2>1. PICK row \in Notification :
          /\ row = [copy[d].row EXCEPT !.deliveryAttempts = IF npc[d] = "start" THEN @ + 1 ELSE @]
          /\ row.deliveryAttempts = IF npc[d] = "start" THEN copy[d].row.deliveryAttempts + 1
                                    ELSE copy[d].row.deliveryAttempts
    <3>1. /\ copy[d].row \in Notification
          /\ (IF npc[d] = "start" THEN copy[d].row.deliveryAttempts + 1
              ELSE copy[d].row.deliveryAttempts) \in Nat
      BY <1>1, InHand
    <3> QED
      BY <3>1, WithCount
  <2>2. PICK c \in NoticeCopy : c = [copy[d] EXCEPT !.row = row] /\ c.row = row /\ c.id = copy[d].id
    <3>1. copy[d] \in NoticeCopy
      BY <1>1, InHand
    <3> QED
      BY <3>1, WithRow
  <2>3. DelivererAt(d, "failed", pending[d], c)
    BY <1>7, <2>1, <2>2 DEF SaveFault, Delivering
  <2>4. npc'[d] = "failed" /\ copy'[d] = c
    BY <2>3 DEF DelivererAt, NoticeInvariant, NoticeTypeOK
  <2>5. Moves(d)
    BY <1>2, <1>4, <2>3, <2>4 DEF Moves, DelivererAt, NoticeInvariant, NoticeTypeOK, Labels
  <2>6. KeptCopy(c, "failed", copy[d].id)
    <3>1. PICK k \in Nat : k = copy[d].row.deliveryAttempts
      BY <1>1, InHand
    <3>2. row.deliveryAttempts \in {k, k + 1} /\ row.deliveryAttempts <= MaxDeliveryAttempts
      <4>1. npc[d] = "start" => k < MaxDeliveryAttempts
        BY <1>1, <3>1, InHand
      <4>2. k <= MaxDeliveryAttempts
        BY <1>1, <3>1, InHand
      <4> QED
        BY <2>1, <3>1, <4>1, <4>2, NoticeConstants
    <3>3. Sendable(k) \in Nat /\ Sendable(k) <= Sendable(row.deliveryAttempts)
      BY <3>2, SendableGrows, NoticeConstants
    <3>4. copy[d].id \notin twice' => mails[copy[d].id] <= Sendable(row.deliveryAttempts)
      <4>1. mails[copy[d].id] \in Nat /\ Sendable(row.deliveryAttempts) \in Nat
        BY <1>1, <3>2, SendableGrows, InHand
      <4> QED
        BY <1>1, <1>2, <3>1, <3>3, <4>1, InHand
    <3> QED
      BY <2>2, <3>2, <3>4 DEF KeptCopy
  <2> QED
    BY <1>1, <1>2, <1>3, <1>5, <2>4, <2>5, <2>6, InHand, DeliveryStep
<1> QED
  BY <1>1, <1>6, <1>7

(* The one step that sends: the only copy has an attempt to spare. *)
LEMMA TransmitKeeps ==
    ASSUME NoticeInvariant, NEW d \in Deliverers, Transmit(d)
    PROVE  NoticeInvariant'
<1> DEFINE n == copy[d].id
<1>1. /\ npc[d] = "send" /\ n \in Notices /\ mails[n] \in Nat /\ EmailRetries \in Nat
      /\ tries[d] \in Nat /\ tries[d] <= EmailRetries
  BY InHand, NoticeConstants DEF Transmit, NoticeInvariant, NoticeTypeOK
<1>2. PICK left \in BOOLEAN, result \in {"delivered", "failed", "send"} :
        /\ result = "delivered" => left
        /\ result = "send" => tries[d] < EmailRetries
        /\ mails' = [mails EXCEPT ![n] = IF left THEN @ + 1 ELSE @]
        /\ tries' = [tries EXCEPT ![d] = IF result = "send" THEN @ + 1 ELSE 0]
        /\ Delivering(d, result, copy[d].row)
  BY DEF Transmit
<1>3. [copy[d] EXCEPT !.row = copy[d].row] = copy[d] /\ copy[d] \in NoticeCopy
  BY <1>1, InHand DEF NoticeCopy
<1>4. /\ npc' = [npc EXCEPT ![d] = result]
      /\ pending' = pending /\ copy' = copy
      /\ UNCHANGED <<notices, noticeFaults, twice>>
  BY <1>2, <1>3 DEF Transmit, Delivering, DelivererAt, NoticeInvariant, NoticeTypeOK
<1>5. /\ mails' \in [Notices -> Nat] /\ mails'[n] \in {mails[n], mails[n] + 1}
      /\ result = "delivered" => mails'[n] = mails[n] + 1
      /\ \A m \in Notices \ {n} : mails'[m] = mails[m]
  BY <1>1, <1>2 DEF NoticeInvariant, NoticeTypeOK
<1>6. /\ tries' \in [Deliverers -> 0 .. EmailRetries]
      /\ tries'[d] = IF result = "send" THEN tries[d] + 1 ELSE 0
      /\ \A e \in Deliverers \ {d} : tries'[e] = tries[e]
  BY <1>1, <1>2 DEF NoticeInvariant, NoticeTypeOK
<1>7. npc'[d] = result /\ \A e \in Deliverers \ {d} : npc'[e] = npc[e]
  BY <1>4 DEF NoticeInvariant, NoticeTypeOK
<1>8. NoticeTypeOK'
  BY <1>4, <1>5, <1>6 DEF NoticeInvariant, NoticeTypeOK
<1>9. ASSUME NEW m \in Notices PROVE RowCounts(m)'
  <2>1. RowCounts(m) /\ mails[m] \in Nat
    BY DEF NoticeInvariant, NoticeTypeOK
  <2>2. CASE m = n
    BY <1>1, <1>4, <1>5, <2>1, <2>2 DEF RowCounts, Holds
  <2>3. CASE m # n
    BY <1>4, <1>5, <2>1, <2>3 DEF RowCounts, Holds
  <2> QED
    BY <2>2, <2>3
<1>10. ASSUME NEW e \in Deliverers PROVE CopyCounts(e)'
  <2>1. CopyCounts(e) /\ copy[e].id \in Notices \cup {"none"}
    BY DEF NoticeInvariant, NoticeTypeOK, NoticeCopy
  <2>2. CASE e = d
    <3>1. npc'[d] \notin {"idle", "list", "start", "later", "address", "sent"}
      BY <1>7
    <3>2. npc'[d] # "send" => tries'[d] = 0
      BY <1>6, <1>7
    <3>3. npc'[d] = "delivered" => mails'[n] > 0
      BY <1>1, <1>5, <1>7
    <3> QED
      BY <1>1, <1>4, <2>1, <2>2, <3>1, <3>2, <3>3 DEF CopyCounts
  <2>3. ASSUME e # d, npc[e] \in {"delivered", "sent"}, copy[e].row.channel = "EMAIL"
        PROVE  mails'[copy[e].id] > 0
    BY <1>1, <1>5, <2>1, <2>3, NoticeConstants DEF CopyCounts, NoticeInvariant, NoticeTypeOK
  <2>4. CASE e # d
    BY <1>4, <1>6, <1>7, <2>1, <2>3, <2>4 DEF CopyCounts
  <2> QED
    BY <2>2, <2>4
<1>11. ASSUME NEW m \in Notices \ twice' PROVE OneCopy(m)' /\ CopiesCount(m)'
  <2>1. m \notin twice /\ OneCopy(m) /\ CopiesCount(m)
    BY <1>4 DEF NoticeInvariant
  <2>2. OneCopy(m)'
    BY <1>4, <2>1 DEF OneCopy, Holds
  <2>3. CASE m = n
    <3>1. \A e \in Deliverers \ {d} : copy[e].id # n /\ \A c \in pending[e] : c.id # n
      BY <2>1, <2>3 DEF OneCopy, Holds
    <3>2. \A c \in pending[d] : c.id # n
      BY <2>1, <2>3 DEF OneCopy
    <3>3. PICK k \in Nat, l \in Nat : k = Sendable(copy[d].row.deliveryAttempts)
                                      /\ l = Sendable(notices[n].deliveryAttempts)
      <4>1. copy[d].row.deliveryAttempts \in Nat /\ notices[n].deliveryAttempts \in Nat
        BY <1>1, InHand DEF Notification
      <4> QED
        BY <4>1, SendableGrows
    <3>4. mails[n] + EmailRetries + 1 <= k + tries[d] /\ mails[n] + EmailRetries + 1 <= l + tries[d]
      <4>1. mails[n] + MayStillSend(d) <= k /\ mails[n] + MayStillSend(d) <= l
        BY <1>1, <2>1, <2>3, <3>3 DEF CopiesCount
      <4>2. MayStillSend(d) = EmailRetries + 1 - tries[d]
        BY DEF MayStillSend
      <4> QED
        BY <1>1, <3>3, <4>1, <4>2
    <3>5. mails'[n] <= k /\ mails'[n] <= l
      BY <1>1, <1>5, <3>3, <3>4
    <3>6. result = "send" => mails'[n] + MayStillSend(d)' <= k /\ mails'[n] + MayStillSend(d)' <= l
      <4>1. result = "send" => MayStillSend(d)' = EmailRetries + 1 - (tries[d] + 1)
        BY <1>6 DEF MayStillSend
      <4> QED
        BY <1>1, <1>5, <3>3, <3>4, <4>1
    <3> QED
      BY <1>4, <1>7, <2>2, <2>3, <3>1, <3>2, <3>3, <3>5, <3>6 DEF CopiesCount
  <2>4. CASE m # n
    <3>1. mails'[m] = mails[m] /\ \A e \in Deliverers : copy[e].id = m => e # d
      BY <1>5, <2>4
    <3>2. \A e \in Deliverers \ {d} : MayStillSend(e)' = MayStillSend(e)
      BY <1>6 DEF MayStillSend
    <3> QED
      BY <1>4, <1>7, <2>1, <2>2, <3>1, <3>2 DEF CopiesCount
  <2> QED
    BY <2>3, <2>4
<1> QED
  BY <1>8, <1>9, <1>10, <1>11 DEF NoticeInvariant
-----------------------------------------------------------------------------
(* A pass lists the rows that are PENDING; two lists, or a list and a copy, of  *)
(* one of them make it a notification in two hands.                             *)
LEMMA ListingKeeps ==
    ASSUME NoticeInvariant, NEW d \in Deliverers, ProcessPendingNotifications(d)
    PROVE  NoticeInvariant'
<1> DEFINE found == {n \in Notices : notices[n].status = "PENDING"}
<1>1. /\ npc[d] = "idle" /\ UNCHANGED <<notices, mails, tries, noticeFaults>>
      /\ twice' = twice \cup {n \in found : Holders(n) # {}}
      /\ DelivererAt(d, "list", {CopyOf(n) : n \in found}, NoCopy)
  BY DEF ProcessPendingNotifications
<1>2. /\ npc'[d] = "list" /\ pending'[d] = {CopyOf(n) : n \in found} /\ copy'[d] = NoCopy
      /\ \A e \in Deliverers \ {d} :
           npc'[e] = npc[e] /\ pending'[e] = pending[e] /\ copy'[e] = copy[e]
  BY <1>1 DEF DelivererAt, NoticeInvariant, NoticeTypeOK
<1>3. \A n \in found : /\ CopyOf(n) \in NoticeCopy /\ CopyOf(n).id = n /\ CopyOf(n).row = notices[n]
                       /\ notices[n].deliveryAttempts < MaxDeliveryAttempts
  BY DEF CopyOf, NoticeCopy, NoticeInvariant, NoticeTypeOK, RowCounts
<1>4. copy[d].id = "none" /\ pending[d] = {} /\ tries[d] = 0
  BY <1>1 DEF NoticeInvariant, CopyCounts
<1>5. \A c \in pending'[d] : c.id \in found /\ c = CopyOf(c.id)
  BY <1>2, <1>3
<1>6. \A e \in Deliverers \ {d}, n \in Notices : Holds(e, n)' <=> Holds(e, n)
  BY <1>2 DEF Holds
<1>7. \A n \in Notices : (Holds(d, n)' => n \in found) /\ ~Holds(d, n)
  BY <1>2, <1>4, <1>5, NoCopyType, NoticeConstants DEF Holds
<1>8. NoticeTypeOK'
  <2>1. {CopyOf(n) : n \in found} \in SUBSET NoticeCopy
    BY <1>3
  <2>2. twice' \subseteq Notices
    BY <1>1 DEF NoticeInvariant, NoticeTypeOK
  <2> QED
    BY <1>1, <2>1, <2>2, NoCopyType DEF DelivererAt, NoticeInvariant, NoticeTypeOK
<1>9. \A n \in Notices : RowCounts(n)'
  BY <1>1, <1>6, <1>7 DEF NoticeInvariant, RowCounts
<1>10. ASSUME NEW e \in Deliverers PROVE CopyCounts(e)'
  <2>1. CASE e = d
    BY <1>1, <1>2, <1>3, <1>4, <1>5, <2>1, NoCopyType, NoticeConstants DEF CopyCounts
  <2>2. CASE e # d
    BY <1>1, <1>2, <2>2 DEF NoticeInvariant, CopyCounts
  <2> QED
    BY <2>1, <2>2
<1>11. ASSUME NEW n \in Notices \ twice' PROVE OneCopy(n)' /\ CopiesCount(n)'
  <2>1. n \notin twice /\ OneCopy(n) /\ CopiesCount(n)
    BY <1>1 DEF NoticeInvariant
  <2>2. n \in found => \A e \in Deliverers : ~Holds(e, n)
    BY <1>1 DEF Holders, Holds
  <2>3. OneCopy(n)'
    BY <1>2, <1>5, <1>6, <1>7, <2>1, <2>2, NoCopyType, NoticeConstants DEF OneCopy
  <2>4. CopiesCount(n)'
    <3>1. \A c \in pending'[d] : c.id = n => mails[n] <= Sendable(c.row.deliveryAttempts)
      BY <1>3, <1>5, <2>1 DEF CopiesCount
    <3>2. copy'[d].id # n /\ npc'[d] \notin {"address", "send"}
      BY <1>2, NoCopyType, NoticeConstants
    <3> QED
      BY <1>1, <1>2, <2>1, <3>1, <3>2 DEF CopiesCount, MayStillSend
  <2> QED
    BY <2>3, <2>4
<1> QED
  BY <1>8, <1>9, <1>10, <1>11 DEF NoticeInvariant

(* The next of a list becomes the copy in hand. *)
LEMMA NextPendingKeeps ==
    ASSUME NoticeInvariant, NEW d \in Deliverers, NextPending(d)
    PROVE  NoticeInvariant'
<1>1. PICK c \in pending[d] : DelivererAt(d, "start", pending[d] \ {c}, c)
  BY DEF NextPending
<1>2. npc[d] = "list" /\ UNCHANGED <<notices, mails, tries, noticeFaults, twice>>
  BY DEF NextPending
<1>3. /\ npc'[d] = "start" /\ pending'[d] = pending[d] \ {c} /\ copy'[d] = c
      /\ \A e \in Deliverers \ {d} :
           npc'[e] = npc[e] /\ pending'[e] = pending[e] /\ copy'[e] = copy[e]
  BY <1>1 DEF DelivererAt, NoticeInvariant, NoticeTypeOK
<1>4. /\ pending[d] \in SUBSET NoticeCopy /\ c \in NoticeCopy
      /\ c.id \in Notices /\ c.row \in Notification /\ c.row.deliveryAttempts \in Nat
      /\ c.row.deliveryAttempts < MaxDeliveryAttempts
  BY DEF NoticeInvariant, NoticeTypeOK, CopyCounts, NoticeCopy, Notification
<1>5. \A e \in Deliverers, n \in Notices : Holds(e, n)' => Holds(e, n)
  BY <1>3 DEF Holds
<1>6. NoticeTypeOK'
  BY <1>1, <1>2, <1>4 DEF DelivererAt, NoticeInvariant, NoticeTypeOK
<1>7. \A n \in Notices : RowCounts(n)'
  BY <1>2, <1>5 DEF NoticeInvariant, RowCounts
<1>8. ASSUME NEW e \in Deliverers PROVE CopyCounts(e)'
  <2>1. CASE e = d
    <3>1. tries[d] = 0 /\ \A b \in pending[d] : b.id \in Notices /\ b.row.deliveryAttempts < MaxDeliveryAttempts
      BY <1>2 DEF NoticeInvariant, CopyCounts
    <3>2. c.id # "none" /\ c.row.deliveryAttempts <= MaxDeliveryAttempts
      BY <1>4, NoticeConstants
    <3> QED
      BY <1>2, <1>3, <1>4, <2>1, <3>1, <3>2 DEF CopyCounts
  <2>2. CASE e # d
    BY <1>2, <1>3, <2>2 DEF NoticeInvariant, CopyCounts
  <2> QED
    BY <2>1, <2>2
<1>9. ASSUME NEW n \in Notices \ twice' PROVE OneCopy(n)' /\ CopiesCount(n)'
  <2>1. n \notin twice /\ OneCopy(n) /\ CopiesCount(n)
    BY <1>2 DEF NoticeInvariant
  <2>2. OneCopy(n)'
    BY <1>3, <1>5, <2>1 DEF OneCopy
  <2>3. CopiesCount(n)'
    <3>1. npc'[d] \notin {"address", "send"} /\ pending'[d] \subseteq pending[d] /\ copy'[d] \in pending[d]
      BY <1>3
    <3> QED
      BY <1>2, <1>3, <2>1, <3>1 DEF CopiesCount, MayStillSend
  <2> QED
    BY <2>2, <2>3
<1> QED
  BY <1>6, <1>7, <1>8, <1>9 DEF NoticeInvariant

LEMMA NoticeCrashKeeps ==
    ASSUME NoticeInvariant, NoticeCrash
    PROVE  NoticeInvariant'
<1>1. /\ npc' = [d \in Deliverers |-> "idle"] /\ pending' = [d \in Deliverers |-> {}]
      /\ copy' = [d \in Deliverers |-> NoCopy] /\ UNCHANGED <<notices, mails, twice>>
      /\ noticeFaults' \in 0 .. MaxNoticeFaults
      /\ tries' = [d \in Deliverers |-> 0]
  BY NoticeConstants DEF NoticeCrash, NoticeInvariant, NoticeTypeOK
<1>2. \A d \in Deliverers, n \in Notices : ~Holds(d, n)'
  BY <1>1, NoCopyType, NoticeConstants DEF Holds
<1>3. NoticeTypeOK'
  BY <1>1, NoCopyType, NoticeConstants DEF NoticeInvariant, NoticeTypeOK
<1>4. \A n \in Notices : RowCounts(n)'
  BY <1>1, <1>2 DEF NoticeInvariant, RowCounts
<1>5. \A d \in Deliverers : CopyCounts(d)'
  BY <1>1, NoCopyType, NoticeConstants DEF CopyCounts
<1>6. \A n \in Notices \ twice' : OneCopy(n)' /\ CopiesCount(n)'
  BY <1>1, <1>2, NoCopyType, NoticeConstants DEF NoticeInvariant, OneCopy, CopiesCount
<1> QED
  BY <1>3, <1>4, <1>5, <1>6 DEF NoticeInvariant

-----------------------------------------------------------------------------
LEMMA NoticesKeep ==
    ASSUME NoticeInvariant, [NoticeNext]_noticeVars
    PROVE  NoticeInvariant'
<1>1. ASSUME NEW d \in Deliverers,
             SendNotification(d) \/ ProcessPendingNotifications(d) \/ NextPending(d)
      PROVE  NoticeInvariant'
  BY <1>1, SendNotificationKeeps, ListingKeeps, NextPendingKeeps
<1>2. ASSUME NEW d \in Deliverers,
             \/ QueueForLater(d) \/ StartDelivery(d) \/ FindAddress(d) \/ Transmit(d) \/ SaveDelivered(d)
             \/ SaveSent(d) \/ HandleDeliveryFailure(d) \/ SaveFault(d)
      PROVE  NoticeInvariant'
  BY <1>2, QueueForLaterKeeps, StartDeliveryKeeps, FindAddressKeeps, TransmitKeeps, SaveDeliveredKeeps, SaveSentKeeps,
     HandleDeliveryFailureKeeps, SaveFaultKeeps
<1>3. CASE NoticeCrash
  BY <1>3, NoticeCrashKeeps
<1>4. CASE UNCHANGED noticeVars
  BY <1>4 DEF noticeVars, NoticeInvariant, NoticeTypeOK, RowCounts, CopyCounts, OneCopy, CopiesCount, MayStillSend, Holds
<1> QED
  BY <1>1, <1>2, <1>3, <1>4 DEF NoticeNext

LEMMA NoticesInvariant == NoticeSpec => []NoticeInvariant
BY NoticesStart, NoticesKeep, PTL DEF NoticeSpec

(* The rows of notifications, and the copies and lists of the deliverers, keep *)
(* their shape.                                                                *)
THEOREM NoticeTypeCorrect == NoticeSpec => []NoticeTypeOK
<1>1. NoticeInvariant => NoticeTypeOK
  BY DEF NoticeInvariant
<1> QED
  BY <1>1, NoticesInvariant, PTL

(* deliverNotification counts an attempt before it sends and sendEmail retries at *)
(* most so often: for a notification that one deliverer at a time has in hand the *)
(* count bounds the messages, whatever fails after them; and no order of          *)
(* deliveries, faults and crashes makes the attempts more than allowed, FAILED    *)
(* with attempts left, or SENT what never left.                                   *)
THEOREM AttemptsCounted == NoticeSpec => []AttemptsAreCounted
<1>1. NoticeInvariant => AttemptsAreCounted
  BY DEF NoticeInvariant, RowCounts, CopiesCount, AttemptsAreCounted
<1> QED
  BY <1>1, NoticesInvariant, PTL
===============================================================================
