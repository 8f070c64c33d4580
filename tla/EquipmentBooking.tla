-------------------------- MODULE EquipmentBooking --------------------------
(***************************************************************************)
(* Bookings of one piece of equipment (src/src/equipment) on top of the    *)
(* workflow engine: the look for conflicts, the workflow that is started   *)
(* before the booking exists, approval, pick-up and return.  Every handler *)
(* saves the whole booking it has read some awaits before.                 *)
(***************************************************************************)
EXTENDS WorkflowEngine

CONSTANTS
    MaxBookings,    \* bound: bookings ever made
    Unsaved,        \* entity id 0, under which every booking's workflow is started
    LastDay         \* bound: bookings lie between day 1 and this one

Bookings == 1 .. MaxBookings
Days == 1 .. LastDay
BookingStatus == {"NONE", "PENDING", "APPROVED", "REJECTED", "ACTIVE", "COMPLETED", "CANCELLED"}
EquipmentBooking ==
    [status: BookingStatus, startDate: 0 .. LastDay, endDate: 0 .. LastDay,
     workflowInstanceId: 0 .. MaxInstances]

ASSUME BookingAssumption ==
    Unsaved \in Entities /\ MaxBookings \in Nat /\ LastDay \in Nat

VARIABLES
    bookings,       \* rows of equipment_bookings
    bpc,            \* the await of the service a handler stands at
    booking,        \* the booking it works on, the row it has read, and as it will save it
    raced,          \* history: bookings saved on stale reading, or whose engine call failed
    today

bookingRowVars == <<bookings, bpc, booking, raced, today>>
bookingVars == <<engineVars, bookingRowVars>>

NoBookingRow == [status |-> "NONE", startDate |-> 0, endDate |-> 0, workflowInstanceId |-> 0]
NoBooking == [id |-> 0, read |-> NoBookingRow, row |-> NoBookingRow]

BookingInit ==
    /\ EngineInit
    /\ bookings = [b \in Bookings |-> NoBookingRow]
    /\ bpc = [t \in Officers |-> "idle"]
    /\ booking = [t \in Officers |-> NoBooking]
    /\ raced = {}
    /\ today = 1

BookingAt(t, label, h) ==
    /\ bpc' = [bpc EXCEPT ![t] = label]
    /\ booking' = [booking EXCEPT ![t] = h]
BookingDone(t) == BookingAt(t, "idle", NoBooking)

(* Mutant: equipment that is in use is not in the way. *)
ActiveBookingsInRangeNotInUse(start, end) ==
    {b \in Bookings : /\ bookings[b].status \in {"PENDING", "APPROVED"}
                      /\ bookings[b].startDate <= end /\ start <= bookings[b].endDate}

(* findActiveBookingsInRange, its three cases as in the query. *)
ActiveBookingsInRange(start, end) ==
    {b \in Bookings :
        /\ bookings[b].status \in {"PENDING", "APPROVED", "ACTIVE"}
        /\ \/ bookings[b].startDate <= start /\ bookings[b].endDate >= start
           \/ bookings[b].startDate <= end /\ bookings[b].endDate >= end
           \/ bookings[b].startDate >= start /\ bookings[b].endDate <= end}

-----------------------------------------------------------------------------
(* The equipment is bookable and available, and its rules allow the dates. *)
CreateBooking(t) ==
    /\ bpc[t] = "idle"
    /\ \E start, end \in Days, requiresApproval \in BOOLEAN :
         /\ today <= start /\ start < end
         /\ ActiveBookingsInRange(start, end) = {}
         /\ BookingAt(t, IF requiresApproval THEN "start" ELSE "insert",
              [NoBooking EXCEPT !.row = [status |-> IF requiresApproval THEN "PENDING" ELSE "APPROVED",
                                         startDate |-> start, endDate |-> end, workflowInstanceId |-> 0]])
    /\ UNCHANGED <<engineVars, bookings, raced, today>>

(* The booking has no id yet: entity 0.  While an earlier one's workflow is active *)
(* the start throws, and the booking goes without.                                 *)
StartBookingWorkflow(t) ==
    /\ bpc[t] = "start"
    /\ \E k \in Keys : FindByEntity(t, Unsaved, k)
    /\ BookingAt(t, "insert", booking[t])
    /\ UNCHANGED <<bookings, raced, today>>

InsertBooking(t) ==
    \E b \in Bookings :
        LET row == booking[t].row IN
        /\ bpc[t] = "insert"
        /\ bookings[b].status = "NONE" /\ \A c \in Bookings : c < b => bookings[c].status # "NONE"
        /\ Resume(t)
        /\ bookings' = [bookings EXCEPT ![b] = IF wpc[t] = "returned"
                          THEN [row EXCEPT !.workflowInstanceId = call[t].id] ELSE row]
        /\ raced' = IF ActiveBookingsInRange(row.startDate, row.endDate) = {} THEN raced
                    ELSE raced \cup {b}
        /\ BookingDone(t)
        /\ UNCHANGED today

(* The handler goes on to label with booking b, to be saved as row. *)
ReadBooking(t, b, statuses, label, row) ==
    /\ bpc[t] = "idle"
    /\ bookings[b].status \in statuses
    /\ BookingAt(t, label, [id |-> b, read |-> bookings[b], row |-> row])
    /\ UNCHANGED <<engineVars, bookings, raced, today>>

(* Of its dates, or of its purpose and notes alone. *)
UpdateBooking(t, b) ==
    \/ ReadBooking(t, b, {"PENDING", "APPROVED"}, "save", bookings[b])
    \/ \E start, end \in Days :
         /\ start < end
         /\ ReadBooking(t, b, {"PENDING", "APPROVED"}, "conflicts",
                        [bookings[b] EXCEPT !.startDate = start, !.endDate = end])

FindConflicts(t) ==
    LET h == booking[t] IN
    /\ bpc[t] = "conflicts"
    /\ IF ActiveBookingsInRange(h.row.startDate, h.row.endDate) \ {h.id} = {}
       THEN BookingAt(t, "save", h)
       ELSE BookingDone(t)
    /\ UNCHANGED <<engineVars, bookings, raced, today>>

(* approveBooking reads the workflow and lets it be. *)
ApproveBooking(t, b) ==
    ReadBooking(t, b, {"PENDING"}, "save", [bookings[b] EXCEPT !.status = "APPROVED"])

WithWorkflow(b) == IF bookings[b].workflowInstanceId = 0 THEN "save" ELSE "cancel"

RejectBooking(t, b) ==
    ReadBooking(t, b, {"PENDING"}, WithWorkflow(b), [bookings[b] EXCEPT !.status = "REJECTED"])

CancelBooking(t, b) ==
    ReadBooking(t, b, {"PENDING", "APPROVED"}, WithWorkflow(b),
                [bookings[b] EXCEPT !.status = "CANCELLED"])

CancelBookingWorkflow(t) ==
    /\ bpc[t] = "cancel"
    /\ FindForCancel(t, booking[t].row.workflowInstanceId)
    /\ BookingAt(t, "save", booking[t])
    /\ UNCHANGED <<bookings, raced, today>>

PickupEquipment(t, b) ==
    /\ today >= bookings[b].startDate
    /\ ReadBooking(t, b, {"APPROVED"}, "save", [bookings[b] EXCEPT !.status = "ACTIVE"])

ReturnEquipment(t, b) ==
    ReadBooking(t, b, {"ACTIVE"}, "save", [bookings[b] EXCEPT !.status = "COMPLETED"])

(* repository.save of the booking held. *)
SaveBooking(t) ==
    LET h == booking[t]
        moved == h.row.startDate # h.read.startDate \/ h.row.endDate # h.read.endDate
        inTheWay == ActiveBookingsInRange(h.row.startDate, h.row.endDate) \ {h.id}
    IN /\ bpc[t] = "save"
       /\ Resume(t)
       /\ bookings' = [bookings EXCEPT ![h.id] = h.row]
       /\ raced' = IF bookings[h.id] # h.read \/ (moved /\ inTheWay # {})
                   THEN raced \cup {h.id} ELSE raced
       /\ BookingDone(t)
       /\ UNCHANGED today

-----------------------------------------------------------------------------
Tomorrow ==
    /\ today < LastDay
    /\ today' = today + 1
    /\ UNCHANGED <<engineVars, bookings, bpc, booking, raced>>

(* An await rejects.  What the engine throws is swallowed; the rest ends the handler. *)
BookingFault(t) ==
    /\ bpc[t] # "idle"
    /\ \/ /\ EngineFault(t)
          /\ raced' = raced \cup ({booking[t].id} \ {0})
          /\ UNCHANGED <<bpc, booking>>
       \/ /\ ServiceFault(t)
          /\ BookingDone(t)
          /\ UNCHANGED raced
    /\ UNCHANGED <<bookings, today>>

BookingCrash ==
    /\ EngineCrash
    /\ bpc' = [t \in Officers |-> "idle"]
    /\ booking' = [t \in Officers |-> NoBooking]
    /\ UNCHANGED <<bookings, raced, today>>

BookingStep(t) ==
    \/ CreateBooking(t) \/ StartBookingWorkflow(t) \/ InsertBooking(t)
    \/ FindConflicts(t) \/ CancelBookingWorkflow(t) \/ SaveBooking(t) \/ BookingFault(t)
    \/ \E b \in Bookings :
         \/ UpdateBooking(t, b) \/ ApproveBooking(t, b) \/ RejectBooking(t, b)
         \/ CancelBooking(t, b) \/ PickupEquipment(t, b) \/ ReturnEquipment(t, b)
    \/ EngineStep(t) /\ UNCHANGED bookingRowVars

BookingNext ==
    \/ \E t \in Officers : BookingStep(t)
    \/ \E t \in Clients : (Request(t) \/ EngineStep(t) \/ EngineFault(t)) /\ UNCHANGED bookingRowVars
    \/ Tomorrow
    \/ BookingCrash

BookingSpec == BookingInit /\ [][BookingNext]_bookingVars

-----------------------------------------------------------------------------
(* Properties. *)

Booked == [id: 0 .. MaxBookings, read: EquipmentBooking, row: EquipmentBooking]

(* The tables and the handlers' local entities keep the shape of their columns. *)
BookingTypeOK ==
    /\ bookings \in [Bookings -> EquipmentBooking]
    /\ bpc \in [Officers -> {"idle", "start", "insert", "conflicts", "cancel", "save"}]
    /\ booking \in [Officers -> Booked]
    /\ raced \subseteq Bookings
    /\ today \in 1 .. LastDay + 1

(* Two bookings in force never share a day, whichever of the query's cases they   *)
(* fall under, unless one was saved when what its handler had looked up was stale. *)
NoDoubleBooking ==
    \A b, c \in Bookings \ raced :
        LET InForce(r) == r.status \in {"PENDING", "APPROVED", "ACTIVE"}
            On(r) == r.startDate .. r.endDate
        IN b # c /\ InForce(bookings[b]) /\ InForce(bookings[c])
              => On(bookings[b]) \cap On(bookings[c]) = {}

(* What has been refused, cancelled or returned stays so, except by a stale save. *)
EndedBookingsKept ==
    \A b \in Bookings \ raced' :
        bookings[b].status \in {"REJECTED", "CANCELLED", "COMPLETED"}
            => bookings'[b].status = bookings[b].status

(* The workflow of a booking that was rejected or cancelled is cancelled with it,  *)
(* unless a failure was swallowed or a stale save came between.                    *)
RefusedBookingsEndTheirWorkflow ==
    \A b \in Bookings \ raced :
        LET i == bookings[b].workflowInstanceId IN
        bookings[b].status \in {"REJECTED", "CANCELLED"} /\ i # 0 => instances[i].status = "CANCELLED"
=============================================================================
