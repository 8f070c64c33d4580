----------------------------- MODULE MCWorkflows -----------------------------
(***************************************************************************)
(* Small instances of the workflow engine and of the services on it, for   *)
(* TLC.  A behaviour plays one scene.                                      *)
(***************************************************************************)
EXTENDS TimesheetLock, LeaveRequests, EquipmentBooking

CONSTANTS e1, c1, c2, o1, o2

ASSUME SceneAssumption == o1 \in Officers /\ c1 \in Clients

VARIABLE scene

scenes == <<engineVars, sheetVars, leaveRowVars, bookingRowVars, scene>>

(* Two levels, the first of which may be skipped; both may reject, the second asks *)
(* for approvals.                                                                   *)
WorkflowStates == {"submitted", "review", "approved", "rejected"}
WorkflowKeys == {"plain", "reviewed"}
Starts == [k \in WorkflowKeys |-> IF k = "plain" THEN "submitted" ELSE "review"]
Move(from, name, to) == [from |-> from, name |-> name, to |-> to]
WorkflowMoves ==
    {Move("submitted", "approve", "approved"), Move("submitted", "reject", "rejected"),
     Move("submitted", "escalate", "review"),
     Move("review", "approve", "approved"), Move("review", "reject", "rejected")}
Escalation == {Move("submitted", "escalate", "review")}
Ends == {"approved", "rejected"}
ApprovalStates == {"review"}

MCInit == TimesheetInit /\ LeaveInit /\ BookingInit
          /\ scene \in {"engine", "timesheets", "sheet", "leave", "calendar", "approval"}

(* Two clients of the engine, one instance, a failure or a crash. *)
EngineScene ==
    /\ scene = "engine"
    /\ EngineNext
    /\ instances'[2].status = "NONE"
    /\ UNCHANGED <<sheetVars, leaveRowVars, bookingRowVars, scene>>

(* Two officers at one timesheet, one instance, a failure or a crash. *)
TimesheetScene ==
    /\ scene = "timesheets"
    /\ \/ \E t \in Officers : TimesheetStep(t) \/ TimesheetFault(t)
                              \/ \E s \in Sheets : TimesheetRequest(t, s)
       \/ TimesheetCrash
    /\ instances'[2].status = "NONE"
    /\ UNCHANGED <<leaveRowVars, bookingRowVars, scene>>

(* One officer at the timesheet with one entry, one client of the engine. *)
SheetScene ==
    /\ scene = "sheet"
    /\ \/ TimesheetStep(o1) \/ \E s \in Sheets : TimesheetRequest(o1, s)
       \/ (Request(c1) \/ EngineStep(c1)) /\ UNCHANGED sheetVars
    /\ \A s \in Sheets : entries'[s] < MaxEntries
    /\ UNCHANGED <<leaveRowVars, bookingRowVars, scene>>

LeaveScene ==
    /\ scene = "leave"
    /\ (\E t \in Officers : LeaveStep(t)) \/ LeaveCrash
    /\ UNCHANGED <<sheetVars, bookingRowVars, scene>>

(* Two officers, two bookings that need no approval, three days.  A handler that *)
(* fails here leaves nothing behind.                                              *)
CalendarScene ==
    /\ scene = "calendar"
    /\ (\E t \in Officers : BookingStep(t)) \/ Tomorrow
    /\ faults' = 0
    /\ \A t \in Officers : bpc'[t] # "start"
    /\ UNCHANGED <<sheetVars, leaveRowVars, scene>>

(* Two officers, one booking and its workflow, a failure or a crash. *)
ApprovalScene ==
    /\ scene = "approval"
    /\ (\E t \in Officers : BookingStep(t)) \/ Tomorrow \/ BookingCrash
    /\ bookings'[2].status = "NONE"
    /\ \A t \in Officers : booking'[t].row.endDate < LastDay
    /\ UNCHANGED <<sheetVars, leaveRowVars, scene>>

MCNext ==
    \/ EngineScene \/ TimesheetScene \/ SheetScene \/ LeaveScene
    \/ CalendarScene \/ ApprovalScene

MCSpec == MCInit /\ [][MCNext]_scenes

-----------------------------------------------------------------------------
(* Properties of all the scenes. *)

(* The tables and the handlers' local entities keep the shape of their columns. *)
WorkflowsTypeOK == EngineTypeOK /\ TimesheetTypeOK /\ LeaveTypeOK /\ BookingTypeOK

(* What is rejected or cancelled in a service has its workflow cancelled with it,  *)
(* although the services go on when the engine throws: leave requests and bookings. *)
CancelledRowsEndTheirWorkflow == CancelledLeaveIsOver /\ RefusedBookingsEndTheirWorkflow

(* Workflows move as their definitions say, and what is decided stays decided:     *)
(* only a handler that read a row before the decision undoes it, in the engine and *)
(* in each of the services.                                                        *)
DecisionsStay ==
    [][InstancesFollowDefinition /\ LockedSheetsKept /\ CancelledLeaveKept /\ EndedBookingsKept]_scenes
=============================================================================
