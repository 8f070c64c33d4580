---------------------------- MODULE LeaveRequests ----------------------------
(***************************************************************************)
(* Leave requests (src/src/leave/services/leave-request.service.ts) on top *)
(* of the workflow engine.  A request is saved, its workflow is started,   *)
(* and the request is saved again with the workflow's id; clients see it   *)
(* from the first save on.                                                 *)
(***************************************************************************)
EXTENDS WorkflowEngine

CONSTANT Leaves         \* ids of leave requests

LeaveRequestStatus == {"NONE", "PENDING", "CANCELLED"}  \* no code sets APPROVED or REJECTED
LeaveRequest ==
    [status: LeaveRequestStatus, workflowInstanceId: 0 .. MaxInstances]

ASSUME LeaveAssumption == Leaves \subseteq Entities /\ Leaves # {}

VARIABLES
    leaves,         \* rows of leave_requests
    lpc,            \* the await of the service a handler stands at
    leave,          \* the request it works on: the row it has read, and as it will save it
    staleLeaves     \* history: requests saved from a stale row, or whose workflow call failed

leaveRowVars == <<leaves, lpc, leave, staleLeaves>>
leaveVars == <<engineVars, leaveRowVars>>

NoLeave == [status |-> "NONE", workflowInstanceId |-> 0]
NotOnLeave == [id |-> CHOOSE l \in Leaves : TRUE, read |-> NoLeave, row |-> NoLeave]

LeaveInit ==
    /\ EngineInit
    /\ leaves = [l \in Leaves |-> NoLeave]
    /\ lpc = [t \in Officers |-> "idle"]
    /\ leave = [t \in Officers |-> NotOnLeave]
    /\ staleLeaves = {}

LeaveAt(t, label, h) ==
    /\ lpc' = [lpc EXCEPT ![t] = label]
    /\ leave' = [leave EXCEPT ![t] = h]

SaveLeave(t, row) ==
    LET l == leave[t].id IN
    /\ leaves' = [leaves EXCEPT ![l] = row]
    /\ staleLeaves' = IF leaves[l] = leave[t].read THEN staleLeaves ELSE staleLeaves \cup {l}

-----------------------------------------------------------------------------
CreateLeaveRequest(t, l) ==
    LET row == [NoLeave EXCEPT !.status = "PENDING"] IN
    /\ lpc[t] = "idle"
    /\ leaves[l].status = "NONE"
    /\ leaves' = [leaves EXCEPT ![l] = row]
    /\ LeaveAt(t, "start", [id |-> l, read |-> row, row |-> row])
    /\ UNCHANGED <<engineVars, staleLeaves>>

StartLeaveWorkflow(t) ==
    /\ lpc[t] = "start"
    /\ \E k \in Keys : FindByEntity(t, leave[t].id, k)
    /\ LeaveAt(t, "saveId", leave[t])
    /\ UNCHANGED <<leaves, staleLeaves>>

SaveWorkflowId(t) ==
    /\ lpc[t] = "saveId"
    /\ Resume(t)
    /\ IF wpc[t] = "returned"
       THEN SaveLeave(t, [leave[t].row EXCEPT !.workflowInstanceId = call[t].id])
       ELSE UNCHANGED <<leaves, staleLeaves>>
    /\ LeaveAt(t, "idle", NotOnLeave)

(* Dates, reason and notes are left out; the status and the id are saved as read. *)
UpdateLeaveRequest(t, l) ==
    /\ lpc[t] = "idle"
    /\ leaves[l].status = "PENDING"
    /\ LeaveAt(t, "saveUpdate", [id |-> l, read |-> leaves[l], row |-> leaves[l]])
    /\ UNCHANGED <<engineVars, leaves, staleLeaves>>

CancelLeaveRequest(t, l) ==
    LET label == IF leaves[l].workflowInstanceId = 0 THEN "saveUpdate" ELSE "cancel" IN
    /\ lpc[t] = "idle"
    /\ leaves[l].status = "PENDING"
    /\ LeaveAt(t, label, [id |-> l, read |-> leaves[l], row |-> [leaves[l] EXCEPT !.status = "CANCELLED"]])
    /\ UNCHANGED <<engineVars, leaves, staleLeaves>>

(* Mutant: the workflow is left alone. *)
CancelLeaveWorkflowForgotten(t) ==
    /\ lpc[t] = "cancel"
    /\ LeaveAt(t, "saveUpdate", leave[t])
    /\ UNCHANGED <<engineVars, leaves, staleLeaves>>

CancelLeaveWorkflow(t) ==
    /\ lpc[t] = "cancel"
    /\ FindForCancel(t, leave[t].row.workflowInstanceId)
    /\ LeaveAt(t, "saveUpdate", leave[t])
    /\ UNCHANGED <<leaves, staleLeaves>>

SaveLeaveRequest(t) ==
    /\ lpc[t] = "saveUpdate"
    /\ Resume(t)
    /\ SaveLeave(t, leave[t].row)
    /\ LeaveAt(t, "idle", NotOnLeave)

(* An await rejects.  What the engine throws is swallowed; the rest ends the handler. *)
LeaveFault(t) ==
    /\ lpc[t] # "idle"
    /\ \/ /\ EngineFault(t)
          /\ staleLeaves' = staleLeaves \cup {leave[t].id}
          /\ UNCHANGED <<lpc, leave>>
       \/ /\ ServiceFault(t)
          /\ LeaveAt(t, "idle", NotOnLeave)
          /\ UNCHANGED staleLeaves
    /\ UNCHANGED leaves

LeaveCrash ==
    /\ EngineCrash
    /\ lpc' = [t \in Officers |-> "idle"]
    /\ leave' = [t \in Officers |-> NotOnLeave]
    /\ UNCHANGED <<leaves, staleLeaves>>

LeaveStep(t) ==
    \/ \E l \in Leaves :
         CreateLeaveRequest(t, l) \/ UpdateLeaveRequest(t, l) \/ CancelLeaveRequest(t, l)
    \/ StartLeaveWorkflow(t) \/ SaveWorkflowId(t) \/ CancelLeaveWorkflow(t)
    \/ SaveLeaveRequest(t) \/ LeaveFault(t)
    \/ EngineStep(t) /\ UNCHANGED leaveRowVars

LeaveNext ==
    \/ \E t \in Officers : LeaveStep(t)
    \/ \E t \in Clients : (Request(t) \/ EngineStep(t) \/ EngineFault(t)) /\ UNCHANGED leaveRowVars
    \/ LeaveCrash

LeaveSpec == LeaveInit /\ [][LeaveNext]_leaveVars

-----------------------------------------------------------------------------
(* Properties. *)

OnLeave == [id: Leaves, read: LeaveRequest, row: LeaveRequest]

(* The tables and the handlers' local entities keep the shape of their columns. *)
LeaveTypeOK ==
    /\ leaves \in [Leaves -> LeaveRequest]
    /\ lpc \in [Officers -> {"idle", "start", "saveId", "saveUpdate", "cancel"}]
    /\ leave \in [Officers -> OnLeave]
    /\ staleLeaves \subseteq Leaves

(* The workflow of a cancelled request is cancelled with it: a handler that read   *)
(* the row before, or an engine call that failed and was swallowed, is the only way *)
(* to a cancelled request with a workflow under way.                                *)
CancelledLeaveIsOver ==
    \A l \in Leaves \ staleLeaves :
        LET i == leaves[l].workflowInstanceId IN
        leaves[l].status = "CANCELLED" /\ i # 0 => instances[i].status = "CANCELLED"

(* A cancelled request comes back only by a handler that read it before. *)
CancelledLeaveKept ==
    \A l \in Leaves \ staleLeaves' :
        leaves[l].status = "CANCELLED" => leaves'[l].status = "CANCELLED"
=============================================================================
