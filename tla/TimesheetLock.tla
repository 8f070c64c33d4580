---------------------------- MODULE TimesheetLock ----------------------------
(***************************************************************************)
(* Timesheets (src/src/timesheets) on top of the workflow engine: entries  *)
(* and the totals computed from them, submission, the decision, and the    *)
(* lock that an approval puts on the sheet.  Every handler saves the whole *)
(* sheet it has read some awaits before.  An entry counts one hour.        *)
(* What the engine throws is swallowed, so a sheet is decided whether or   *)
(* not its workflow moved; it never does (WorkflowEngine, SaveMove).       *)
(***************************************************************************)
EXTENDS WorkflowEngine

CONSTANTS
    Sheets,         \* one for each employee and period
    MaxEntries      \* bound: entries ever added to a sheet

TimesheetStatus == {"NONE", "DRAFT", "SUBMITTED", "APPROVED", "REJECTED"}
Timesheet ==
    [status: TimesheetStatus, isLocked: BOOLEAN, totalHours: 0 .. MaxEntries,
     workflowInstanceId: 0 .. MaxInstances]

ASSUME TimesheetAssumption ==
    Sheets \subseteq Entities /\ Sheets # {} /\ MaxEntries \in Nat

VARIABLES
    sheets,         \* rows of timesheets
    entries,        \* how many rows of timesheet_entries a sheet has
    tpc,            \* the await of the service a handler stands at
    held,           \* the sheet it works on, the row it has read, and as it will save it
    irregular       \* history: sheets saved on a stale reading, or left without their sum

sheetVars == <<sheets, entries, tpc, held, irregular>>
timesheetVars == <<engineVars, sheetVars>>

NoSheet == [status |-> "NONE", isLocked |-> FALSE, totalHours |-> 0, workflowInstanceId |-> 0]

(* goal: what a handler does after the totals; "none" while it does not recalculate. *)
(* loaded: how many entries were read with the sheet.                                *)
NotHeld(s) == [id |-> s, read |-> NoSheet, row |-> NoSheet, loaded |-> 0, goal |-> "none"]
AnySheet == CHOOSE s \in Sheets : TRUE
Nothing == NotHeld(AnySheet)

TimesheetInit ==
    /\ EngineInit
    /\ sheets = [s \in Sheets |-> NoSheet]
    /\ entries = [s \in Sheets |-> 0]
    /\ tpc = [t \in Officers |-> "idle"]
    /\ held = [t \in Officers |-> Nothing]
    /\ irregular = {}

CanBeEdited(r) == ~r.isLocked /\ r.status \in {"DRAFT", "REJECTED"}

At(t, label, h) ==
    /\ tpc' = [tpc EXCEPT ![t] = label]
    /\ held' = [held EXCEPT ![t] = h]
Done(t) == At(t, "idle", Nothing)

(* The handler holds sheet s as it is, and will save it as row. *)
Hold(s, row) == [NotHeld(s) EXCEPT !.read = sheets[s], !.row = row]

(* repository.save of the row held. *)
SaveSheet(t, row) ==
    LET s == held[t].id IN
    /\ sheets' = [sheets EXCEPT ![s] = row]
    /\ irregular' = IF sheets[s] = held[t].read THEN irregular ELSE irregular \cup {s}

-----------------------------------------------------------------------------
(* Of two creations for one employee and period the second violates the unique index. *)
GetOrCreateTimesheet(t, s) ==
    /\ tpc[t] = "idle"
    /\ sheets[s].status = "NONE"
    /\ sheets' = [sheets EXCEPT ![s].status = "DRAFT"]
    /\ UNCHANGED <<engineVars, entries, tpc, held, irregular>>

CreateTimesheetEntry(t, s) ==
    /\ tpc[t] = "idle"
    /\ sheets[s].status # "NONE" /\ CanBeEdited(sheets[s])
    /\ entries[s] < MaxEntries
    /\ At(t, "entry", [NotHeld(s) EXCEPT !.goal = "entry"])
    /\ UNCHANGED <<engineVars, sheets, entries, irregular>>

InsertEntry(t) ==
    LET s == held[t].id IN
    /\ tpc[t] = "entry"
    /\ entries[s] < MaxEntries
    /\ entries' = [entries EXCEPT ![s] = @ + 1]
    /\ At(t, "recalculate", held[t])
    /\ UNCHANGED <<engineVars, sheets, irregular>>

(* A client asks for the totals of any sheet. *)
RequestTotals(t, s) ==
    /\ tpc[t] = "idle"
    /\ sheets[s].status # "NONE"
    /\ At(t, "recalculate", [NotHeld(s) EXCEPT !.goal = "totals"])
    /\ UNCHANGED <<engineVars, sheets, entries, irregular>>

(* A handler that ends before the totals are saved leaves its entry without a sum. *)
Unsummed(t) ==
    IF tpc[t] \in {"recalculate", "sum", "saveTotals"} /\ held[t].goal = "entry"
    THEN {held[t].id} ELSE {}

(* A sheet that is locked by now is refused: the new entry is in, the sum is not. *)
RecalculateTimesheet(t) ==
    LET s == held[t].id IN
    /\ tpc[t] = "recalculate"
    /\ IF sheets[s].isLocked
       THEN Done(t) /\ irregular' = irregular \cup Unsummed(t)
       ELSE /\ At(t, "sum", [id |-> s, read |-> sheets[s], row |-> sheets[s],
                             loaded |-> entries[s], goal |-> held[t].goal])
            /\ UNCHANGED irregular
    /\ UNCHANGED <<engineVars, sheets, entries>>

FindEntries(t) ==
    /\ tpc[t] = "sum"
    /\ At(t, "saveTotals", [held[t] EXCEPT !.row.totalHours = entries[held[t].id]])
    /\ UNCHANGED <<engineVars, sheets, entries, irregular>>

(* Mutant: the old totals are saved. *)
SaveTotalsForgotten(t) ==
    LET h == held[t] IN
    /\ tpc[t] = "saveTotals"
    /\ IF entries[h.id] = h.loaded
       THEN /\ SaveSheet(t, h.read)
            /\ IF h.goal = "submit" THEN At(t, "reread", NotHeld(h.id)) ELSE Done(t)
       ELSE Done(t) /\ UNCHANGED <<sheets, irregular>>
    /\ UNCHANGED <<engineVars, entries>>

(* The sheet was read with its entries.  Its save takes an entry that came since for *)
(* removed, sets its timesheet_id to null, which the column refuses, and throws: the *)
(* handler ends, a submission too, and the sum is left to the handler of that entry.  *)
SaveTotals(t) ==
    LET h == held[t] IN
    /\ tpc[t] = "saveTotals"
    /\ IF entries[h.id] = h.loaded
       THEN /\ SaveSheet(t, h.row)
            /\ IF h.goal = "submit" THEN At(t, "reread", NotHeld(h.id)) ELSE Done(t)
       ELSE Done(t) /\ UNCHANGED <<sheets, irregular>>
    /\ UNCHANGED <<engineVars, entries>>

-----------------------------------------------------------------------------
SubmitTimesheet(t, s) ==
    /\ tpc[t] = "idle"
    /\ sheets[s].status = "DRAFT" /\ ~sheets[s].isLocked
    /\ At(t, "recalculate", [NotHeld(s) EXCEPT !.goal = "submit"])
    /\ UNCHANGED <<engineVars, sheets, entries, irregular>>

(* Whatever the row says by now, approved and locked included; a workflow is *)
(* started when the client names one.                                        *)
RereadTimesheet(t) ==
    LET s == held[t].id IN
    /\ tpc[t] = "reread"
    /\ \E label \in {"startWorkflow", "saveSubmitted"} :
         At(t, label, Hold(s, [sheets[s] EXCEPT !.status = "SUBMITTED"]))
    /\ irregular' = IF sheets[s].status = "DRAFT" THEN irregular ELSE irregular \cup {s}
    /\ UNCHANGED <<engineVars, sheets, entries>>

StartWorkflow(t) ==
    /\ tpc[t] = "startWorkflow"
    /\ \E k \in Keys : FindByEntity(t, held[t].id, k)
    /\ At(t, "saveSubmitted", held[t])
    /\ UNCHANGED <<sheets, entries, irregular>>

SaveSubmitted(t) ==
    /\ tpc[t] = "saveSubmitted"
    /\ Resume(t)
    /\ SaveSheet(t, IF wpc[t] = "returned" THEN [held[t].row EXCEPT !.workflowInstanceId = call[t].id]
                    ELSE held[t].row)
    /\ Done(t)
    /\ UNCHANGED entries

Decided(s, verdict) ==
    [sheets[s] EXCEPT !.status = verdict, !.isLocked = IF verdict = "APPROVED" THEN TRUE ELSE @]

(* Mutant: the status is not looked at. *)
DecideAnyStatus(t, s, verdict) ==
    LET label == IF sheets[s].workflowInstanceId = 0 THEN "saveDecided" ELSE "transition" IN
    /\ tpc[t] = "idle"
    /\ sheets[s].status # "NONE"
    /\ At(t, label, Hold(s, Decided(s, verdict)))
    /\ UNCHANGED <<engineVars, sheets, entries, irregular>>

Decide(t, s, verdict) ==
    LET label == IF sheets[s].workflowInstanceId = 0 THEN "saveDecided" ELSE "transition" IN
    /\ tpc[t] = "idle"
    /\ sheets[s].status = "SUBMITTED"
    /\ At(t, label, Hold(s, Decided(s, verdict)))
    /\ UNCHANGED <<engineVars, sheets, entries, irregular>>

ApproveTimesheet(t, s) == Decide(t, s, "APPROVED")
RejectTimesheet(t, s) == Decide(t, s, "REJECTED")

TransitionWorkflow(t) ==
    LET row == held[t].row IN
    /\ tpc[t] = "transition"
    /\ FindForTransition(t, row.workflowInstanceId, IF row.status = "APPROVED" THEN "approve" ELSE "reject")
    /\ At(t, "saveDecided", held[t])
    /\ UNCHANGED <<sheets, entries, irregular>>

SaveDecided(t) ==
    /\ tpc[t] = "saveDecided"
    /\ Resume(t)
    /\ SaveSheet(t, held[t].row)
    /\ Done(t)
    /\ UNCHANGED entries

-----------------------------------------------------------------------------
(* An await rejects; what the engine throws is swallowed by the service, and the *)
(* sheet is saved as if the workflow had moved.                                  *)
TimesheetFault(t) ==
    /\ tpc[t] # "idle"
    /\ \/ /\ EngineFault(t)
          /\ irregular' = irregular \cup {held[t].id}
          /\ UNCHANGED <<tpc, held>>
       \/ /\ ServiceFault(t)
          /\ irregular' = irregular \cup Unsummed(t)
          /\ Done(t)
    /\ UNCHANGED <<sheets, entries>>

TimesheetCrash ==
    /\ EngineCrash
    /\ irregular' = irregular \cup UNION {Unsummed(t) : t \in Officers}
    /\ tpc' = [t \in Officers |-> "idle"]
    /\ held' = [t \in Officers |-> Nothing]
    /\ UNCHANGED <<sheets, entries>>

TimesheetRequest(t, s) ==
    \/ GetOrCreateTimesheet(t, s) \/ CreateTimesheetEntry(t, s) \/ RequestTotals(t, s)
    \/ SubmitTimesheet(t, s)
    \/ ApproveTimesheet(t, s) \/ RejectTimesheet(t, s)

TimesheetStep(t) ==
    \/ InsertEntry(t) \/ RecalculateTimesheet(t) \/ FindEntries(t) \/ SaveTotals(t)
    \/ RereadTimesheet(t) \/ StartWorkflow(t) \/ SaveSubmitted(t)
    \/ TransitionWorkflow(t) \/ SaveDecided(t)
    \/ EngineStep(t) /\ UNCHANGED sheetVars

TimesheetNext ==
    \/ \E t \in Officers : \/ TimesheetStep(t) \/ TimesheetFault(t)
                           \/ \E s \in Sheets : TimesheetRequest(t, s)
    \/ \E t \in Clients : (Request(t) \/ EngineStep(t) \/ EngineFault(t)) /\ UNCHANGED sheetVars
    \/ TimesheetCrash

TimesheetSpec == TimesheetInit /\ [][TimesheetNext]_timesheetVars

-----------------------------------------------------------------------------
(* Properties. *)

Holding ==
    [id: Sheets, read: Timesheet, row: Timesheet, loaded: 0 .. MaxEntries,
     goal: {"none", "entry", "totals", "submit"}]
TimesheetLabels ==
    {"idle", "entry", "recalculate", "sum", "saveTotals", "reread", "startWorkflow",
     "saveSubmitted", "transition", "saveDecided"}

(* The tables and the handlers' local entities keep the shape of their columns. *)
TimesheetTypeOK ==
    /\ sheets \in [Sheets -> Timesheet]
    /\ entries \in [Sheets -> 0 .. MaxEntries]
    /\ tpc \in [Officers -> TimesheetLabels]
    /\ held \in [Officers -> Holding]
    /\ irregular \subseteq Sheets

(* The hours of a locked sheet are the sum of its entries, unless a stale save, a *)
(* refused or failed recalculation came between, or one is still to come.         *)
LockedTotalsAreSums ==
    \A s \in Sheets \ irregular :
        sheets[s].isLocked =>
            \/ sheets[s].totalHours = entries[s]
            \/ \E t \in Officers : held[t].goal = "entry" /\ held[t].id = s

(* An approved sheet stays as it is: only a handler that read it before the lock *)
(* changes it.                                                                   *)
LockedSheetsKept ==
    \A s \in Sheets : sheets[s].isLocked /\ s \notin irregular' => sheets'[s] = sheets[s]
=============================================================================
