------------------------ MODULE WorkflowServiceProofs ------------------------
(***************************************************************************)
(* The services on top of the workflow engine, for any rows, handlers,     *)
(* workflow definitions and bounds: timesheets, leave requests, equipment  *)
(* bookings, each with clients of the engine at work beside it.            *)
(***************************************************************************)
EXTENDS MCWorkflows, WorkflowEngineProofs

(* A handler that has asked the engine to start a workflow: when the start has *)
(* returned, the instance it names is there.                                   *)
Starting(t) ==
    wpc[t] \in {"insert"} \cup RestLabels /\ (wpc[t] = "returned" => Exists(call[t].id))

-----------------------------------------------------------------------------
(* Timesheets. *)

(* A new entry is in, and the handler that added it will save a total that counts it: *)
(* no entry has come since it read the sheet, or it has yet to read it.               *)
WillCount(t, s) ==
    /\ held[t].goal = "entry" /\ held[t].id = s
    /\ tpc[t] \in {"recalculate", "sum", "saveTotals"}
    /\ tpc[t] \in {"sum", "saveTotals"} => held[t].loaded = entries[s]

(* The hours of a sheet never exceed its entries, and are short of them only while *)
(* a handler is about to save the sum.                                             *)
TotalsBounded == \A s \in Sheets : sheets[s].totalHours <= entries[s]
TotalsCounted ==
    \A s \in Sheets \ irregular :
        sheets[s].totalHours = entries[s] \/ \E t \in Officers : WillCount(t, s)

LocksDecided == \A s \in Sheets \ irregular : sheets[s].isLocked => sheets[s].status = "APPROVED"
SheetWorkflowsExist ==
    \A s \in Sheets : sheets[s].workflowInstanceId # 0 => Exists(sheets[s].workflowInstanceId)

(* What handler t has read and will save. *)
SheetHeldOK(t) ==
    LET h == held[t] IN
    /\ tpc[t] = "entry" => h.goal = "entry"
    /\ tpc[t] \in {"idle", "reread", "startWorkflow", "saveSubmitted", "transition", "saveDecided"}
         => h.goal = "none"
    /\ h.row.totalHours <= entries[h.id]
    /\ tpc[t] = "sum" => h.loaded <= entries[h.id]
    /\ tpc[t] = "saveTotals" => h.loaded <= h.row.totalHours
    /\ tpc[t] \in {"sum", "saveTotals", "startWorkflow", "saveSubmitted", "transition", "saveDecided"} =>
         /\ h.id \in irregular \/ ~h.read.isLocked
         /\ h.row.workflowInstanceId = h.read.workflowInstanceId
    /\ tpc[t] \in {"startWorkflow", "saveSubmitted", "transition", "saveDecided"} =>
         h.row.totalHours = h.read.totalHours
    /\ tpc[t] \in {"sum", "saveTotals"} =>
         h.row.status = h.read.status /\ h.row.isLocked = h.read.isLocked
    /\ tpc[t] \in {"startWorkflow", "saveSubmitted"} =>
         h.row.status = "SUBMITTED" /\ h.row.isLocked = h.read.isLocked
    /\ tpc[t] \in {"transition", "saveDecided"} =>
         /\ h.row.status \in {"APPROVED", "REJECTED"}
         /\ h.row.status # "APPROVED" => h.row.isLocked = h.read.isLocked

(* Where its call of the engine stands. *)
SheetEngineOK(t) ==
    LET h == held[t] IN
    /\ h.row.workflowInstanceId # 0 => Exists(h.row.workflowInstanceId)
    /\ tpc[t] = "transition" => h.row.workflowInstanceId # 0
    /\ tpc[t] = "saveSubmitted" => Starting(t)
    /\ tpc[t] \notin {"saveSubmitted", "saveDecided"} => wpc[t] = "idle"

SheetTablesOK ==
    TotalsBounded /\ TotalsCounted /\ LocksDecided /\ SheetWorkflowsExist

SheetInv ==
    /\ TimesheetTypeOK
    /\ \A t \in Officers : SheetHeldOK(t) /\ SheetEngineOK(t)
    /\ SheetTablesOK

-----------------------------------------------------------------------------
(* Lemmas about what the engine leaves alone. *)

LEMMA ExistsKept ==
    ASSUME NEW t \in Handlers, EngineFrame(t), NEW i, Exists(i)
    PROVE  Exists(i)'
BY DEF EngineFrame, Exists

LEMMA EndedKept ==
    ASSUME NEW t \in Handlers, EngineFrame(t), NEW i, Exists(i), Ended(i)
    PROVE  Ended(i)'
BY DEF EngineFrame, Exists, Ended

-----------------------------------------------------------------------------
(* Timesheets: types. *)

OtherSheetHandlersStand(t) ==
    \A u \in Officers \ {t} : tpc'[u] = tpc[u] /\ held'[u] = held[u]

LEMMA SheetConstants ==
    /\ NoSheet \in Timesheet /\ AnySheet \in Sheets /\ Nothing \in Holding
    /\ \A s \in Sheets : NotHeld(s) \in Holding
<1>1. NoSheet \in Timesheet
  BY WorkflowAssumption, TimesheetAssumption DEF NoSheet, Timesheet, TimesheetStatus
<1>2. AnySheet \in Sheets
  BY TimesheetAssumption DEF AnySheet
<1>3. \A s \in Sheets : NotHeld(s) \in Holding
  BY <1>1, TimesheetAssumption DEF NotHeld, Holding
<1>4. QED
  BY <1>1, <1>2, <1>3 DEF Nothing

LEMMA AtFacts ==
    ASSUME NEW t \in Officers, NEW label \in TimesheetLabels, NEW h \in Holding,
           TimesheetTypeOK, At(t, label, h)
    PROVE  /\ tpc' \in [Officers -> TimesheetLabels] /\ held' \in [Officers -> Holding]
           /\ tpc'[t] = label /\ held'[t] = h /\ OtherSheetHandlersStand(t)
BY DEF TimesheetTypeOK, At, OtherSheetHandlersStand

LEMMA HeldTyped ==
    ASSUME TimesheetTypeOK, NEW t \in Officers
    PROVE  /\ held[t] \in Holding /\ held[t].id \in Sheets
           /\ held[t].read \in Timesheet /\ held[t].row \in Timesheet
           /\ sheets[held[t].id] \in Timesheet /\ entries[held[t].id] \in 0 .. MaxEntries
BY DEF TimesheetTypeOK, Holding

LEMMA HoldTyped ==
    ASSUME TimesheetTypeOK, NEW s \in Sheets, NEW row \in Timesheet
    PROVE  /\ Hold(s, row) \in Holding
           /\ Hold(s, row).id = s /\ Hold(s, row).read = sheets[s] /\ Hold(s, row).row = row
           /\ Hold(s, row).goal = "none" /\ Hold(s, row).loaded = 0
<1>1. sheets[s] \in Timesheet
  BY DEF TimesheetTypeOK
<1>2. NotHeld(s) \in Holding /\ NotHeld(s).id = s /\ NotHeld(s).goal = "none" /\ NotHeld(s).loaded = 0
  BY SheetConstants DEF NotHeld
<1>3. QED
  BY <1>1, <1>2 DEF Hold, Holding

-----------------------------------------------------------------------------
(* Timesheets: what a step has to show. *)

LEMMA OtherSheetHandlersOK ==
    ASSUME NEW t \in Handlers, EngineFrame(t), TimesheetTypeOK, TimesheetTypeOK',
           irregular \subseteq irregular', \A s \in Sheets : entries[s] <= entries'[s],
           NEW u \in Officers, u # t, tpc'[u] = tpc[u], held'[u] = held[u],
           SheetHeldOK(u), SheetEngineOK(u)
    PROVE  SheetHeldOK(u)' /\ SheetEngineOK(u)'
<1> DEFINE h == held[u]
           i == h.row.workflowInstanceId
<1>1. h \in Holding /\ h.id \in Sheets /\ h.read \in Timesheet /\ h.row \in Timesheet
  BY HeldTyped
<1>2. wpc'[u] = wpc[u] /\ call'[u] = call[u]
  BY DEF EngineFrame, OthersStand, Handlers
<1>3. SheetHeldOK(u)'
  <2>1. entries[h.id] \in Nat /\ entries'[h.id] \in Nat /\ entries[h.id] <= entries'[h.id]
        /\ h.row.totalHours \in Nat
    BY <1>1 DEF TimesheetTypeOK, Timesheet
  <2>2. h.row.totalHours <= entries'[h.id]
    BY <2>1 DEF SheetHeldOK
  <2>3. h.loaded <= entries[h.id] => h.loaded <= entries'[h.id]
    <3>1. h.loaded \in Nat
      BY <1>1 DEF Holding
    <3>2. QED
      BY <2>1, <3>1
  <2>4. QED
    BY <1>1, <2>2, <2>3 DEF SheetHeldOK
<1>4. i # 0 => Exists(i) /\ Exists(i)'
  BY ExistsKept DEF SheetEngineOK
<1>6. Starting(u) => Starting(u)'
  <2>1. \A j : Exists(j) => Exists(j)'
    BY ExistsKept
  <2>2. Exists(call[u].id) => Exists(call[u].id)'
    BY <1>2, <2>1 DEF Exists
  <2>3. QED
    BY <1>2, <2>2 DEF Starting
<1>7. SheetEngineOK(u)'
  <2>1. (held[u].row.workflowInstanceId # 0 => Exists(held[u].row.workflowInstanceId))'
    BY <1>4 DEF Exists
  <2>2. QED
    BY <1>2, <1>6, <2>1 DEF SheetEngineOK
<1>8. QED
  BY <1>3, <1>7

LEMMA SheetStep ==
    ASSUME NEW t \in Handlers, EngineFrame(t), SheetInv,
           TimesheetTypeOK', SheetTablesOK', irregular \subseteq irregular',
           \A s \in Sheets : entries[s] <= entries'[s],
           OtherSheetHandlersStand(t),
           t \in Officers => SheetHeldOK(t)' /\ SheetEngineOK(t)'
    PROVE  SheetInv'
<1>1. ASSUME NEW u \in Officers PROVE SheetHeldOK(u)' /\ SheetEngineOK(u)'
  <2>1. CASE u = t
    BY <2>1
  <2>2. CASE u # t
    BY <2>2, OtherSheetHandlersOK DEF SheetInv, OtherSheetHandlersStand
  <2>3. QED
    BY <2>1, <2>2
<1>2. QED
  BY <1>1 DEF SheetInv

-----------------------------------------------------------------------------
(* Timesheets: the tables. *)

(* A step that leaves the sheets and their entries alone. *)
LEMMA SheetsStay ==
    ASSUME NEW t \in Handlers, EngineFrame(t), SheetInv,
           UNCHANGED <<sheets, entries>>, irregular \subseteq irregular',
           \A s \in Sheets \ irregular' : \A u \in Officers : WillCount(u, s) => WillCount(u, s)'
    PROVE  SheetTablesOK'
<1>1. TotalsBounded' /\ TotalsCounted' /\ LocksDecided'
  BY DEF SheetInv, SheetTablesOK, TotalsBounded, TotalsCounted, LocksDecided
<1>2. SheetWorkflowsExist'
  <2>1. \A i : Exists(i) => Exists(i)'
    BY ExistsKept
  <2>2. QED
    BY <2>1 DEF SheetInv, SheetTablesOK, SheetWorkflowsExist, Exists
<1>4. QED
  BY <1>1, <1>2 DEF SheetTablesOK

(* A save of the sheet held. *)
LEMMA SheetSaved ==
    ASSUME NEW t \in Officers, EngineFrame(t), SheetInv, NEW row \in Timesheet,
           SaveSheet(t, row), UNCHANGED entries, OtherSheetHandlersStand(t),
           row.totalHours <= entries[held[t].id],
           \/ row.totalHours = held[t].read.totalHours /\ held[t].goal # "entry"
           \/ row.totalHours = entries[held[t].id],
           held[t].id \notin irregular /\ row.isLocked => row.status = "APPROVED",
           row.workflowInstanceId # 0 => Exists(row.workflowInstanceId)
    PROVE  SheetTablesOK'
<1> DEFINE s == held[t].id
<1>1. TimesheetTypeOK /\ SheetTablesOK /\ SheetHeldOK(t)
  BY DEF SheetInv
<1>2. held[t] \in Holding /\ s \in Sheets /\ held[t].read \in Timesheet /\ held[t].row \in Timesheet
      /\ sheets[s] \in Timesheet /\ entries[s] \in 0 .. MaxEntries
  BY <1>1, HeldTyped
<1>3. /\ sheets'[s] = row
      /\ \A x \in Sheets \ {s} : sheets'[x] = sheets[x]
      /\ irregular \subseteq irregular'
      /\ sheets[s] = held[t].read \/ s \in irregular'
      /\ UNCHANGED entries
  BY <1>1, <1>2 DEF SaveSheet, TimesheetTypeOK
<1>4. TotalsBounded'
  BY <1>1, <1>3 DEF SheetTablesOK, TotalsBounded
<1>5. LocksDecided'
  BY <1>1, <1>3 DEF SheetTablesOK, LocksDecided
<1>6. SheetWorkflowsExist'
  <2>1. \A i : Exists(i) => Exists(i)'
    BY ExistsKept DEF Handlers
  <2>2. ASSUME NEW x \in Sheets, sheets'[x].workflowInstanceId # 0
        PROVE  Exists(sheets'[x].workflowInstanceId)
    BY <1>1, <1>3, <2>2 DEF SheetTablesOK, SheetWorkflowsExist
  <2>3. ASSUME NEW x \in Sheets, sheets'[x].workflowInstanceId # 0
        PROVE  Exists(sheets[x].workflowInstanceId)'
    <3>1. \A i : i = sheets'[x].workflowInstanceId => Exists(i)'
      BY <2>1, <2>2, <2>3
    <3>2. QED
      BY <3>1 DEF Exists
  <2>4. QED
    BY <2>3 DEF SheetWorkflowsExist
<1>7. ASSUME NEW x \in Sheets \ irregular', NEW u \in Officers, u # t, WillCount(u, x)
      PROVE  WillCount(u, x)'
  BY <1>3, <1>7 DEF WillCount, OtherSheetHandlersStand
<1>8. TotalsCounted'
  <2>1. SUFFICES ASSUME NEW x \in Sheets \ irregular'
                 PROVE  sheets'[x].totalHours = entries'[x] \/ \E u \in Officers : WillCount(u, x)'
    BY DEF TotalsCounted
  <2>2. sheets[x].totalHours = entries[x] \/ \E u \in Officers : WillCount(u, x)
    BY <1>1, <1>3 DEF SheetTablesOK, TotalsCounted
  <2>3. CASE x # s
    <3>1. ~WillCount(t, x)
      BY <2>3 DEF WillCount
    <3>2. QED
      BY <1>3, <1>7, <2>2, <2>3, <3>1
  <2>4. CASE x = s /\ row.totalHours = held[t].read.totalHours /\ held[t].goal # "entry"
    <3>1. ~WillCount(t, x)
      BY <2>4 DEF WillCount
    <3>2. QED
      BY <1>3, <1>7, <2>2, <2>4, <3>1
  <2>5. CASE x = s /\ row.totalHours = entries[s]
    BY <1>3, <2>5
  <2>6. QED
    BY <2>3, <2>4, <2>5
<1>10. QED
  BY <1>4, <1>5, <1>6, <1>8 DEF SheetTablesOK

-----------------------------------------------------------------------------
(* Timesheets: steps of the engine. *)

LEMMA QuietFrame ==
    ASSUME NEW t \in Handlers, UNCHANGED engineVars
    PROVE  EngineFrame(t)
BY CallFrame DEF engineVars, OthersStand

(* The engine moves, of a client or for the service's handler. *)
LEMMA EngineMovesSheet ==
    ASSUME NEW t \in Handlers, EngineFrame(t), SheetInv,
           UNCHANGED <<sheets, entries, tpc, held>>,
           irregular \subseteq irregular', irregular' \subseteq Sheets,
           t \in Officers => SheetEngineOK(t)'
    PROVE  SheetInv'
<1>1. TimesheetTypeOK'
  BY DEF SheetInv, TimesheetTypeOK
<1>2. \A s \in Sheets \ irregular' : \A u \in Officers : WillCount(u, s) => WillCount(u, s)'
  BY DEF WillCount
<1>3. SheetTablesOK'
  BY <1>2, SheetsStay
<1>4. \A s \in Sheets : entries[s] <= entries'[s]
  BY DEF SheetInv, TimesheetTypeOK
<1>5. t \in Officers => SheetHeldOK(t)'
  BY DEF SheetInv, SheetHeldOK
<1>6. QED
  BY <1>1, <1>3, <1>4, <1>5, SheetStep DEF OtherSheetHandlersStand

LEMMA InsertedExists ==
    ASSUME NEW t \in Officers, EngineInv, InsertInstance(t)
    PROVE  Starting(t)'
<1>1. t \notin Clients
  BY WorkflowAssumption
<1>2. EngineTypeOK /\ InsertOK(t) /\ t \in Handlers
  BY DEF EngineInv, HandlerOK, Handlers
<1>3. PICK i \in Instances, outcome \in {"threw", "returned"} :
        /\ instances' = [instances EXCEPT ![i] = call[t].row] /\ call[t].row.status = "ACTIVE"
        /\ Goto(t, outcome, [NoCall EXCEPT !.id = i])
  BY <1>1, <1>2 DEF InsertInstance, InsertOK, CreateInitialApprovals
<1>4. [NoCall EXCEPT !.id = i].id = i
  BY DEF NoCall
<1>5. wpc'[t] = outcome /\ call'[t].id = i
  BY <1>2, <1>3, <1>4 DEF Goto, EngineTypeOK
<1>6. instances'[i].status = "ACTIVE"
  BY <1>2, <1>3 DEF EngineTypeOK
<1>7. Exists(i)'
  BY <1>6 DEF Exists
<1>8. QED
  BY <1>5, <1>7 DEF Starting, RestLabels, Exists

LEMMA SheetEngineStep ==
    ASSUME NEW t \in Officers, EngineInv, SheetInv, EngineStep(t), UNCHANGED sheetVars
    PROVE  SheetInv'
<1>1. UNCHANGED <<sheets, entries, tpc, held, irregular>> /\ t \in Handlers
  BY DEF sheetVars, Handlers
<1>2. EngineFrame(t) /\ SheetEngineOK(t) /\ TimesheetTypeOK
  BY <1>1, EngineStepFrame DEF SheetInv
<1> DEFINE i == held[t].row.workflowInstanceId
<1>3. i # 0 => Exists(i) /\ Exists(i)'
  BY <1>1, <1>2, ExistsKept DEF SheetEngineOK
<1>4. wpc[t] # "idle"
  BY DEF EngineStep, InsertInstance, RecordTransition, SaveMove, SaveCancel
<1>5. tpc[t] \in {"saveSubmitted", "saveDecided"}
  BY <1>2, <1>4 DEF SheetEngineOK
<1>7. ASSUME tpc[t] = "saveSubmitted" PROVE Starting(t)'
  <2>1. wpc[t] = "insert"
    BY <1>2, <1>7 DEF SheetEngineOK, Starting, RestLabels, EngineStep, InsertInstance,
       RecordTransition, SaveMove, SaveCancel
  <2>2. InsertInstance(t)
    BY <2>1 DEF EngineStep, InsertInstance, RecordTransition, SaveMove, SaveCancel
  <2>3. QED
    BY <2>2, InsertedExists
<1>8. SheetEngineOK(t)'
  <2>1. (held[t].row.workflowInstanceId # 0 => Exists(held[t].row.workflowInstanceId))'
    BY <1>1, <1>3 DEF Exists
  <2>2. QED
    BY <1>1, <1>2, <1>5, <1>7, <2>1 DEF SheetEngineOK
<1>9. irregular \subseteq irregular' /\ irregular' \subseteq Sheets
  BY <1>1, <1>2 DEF TimesheetTypeOK
<1>10. QED
  BY <1>1, <1>2, <1>8, <1>9, EngineMovesSheet

LEMMA SheetClientStep ==
    ASSUME NEW t \in Clients, EngineInv, SheetInv,
           Request(t) \/ EngineStep(t) \/ EngineFault(t), UNCHANGED sheetVars
    PROVE  SheetInv'
<1>1. t \in Handlers /\ t \notin Officers
  BY WorkflowAssumption DEF Handlers
<1>2. EngineFrame(t)
  BY <1>1, EngineStepFrame, RequestFrame
<1>3. QED
  BY <1>1, <1>2, EngineMovesSheet DEF sheetVars, SheetInv, TimesheetTypeOK

(* An engine call that fails marks the sheet: the service goes on as if it had not. *)
LEMMA SheetEngineFault ==
    ASSUME NEW t \in Officers, EngineInv, SheetInv, EngineFault(t),
           irregular' = irregular \cup {held[t].id}, UNCHANGED <<sheets, entries, tpc, held>>
    PROVE  SheetInv'
<1>1. t \in Handlers /\ EngineTypeOK /\ TimesheetTypeOK /\ SheetEngineOK(t)
  BY DEF Handlers, EngineInv, SheetInv
<1>2. EngineFrame(t)
  BY <1>1, RequestFrame
<1>3. held[t].id \in Sheets
  BY <1>1, HeldTyped
<1>4. wpc[t] # "idle" /\ wpc'[t] = "threw"
  <2>1. t \notin Clients
    BY WorkflowAssumption
  <2>2. QED
    BY <1>1, <2>1 DEF EngineFault, Finish, Goto, EngineTypeOK
<1>5. \A i : Exists(i) => Exists(i)'
  BY <1>1, <1>2, ExistsKept
<1>6. (held[t].row.workflowInstanceId # 0 => Exists(held[t].row.workflowInstanceId))'
  BY <1>1, <1>5 DEF SheetEngineOK, Exists
<1>7. SheetEngineOK(t)'
  BY <1>1, <1>4, <1>6 DEF SheetEngineOK, Starting, RestLabels
<1>8. QED
  BY <1>1, <1>2, <1>3, <1>7, EngineMovesSheet DEF TimesheetTypeOK

-----------------------------------------------------------------------------
(* Timesheets: steps of the service that leave the tables alone. *)

LEMMA ExistsQuiet == UNCHANGED engineVars => \A i : Exists(i)' <=> Exists(i)
BY DEF engineVars, Exists

LEMMA SheetGoes ==
    ASSUME NEW t \in Officers, NEW label \in TimesheetLabels, NEW h \in Holding, SheetInv,
           UNCHANGED <<engineVars, sheets, entries>>, At(t, label, h),
           irregular \subseteq irregular', irregular' \subseteq Sheets,
           \A s \in Sheets \ irregular' : WillCount(t, s) => WillCount(t, s)',
           wpc[t] = "idle", h.row.workflowInstanceId # 0 => Exists(h.row.workflowInstanceId),
           label = "transition" => h.row.workflowInstanceId # 0,
           SheetHeldOK(t)'
    PROVE  SheetInv'
<1>1. t \in Handlers /\ TimesheetTypeOK
  BY DEF Handlers, SheetInv
<1>2. EngineFrame(t) /\ wpc'[t] = "idle"
  BY <1>1, QuietFrame DEF engineVars
<1>3. /\ tpc' \in [Officers -> TimesheetLabels] /\ held' \in [Officers -> Holding]
      /\ tpc'[t] = label /\ held'[t] = h /\ OtherSheetHandlersStand(t)
  BY <1>1, AtFacts
<1>4. TimesheetTypeOK'
  BY <1>1, <1>3 DEF TimesheetTypeOK
<1>5. \A s \in Sheets \ irregular' : \A u \in Officers : WillCount(u, s) => WillCount(u, s)'
  BY <1>3 DEF WillCount, OtherSheetHandlersStand
<1>6. SheetTablesOK'
  BY <1>1, <1>2, <1>5, SheetsStay
<1>7. \A s \in Sheets : entries[s] <= entries'[s]
  BY <1>1 DEF TimesheetTypeOK
<1>8. SheetEngineOK(t)'
  <2>1. (held[t].row.workflowInstanceId # 0 => Exists(held[t].row.workflowInstanceId))'
    BY <1>3, ExistsQuiet DEF Exists, engineVars
  <2>2. QED
    BY <1>2, <1>3, <2>1 DEF SheetEngineOK, Starting, RestLabels
<1>9. QED
  BY <1>1, <1>2, <1>3, <1>4, <1>6, <1>7, <1>8, SheetStep

LEMMA EmptyHolding ==
    ASSUME NEW s \in Sheets
    PROVE  /\ NotHeld(s).id = s /\ NotHeld(s).read = NoSheet /\ NotHeld(s).row = NoSheet
           /\ NotHeld(s).goal = "none" /\ NotHeld(s).loaded = 0
           /\ NoSheet.workflowInstanceId = 0 /\ NoSheet.totalHours = 0
BY DEF NotHeld, NoSheet

LEMMA GoalTyped ==
    ASSUME NEW s \in Sheets, NEW goal \in {"entry", "totals", "submit"}
    PROVE  LET h == [NotHeld(s) EXCEPT !.goal = goal] IN
           /\ h \in Holding /\ h.id = s /\ h.read = NoSheet /\ h.row = NoSheet /\ h.goal = goal
           /\ h.loaded = 0
BY SheetConstants DEF NotHeld, Holding

LEMMA SheetIdle ==
    ASSUME SheetInv, NEW t \in Officers
    PROVE  /\ TimesheetTypeOK /\ SheetHeldOK(t) /\ SheetEngineOK(t)
           /\ tpc[t] \notin {"saveSubmitted", "saveDecided"} => wpc[t] = "idle"
           /\ irregular \subseteq Sheets
BY DEF SheetInv, SheetEngineOK, TimesheetTypeOK

(* The requests that begin with the totals, or with an entry. *)
LEMMA GoalStep ==
    ASSUME NEW t \in Officers, NEW s \in Sheets, SheetInv, tpc[t] = "idle",
           NEW label \in {"entry", "recalculate"}, NEW goal \in {"entry", "totals", "submit"},
           label = "entry" => goal = "entry",
           At(t, label, [NotHeld(s) EXCEPT !.goal = goal]),
           UNCHANGED <<engineVars, sheets, entries, irregular>>
    PROVE  SheetInv'
<1> DEFINE h == [NotHeld(s) EXCEPT !.goal = goal]
<1>1. h \in Holding /\ h.id = s /\ h.read = NoSheet /\ h.row = NoSheet /\ h.goal = goal
  BY GoalTyped
<1>2. TimesheetTypeOK /\ wpc[t] = "idle" /\ irregular \subseteq Sheets /\ label \in TimesheetLabels
  BY SheetIdle DEF TimesheetLabels
<1> HIDE DEF h
<1>3. At(t, label, h)
  BY DEF h
<1>4. tpc'[t] = label /\ held'[t] = h
  BY <1>1, <1>2, <1>3, AtFacts
<1>5. entries[s] \in 0 .. MaxEntries
  BY <1>2 DEF TimesheetTypeOK
<1>6. SheetHeldOK(t)'
  BY <1>1, <1>4, <1>5, EmptyHolding DEF SheetHeldOK
<1>7. \A x \in Sheets : ~WillCount(t, x)
  BY DEF WillCount
<1>8. QED
  BY <1>1, <1>2, <1>3, <1>6, <1>7, EmptyHolding, SheetGoes

LEMMA RecalculateStep ==
    ASSUME NEW t \in Officers, SheetInv, RecalculateTimesheet(t)
    PROVE  SheetInv'
<1> DEFINE s == held[t].id
<1>1. /\ TimesheetTypeOK /\ tpc[t] = "recalculate" /\ wpc[t] = "idle" /\ irregular \subseteq Sheets
      /\ UNCHANGED <<engineVars, sheets, entries>> /\ held[t] \in Holding /\ s \in Sheets
      /\ sheets[s] \in Timesheet /\ entries[s] \in 0 .. MaxEntries
  BY SheetIdle, HeldTyped DEF RecalculateTimesheet
<1>2. SheetTablesOK
  BY DEF SheetInv
<1>3. CASE sheets[s].isLocked
  <2>1. At(t, "idle", Nothing) /\ irregular' = irregular \cup Unsummed(t)
    BY <1>3 DEF RecalculateTimesheet, Done
  <2>2. Nothing \in Holding /\ Nothing = NotHeld(AnySheet) /\ AnySheet \in Sheets
        /\ "idle" \in TimesheetLabels
    BY SheetConstants DEF Nothing, TimesheetLabels
  <2>3. tpc'[t] = "idle" /\ held'[t] = Nothing
    BY <1>1, <2>1, <2>2, AtFacts
  <2>4. entries[AnySheet] \in 0 .. MaxEntries
    BY <1>1, <2>2 DEF TimesheetTypeOK
  <2>5. SheetHeldOK(t)'
    BY <1>1, <2>2, <2>3, <2>4, EmptyHolding DEF SheetHeldOK
  <2>6. \A x \in Sheets \ irregular' : ~WillCount(t, x)
    BY <1>1, <2>1 DEF WillCount, Unsummed
  <2>7. Unsummed(t) \subseteq Sheets
    BY <1>1 DEF Unsummed
  <2>8. QED
    BY <1>1, <2>1, <2>2, <2>5, <2>6, <2>7, EmptyHolding, SheetGoes
<1>4. CASE ~sheets[s].isLocked
  <2> DEFINE h == [id |-> s, read |-> sheets[s], row |-> sheets[s],
                   loaded |-> entries[s], goal |-> held[t].goal]
  <2>1. At(t, "sum", h) /\ UNCHANGED irregular
    BY <1>4 DEF RecalculateTimesheet
  <2>2. /\ h \in Holding /\ h.id = s /\ h.read = sheets[s] /\ h.row = sheets[s]
        /\ h.goal = held[t].goal /\ h.loaded = entries[s]
    <3>1. held[t].goal \in {"none", "entry", "totals", "submit"}
      BY <1>1 DEF Holding
    <3>2. QED
      BY <1>1, <3>1 DEF Holding
  <2>3. "sum" \in TimesheetLabels
    BY DEF TimesheetLabels
  <2> HIDE DEF h
  <2>4. tpc'[t] = "sum" /\ held'[t] = h
    BY <1>1, <2>1, <2>2, <2>3, AtFacts
  <2>5. sheets[s].totalHours <= entries[s] /\ sheets[s].totalHours \in Nat
    BY <1>1, <1>2 DEF SheetTablesOK, TotalsBounded, Timesheet
  <2>6. SheetHeldOK(t)'
    BY <1>1, <1>4, <2>2, <2>4, <2>5 DEF SheetHeldOK
  <2>7. \A x \in Sheets : WillCount(t, x) => WillCount(t, x)'
    BY <1>1, <2>2, <2>4 DEF WillCount
  <2>8. h.row.workflowInstanceId # 0 => Exists(h.row.workflowInstanceId)
    BY <1>1, <1>2, <2>2 DEF SheetTablesOK, SheetWorkflowsExist
  <2>9. QED
    BY <1>1, <2>1, <2>2, <2>3, <2>6, <2>7, <2>8, SheetGoes
<1>5. QED
  BY <1>3, <1>4

LEMMA FindEntriesStep ==
    ASSUME NEW t \in Officers, SheetInv, FindEntries(t)
    PROVE  SheetInv'
<1> DEFINE g == held[t]
           h == [g EXCEPT !.row.totalHours = entries[g.id]]
<1>1. /\ TimesheetTypeOK /\ tpc[t] = "sum" /\ wpc[t] = "idle" /\ irregular \subseteq Sheets
      /\ UNCHANGED <<engineVars, sheets, entries, irregular>> /\ At(t, "saveTotals", h)
      /\ SheetHeldOK(t) /\ SheetEngineOK(t)
  BY SheetIdle DEF FindEntries
<1>2. g \in Holding /\ g.id \in Sheets /\ g.row \in Timesheet /\ entries[g.id] \in 0 .. MaxEntries
      /\ g.read \in Timesheet
  BY <1>1, HeldTyped
<1>3. /\ h \in Holding /\ h.id = g.id /\ h.read = g.read /\ h.goal = g.goal /\ h.loaded = g.loaded
      /\ h.row.totalHours = entries[g.id] /\ h.row.status = g.row.status
      /\ h.row.isLocked = g.row.isLocked /\ h.row.workflowInstanceId = g.row.workflowInstanceId
  BY <1>2 DEF Holding, Timesheet
<1>4. "saveTotals" \in TimesheetLabels
  BY DEF TimesheetLabels
<1> HIDE DEF h
<1>5. tpc'[t] = "saveTotals" /\ held'[t] = h
  BY <1>1, <1>3, <1>4, AtFacts
<1>7. SheetHeldOK(t)'
  BY <1>1, <1>2, <1>3, <1>5 DEF SheetHeldOK
<1>8. \A x \in Sheets : WillCount(t, x) => WillCount(t, x)'
  BY <1>1, <1>3, <1>5 DEF WillCount
<1>9. h.row.workflowInstanceId # 0 => Exists(h.row.workflowInstanceId)
  BY <1>1, <1>3 DEF SheetEngineOK
<1>10. QED
  BY <1>1, <1>3, <1>4, <1>7, <1>8, <1>9, SheetGoes

LEMMA RereadStep ==
    ASSUME NEW t \in Officers, SheetInv, RereadTimesheet(t)
    PROVE  SheetInv'
<1> DEFINE s == held[t].id
           row == [sheets[s] EXCEPT !.status = "SUBMITTED"]
<1>1. /\ TimesheetTypeOK /\ tpc[t] = "reread" /\ wpc[t] = "idle" /\ irregular \subseteq Sheets
      /\ UNCHANGED <<engineVars, sheets, entries>> /\ held[t] \in Holding /\ s \in Sheets
      /\ sheets[s] \in Timesheet /\ entries[s] \in 0 .. MaxEntries /\ SheetTablesOK
      /\ irregular' = IF sheets[s].status = "DRAFT" THEN irregular ELSE irregular \cup {s}
  BY SheetIdle, HeldTyped DEF RereadTimesheet, SheetInv
<1>2. PICK label \in {"startWorkflow", "saveSubmitted"} : At(t, label, Hold(s, row))
  BY DEF RereadTimesheet
<1>3. /\ row \in Timesheet /\ row.status = "SUBMITTED" /\ row.totalHours = sheets[s].totalHours
      /\ row.isLocked = sheets[s].isLocked /\ row.workflowInstanceId = sheets[s].workflowInstanceId
  BY <1>1 DEF Timesheet, TimesheetStatus
<1> HIDE DEF row
<1> DEFINE h == Hold(s, row)
<1>4. h \in Holding /\ h.id = s /\ h.read = sheets[s] /\ h.row = row /\ h.goal = "none"
  BY <1>1, <1>3, HoldTyped
<1>5. label \in TimesheetLabels
  BY DEF TimesheetLabels
<1> HIDE DEF h
<1>6. tpc'[t] = label /\ held'[t] = h
  BY <1>1, <1>2, <1>4, <1>5, AtFacts DEF h
<1>7. s \in irregular' \/ ~sheets[s].isLocked
  BY <1>1 DEF SheetTablesOK, LocksDecided
<1>8. sheets[s].totalHours <= entries[s] /\ sheets[s].totalHours \in Nat
  BY <1>1 DEF SheetTablesOK, TotalsBounded, Timesheet
<1>9. SheetHeldOK(t)'
  BY <1>1, <1>3, <1>4, <1>6, <1>7, <1>8 DEF SheetHeldOK
<1>10. \A x \in Sheets : ~WillCount(t, x)
  BY <1>1 DEF WillCount
<1>11. h.row.workflowInstanceId # 0 => Exists(h.row.workflowInstanceId)
  BY <1>1, <1>3, <1>4 DEF SheetTablesOK, SheetWorkflowsExist
<1>12. irregular \subseteq irregular' /\ irregular' \subseteq Sheets
  BY <1>1
<1>13. At(t, label, h)
  BY <1>2 DEF h
<1>14. QED
  BY <1>1, <1>4, <1>5, <1>9, <1>10, <1>11, <1>12, <1>13, SheetGoes

LEMMA DecideStep ==
    ASSUME NEW t \in Officers, NEW s \in Sheets, NEW verdict \in {"APPROVED", "REJECTED"},
           SheetInv, Decide(t, s, verdict)
    PROVE  SheetInv'
<1> DEFINE row == Decided(s, verdict)
           h == Hold(s, row)
           label == IF sheets[s].workflowInstanceId = 0 THEN "saveDecided" ELSE "transition"
<1>1. /\ TimesheetTypeOK /\ tpc[t] = "idle" /\ wpc[t] = "idle" /\ irregular \subseteq Sheets
      /\ UNCHANGED <<engineVars, sheets, entries, irregular>> /\ At(t, label, h)
      /\ sheets[s] \in Timesheet /\ entries[s] \in 0 .. MaxEntries /\ SheetTablesOK
      /\ sheets[s].status = "SUBMITTED"
  BY SheetIdle DEF Decide, SheetInv, TimesheetTypeOK
<1>2. /\ row \in Timesheet /\ row.status = verdict /\ row.totalHours = sheets[s].totalHours
      /\ verdict # "APPROVED" => row.isLocked = sheets[s].isLocked
      /\ row.workflowInstanceId = sheets[s].workflowInstanceId
  BY <1>1 DEF Timesheet, TimesheetStatus, Decided
<1> HIDE DEF row
<1>3. h \in Holding /\ h.id = s /\ h.read = sheets[s] /\ h.row = row /\ h.goal = "none"
  BY <1>1, <1>2, HoldTyped
<1>4. label \in TimesheetLabels /\ label \in {"saveDecided", "transition"}
      /\ (label = "transition" <=> row.workflowInstanceId # 0)
  BY <1>2 DEF TimesheetLabels
<1> HIDE DEF h, label
<1>5. tpc'[t] = label /\ held'[t] = h
  BY <1>1, <1>3, <1>4, AtFacts
<1>6. s \in irregular \/ ~sheets[s].isLocked
  BY <1>1 DEF SheetTablesOK, LocksDecided
<1>7. sheets[s].totalHours <= entries[s] /\ sheets[s].totalHours \in Nat
  BY <1>1 DEF SheetTablesOK, TotalsBounded, Timesheet
<1>8. SheetHeldOK(t)'
  BY <1>1, <1>2, <1>3, <1>4, <1>5, <1>6, <1>7 DEF SheetHeldOK
<1>9. \A x \in Sheets : ~WillCount(t, x)
  BY <1>1 DEF WillCount
<1>10. h.row.workflowInstanceId # 0 => Exists(h.row.workflowInstanceId)
  BY <1>1, <1>2, <1>3 DEF SheetTablesOK, SheetWorkflowsExist
<1>11. QED
  BY <1>1, <1>3, <1>4, <1>8, <1>9, <1>10, SheetGoes

-----------------------------------------------------------------------------
(* Timesheets: steps of the service that write the tables. *)

LEMMA GetOrCreateStep ==
    ASSUME NEW t \in Officers, NEW s \in Sheets, SheetInv, GetOrCreateTimesheet(t, s)
    PROVE  SheetInv'
<1>1. /\ TimesheetTypeOK /\ SheetTablesOK /\ SheetHeldOK(t) /\ SheetEngineOK(t) /\ t \in Handlers
      /\ UNCHANGED <<engineVars, entries, tpc, held, irregular>>
      /\ sheets[s].status = "NONE" /\ sheets[s] \in Timesheet
      /\ sheets' = [sheets EXCEPT ![s].status = "DRAFT"]
  BY SheetIdle DEF GetOrCreateTimesheet, SheetInv, TimesheetTypeOK, Handlers
<1>2. EngineFrame(t) /\ \A i : Exists(i)' <=> Exists(i)
  BY <1>1, QuietFrame, ExistsQuiet
<1>3. /\ sheets'[s].status = "DRAFT" /\ sheets'[s].totalHours = sheets[s].totalHours
      /\ sheets'[s].isLocked = sheets[s].isLocked
      /\ sheets'[s].workflowInstanceId = sheets[s].workflowInstanceId
      /\ \A x \in Sheets \ {s} : sheets'[x] = sheets[x]
      /\ sheets' \in [Sheets -> Timesheet]
  BY <1>1 DEF TimesheetTypeOK, Timesheet, TimesheetStatus
<1>4. TimesheetTypeOK'
  BY <1>1, <1>3 DEF TimesheetTypeOK
<1>5. TotalsBounded' /\ LocksDecided'
  BY <1>1, <1>3 DEF SheetTablesOK, TotalsBounded, LocksDecided
<1>6. TotalsCounted'
  BY <1>1, <1>3 DEF SheetTablesOK, TotalsCounted, WillCount
<1>7. SheetWorkflowsExist'
  BY <1>1, <1>3 DEF SheetTablesOK, SheetWorkflowsExist, Exists, engineVars
<1>9. SheetHeldOK(t)' /\ SheetEngineOK(t)'
  BY <1>1, <1>2
     DEF SheetHeldOK, SheetEngineOK, Starting, Exists, engineVars
<1>10. SheetTablesOK'
  BY <1>5, <1>6, <1>7 DEF SheetTablesOK
<1>11. \A x \in Sheets : entries[x] <= entries'[x]
  BY <1>1 DEF TimesheetTypeOK
<1>12. QED
  BY <1>1, <1>2, <1>4, <1>9, <1>10, <1>11, SheetStep DEF OtherSheetHandlersStand

LEMMA InsertEntryStep ==
    ASSUME NEW t \in Officers, SheetInv, InsertEntry(t)
    PROVE  SheetInv'
<1> DEFINE s == held[t].id
<1>1. /\ TimesheetTypeOK /\ SheetTablesOK /\ SheetHeldOK(t) /\ SheetEngineOK(t) /\ t \in Handlers
      /\ UNCHANGED <<engineVars, sheets, irregular>>
      /\ tpc[t] = "entry" /\ wpc[t] = "idle" /\ entries[s] < MaxEntries
      /\ entries' = [entries EXCEPT ![s] = @ + 1]
      /\ At(t, "recalculate", held[t])
  BY SheetIdle DEF InsertEntry, SheetInv, Handlers
<1>2. held[t] \in Holding /\ s \in Sheets /\ entries[s] \in 0 .. MaxEntries /\ MaxEntries \in Nat
      /\ held[t].row \in Timesheet
  BY <1>1, HeldTyped, TimesheetAssumption
<1>3. "recalculate" \in TimesheetLabels
  BY DEF TimesheetLabels
<1>4. /\ tpc' \in [Officers -> TimesheetLabels] /\ held' \in [Officers -> Holding]
      /\ tpc'[t] = "recalculate" /\ held'[t] = held[t] /\ OtherSheetHandlersStand(t)
  BY <1>1, <1>2, <1>3, AtFacts
<1>5. /\ entries'[s] = entries[s] + 1 /\ \A x \in Sheets \ {s} : entries'[x] = entries[x]
      /\ entries' \in [Sheets -> 0 .. MaxEntries]
  BY <1>1, <1>2 DEF TimesheetTypeOK
<1>6. TimesheetTypeOK'
  BY <1>1, <1>4, <1>5 DEF TimesheetTypeOK
<1>7. EngineFrame(t) /\ wpc'[t] = "idle" /\ \A i : Exists(i)' <=> Exists(i)
  BY <1>1, QuietFrame, ExistsQuiet DEF engineVars
<1>8. \A x \in Sheets : entries[x] <= entries'[x]
  BY <1>1, <1>2, <1>5 DEF TimesheetTypeOK
<1>9. TotalsBounded'
  <2>1. ASSUME NEW x \in Sheets PROVE sheets[x].totalHours <= entries'[x]
    <3>1. sheets[x].totalHours \in Int /\ entries[x] \in Int /\ entries'[x] \in Int
      BY <1>1, <1>6 DEF TimesheetTypeOK, Timesheet
    <3>2. QED
      BY <1>1, <1>8, <3>1 DEF SheetTablesOK, TotalsBounded
  <2>2. QED
    BY <1>1, <2>1 DEF TotalsBounded
<1>10. TotalsCounted'
  <2>1. held[t].goal = "entry"
    BY <1>1 DEF SheetHeldOK
  <2>2. WillCount(t, s)'
    BY <1>4, <2>1 DEF WillCount
  <2>3. ASSUME NEW x \in Sheets \ irregular, x # s
        PROVE  sheets'[x].totalHours = entries'[x] \/ \E u \in Officers : WillCount(u, x)'
    BY <1>1, <1>4, <1>5, <2>3 DEF SheetTablesOK, TotalsCounted, WillCount, OtherSheetHandlersStand
  <2>4. \A x \in Sheets : x = s => \E u \in Officers : WillCount(u, x)'
    <3>1. \A x \in Sheets : x = s => WillCount(t, x)'
      BY <1>4, <2>1 DEF WillCount
    <3>2. QED
      BY <3>1
  <2>5. QED
    BY <1>1, <2>3, <2>4 DEF TotalsCounted
<1>11. LocksDecided'
  BY <1>1 DEF SheetTablesOK, LocksDecided
<1>12. SheetWorkflowsExist'
  BY <1>1 DEF SheetTablesOK, SheetWorkflowsExist, Exists, engineVars
<1>13. SheetTablesOK'
  BY <1>9, <1>10, <1>11, <1>12 DEF SheetTablesOK
<1>14. SheetHeldOK(t)'
  <2>1. held[t].row.totalHours <= entries'[s]
    <3>1. held[t].row.totalHours \in Int /\ entries[s] \in Int
      BY <1>2 DEF Timesheet
    <3>2. QED
      BY <1>1, <1>5, <3>1 DEF SheetHeldOK
  <2>2. QED
    BY <1>1, <1>4, <2>1 DEF SheetHeldOK
<1>15. SheetEngineOK(t)'
  BY <1>1, <1>4, <1>7 DEF SheetEngineOK, Exists, engineVars
<1>16. QED
  BY <1>1, <1>4, <1>6, <1>7, <1>8, <1>13, <1>14, <1>15, SheetStep

(* A save of the sheet held after which the handler is done, or reads the sheet anew. *)
LEMMA SheetSaveStep ==
    ASSUME NEW t \in Officers, EngineFrame(t), wpc'[t] = "idle", SheetInv, NEW row \in Timesheet,
           NEW label \in {"idle", "reread"}, NEW s \in Sheets, At(t, label, NotHeld(s)),
           SaveSheet(t, row), UNCHANGED entries,
           row.totalHours <= entries[held[t].id],
           \/ row.totalHours = held[t].read.totalHours /\ held[t].goal # "entry"
           \/ row.totalHours = entries[held[t].id],
           held[t].id \notin irregular /\ row.isLocked => row.status = "APPROVED",
           row.workflowInstanceId # 0 => Exists(row.workflowInstanceId)
    PROVE  SheetInv'
<1>1. TimesheetTypeOK /\ t \in Handlers
  BY DEF SheetInv, Handlers
<1>2. NotHeld(s) \in Holding /\ label \in TimesheetLabels
  BY SheetConstants DEF TimesheetLabels
<1>3. /\ tpc' \in [Officers -> TimesheetLabels] /\ held' \in [Officers -> Holding]
      /\ tpc'[t] = label /\ held'[t] = NotHeld(s) /\ OtherSheetHandlersStand(t)
  BY <1>1, <1>2, AtFacts
<1>4. held[t].id \in Sheets
  BY <1>1, HeldTyped
<1>5. sheets' \in [Sheets -> Timesheet] /\ irregular' \subseteq Sheets /\ irregular \subseteq irregular'
  BY <1>1, <1>4 DEF SaveSheet, TimesheetTypeOK
<1>6. TimesheetTypeOK'
  BY <1>1, <1>3, <1>5 DEF TimesheetTypeOK
<1>7. SheetTablesOK'
  BY <1>3, SheetSaved
<1>8. entries' = entries /\ entries[s] \in 0 .. MaxEntries
  BY <1>1 DEF TimesheetTypeOK
<1>9. SheetHeldOK(t)' /\ SheetEngineOK(t)'
  BY <1>3, <1>8, EmptyHolding DEF SheetHeldOK, SheetEngineOK
<1>10. \A x \in Sheets : entries[x] <= entries'[x]
  BY <1>1, <1>8 DEF TimesheetTypeOK
<1>11. QED
  BY <1>1, <1>3, <1>5, <1>6, <1>7, <1>9, <1>10, SheetStep

(* The totals are saved when no entry has come since the sheet was read; then they *)
(* count them all.                                                                  *)
LEMMA TotalsSaved ==
    ASSUME NEW t \in Officers, SheetInv, SaveTotals(t), entries[held[t].id] = held[t].loaded
    PROVE  SheetInv'
<1> DEFINE g == held[t]
<1>1. /\ TimesheetTypeOK /\ SheetTablesOK /\ SheetHeldOK(t) /\ SheetEngineOK(t) /\ t \in Handlers
      /\ UNCHANGED <<engineVars, entries>>
      /\ tpc[t] = "saveTotals" /\ wpc[t] = "idle" /\ SaveSheet(t, g.row)
  BY SheetIdle DEF SaveTotals, SheetInv, Handlers
<1>2. g.id \in Sheets /\ g.row \in Timesheet /\ g \in Holding
  BY <1>1, HeldTyped
<1>3. EngineFrame(t) /\ wpc'[t] = "idle"
  BY <1>1, QuietFrame DEF engineVars
<1>4. \E label \in {"idle", "reread"}, s \in Sheets : At(t, label, NotHeld(s))
  BY <1>2, SheetConstants DEF SaveTotals, Done, Nothing
<1>5. g.id \notin irregular /\ g.row.isLocked => g.row.status = "APPROVED"
  BY <1>1, <1>2 DEF SheetHeldOK, Timesheet
<1>6. g.row.workflowInstanceId # 0 => Exists(g.row.workflowInstanceId)
  BY <1>1 DEF SheetEngineOK
<1>7. g.row.totalHours = entries[g.id] /\ g.row.totalHours <= entries[g.id]
  <2>1. g.loaded <= g.row.totalHours /\ g.row.totalHours <= entries[g.id]
    BY <1>1 DEF SheetHeldOK
  <2>2. g.row.totalHours \in Int /\ g.loaded \in Int
    BY <1>2 DEF Timesheet, Holding
  <2>3. QED
    BY <2>1, <2>2
<1>8. ASSUME NEW r \in Timesheet, r = g.row PROVE SheetInv'
  BY <1>1, <1>3, <1>4, <1>5, <1>6, <1>7, <1>8, SheetSaveStep
<1>9. QED
  BY <1>2, <1>8

(* Otherwise the save throws, and the handler that added the entry has yet to sum. *)
LEMMA TotalsRefused ==
    ASSUME NEW t \in Officers, SheetInv, SaveTotals(t), entries[held[t].id] # held[t].loaded
    PROVE  SheetInv'
<1>1. /\ TimesheetTypeOK /\ tpc[t] = "saveTotals" /\ wpc[t] = "idle" /\ irregular \subseteq Sheets
      /\ UNCHANGED <<engineVars, sheets, entries, irregular>> /\ At(t, "idle", Nothing)
  BY SheetIdle DEF SaveTotals, Done
<1>2. Nothing \in Holding /\ Nothing = NotHeld(AnySheet) /\ AnySheet \in Sheets
      /\ "idle" \in TimesheetLabels
  BY SheetConstants DEF Nothing, TimesheetLabels
<1>3. tpc'[t] = "idle" /\ held'[t] = Nothing
  BY <1>1, <1>2, AtFacts
<1>4. entries[AnySheet] \in 0 .. MaxEntries
  BY <1>1, <1>2 DEF TimesheetTypeOK
<1>5. SheetHeldOK(t)'
  BY <1>1, <1>2, <1>3, <1>4, EmptyHolding DEF SheetHeldOK
<1>6. \A x \in Sheets : ~WillCount(t, x)
  BY <1>1 DEF WillCount
<1>7. QED
  BY <1>1, <1>2, <1>5, <1>6, EmptyHolding, SheetGoes

LEMMA SaveTotalsStep ==
    ASSUME NEW t \in Officers, SheetInv, SaveTotals(t)
    PROVE  SheetInv'
BY TotalsSaved, TotalsRefused

-----------------------------------------------------------------------------
(* Timesheets: the calls of the engine. *)

(* The handler has called the engine and waits for it at the next label. *)
LEMMA SheetCalls ==
    ASSUME NEW t \in Officers, EngineFrame(t), SheetInv,
           NEW label \in {"saveSubmitted", "saveDecided"}, At(t, label, held[t]),
           tpc[t] = IF label = "saveSubmitted" THEN "startWorkflow" ELSE "transition",
           UNCHANGED <<sheets, entries, irregular>>, SheetEngineOK(t)'
    PROVE  SheetInv'
<1>1. t \in Handlers /\ TimesheetTypeOK /\ SheetHeldOK(t) /\ held[t] \in Holding
      /\ label \in TimesheetLabels
  BY HeldTyped DEF Handlers, SheetInv, TimesheetLabels
<1>2. /\ tpc' \in [Officers -> TimesheetLabels] /\ held' \in [Officers -> Holding]
      /\ tpc'[t] = label /\ held'[t] = held[t] /\ OtherSheetHandlersStand(t)
  BY <1>1, AtFacts
<1>3. TimesheetTypeOK'
  BY <1>1, <1>2 DEF TimesheetTypeOK
<1>4. \A s \in Sheets \ irregular' : \A u \in Officers : WillCount(u, s) => WillCount(u, s)'
  BY <1>2 DEF WillCount, OtherSheetHandlersStand
<1>5. SheetTablesOK'
  BY <1>1, <1>4, SheetsStay
<1>6. \A s \in Sheets : entries[s] <= entries'[s]
  BY <1>1 DEF TimesheetTypeOK
<1>7. SheetHeldOK(t)'
  <2>1. CASE label = "saveSubmitted"
    BY <1>1, <1>2, <2>1 DEF SheetHeldOK
  <2>2. CASE label = "saveDecided"
    BY <1>1, <1>2, <2>2 DEF SheetHeldOK
  <2>3. QED
    BY <2>1, <2>2
<1>8. QED
  BY <1>1, <1>2, <1>3, <1>5, <1>6, <1>7, SheetStep

(* An answer that is already there: the look for an active workflow may refuse. *)
LEMMA LookStarts ==
    ASSUME NEW t \in Officers, EngineInv, NEW e, NEW k, FindByEntity(t, e, k)
    PROVE  Starting(t)'
<1>1. t \notin Clients /\ t \in Handlers /\ EngineTypeOK
  BY WorkflowAssumption DEF EngineInv, Handlers
<1>2. wpc'[t] \in {"insert", "threw"}
  BY <1>1 DEF FindByEntity, Finish, Goto, EngineTypeOK
<1>3. QED
  BY <1>2 DEF Starting, RestLabels

LEMMA StartWorkflowStep ==
    ASSUME NEW t \in Officers, EngineInv, SheetInv, StartWorkflow(t)
    PROVE  EngineInv' /\ SheetInv'
<1>1. PICK k \in Keys : FindByEntity(t, held[t].id, k)
  BY DEF StartWorkflow
<1>2. t \in Handlers /\ TimesheetTypeOK /\ held[t].id \in Entities /\ SheetEngineOK(t)
  BY HeldTyped, TimesheetAssumption DEF Handlers, SheetInv
<1>3. EngineFrame(t) /\ EngineInv' /\ Starting(t)'
  BY <1>1, <1>2, RequestFrame, FindByEntityStep, LookStarts
<1>4. /\ tpc[t] = "startWorkflow" /\ At(t, "saveSubmitted", held[t])
      /\ UNCHANGED <<sheets, entries, irregular>>
  BY DEF StartWorkflow
<1>5. held[t] \in Holding /\ "saveSubmitted" \in TimesheetLabels
  BY <1>2, HeldTyped DEF TimesheetLabels
<1>6. tpc'[t] = "saveSubmitted" /\ held'[t] = held[t]
  BY <1>2, <1>4, <1>5, AtFacts
<1>7. SheetEngineOK(t)'
  <2>1. \A i : Exists(i) => Exists(i)'
    BY <1>2, <1>3, ExistsKept
  <2>2. (held[t].row.workflowInstanceId # 0 => Exists(held[t].row.workflowInstanceId))'
    BY <1>2, <1>6, <2>1 DEF SheetEngineOK, Exists
  <2>3. QED
    BY <1>3, <1>6, <2>2 DEF SheetEngineOK
<1>8. QED
  BY <1>3, <1>4, <1>7, SheetCalls

LEMMA TransitionWorkflowStep ==
    ASSUME NEW t \in Officers, EngineInv, SheetInv, TransitionWorkflow(t)
    PROVE  EngineInv' /\ SheetInv'
<1> DEFINE row == held[t].row
           name == IF row.status = "APPROVED" THEN "approve" ELSE "reject"
           i == row.workflowInstanceId
<1>1. /\ t \in Handlers /\ TimesheetTypeOK /\ SheetEngineOK(t)
      /\ tpc[t] = "transition" /\ At(t, "saveDecided", held[t])
      /\ UNCHANGED <<sheets, entries, irregular>>
      /\ FindForTransition(t, i, name)
  BY DEF TransitionWorkflow, SheetInv, Handlers
<1>2. Exists(i) /\ i \in Instances
  BY <1>1 DEF SheetEngineOK, Exists
<1>3. EngineFrame(t) /\ EngineInv'
  BY <1>1, <1>2, RequestFrame, FindForTransitionStep
<1>4. held[t] \in Holding /\ "saveDecided" \in TimesheetLabels
  BY <1>1, HeldTyped DEF TimesheetLabels
<1>5. tpc'[t] = "saveDecided" /\ held'[t] = held[t]
  BY <1>1, <1>4, AtFacts
<1>7. SheetEngineOK(t)'
  <2>1. \A j : Exists(j) => Exists(j)'
    BY <1>1, <1>3, ExistsKept
  <2>2. (held[t].row.workflowInstanceId # 0 => Exists(held[t].row.workflowInstanceId))'
    BY <1>2, <1>5, <2>1 DEF Exists
  <2>3. QED
    BY <1>5, <2>2 DEF SheetEngineOK
<1>8. QED
  BY <1>1, <1>3, <1>7, SheetCalls

LEMMA ResumeRests ==
    ASSUME NEW t \in Officers, EngineInv, Resume(t)
    PROVE  /\ t \in Handlers /\ wpc'[t] = "idle" /\ wpc[t] \in RestLabels
           /\ EngineFrame(t) /\ EngineInv'
           /\ UNCHANGED <<instances, beside>>
<1>1. t \in Handlers /\ EngineTypeOK
  BY DEF Handlers, EngineInv
<1>2. EngineFrame(t) /\ EngineInv'
  BY <1>1, RequestFrame, ResumeStep
<1>3. QED
  BY <1>1, <1>2 DEF Resume, Goto, EngineTypeOK, RestLabels

LEMMA SaveSubmittedStep ==
    ASSUME NEW t \in Officers, EngineInv, SheetInv, SaveSubmitted(t)
    PROVE  EngineInv' /\ SheetInv'
<1> DEFINE g == held[t]
<1>1. /\ TimesheetTypeOK /\ SheetHeldOK(t) /\ SheetEngineOK(t)
      /\ tpc[t] = "saveSubmitted" /\ Resume(t) /\ Done(t) /\ UNCHANGED entries
  BY DEF SaveSubmitted, SheetInv
<1>2. t \in Handlers /\ wpc'[t] = "idle" /\ EngineFrame(t) /\ EngineInv'
  BY <1>1, ResumeRests
<1>3. /\ g.row \in Timesheet /\ g.id \in Sheets /\ g.goal = "none" /\ g.row.status = "SUBMITTED"
      /\ g.row.totalHours = g.read.totalHours /\ g.row.totalHours <= entries[g.id]
      /\ g.id \in irregular \/ ~g.row.isLocked
  BY <1>1, HeldTyped DEF SheetHeldOK
<1>4. call[t].id \in 0 .. MaxInstances
  BY <1>2 DEF EngineInv, EngineTypeOK, Call
<1>5. wpc[t] = "returned" => Exists(call[t].id)
  BY <1>1 DEF SheetEngineOK, Starting
<1>6. \E label \in {"idle", "reread"}, s \in Sheets : At(t, label, NotHeld(s))
  BY <1>1, SheetConstants DEF Done, Nothing
<1>7. \E row \in Timesheet :
        /\ SaveSheet(t, row) /\ row.status = "SUBMITTED" /\ row.totalHours = g.row.totalHours
        /\ g.id \in irregular \/ ~row.isLocked
        /\ row.workflowInstanceId # 0 => Exists(row.workflowInstanceId)
  <2>1. CASE wpc[t] = "returned"
    <3> DEFINE row == [g.row EXCEPT !.workflowInstanceId = call[t].id]
    <3>1. /\ row \in Timesheet /\ row.status = "SUBMITTED" /\ row.totalHours = g.row.totalHours
          /\ row.isLocked = g.row.isLocked /\ row.workflowInstanceId = call[t].id
      BY <1>3, <1>4 DEF Timesheet
    <3>2. SaveSheet(t, row)
      BY <2>1 DEF SaveSubmitted
    <3> HIDE DEF row
    <3>3. QED
      BY <1>3, <1>5, <2>1, <3>1, <3>2
  <2>2. CASE wpc[t] # "returned"
    BY <1>1, <1>3, <2>2 DEF SaveSubmitted, SheetEngineOK
  <2>3. QED
    BY <2>1, <2>2
<1>8. PICK row \in Timesheet :
        /\ SaveSheet(t, row) /\ row.status = "SUBMITTED" /\ row.totalHours = g.row.totalHours
        /\ g.id \in irregular \/ ~row.isLocked
        /\ row.workflowInstanceId # 0 => Exists(row.workflowInstanceId)
  BY <1>7
<1>10. SheetInv'
  BY <1>1, <1>2, <1>3, <1>6, <1>8, SheetSaveStep
<1>11. QED
  BY <1>2, <1>10

LEMMA SaveDecidedStep ==
    ASSUME NEW t \in Officers, EngineInv, SheetInv, SaveDecided(t)
    PROVE  EngineInv' /\ SheetInv'
<1> DEFINE g == held[t]
<1>1. /\ TimesheetTypeOK /\ SheetHeldOK(t) /\ SheetEngineOK(t) /\ SaveSheet(t, g.row)
      /\ tpc[t] = "saveDecided" /\ Resume(t) /\ Done(t) /\ UNCHANGED entries
  BY DEF SaveDecided, SheetInv
<1>2. t \in Handlers /\ wpc'[t] = "idle" /\ EngineFrame(t) /\ EngineInv'
  BY <1>1, ResumeRests
<1>3. /\ g.row \in Timesheet /\ g.id \in Sheets /\ g.goal = "none"
      /\ g.row.totalHours = g.read.totalHours /\ g.row.totalHours <= entries[g.id]
      /\ g.id \notin irregular /\ g.row.isLocked => g.row.status = "APPROVED"
  BY <1>1, HeldTyped DEF SheetHeldOK
<1>4. g.row.workflowInstanceId # 0 => Exists(g.row.workflowInstanceId)
  BY <1>1 DEF SheetEngineOK
<1>5. \E label \in {"idle", "reread"}, s \in Sheets : At(t, label, NotHeld(s))
  BY <1>1, SheetConstants DEF Done, Nothing
<1>7. ASSUME NEW r \in Timesheet, r = g.row PROVE SheetInv'
  BY <1>1, <1>2, <1>3, <1>4, <1>5, <1>7, SheetSaveStep
<1>8. QED
  BY <1>2, <1>3, <1>7

-----------------------------------------------------------------------------
(* Timesheets: failures, crashes, and all of the steps. *)

LEMMA IdleHolding ==
    ASSUME NEW t \in Officers, TimesheetTypeOK', tpc'[t] = "idle", held'[t] = Nothing
    PROVE  SheetHeldOK(t)'
<1>1. Nothing = NotHeld(AnySheet) /\ AnySheet \in Sheets
  BY SheetConstants DEF Nothing
<1>2. entries'[AnySheet] \in 0 .. MaxEntries
  BY <1>1 DEF TimesheetTypeOK
<1>3. QED
  BY <1>1, <1>2, EmptyHolding DEF SheetHeldOK

LEMMA SheetServiceFault ==
    ASSUME NEW t \in Officers, EngineInv, SheetInv, ServiceFault(t),
           irregular' = irregular \cup Unsummed(t), Done(t), UNCHANGED <<sheets, entries>>
    PROVE  SheetInv'
<1>1. t \in Handlers /\ TimesheetTypeOK /\ held[t].id \in Sheets
  BY HeldTyped DEF Handlers, SheetInv
<1>2. EngineFrame(t) /\ wpc'[t] = "idle"
  <2>1. EngineFrame(t)
    BY <1>1, RequestFrame
  <2>2. QED
    BY <1>1, <2>1 DEF ServiceFault, Goto, EngineInv, EngineTypeOK
<1>3. Nothing \in Holding /\ "idle" \in TimesheetLabels
  BY SheetConstants DEF TimesheetLabels
<1>4. /\ tpc' \in [Officers -> TimesheetLabels] /\ held' \in [Officers -> Holding]
      /\ tpc'[t] = "idle" /\ held'[t] = Nothing /\ OtherSheetHandlersStand(t)
  BY <1>1, <1>3, AtFacts DEF Done
<1>5. irregular \subseteq irregular' /\ irregular' \subseteq Sheets
  BY <1>1 DEF Unsummed, TimesheetTypeOK
<1>6. TimesheetTypeOK'
  BY <1>1, <1>4, <1>5 DEF TimesheetTypeOK
<1>7. \A s \in Sheets \ irregular' : ~WillCount(t, s)
  BY DEF WillCount, Unsummed
<1>8. SheetTablesOK'
  <2>1. \A s \in Sheets \ irregular' : \A u \in Officers : WillCount(u, s) => WillCount(u, s)'
    BY <1>4, <1>7 DEF WillCount, OtherSheetHandlersStand
  <2>2. QED
    BY <1>1, <1>2, <1>5, <2>1, SheetsStay
<1>9. \A s \in Sheets : entries[s] <= entries'[s]
  BY <1>1 DEF TimesheetTypeOK
<1>10. SheetHeldOK(t)'
  BY <1>4, <1>6, IdleHolding
<1>11. SheetEngineOK(t)'
  BY <1>2, <1>4, SheetConstants, EmptyHolding DEF SheetEngineOK, Nothing
<1>12. QED
  BY <1>1, <1>2, <1>4, <1>5, <1>6, <1>8, <1>9, <1>10, <1>11, SheetStep

LEMMA TimesheetFaultStep ==
    ASSUME NEW t \in Officers, EngineInv, SheetInv, TimesheetFault(t)
    PROVE  EngineInv' /\ SheetInv'
<1>1. t \in Handlers
  BY DEF Handlers
<1>2. CASE EngineFault(t) /\ irregular' = irregular \cup {held[t].id} /\ UNCHANGED <<tpc, held>>
  BY <1>1, <1>2, EngineFaultStep, SheetEngineFault DEF TimesheetFault
<1>3. CASE ServiceFault(t) /\ irregular' = irregular \cup Unsummed(t) /\ Done(t)
  BY <1>1, <1>3, ServiceFaultStep, SheetServiceFault DEF TimesheetFault
<1>4. QED
  BY <1>2, <1>3 DEF TimesheetFault

(* The handlers are gone, and what they would still have counted is marked. *)
LEMMA TimesheetCrashStep ==
    ASSUME EngineInv, SheetInv, TimesheetCrash
    PROVE  EngineInv' /\ SheetInv'
<1>1. TimesheetTypeOK /\ SheetTablesOK /\ EngineInv' /\ UNCHANGED <<instances, sheets, entries>>
  BY EngineCrashStep DEF TimesheetCrash, EngineCrash, SheetInv
<1>2. irregular \subseteq irregular' /\ irregular' \subseteq Sheets
  <2>1. \A t \in Officers : Unsummed(t) \subseteq Sheets
    BY <1>1, HeldTyped DEF Unsummed
  <2>2. QED
    BY <1>1, <2>1 DEF TimesheetCrash, TimesheetTypeOK
<1>3. TimesheetTypeOK'
  BY <1>1, <1>2, SheetConstants DEF TimesheetTypeOK, TimesheetCrash, TimesheetLabels
<1>4. ASSUME NEW t \in Officers PROVE SheetHeldOK(t)' /\ SheetEngineOK(t)'
  <2>1. tpc'[t] = "idle" /\ held'[t] = Nothing /\ wpc'[t] = "idle"
    BY DEF TimesheetCrash, EngineCrash, Handlers
  <2>2. SheetHeldOK(t)'
    BY <1>3, <2>1, IdleHolding
  <2>3. QED
    BY <2>1, <2>2, SheetConstants, EmptyHolding DEF SheetEngineOK, Nothing
<1>5. TotalsBounded' /\ LocksDecided'
  BY <1>1, <1>2 DEF SheetTablesOK, TotalsBounded, LocksDecided
<1>6. TotalsCounted'
  <2>1. \A t \in Officers, s \in Sheets : WillCount(t, s) => s \in Unsummed(t)
    BY DEF WillCount, Unsummed
  <2>2. \A s \in Sheets \ irregular' : \A t \in Officers : ~WillCount(t, s)
    BY <2>1 DEF TimesheetCrash
  <2>3. QED
    BY <1>1, <1>2, <2>2 DEF SheetTablesOK, TotalsCounted
<1>7. SheetWorkflowsExist'
  BY <1>1 DEF SheetTablesOK, SheetWorkflowsExist, Exists
<1>9. SheetTablesOK'
  BY <1>5, <1>6, <1>7 DEF SheetTablesOK
<1>10. QED
  BY <1>1, <1>3, <1>4, <1>9 DEF SheetInv

LEMMA TimesheetInitOK == TimesheetInit => EngineInv /\ SheetInv
<1> SUFFICES ASSUME TimesheetInit PROVE EngineInv /\ SheetInv
  OBVIOUS
<1>1. EngineInv /\ EngineInit
  BY EngineInitOK DEF TimesheetInit
<1>2. TimesheetTypeOK
  BY SheetConstants, TimesheetAssumption DEF TimesheetInit, TimesheetTypeOK, TimesheetLabels
<1>3. \A s \in Sheets : sheets[s] = NoSheet /\ entries[s] = 0
  BY DEF TimesheetInit
<1>4. SheetTablesOK
  BY <1>3
     DEF NoSheet, SheetTablesOK, TotalsBounded, TotalsCounted, LocksDecided, SheetWorkflowsExist
<1>5. ASSUME NEW t \in Officers PROVE SheetHeldOK(t) /\ SheetEngineOK(t)
  <2>1. tpc[t] = "idle" /\ held[t] = NotHeld(AnySheet) /\ wpc[t] = "idle"
    BY <1>1 DEF TimesheetInit, EngineInit, Handlers, Nothing
  <2>2. entries[held[t].id] = 0
    BY <1>3, <2>1, SheetConstants, EmptyHolding
  <2>3. QED
    BY <2>1, <2>2, SheetConstants, EmptyHolding DEF SheetHeldOK, SheetEngineOK
<1>6. QED
  BY <1>1, <1>2, <1>4, <1>5 DEF SheetInv

LEMMA TimesheetStepKeeps ==
    ASSUME NEW t \in Officers, EngineInv, SheetInv, TimesheetStep(t)
    PROVE  EngineInv' /\ SheetInv'
<1>1. CASE \/ InsertEntry(t) \/ RecalculateTimesheet(t) \/ FindEntries(t) \/ SaveTotals(t)
           \/ RereadTimesheet(t)
  <2>1. SheetInv'
    BY <1>1, InsertEntryStep, RecalculateStep, FindEntriesStep, SaveTotalsStep, RereadStep
  <2>2. UNCHANGED engineVars
    BY <1>1 DEF InsertEntry, RecalculateTimesheet, FindEntries, SaveTotals, RereadTimesheet
  <2>3. QED
    BY <2>1, <2>2, EngineIdleKeeps
<1>2. CASE StartWorkflow(t) \/ SaveSubmitted(t) \/ TransitionWorkflow(t) \/ SaveDecided(t)
  BY <1>2, StartWorkflowStep, SaveSubmittedStep, TransitionWorkflowStep, SaveDecidedStep
<1>3. CASE EngineStep(t) /\ UNCHANGED sheetVars
  BY <1>3, SheetEngineStep, EngineStepKeeps DEF Handlers
<1>4. QED
  BY <1>1, <1>2, <1>3 DEF TimesheetStep

LEMMA TimesheetRequestKeeps ==
    ASSUME NEW t \in Officers, NEW s \in Sheets, EngineInv, SheetInv, TimesheetRequest(t, s)
    PROVE  EngineInv' /\ SheetInv'
<1>1. UNCHANGED engineVars
  BY DEF TimesheetRequest, GetOrCreateTimesheet, CreateTimesheetEntry, RequestTotals,
     SubmitTimesheet, ApproveTimesheet, RejectTimesheet, Decide
<1>2. EngineInv'
  BY <1>1, EngineIdleKeeps
<1>3. CASE GetOrCreateTimesheet(t, s)
  BY <1>2, <1>3, GetOrCreateStep
<1>4. CASE CreateTimesheetEntry(t, s) \/ RequestTotals(t, s) \/ SubmitTimesheet(t, s)
  <2>1. \E label \in {"entry", "recalculate"}, goal \in {"entry", "totals", "submit"} :
          /\ label = "entry" => goal = "entry"
          /\ tpc[t] = "idle" /\ At(t, label, [NotHeld(s) EXCEPT !.goal = goal])
          /\ UNCHANGED <<engineVars, sheets, entries, irregular>>
    BY <1>4 DEF CreateTimesheetEntry, RequestTotals, SubmitTimesheet
  <2>2. QED
    BY <1>2, <2>1, GoalStep
<1>5. CASE ApproveTimesheet(t, s) \/ RejectTimesheet(t, s)
  BY <1>2, <1>5, DecideStep DEF ApproveTimesheet, RejectTimesheet
<1>6. QED
  BY <1>3, <1>4, <1>5 DEF TimesheetRequest

LEMMA SheetQuiet ==
    ASSUME EngineInv, SheetInv, UNCHANGED timesheetVars
    PROVE  EngineInv' /\ SheetInv'
<1>1. UNCHANGED <<instances, trail, wpc, call, beside, faults>>
      /\ UNCHANGED <<sheets, entries, tpc, held, irregular>>
  BY DEF timesheetVars, engineVars, sheetVars
<1>2. EngineInv'
  BY EngineIdleKeeps DEF timesheetVars
<1>3. TimesheetTypeOK' /\ SheetTablesOK'
  BY <1>1
     DEF SheetInv, TimesheetTypeOK, SheetTablesOK, TotalsBounded, TotalsCounted, WillCount,
         LocksDecided, SheetWorkflowsExist, Exists
<1>4. ASSUME NEW t \in Officers PROVE SheetHeldOK(t)' /\ SheetEngineOK(t)'
  <2>1. SheetHeldOK(t) /\ SheetEngineOK(t)
    BY DEF SheetInv
  <2>2. QED
    BY <1>1, <2>1
       DEF SheetHeldOK, SheetEngineOK, Exists, Starting
<1>5. QED
  BY <1>2, <1>3, <1>4 DEF SheetInv

LEMMA TimesheetInvKept ==
    ASSUME EngineInv, SheetInv, [TimesheetNext]_timesheetVars
    PROVE  EngineInv' /\ SheetInv'
<1>1. ASSUME NEW t \in Clients, (Request(t) \/ EngineStep(t) \/ EngineFault(t)) /\ UNCHANGED sheetVars
      PROVE  EngineInv' /\ SheetInv'
  BY <1>1, SheetClientStep, RequestKeeps, EngineStepKeeps, EngineFaultStep DEF Handlers
<1>2. QED
  BY <1>1, TimesheetStepKeeps, TimesheetRequestKeeps, TimesheetFaultStep, TimesheetCrashStep, SheetQuiet
     DEF TimesheetNext

LEMMA TimesheetInvHolds == TimesheetSpec => [](EngineInv /\ SheetInv)
BY TimesheetInitOK, TimesheetInvKept, PTL DEF TimesheetSpec

(* The tables and the handlers' local entities keep the shape of their columns. *)
THEOREM TimesheetTypes == TimesheetSpec => [](EngineTypeOK /\ TimesheetTypeOK)
<1>1. EngineInv /\ SheetInv => EngineTypeOK /\ TimesheetTypeOK
  BY DEF EngineInv, SheetInv
<1>2. QED
  BY <1>1, TimesheetInvHolds, PTL

LEMMA CountedImpliesSums == SheetInv => LockedTotalsAreSums
BY DEF SheetInv, SheetTablesOK, TotalsCounted, WillCount, LockedTotalsAreSums

(* The hours of a locked sheet are the sum of its entries, unless a stale save, a *)
(* refused or failed recalculation came between, or one is still to come: for any *)
(* number of officers, sheets and entries.                                        *)
THEOREM LockedSheetsAddUp == TimesheetSpec => []LockedTotalsAreSums
BY CountedImpliesSums, TimesheetInvHolds, PTL

(* A step keeps the sheets that are locked. *)
LEMMA LocksKept ==
    ASSUME SheetInv, [TimesheetNext]_timesheetVars
    PROVE  LockedSheetsKept
<1>1. CASE UNCHANGED sheets
  BY <1>1 DEF LockedSheetsKept
<1>2. CASE \E t \in Officers, s \in Sheets : GetOrCreateTimesheet(t, s)
  <2>1. PICK t \in Officers, s \in Sheets : GetOrCreateTimesheet(t, s)
    BY <1>2
  <2>2. s \in irregular \/ ~sheets[s].isLocked
    BY <2>1 DEF GetOrCreateTimesheet, SheetInv, SheetTablesOK, LocksDecided
  <2>3. QED
    BY <2>1, <2>2 DEF GetOrCreateTimesheet, LockedSheetsKept, SheetInv, TimesheetTypeOK
<1>3. CASE sheets' # sheets /\ \E t \in Officers : SaveTotals(t) \/ SaveSubmitted(t) \/ SaveDecided(t)
  <2>1. PICK t \in Officers : SaveTotals(t) \/ SaveSubmitted(t) \/ SaveDecided(t)
    BY <1>3
  <2>2. PICK row : SaveSheet(t, row)
    BY <1>3, <2>1 DEF SaveTotals, SaveSubmitted, SaveDecided
  <2>3. held[t].id \in irregular \/ ~held[t].read.isLocked
    BY <2>1 DEF SheetInv, SheetHeldOK, SaveTotals, SaveSubmitted, SaveDecided
  <2>4. held[t].id \in Sheets
    BY HeldTyped DEF SheetInv
  <2>5. QED
    BY <2>2, <2>3, <2>4 DEF SaveSheet, LockedSheetsKept, SheetInv, TimesheetTypeOK
<1>4. QED
  BY <1>1, <1>2, <1>3
     DEF TimesheetNext, TimesheetStep, TimesheetRequest, InsertEntry, RecalculateTimesheet, FindEntries,
         RereadTimesheet, StartWorkflow, TransitionWorkflow, CreateTimesheetEntry, RequestTotals,
         SubmitTimesheet, ApproveTimesheet, RejectTimesheet, Decide, TimesheetFault, TimesheetCrash,
         sheetVars, timesheetVars

(* An approved sheet stays as it is: only a handler that read it before the lock *)
(* changes it.                                                                   *)
THEOREM LockedSheetsStay == TimesheetSpec => [][LockedSheetsKept]_timesheetVars
<1>1. SheetInv /\ [TimesheetNext]_timesheetVars => [LockedSheetsKept]_timesheetVars
  BY LocksKept
<1>2. QED
  BY <1>1, TimesheetInvHolds, PTL DEF TimesheetSpec

-----------------------------------------------------------------------------
(* A cancellation that a service asks the engine for. *)

CancelledRowOK(i) == i = 0 \/ Ended(i)

(* The engine has cancelled workflow i for handler t, or is about to. *)
CancellationEnding(t, i) ==
    CancelledRowOK(i) \/ (wpc[t] = "saveCancel" /\ call[t].id = i)

LEMMA CancellationKept ==
    ASSUME NEW t \in Handlers, EngineFrame(t), NEW u \in Officers \ {t}, NEW i,
           i # 0 => Exists(i), CancellationEnding(u, i)
    PROVE  CancellationEnding(u, i)'
<1>1. wpc'[u] = wpc[u] /\ call'[u] = call[u]
  BY DEF EngineFrame, OthersStand, Handlers
<1>2. CASE CancelledRowOK(i)
  BY <1>2, EndedKept DEF CancellationEnding, CancelledRowOK
<1>3. CASE wpc[u] = "saveCancel" /\ call[u].id = i
  BY <1>1, <1>3 DEF CancellationEnding
<1>4. QED
  BY <1>2, <1>3 DEF CancellationEnding

LEMMA CancellationAsked ==
    ASSUME NEW t \in Officers, EngineInv, NEW i, Exists(i), FindForCancel(t, i)
    PROVE  CancellationEnding(t, i)'
<1>1. t \notin Clients /\ t \in Handlers /\ EngineTypeOK /\ i \in Instances
      /\ instances[i].status \in {"ACTIVE", "CANCELLED"}
      /\ instances' = instances
  BY WorkflowAssumption DEF EngineInv, AtStart, Handlers, Exists, FindForCancel
<1>2. CASE instances[i].status # "ACTIVE"
  BY <1>1, <1>2 DEF CancellationEnding, CancelledRowOK, Ended
<1>3. CASE instances[i].status = "ACTIVE"
  <2> DEFINE c == [NoCall EXCEPT !.id = i, !.row = instances[i]]
  <2>1. c.id = i
    BY DEF NoCall
  <2>2. Goto(t, "saveCancel", c)
    BY <1>3 DEF FindForCancel
  <2> HIDE DEF c
  <2>3. wpc'[t] = "saveCancel" /\ call'[t] = c
    BY <1>1, <2>2 DEF Goto, EngineTypeOK
  <2>4. QED
    BY <2>1, <2>3 DEF CancellationEnding
<1>4. QED
  BY <1>2, <1>3

LEMMA CancellationGoesOn ==
    ASSUME NEW t \in Officers, EngineInv, EngineStep(t), EngineFrame(t),
           NEW i, i # 0 => Exists(i), CancellationEnding(t, i)
    PROVE  CancelledRowOK(i)'
<1>1. EngineTypeOK /\ t \in Handlers
  BY DEF EngineInv, Handlers
<1>2. CASE CancelledRowOK(i)
  BY <1>1, <1>2, EndedKept DEF CancelledRowOK
<1>3. CASE wpc[t] = "saveCancel" /\ call[t].id = i
  <2> DEFINE row == [call[t].row EXCEPT !.status = "CANCELLED"]
  <2>1. SaveCancel(t)
    BY <1>3 DEF EngineStep, InsertInstance, RecordTransition, SaveMove, SaveCancel
  <2>2. SaveInstance(t, row)
    BY <2>1 DEF SaveCancel
  <2>3. HoldOK(t) /\ wpc[t] \in HoldingLabels
    BY <1>1, <1>3 DEF HoldingLabels, EngineInv, HandlerOK
  <2>4. call[t].id \in Instances /\ call[t].row \in WorkflowInstance
    BY <1>1, <2>3, RowsTyped DEF HoldOK
  <2>5. row.status = "CANCELLED"
    BY <2>4 DEF WorkflowInstance
  <2> HIDE DEF row
  <2>6. instances'[i].status = "CANCELLED"
    BY <1>1, <1>3, <2>2, <2>4, <2>5 DEF SaveInstance, EngineTypeOK
  <2>7. QED
    BY <2>6 DEF CancelledRowOK, Ended
<1>4. QED
  BY <1>2, <1>3 DEF CancellationEnding

(* Where a step of the engine can find a handler. *)
LEMMA EngineStepLabels ==
    ASSUME NEW t \in Officers, EngineStep(t)
    PROVE  wpc[t] # "idle" /\ (Starting(t) => InsertInstance(t))
<1>1. wpc[t] \notin RestLabels
  BY DEF RestLabels, EngineStep, InsertInstance, RecordTransition, SaveMove, SaveCancel
<1>2. wpc[t] = "insert" => InsertInstance(t)
  BY DEF EngineStep, InsertInstance, RecordTransition, SaveMove, SaveCancel
<1>3. QED
  BY <1>1, <1>2 DEF Starting, RestLabels

LEMMA EngineFaultThrows ==
    ASSUME NEW t \in Officers, EngineInv, EngineFault(t)
    PROVE  wpc[t] # "idle" /\ wpc'[t] = "threw" /\ Starting(t)'
<1>1. t \notin Clients /\ t \in Handlers /\ EngineTypeOK
  BY WorkflowAssumption DEF EngineInv, Handlers
<1>2. wpc[t] # "idle" /\ wpc'[t] = "threw"
  BY <1>1 DEF EngineFault, Finish, Goto, EngineTypeOK
<1>3. QED
  BY <1>2 DEF Starting, RestLabels

LEMMA ServiceFaultRests ==
    ASSUME NEW t \in Officers, EngineInv, ServiceFault(t)
    PROVE  wpc'[t] = "idle" /\ EngineFrame(t) /\ EngineInv'
<1>1. t \in Handlers /\ EngineTypeOK
  BY DEF EngineInv, Handlers
<1>2. wpc'[t] = "idle"
  BY <1>1 DEF ServiceFault, Goto, EngineTypeOK
<1>3. QED
  BY <1>1, <1>2, RequestFrame, ServiceFaultStep

LEMMA StartingKept ==
    ASSUME NEW t \in Handlers, EngineFrame(t), NEW u \in Officers \ {t}, Starting(u)
    PROVE  Starting(u)'
<1>1. wpc'[u] = wpc[u] /\ call'[u] = call[u]
  BY DEF EngineFrame, OthersStand, Handlers
<1>2. \A j : Exists(j) => Exists(j)'
  BY ExistsKept
<1>3. QED
  BY <1>1, <1>2 DEF Starting, Exists

LEMMA QuietRows ==
    UNCHANGED instances =>
        \A i : (Exists(i)' <=> Exists(i)) /\ (CancelledRowOK(i)' <=> CancelledRowOK(i))
BY DEF Exists, CancelledRowOK, Ended

-----------------------------------------------------------------------------
(* Leave requests. *)

LeaveLabels == {"idle", "start", "saveId", "saveUpdate", "cancel"}

(* What handler t has read and will save, and where its call of the engine stands. *)
LeaveHandlerOK(t) ==
    LET h == leave[t] IN
    /\ h.row.workflowInstanceId # 0 => Exists(h.row.workflowInstanceId)
    /\ lpc[t] # "idle" =>
         /\ h.read.status = "PENDING" /\ h.row.workflowInstanceId = h.read.workflowInstanceId
         /\ h.row.status \in {"PENDING", "CANCELLED"}
    /\ lpc[t] \in {"start", "saveId"} => h.row.status = "PENDING"
    /\ lpc[t] = "cancel" => h.row.workflowInstanceId # 0
    /\ lpc[t] = "saveUpdate" /\ h.row.status = "CANCELLED" =>
         h.id \in staleLeaves \/ CancellationEnding(t, h.row.workflowInstanceId)
    /\ lpc[t] = "saveId" => Starting(t)
    /\ lpc[t] \notin {"saveId", "saveUpdate"} => wpc[t] = "idle"

LeaveWorkflowsExist ==
    \A l \in Leaves : leaves[l].workflowInstanceId # 0 => Exists(leaves[l].workflowInstanceId)

LeaveInv ==
    /\ LeaveTypeOK
    /\ LeaveWorkflowsExist
    /\ \A t \in Officers : LeaveHandlerOK(t)
    /\ CancelledLeaveIsOver

OtherLeaveHandlersStand(t) ==
    \A u \in Officers \ {t} : lpc'[u] = lpc[u] /\ leave'[u] = leave[u]

LEMMA LeaveConstants ==
    /\ NoLeave \in LeaveRequest /\ NotOnLeave \in OnLeave
    /\ NotOnLeave.row.workflowInstanceId = 0
<1>1. NoLeave \in LeaveRequest
  BY WorkflowAssumption DEF NoLeave, LeaveRequest, LeaveRequestStatus
<1>2. (CHOOSE l \in Leaves : TRUE) \in Leaves
  BY LeaveAssumption
<1>3. QED
  BY <1>1, <1>2 DEF NotOnLeave, OnLeave, NoLeave

LEMMA LeaveAtFacts ==
    ASSUME NEW t \in Officers, NEW label \in LeaveLabels, NEW h \in OnLeave,
           LeaveTypeOK, LeaveAt(t, label, h)
    PROVE  /\ lpc' \in [Officers -> LeaveLabels] /\ leave' \in [Officers -> OnLeave]
           /\ lpc'[t] = label /\ leave'[t] = h /\ OtherLeaveHandlersStand(t)
BY DEF LeaveTypeOK, LeaveAt, OtherLeaveHandlersStand, LeaveLabels

LEMMA LeaveTyped ==
    ASSUME LeaveTypeOK, NEW t \in Officers
    PROVE  /\ leave[t] \in OnLeave /\ leave[t].id \in Leaves
           /\ leave[t].read \in LeaveRequest /\ leave[t].row \in LeaveRequest
BY DEF LeaveTypeOK, OnLeave

LEMMA OtherLeaveHandlersOK ==
    ASSUME NEW t \in Handlers, EngineFrame(t), staleLeaves \subseteq staleLeaves',
           NEW u \in Officers \ {t}, lpc'[u] = lpc[u], leave'[u] = leave[u], LeaveHandlerOK(u)
    PROVE  LeaveHandlerOK(u)'
<1> DEFINE i == leave[u].row.workflowInstanceId
<1>1. wpc'[u] = wpc[u]
  BY DEF EngineFrame, OthersStand, Handlers
<1>2. i # 0 => Exists(i) /\ Exists(i)'
  BY ExistsKept DEF LeaveHandlerOK
<1>3. CancellationEnding(u, i) => CancellationEnding(u, i)'
  BY <1>2, CancellationKept
<1>4. Starting(u) => Starting(u)'
  BY StartingKept
<1>5. (leave[u].row.workflowInstanceId # 0 => Exists(leave[u].row.workflowInstanceId))'
  BY <1>2 DEF Exists
<1>6. CancellationEnding(u, i) => CancellationEnding(u, leave[u].row.workflowInstanceId)'
  BY <1>3 DEF CancellationEnding, CancelledRowOK, Ended
<1>7. QED
  BY <1>1, <1>4, <1>5, <1>6 DEF LeaveHandlerOK

LEMMA LeaveStepOK ==
    ASSUME NEW t \in Handlers, EngineFrame(t), LeaveInv, staleLeaves \subseteq staleLeaves',
           OtherLeaveHandlersStand(t), LeaveTypeOK', LeaveWorkflowsExist', CancelledLeaveIsOver',
           t \in Officers => LeaveHandlerOK(t)'
    PROVE  LeaveInv'
<1>1. ASSUME NEW u \in Officers PROVE LeaveHandlerOK(u)'
  <2>1. CASE u = t
    BY <2>1
  <2>2. CASE u # t
    BY <2>2, OtherLeaveHandlersOK DEF LeaveInv, OtherLeaveHandlersStand
  <2>3. QED
    BY <2>1, <2>2
<1>2. QED
  BY <1>1 DEF LeaveInv

(* The rows stay, whatever the engine does. *)
LEMMA LeavesStay ==
    ASSUME NEW t \in Handlers, EngineFrame(t), LeaveInv, UNCHANGED leaves,
           staleLeaves \subseteq staleLeaves'
    PROVE  LeaveWorkflowsExist' /\ CancelledLeaveIsOver'
<1>1. ASSUME NEW l \in Leaves, leaves[l].workflowInstanceId # 0
      PROVE  (Exists(leaves[l].workflowInstanceId))'
  <2>1. \A i : Exists(i) => Exists(i)'
    BY ExistsKept
  <2>2. QED
    BY <1>1, <2>1 DEF LeaveInv, LeaveWorkflowsExist, Exists
<1>2. ASSUME NEW l \in Leaves \ staleLeaves', leaves[l].status = "CANCELLED"
      PROVE  (CancelledRowOK(leaves[l].workflowInstanceId))'
  <2> DEFINE i == leaves[l].workflowInstanceId
  <2>1. CancelledRowOK(i) /\ (i # 0 => Exists(i))
    BY <1>2 DEF LeaveInv, CancelledLeaveIsOver, CancelledRowOK, Ended, LeaveWorkflowsExist
  <2>2. \A j : CancelledRowOK(j) /\ (j # 0 => Exists(j)) => CancelledRowOK(j)'
    BY EndedKept DEF CancelledRowOK
  <2>3. CancelledRowOK(i)'
    BY <2>1, <2>2
  <2>4. QED
    BY <2>3 DEF CancelledRowOK, Ended
<1>3. QED
  BY <1>1, <1>2 DEF LeaveWorkflowsExist, CancelledLeaveIsOver, CancelledRowOK, Ended

(* A row is written, while the engine's rows stay. *)
LEMMA LeaveWritten ==
    ASSUME LeaveInv, UNCHANGED instances, NEW l \in Leaves, NEW row \in LeaveRequest,
           leaves' = [leaves EXCEPT ![l] = row], staleLeaves \subseteq staleLeaves',
           row.workflowInstanceId # 0 => Exists(row.workflowInstanceId),
           l \notin staleLeaves' /\ row.status = "CANCELLED" => CancelledRowOK(row.workflowInstanceId)
    PROVE  LeaveWorkflowsExist' /\ CancelledLeaveIsOver'
<1>1. /\ leaves'[l] = row /\ \A x \in Leaves \ {l} : leaves'[x] = leaves[x]
      /\ LeaveWorkflowsExist /\ CancelledLeaveIsOver
  BY DEF LeaveInv, LeaveTypeOK
<1>2. LeaveWorkflowsExist'
  BY <1>1 DEF LeaveWorkflowsExist, Exists
<1>3. CancelledLeaveIsOver'
  BY <1>1 DEF CancelledLeaveIsOver, CancelledRowOK, Ended
<1>4. QED
  BY <1>2, <1>3

(* Handler t goes on to label. *)
LEMMA LeaveMoves ==
    ASSUME NEW t \in Officers, EngineFrame(t), LeaveInv,
           NEW label \in LeaveLabels, NEW h \in OnLeave, LeaveAt(t, label, h),
           leaves' \in [Leaves -> LeaveRequest],
           staleLeaves \subseteq staleLeaves', staleLeaves' \subseteq Leaves,
           LeaveWorkflowsExist', CancelledLeaveIsOver', LeaveHandlerOK(t)'
    PROVE  LeaveInv'
<1>1. t \in Handlers /\ LeaveTypeOK
  BY DEF Handlers, LeaveInv
<1>2. /\ lpc' \in [Officers -> LeaveLabels] /\ leave' \in [Officers -> OnLeave]
      /\ OtherLeaveHandlersStand(t)
  BY <1>1, LeaveAtFacts
<1>3. LeaveTypeOK'
  BY <1>2 DEF LeaveTypeOK, LeaveLabels
<1>4. QED
  BY <1>1, <1>2, <1>3, LeaveStepOK

(* Handler t ends. *)
LEMMA LeaveEnds ==
    ASSUME NEW t \in Officers, EngineFrame(t), LeaveInv, LeaveAt(t, "idle", NotOnLeave),
           leaves' \in [Leaves -> LeaveRequest], wpc'[t] = "idle",
           staleLeaves \subseteq staleLeaves', staleLeaves' \subseteq Leaves,
           LeaveWorkflowsExist', CancelledLeaveIsOver'
    PROVE  LeaveInv'
<1>1. LeaveTypeOK /\ "idle" \in LeaveLabels
  BY DEF LeaveInv, LeaveLabels
<1>2. lpc'[t] = "idle" /\ leave'[t] = NotOnLeave
  BY <1>1, LeaveConstants, LeaveAtFacts
<1>3. LeaveHandlerOK(t)'
  BY <1>2, LeaveConstants DEF LeaveHandlerOK
<1>4. QED
  BY <1>1, <1>3, LeaveConstants, LeaveMoves

(* A handler reads a pending request, and goes on to change it. *)
LEMMA LeaveRead ==
    ASSUME NEW t \in Officers, LeaveInv, NEW l \in Leaves, lpc[t] = "idle",
           leaves[l].status = "PENDING", NEW label \in {"saveUpdate", "cancel"},
           NEW row \in LeaveRequest, row.status \in {"PENDING", "CANCELLED"},
           row.workflowInstanceId = leaves[l].workflowInstanceId,
           label = "cancel" => row.workflowInstanceId # 0,
           label = "saveUpdate" /\ row.status = "CANCELLED" => row.workflowInstanceId = 0,
           LeaveAt(t, label, [id |-> l, read |-> leaves[l], row |-> row]),
           UNCHANGED <<engineVars, leaves, staleLeaves>>
    PROVE  LeaveInv'
<1> DEFINE h == [id |-> l, read |-> leaves[l], row |-> row]
<1>1. LeaveTypeOK /\ wpc[t] = "idle" /\ t \in Handlers /\ label \in LeaveLabels
  BY DEF LeaveInv, LeaveHandlerOK, Handlers, LeaveLabels
<1>2. h \in OnLeave /\ h.id = l /\ h.read = leaves[l] /\ h.row = row
  BY <1>1 DEF OnLeave, LeaveTypeOK
<1> HIDE DEF h
<1>3. lpc'[t] = label /\ leave'[t] = h
  BY <1>1, <1>2, LeaveAtFacts DEF h
<1>4. EngineFrame(t) /\ wpc'[t] = "idle" /\ UNCHANGED instances
  BY <1>1, QuietFrame DEF engineVars
<1>5. LeaveWorkflowsExist' /\ CancelledLeaveIsOver'
  BY <1>1, <1>4, LeavesStay
<1>6. row.workflowInstanceId # 0 => Exists(row.workflowInstanceId)
  BY DEF LeaveInv, LeaveWorkflowsExist
<1>7. (leave[t].row.workflowInstanceId # 0 => Exists(leave[t].row.workflowInstanceId))'
  BY <1>2, <1>3, <1>4, <1>6 DEF Exists
<1>8. LeaveHandlerOK(t)'
  BY <1>2, <1>3, <1>4, <1>7 DEF LeaveHandlerOK, CancellationEnding, CancelledRowOK
<1>9. leaves' \in [Leaves -> LeaveRequest] /\ staleLeaves' \subseteq Leaves
      /\ staleLeaves \subseteq staleLeaves'
  BY <1>1 DEF LeaveTypeOK
<1>10. LeaveAt(t, label, h)
  BY DEF h
<1>11. QED
  BY <1>1, <1>2, <1>4, <1>5, <1>8, <1>9, <1>10, LeaveMoves

LEMMA CreateLeaveStep ==
    ASSUME NEW t \in Officers, LeaveInv, NEW l \in Leaves, CreateLeaveRequest(t, l)
    PROVE  LeaveInv'
<1> DEFINE row == [NoLeave EXCEPT !.status = "PENDING"]
           h == [id |-> l, read |-> row, row |-> row]
<1>1. LeaveTypeOK /\ wpc[t] = "idle" /\ t \in Handlers /\ "start" \in LeaveLabels
  BY DEF LeaveInv, LeaveHandlerOK, Handlers, LeaveLabels, CreateLeaveRequest
<1>2. row \in LeaveRequest /\ row.status = "PENDING" /\ row.workflowInstanceId = 0
  BY WorkflowAssumption DEF NoLeave, LeaveRequest, LeaveRequestStatus
<1>3. /\ leaves' = [leaves EXCEPT ![l] = row] /\ LeaveAt(t, "start", h)
      /\ UNCHANGED <<engineVars, staleLeaves>>
  BY DEF CreateLeaveRequest
<1> HIDE DEF row
<1>4. h \in OnLeave /\ h.read = row /\ h.row = row
  BY <1>2 DEF OnLeave
<1> HIDE DEF h
<1>5. lpc'[t] = "start" /\ leave'[t] = h
  BY <1>1, <1>3, <1>4, LeaveAtFacts
<1>6. EngineFrame(t) /\ wpc'[t] = "idle" /\ UNCHANGED instances
  BY <1>1, <1>3, QuietFrame DEF engineVars
<1>7. LeaveWorkflowsExist' /\ CancelledLeaveIsOver'
  BY <1>2, <1>3, <1>6, LeaveWritten
<1>8. LeaveHandlerOK(t)'
  BY <1>2, <1>4, <1>5, <1>6 DEF LeaveHandlerOK
<1>9. leaves' \in [Leaves -> LeaveRequest] /\ staleLeaves' \subseteq Leaves
      /\ staleLeaves \subseteq staleLeaves'
  BY <1>1, <1>2, <1>3 DEF LeaveTypeOK
<1>10. QED
  BY <1>1, <1>3, <1>4, <1>6, <1>7, <1>8, <1>9, LeaveMoves

LEMMA UpdateLeaveStep ==
    ASSUME NEW t \in Officers, LeaveInv, NEW l \in Leaves, UpdateLeaveRequest(t, l)
    PROVE  LeaveInv'
<1>1. leaves[l] \in LeaveRequest
  BY DEF LeaveInv, LeaveTypeOK
<1>2. ASSUME NEW row \in LeaveRequest, row = leaves[l] PROVE LeaveInv'
  BY <1>2, LeaveRead DEF UpdateLeaveRequest
<1>3. QED
  BY <1>1, <1>2

LEMMA CancelLeaveStep ==
    ASSUME NEW t \in Officers, LeaveInv, NEW l \in Leaves, CancelLeaveRequest(t, l)
    PROVE  LeaveInv'
<1> DEFINE row == [leaves[l] EXCEPT !.status = "CANCELLED"]
           label == IF leaves[l].workflowInstanceId = 0 THEN "saveUpdate" ELSE "cancel"
<1>1. leaves[l] \in LeaveRequest
  BY DEF LeaveInv, LeaveTypeOK
<1>2. row \in LeaveRequest /\ row.status = "CANCELLED"
      /\ row.workflowInstanceId = leaves[l].workflowInstanceId
  BY <1>1 DEF LeaveRequest, LeaveRequestStatus
<1>3. /\ lpc[t] = "idle" /\ leaves[l].status = "PENDING"
      /\ LeaveAt(t, label, [id |-> l, read |-> leaves[l], row |-> row])
      /\ UNCHANGED <<engineVars, leaves, staleLeaves>>
  BY DEF CancelLeaveRequest
<1> HIDE DEF row
<1>4. QED
  BY <1>2, <1>3, LeaveRead

-----------------------------------------------------------------------------
(* Leave requests: the calls of the engine, and what follows them. *)

LEMMA LeaveCalls ==
    ASSUME NEW t \in Officers, EngineFrame(t), LeaveInv, UNCHANGED <<leaves, staleLeaves>>,
           NEW label \in LeaveLabels, LeaveAt(t, label, leave[t]), LeaveHandlerOK(t)'
    PROVE  LeaveInv'
<1>1. LeaveTypeOK /\ leave[t] \in OnLeave /\ t \in Handlers
  BY LeaveTyped DEF LeaveInv, Handlers
<1>2. LeaveWorkflowsExist' /\ CancelledLeaveIsOver'
  BY <1>1, LeavesStay
<1>3. QED
  BY <1>1, <1>2, LeaveMoves DEF LeaveTypeOK

LEMMA StartLeaveStep ==
    ASSUME NEW t \in Officers, EngineInv, LeaveInv, StartLeaveWorkflow(t)
    PROVE  EngineInv' /\ LeaveInv'
<1>1. PICK k \in Keys : FindByEntity(t, leave[t].id, k)
  BY DEF StartLeaveWorkflow
<1>2. /\ t \in Handlers /\ LeaveTypeOK /\ leave[t].id \in Entities /\ LeaveHandlerOK(t)
      /\ leave[t] \in OnLeave /\ "saveId" \in LeaveLabels
  BY LeaveTyped, LeaveAssumption DEF Handlers, LeaveInv, LeaveLabels
<1>3. EngineFrame(t) /\ EngineInv' /\ Starting(t)'
  BY <1>1, <1>2, RequestFrame, FindByEntityStep, LookStarts
<1>4. lpc[t] = "start" /\ LeaveAt(t, "saveId", leave[t]) /\ UNCHANGED <<leaves, staleLeaves>>
  BY DEF StartLeaveWorkflow
<1>5. lpc'[t] = "saveId" /\ leave'[t] = leave[t]
  BY <1>2, <1>4, LeaveAtFacts
<1>6. LeaveHandlerOK(t)'
  <2>1. \A i : Exists(i) => Exists(i)'
    BY <1>2, <1>3, ExistsKept
  <2>2. (leave[t].row.workflowInstanceId # 0 => Exists(leave[t].row.workflowInstanceId))'
    BY <1>2, <1>5, <2>1 DEF LeaveHandlerOK, Exists
  <2>3. QED
    BY <1>2, <1>3, <1>4, <1>5, <2>2 DEF LeaveHandlerOK
<1>7. QED
  BY <1>2, <1>3, <1>4, <1>6, LeaveCalls

LEMMA CancelLeaveWorkflowStep ==
    ASSUME NEW t \in Officers, EngineInv, LeaveInv, CancelLeaveWorkflow(t)
    PROVE  EngineInv' /\ LeaveInv'
<1> DEFINE i == leave[t].row.workflowInstanceId
<1>1. /\ t \in Handlers /\ LeaveTypeOK /\ LeaveHandlerOK(t) /\ leave[t] \in OnLeave
      /\ "saveUpdate" \in LeaveLabels /\ lpc[t] = "cancel" /\ FindForCancel(t, i)
      /\ LeaveAt(t, "saveUpdate", leave[t]) /\ UNCHANGED <<leaves, staleLeaves>>
  BY LeaveTyped DEF Handlers, LeaveInv, LeaveLabels, CancelLeaveWorkflow
<1>2. Exists(i) /\ i \in Instances
  BY <1>1 DEF LeaveHandlerOK, Exists
<1>3. EngineFrame(t) /\ EngineInv'
  BY <1>1, <1>2, RequestFrame, FindForCancelStep
<1>4. lpc'[t] = "saveUpdate" /\ leave'[t] = leave[t]
  BY <1>1, LeaveAtFacts
<1>5. \A j : j = i => CancellationEnding(t, j)' /\ Exists(j)'
  BY <1>1, <1>2, <1>3, CancellationAsked, ExistsKept
<1>6. (Exists(leave[t].row.workflowInstanceId))'
      /\ CancellationEnding(t, leave[t].row.workflowInstanceId)'
  BY <1>4, <1>5 DEF CancellationEnding, CancelledRowOK, Ended, Exists
<1>7. LeaveHandlerOK(t)'
  BY <1>1, <1>4, <1>6 DEF LeaveHandlerOK
<1>8. QED
  BY <1>1, <1>3, <1>7, LeaveCalls

(* A save of the request held, after which the handler ends. *)
LEMMA LeaveSaved ==
    ASSUME NEW t \in Officers, EngineFrame(t), LeaveInv, UNCHANGED instances,
           wpc'[t] = "idle", NEW row \in LeaveRequest, SaveLeave(t, row), LeaveAt(t, "idle", NotOnLeave),
           row.workflowInstanceId # 0 => Exists(row.workflowInstanceId),
           leave[t].id \notin staleLeaves /\ row.status = "CANCELLED" =>
              CancelledRowOK(row.workflowInstanceId)
    PROVE  LeaveInv'
<1>1. LeaveTypeOK /\ leave[t].id \in Leaves
  BY LeaveTyped DEF LeaveInv
<1>2. /\ leaves' = [leaves EXCEPT ![leave[t].id] = row]
      /\ staleLeaves \subseteq staleLeaves' /\ staleLeaves' \subseteq Leaves
  BY <1>1 DEF SaveLeave, LeaveTypeOK
<1>3. LeaveWorkflowsExist' /\ CancelledLeaveIsOver'
  BY <1>1, <1>2, LeaveWritten
<1>4. leaves' \in [Leaves -> LeaveRequest]
  BY <1>1, <1>2 DEF LeaveTypeOK
<1>5. QED
  BY <1>2, <1>3, <1>4, LeaveEnds

LEMMA SaveWorkflowIdStep ==
    ASSUME NEW t \in Officers, EngineInv, LeaveInv, SaveWorkflowId(t)
    PROVE  EngineInv' /\ LeaveInv'
<1> DEFINE g == leave[t]
<1>1. /\ LeaveTypeOK /\ LeaveHandlerOK(t) /\ lpc[t] = "saveId" /\ Resume(t)
      /\ LeaveAt(t, "idle", NotOnLeave)
  BY DEF SaveWorkflowId, LeaveInv
<1>2. /\ t \in Handlers /\ wpc'[t] = "idle" /\ EngineFrame(t) /\ EngineInv'
      /\ UNCHANGED instances
  BY <1>1, ResumeRests
<1>3. g.row \in LeaveRequest /\ g.row.status = "PENDING" /\ call[t].id \in 0 .. MaxInstances
  BY <1>1, <1>2, LeaveTyped DEF LeaveHandlerOK, EngineInv, EngineTypeOK, Call
<1>4. CASE wpc[t] = "returned"
  <2> DEFINE row == [g.row EXCEPT !.workflowInstanceId = call[t].id]
  <2>1. row \in LeaveRequest /\ row.status = "PENDING" /\ row.workflowInstanceId = call[t].id
    BY <1>3 DEF LeaveRequest
  <2>2. Exists(call[t].id)
    BY <1>1, <1>4 DEF LeaveHandlerOK, Starting
  <2>3. SaveLeave(t, row)
    BY <1>4 DEF SaveWorkflowId
  <2> HIDE DEF row
  <2>4. QED
    BY <1>1, <1>2, <2>1, <2>2, <2>3, LeaveSaved
<1>5. CASE wpc[t] # "returned"
  <2>1. UNCHANGED <<leaves, staleLeaves>>
    BY <1>5 DEF SaveWorkflowId
  <2>2. LeaveWorkflowsExist' /\ CancelledLeaveIsOver'
    BY <1>2, <2>1, LeavesStay
  <2>3. QED
    BY <1>1, <1>2, <2>1, <2>2, LeaveEnds DEF LeaveTypeOK
<1>6. QED
  BY <1>4, <1>5

LEMMA SaveLeaveRequestStep ==
    ASSUME NEW t \in Officers, EngineInv, LeaveInv, SaveLeaveRequest(t)
    PROVE  EngineInv' /\ LeaveInv'
<1> DEFINE g == leave[t]
<1>1. /\ LeaveTypeOK /\ LeaveHandlerOK(t) /\ lpc[t] = "saveUpdate" /\ Resume(t)
      /\ SaveLeave(t, g.row) /\ LeaveAt(t, "idle", NotOnLeave)
  BY DEF SaveLeaveRequest, LeaveInv
<1>2. /\ wpc'[t] = "idle" /\ wpc[t] \in RestLabels /\ EngineFrame(t) /\ EngineInv'
      /\ UNCHANGED instances
  BY <1>1, ResumeRests
<1>3. g.row \in LeaveRequest /\ (g.row.workflowInstanceId # 0 => Exists(g.row.workflowInstanceId))
  BY <1>1, LeaveTyped DEF LeaveHandlerOK
<1>4. g.id \notin staleLeaves /\ g.row.status = "CANCELLED" =>
        CancelledRowOK(g.row.workflowInstanceId)
  BY <1>1, <1>2 DEF LeaveHandlerOK, CancellationEnding, RestLabels
<1>5. ASSUME NEW r \in LeaveRequest, r = g.row PROVE LeaveInv'
  BY <1>1, <1>2, <1>3, <1>4, <1>5, LeaveSaved
<1>6. QED
  BY <1>2, <1>3, <1>5

-----------------------------------------------------------------------------
(* Leave requests: steps of the engine, failures, crashes, and all of the steps. *)

(* The engine moves, of a client or for the service's handler. *)
LEMMA EngineMovesLeave ==
    ASSUME NEW t \in Handlers, EngineFrame(t), LeaveInv, UNCHANGED <<leaves, lpc, leave>>,
           staleLeaves \subseteq staleLeaves', staleLeaves' \subseteq Leaves,
           t \in Officers => LeaveHandlerOK(t)'
    PROVE  LeaveInv'
<1>1. LeaveTypeOK' /\ OtherLeaveHandlersStand(t)
  BY DEF LeaveInv, LeaveTypeOK, OtherLeaveHandlersStand
<1>2. QED
  BY <1>1, LeavesStay, LeaveStepOK

LEMMA LeaveEngineStep ==
    ASSUME NEW t \in Officers, EngineInv, LeaveInv, EngineStep(t), UNCHANGED leaveRowVars
    PROVE  EngineInv' /\ LeaveInv'
<1>1. UNCHANGED <<leaves, lpc, leave, staleLeaves>> /\ t \in Handlers
  BY DEF leaveRowVars, Handlers
<1>2. EngineFrame(t) /\ EngineInv' /\ LeaveHandlerOK(t) /\ LeaveTypeOK
  BY <1>1, EngineStepFrame, EngineStepKeeps DEF LeaveInv
<1> DEFINE i == leave[t].row.workflowInstanceId
<1>3. i # 0 => Exists(i) /\ Exists(i)'
  BY <1>1, <1>2, ExistsKept DEF LeaveHandlerOK
<1>4. lpc[t] \in {"saveId", "saveUpdate"}
  BY <1>2, EngineStepLabels DEF LeaveHandlerOK
<1>5. lpc[t] = "saveId" => Starting(t)'
  BY <1>2, EngineStepLabels, InsertedExists DEF LeaveHandlerOK
<1>6. \A j : j = i /\ CancellationEnding(t, j) => CancelledRowOK(j)'
  BY <1>2, <1>3, CancellationGoesOn
<1>7. (leave[t].row.workflowInstanceId # 0 => Exists(leave[t].row.workflowInstanceId))'
  BY <1>1, <1>3 DEF Exists
<1>8. CancellationEnding(t, i) => CancellationEnding(t, leave[t].row.workflowInstanceId)'
  BY <1>1, <1>6 DEF CancellationEnding, CancelledRowOK, Ended
<1>9. LeaveHandlerOK(t)'
  BY <1>1, <1>2, <1>4, <1>5, <1>7, <1>8 DEF LeaveHandlerOK
<1>10. QED
  BY <1>1, <1>2, <1>9, EngineMovesLeave DEF LeaveTypeOK

LEMMA LeaveClientStep ==
    ASSUME NEW t \in Clients, EngineInv, LeaveInv,
           Request(t) \/ EngineStep(t) \/ EngineFault(t), UNCHANGED leaveRowVars
    PROVE  EngineInv' /\ LeaveInv'
<1>1. t \in Handlers /\ t \notin Officers
  BY WorkflowAssumption DEF Handlers
<1>2. EngineFrame(t) /\ EngineInv'
  BY <1>1, EngineStepFrame, RequestFrame, EngineStepKeeps, RequestKeeps, EngineFaultStep
<1>3. QED
  BY <1>1, <1>2, EngineMovesLeave DEF leaveRowVars, LeaveInv, LeaveTypeOK

LEMMA LeaveFaultStep ==
    ASSUME NEW t \in Officers, EngineInv, LeaveInv, LeaveFault(t)
    PROVE  EngineInv' /\ LeaveInv'
<1>1. t \in Handlers /\ LeaveTypeOK /\ LeaveHandlerOK(t) /\ UNCHANGED leaves /\ leave[t].id \in Leaves
  BY LeaveTyped DEF Handlers, LeaveInv, LeaveFault
<1>2. CASE EngineFault(t) /\ staleLeaves' = staleLeaves \cup {leave[t].id} /\ UNCHANGED <<lpc, leave>>
  <2>1. EngineFrame(t) /\ EngineInv'
    BY <1>1, <1>2, RequestFrame, EngineFaultStep
  <2>2. wpc[t] # "idle" /\ Starting(t)'
    BY <1>2, EngineFaultThrows
  <2>3. \A i : Exists(i) => Exists(i)'
    BY <1>1, <2>1, ExistsKept
  <2>4. (leave[t].row.workflowInstanceId # 0 => Exists(leave[t].row.workflowInstanceId))'
    BY <1>1, <1>2, <2>3 DEF LeaveHandlerOK, Exists
  <2>5. LeaveHandlerOK(t)'
    BY <1>1, <1>2, <2>2, <2>4 DEF LeaveHandlerOK
  <2>6. QED
    BY <1>1, <1>2, <2>1, <2>5, EngineMovesLeave DEF LeaveTypeOK
<1>3. CASE ServiceFault(t) /\ LeaveAt(t, "idle", NotOnLeave) /\ UNCHANGED staleLeaves
  <2>1. EngineFrame(t) /\ EngineInv' /\ wpc'[t] = "idle"
    BY <1>3, ServiceFaultRests
  <2>2. LeaveWorkflowsExist' /\ CancelledLeaveIsOver'
    BY <1>1, <1>3, <2>1, LeavesStay
  <2>3. QED
    BY <1>1, <1>3, <2>1, <2>2, LeaveEnds DEF LeaveTypeOK
<1>4. QED
  BY <1>2, <1>3 DEF LeaveFault

LEMMA LeaveCrashStep ==
    ASSUME EngineInv, LeaveInv, LeaveCrash
    PROVE  EngineInv' /\ LeaveInv'
<1>1. /\ LeaveTypeOK /\ LeaveWorkflowsExist /\ CancelledLeaveIsOver /\ EngineInv'
      /\ UNCHANGED <<instances, leaves, staleLeaves>>
  BY EngineCrashStep DEF LeaveCrash, EngineCrash, LeaveInv
<1>2. LeaveTypeOK'
  <2>1. lpc' = [t \in Officers |-> "idle"] /\ leave' = [t \in Officers |-> NotOnLeave]
    BY DEF LeaveCrash
  <2>2. QED
    BY <1>1, <2>1, LeaveConstants DEF LeaveTypeOK
<1>3. ASSUME NEW t \in Officers PROVE LeaveHandlerOK(t)'
  <2>1. lpc'[t] = "idle" /\ leave'[t] = NotOnLeave /\ wpc'[t] = "idle"
    BY DEF LeaveCrash, EngineCrash, Handlers
  <2>2. QED
    BY <2>1, LeaveConstants DEF LeaveHandlerOK
<1>4. LeaveWorkflowsExist' /\ CancelledLeaveIsOver'
  BY <1>1 DEF LeaveWorkflowsExist, CancelledLeaveIsOver, Exists
<1>5. QED
  BY <1>1, <1>2, <1>3, <1>4 DEF LeaveInv

LEMMA LeaveInitOK == LeaveInit => EngineInv /\ LeaveInv
<1> SUFFICES ASSUME LeaveInit PROVE EngineInv /\ LeaveInv
  OBVIOUS
<1>1. EngineInv /\ EngineInit
  BY EngineInitOK DEF LeaveInit
<1>2. LeaveTypeOK
  BY LeaveConstants DEF LeaveInit, LeaveTypeOK
<1>3. LeaveWorkflowsExist /\ CancelledLeaveIsOver
  BY DEF LeaveInit, NoLeave, LeaveWorkflowsExist, CancelledLeaveIsOver
<1>4. ASSUME NEW t \in Officers PROVE LeaveHandlerOK(t)
  <2>1. lpc[t] = "idle" /\ leave[t] = NotOnLeave /\ wpc[t] = "idle"
    BY <1>1 DEF LeaveInit, EngineInit, Handlers
  <2>2. QED
    BY <2>1, LeaveConstants DEF LeaveHandlerOK
<1>5. QED
  BY <1>1, <1>2, <1>3, <1>4 DEF LeaveInv

LEMMA LeaveQuiet ==
    ASSUME EngineInv, LeaveInv, UNCHANGED leaveVars
    PROVE  EngineInv' /\ LeaveInv'
<1>1. UNCHANGED <<instances, trail, wpc, call, beside, faults>>
      /\ UNCHANGED <<leaves, lpc, leave, staleLeaves>>
  BY DEF leaveVars, engineVars, leaveRowVars
<1>2. EngineInv'
  BY EngineIdleKeeps DEF leaveVars
<1>3. LeaveTypeOK' /\ LeaveWorkflowsExist' /\ CancelledLeaveIsOver'
  BY <1>1 DEF LeaveInv, LeaveTypeOK, LeaveWorkflowsExist, CancelledLeaveIsOver, Exists
<1>4. ASSUME NEW t \in Officers PROVE LeaveHandlerOK(t)'
  BY <1>1 DEF LeaveInv, LeaveHandlerOK, Exists, CancellationEnding, CancelledRowOK, Ended, Starting
<1>5. QED
  BY <1>2, <1>3, <1>4 DEF LeaveInv

LEMMA LeaveStepKeeps ==
    ASSUME NEW t \in Officers, EngineInv, LeaveInv, LeaveStep(t)
    PROVE  EngineInv' /\ LeaveInv'
<1>1. ASSUME NEW l \in Leaves,
             CreateLeaveRequest(t, l) \/ UpdateLeaveRequest(t, l) \/ CancelLeaveRequest(t, l)
      PROVE  EngineInv' /\ LeaveInv'
  <2>1. UNCHANGED engineVars
    BY <1>1 DEF CreateLeaveRequest, UpdateLeaveRequest, CancelLeaveRequest
  <2>2. QED
    BY <1>1, <2>1, EngineIdleKeeps, CreateLeaveStep, UpdateLeaveStep, CancelLeaveStep
<1>2. CASE StartLeaveWorkflow(t) \/ SaveWorkflowId(t) \/ CancelLeaveWorkflow(t) \/ SaveLeaveRequest(t)
  BY <1>2, StartLeaveStep, SaveWorkflowIdStep, CancelLeaveWorkflowStep, SaveLeaveRequestStep
<1>3. CASE LeaveFault(t) \/ (EngineStep(t) /\ UNCHANGED leaveRowVars)
  BY <1>3, LeaveFaultStep, LeaveEngineStep
<1>4. QED
  BY <1>1, <1>2, <1>3 DEF LeaveStep

LEMMA LeaveInvKept ==
    ASSUME EngineInv, LeaveInv, [LeaveNext]_leaveVars
    PROVE  EngineInv' /\ LeaveInv'
BY LeaveStepKeeps, LeaveClientStep, LeaveCrashStep, LeaveQuiet DEF LeaveNext

LEMMA LeaveInvHolds == LeaveSpec => [](EngineInv /\ LeaveInv)
BY LeaveInitOK, LeaveInvKept, PTL DEF LeaveSpec

(* The tables and the handlers' local entities keep the shape of their columns. *)
THEOREM LeaveTypes == LeaveSpec => [](EngineTypeOK /\ LeaveTypeOK)
<1>1. EngineInv /\ LeaveInv => EngineTypeOK /\ LeaveTypeOK
  BY DEF EngineInv, LeaveInv
<1>2. QED
  BY <1>1, LeaveInvHolds, PTL

(* The workflow of a cancelled request is over, unless its row was saved on a      *)
(* stale reading or its engine call failed: for any definitions and any number of  *)
(* requests, officers and clients of the engine.                                   *)
THEOREM CancelledLeaveEnds == LeaveSpec => []CancelledLeaveIsOver
<1>1. LeaveInv => CancelledLeaveIsOver
  BY DEF LeaveInv
<1>2. QED
  BY <1>1, LeaveInvHolds, PTL

LEMMA CancellationsKept ==
    ASSUME LeaveInv, [LeaveNext]_leaveVars
    PROVE  CancelledLeaveKept
<1>1. CASE UNCHANGED leaves
  BY <1>1 DEF CancelledLeaveKept
<1>2. CASE \E t \in Officers, l \in Leaves : CreateLeaveRequest(t, l)
  BY <1>2 DEF CreateLeaveRequest, CancelledLeaveKept, LeaveInv, LeaveTypeOK
<1>3. CASE \E t \in Officers : (SaveWorkflowId(t) \/ SaveLeaveRequest(t)) /\ \E row : SaveLeave(t, row)
  <2>1. PICK t \in Officers : (SaveWorkflowId(t) \/ SaveLeaveRequest(t)) /\ \E row : SaveLeave(t, row)
    BY <1>3
  <2>2. leave[t].id \in Leaves /\ leave[t].read.status = "PENDING"
    BY <2>1, LeaveTyped DEF LeaveInv, LeaveHandlerOK, SaveWorkflowId, SaveLeaveRequest
  <2>3. QED
    BY <2>1, <2>2 DEF SaveLeave, CancelledLeaveKept, LeaveInv, LeaveTypeOK
<1>4. QED
  BY <1>1, <1>2, <1>3
     DEF LeaveNext, LeaveStep, UpdateLeaveRequest, CancelLeaveRequest, StartLeaveWorkflow,
         SaveWorkflowId, CancelLeaveWorkflow, SaveLeaveRequest, LeaveFault, LeaveCrash,
         leaveRowVars, leaveVars

(* A cancelled request comes back only by a handler that read it before. *)
THEOREM CancelledLeaveStays == LeaveSpec => [][CancelledLeaveKept]_leaveVars
<1>1. LeaveInv /\ [LeaveNext]_leaveVars => [CancelledLeaveKept]_leaveVars
  BY CancellationsKept
<1>2. QED
  BY <1>1, LeaveInvHolds, PTL DEF LeaveSpec

-----------------------------------------------------------------------------
(* Equipment bookings. *)

BookingLabels == {"idle", "start", "insert", "conflicts", "cancel", "save"}
InForce(r) == r.status \in {"PENDING", "APPROVED", "ACTIVE"}
Refused(r) == r.status \in {"REJECTED", "CANCELLED"}
On(r) == r.startDate .. r.endDate

(* What handler t has read and will save, and where its call of the engine stands. *)
BookingHandlerOK(t) ==
    LET h == booking[t] IN
    /\ h.row.workflowInstanceId # 0 => Exists(h.row.workflowInstanceId)
    /\ bpc[t] \in {"conflicts", "cancel", "save"} =>
         /\ h.id \in Bookings /\ InForce(h.read)
         /\ h.row.status # "NONE" /\ h.row.workflowInstanceId = h.read.workflowInstanceId
    /\ bpc[t] \in {"start", "insert"} => InForce(h.row) /\ h.id = 0
    /\ bpc[t] = "conflicts" => InForce(h.row)
    /\ bpc[t] = "cancel" => h.row.workflowInstanceId # 0
    /\ bpc[t] = "save" /\ Refused(h.row) =>
         h.id \in raced \/ CancellationEnding(t, h.row.workflowInstanceId)
    /\ bpc[t] = "insert" => Starting(t)
    /\ bpc[t] \notin {"insert", "save"} => wpc[t] = "idle"

BookingWorkflowsExist ==
    \A b \in Bookings : bookings[b].workflowInstanceId # 0 => Exists(bookings[b].workflowInstanceId)

BookingTablesOK ==
    BookingWorkflowsExist /\ NoDoubleBooking /\ RefusedBookingsEndTheirWorkflow

BookingInv ==
    /\ BookingTypeOK
    /\ \A t \in Officers : BookingHandlerOK(t)
    /\ BookingTablesOK

OtherBookingHandlersStand(t) ==
    \A u \in Officers \ {t} : bpc'[u] = bpc[u] /\ booking'[u] = booking[u]

LEMMA BookingConstants ==
    /\ NoBookingRow \in EquipmentBooking /\ NoBooking \in Booked
    /\ NoBooking.id = 0 /\ NoBooking.row = NoBookingRow /\ NoBooking.row.workflowInstanceId = 0
BY WorkflowAssumption, BookingAssumption
   DEF NoBookingRow, NoBooking, EquipmentBooking, BookingStatus, Booked

LEMMA BookingAtFacts ==
    ASSUME NEW t \in Officers, NEW label \in BookingLabels, NEW h \in Booked,
           BookingTypeOK, BookingAt(t, label, h)
    PROVE  /\ bpc' \in [Officers -> BookingLabels] /\ booking' \in [Officers -> Booked]
           /\ bpc'[t] = label /\ booking'[t] = h /\ OtherBookingHandlersStand(t)
BY DEF BookingTypeOK, BookingAt, OtherBookingHandlersStand, BookingLabels

LEMMA BookingTyped ==
    ASSUME BookingTypeOK, NEW t \in Officers
    PROVE  /\ booking[t] \in Booked /\ booking[t].id \in 0 .. MaxBookings
           /\ booking[t].read \in EquipmentBooking /\ booking[t].row \in EquipmentBooking
BY DEF BookingTypeOK, Booked

(* The three cases of the query find every booking in force that shares a day. *)
LEMMA QueryFindsOverlaps ==
    ASSUME BookingTypeOK, NEW start \in Int, NEW end \in Int,
           NEW c \in Bookings \ ActiveBookingsInRange(start, end), InForce(bookings[c])
    PROVE  (start .. end) \cap On(bookings[c]) = {}
<1>1. bookings[c].startDate \in Int /\ bookings[c].endDate \in Int
  BY DEF BookingTypeOK, EquipmentBooking
<1>2. SUFFICES ASSUME NEW day \in Int, start <= day, day <= end,
                      bookings[c].startDate <= day, day <= bookings[c].endDate
               PROVE  FALSE
  BY <1>1 DEF On
<1>3. CASE bookings[c].startDate <= start
  BY <1>1, <1>2, <1>3 DEF ActiveBookingsInRange, InForce
<1>4. CASE bookings[c].startDate > start /\ bookings[c].endDate >= end
  BY <1>1, <1>2, <1>4 DEF ActiveBookingsInRange, InForce
<1>5. CASE bookings[c].startDate > start /\ bookings[c].endDate < end
  BY <1>1, <1>2, <1>5 DEF ActiveBookingsInRange, InForce
<1>6. QED
  BY <1>1, <1>3, <1>4, <1>5

LEMMA NoOverlaps ==
    NoDoubleBooking <=>
        \A b, c \in Bookings \ raced :
            b # c /\ InForce(bookings[b]) /\ InForce(bookings[c])
                => On(bookings[b]) \cap On(bookings[c]) = {}
BY DEF NoDoubleBooking, InForce, On

LEMMA OtherBookingHandlersOK ==
    ASSUME NEW t \in Handlers, EngineFrame(t), raced \subseteq raced',
           NEW u \in Officers \ {t}, bpc'[u] = bpc[u], booking'[u] = booking[u], BookingHandlerOK(u)
    PROVE  BookingHandlerOK(u)'
<1> DEFINE i == booking[u].row.workflowInstanceId
<1>1. wpc'[u] = wpc[u]
  BY DEF EngineFrame, OthersStand, Handlers
<1>2. i # 0 => Exists(i) /\ Exists(i)'
  BY ExistsKept DEF BookingHandlerOK
<1>3. \A j : j = i /\ CancellationEnding(u, j) => CancellationEnding(u, j)'
  BY <1>2, CancellationKept
<1>4. Starting(u) => Starting(u)'
  BY StartingKept
<1>5. (booking[u].row.workflowInstanceId # 0 => Exists(booking[u].row.workflowInstanceId))'
  BY <1>2 DEF Exists
<1>6. CancellationEnding(u, i) => CancellationEnding(u, booking[u].row.workflowInstanceId)'
  BY <1>3 DEF CancellationEnding, CancelledRowOK, Ended
<1>7. QED
  BY <1>1, <1>4, <1>5, <1>6 DEF BookingHandlerOK, InForce, Refused

LEMMA BookingStepOK ==
    ASSUME NEW t \in Handlers, EngineFrame(t), BookingInv, raced \subseteq raced',
           OtherBookingHandlersStand(t), BookingTypeOK', BookingTablesOK',
           t \in Officers => BookingHandlerOK(t)'
    PROVE  BookingInv'
<1>1. ASSUME NEW u \in Officers PROVE BookingHandlerOK(u)'
  <2>1. CASE u = t
    BY <2>1
  <2>2. CASE u # t
    BY <2>2, OtherBookingHandlersOK DEF BookingInv, OtherBookingHandlersStand
  <2>3. QED
    BY <2>1, <2>2
<1>2. QED
  BY <1>1 DEF BookingInv

(* The rows stay, whatever the engine does. *)
LEMMA BookingsStay ==
    ASSUME NEW t \in Handlers, EngineFrame(t), BookingInv, UNCHANGED bookings, raced \subseteq raced'
    PROVE  BookingTablesOK'
<1>1. ASSUME NEW b \in Bookings, bookings[b].workflowInstanceId # 0
      PROVE  (Exists(bookings[b].workflowInstanceId))'
  <2>1. \A i : Exists(i) => Exists(i)'
    BY ExistsKept
  <2>2. QED
    BY <1>1, <2>1 DEF BookingInv, BookingTablesOK, BookingWorkflowsExist, Exists
<1>2. ASSUME NEW b \in Bookings \ raced', Refused(bookings[b])
      PROVE  (CancelledRowOK(bookings[b].workflowInstanceId))'
  <2> DEFINE i == bookings[b].workflowInstanceId
  <2>1. CancelledRowOK(i) /\ (i # 0 => Exists(i))
    BY <1>2
       DEF BookingInv, BookingTablesOK, RefusedBookingsEndTheirWorkflow, CancelledRowOK, Ended,
           Refused, BookingWorkflowsExist
  <2>2. \A j : CancelledRowOK(j) /\ (j # 0 => Exists(j)) => CancelledRowOK(j)'
    BY EndedKept DEF CancelledRowOK
  <2>3. CancelledRowOK(i)'
    BY <2>1, <2>2
  <2>4. QED
    BY <2>3 DEF CancelledRowOK, Ended
<1>3. NoDoubleBooking'
  BY DEF BookingInv, BookingTablesOK, NoDoubleBooking
<1>4. BookingWorkflowsExist' /\ RefusedBookingsEndTheirWorkflow'
  BY <1>1, <1>2 DEF BookingWorkflowsExist, RefusedBookingsEndTheirWorkflow, CancelledRowOK, Ended, Refused
<1>5. QED
  BY <1>3, <1>4 DEF BookingTablesOK

(* A row is written, while the engine's rows stay. *)
LEMMA BookingWritten ==
    ASSUME BookingInv, UNCHANGED instances,
           NEW b \in Bookings, NEW row \in EquipmentBooking,
           bookings' = [bookings EXCEPT ![b] = row], raced \subseteq raced',
           row.workflowInstanceId # 0 => Exists(row.workflowInstanceId),
           b \notin raced' /\ Refused(row) => CancelledRowOK(row.workflowInstanceId),
           b \notin raced' /\ InForce(row) =>
              \A c \in Bookings \ ({b} \cup raced') :
                  InForce(bookings[c]) => On(row) \cap On(bookings[c]) = {}
    PROVE  BookingTablesOK'
<1>1. /\ bookings'[b] = row /\ \A x \in Bookings \ {b} : bookings'[x] = bookings[x]
      /\ BookingTablesOK
  BY DEF BookingInv, BookingTypeOK
<1>2. BookingWorkflowsExist'
  BY <1>1 DEF BookingWorkflowsExist, BookingTablesOK, Exists
<1>3. RefusedBookingsEndTheirWorkflow'
  BY <1>1 DEF RefusedBookingsEndTheirWorkflow, BookingTablesOK, CancelledRowOK, Ended, Refused
<1>4. NoDoubleBooking'
  <2>1. ASSUME NEW x \in Bookings \ raced', NEW y \in Bookings \ raced', x # y,
               InForce(bookings'[x]), InForce(bookings'[y])
        PROVE  On(bookings'[x]) \cap On(bookings'[y]) = {}
    <3>1. CASE x # b /\ y # b
      BY <1>1, <2>1, <3>1, NoOverlaps DEF BookingTablesOK
    <3>2. CASE x = b
      BY <1>1, <2>1, <3>2
    <3>3. CASE y = b
      BY <1>1, <2>1, <3>3
    <3>4. QED
      BY <3>1, <3>2, <3>3
  <2>2. QED
    BY <2>1 DEF NoDoubleBooking, InForce, On
<1>5. QED
  BY <1>2, <1>3, <1>4 DEF BookingTablesOK

-----------------------------------------------------------------------------
(* Equipment bookings: steps of a handler. *)

BookingColumnsOK == bookings \in [Bookings -> EquipmentBooking] /\ raced \subseteq Bookings

(* Handler t goes on to label. *)
LEMMA BookingMoves ==
    ASSUME NEW t \in Officers, EngineFrame(t), BookingInv,
           NEW label \in BookingLabels, NEW h \in Booked, BookingAt(t, label, h),
           BookingColumnsOK', raced \subseteq raced', UNCHANGED today,
           BookingTablesOK', BookingHandlerOK(t)'
    PROVE  BookingInv'
<1>1. t \in Handlers /\ BookingTypeOK
  BY DEF Handlers, BookingInv
<1>2. /\ bpc' \in [Officers -> BookingLabels] /\ booking' \in [Officers -> Booked]
      /\ OtherBookingHandlersStand(t)
  BY <1>1, BookingAtFacts
<1>3. BookingTypeOK'
  BY <1>1, <1>2 DEF BookingTypeOK, BookingLabels, BookingColumnsOK
<1>4. QED
  BY <1>1, <1>2, <1>3, BookingStepOK

(* Handler t ends. *)
LEMMA BookingEnds ==
    ASSUME NEW t \in Officers, EngineFrame(t), BookingInv, BookingDone(t), wpc'[t] = "idle",
           BookingColumnsOK', raced \subseteq raced', UNCHANGED today, BookingTablesOK'
    PROVE  BookingInv'
<1>1. BookingTypeOK /\ "idle" \in BookingLabels /\ BookingAt(t, "idle", NoBooking)
  BY DEF BookingInv, BookingLabels, BookingDone
<1>2. bpc'[t] = "idle" /\ booking'[t] = NoBooking
  BY <1>1, BookingConstants, BookingAtFacts
<1>3. BookingHandlerOK(t)'
  BY <1>2, BookingConstants DEF BookingHandlerOK
<1>4. QED
  BY <1>1, <1>3, BookingConstants, BookingMoves

(* Handler t goes on, and no row changes. *)
LEMMA BookingGoes ==
    ASSUME NEW t \in Officers, EngineFrame(t), BookingInv, UNCHANGED <<bookings, raced, today>>,
           NEW label \in BookingLabels, NEW h \in Booked, BookingAt(t, label, h),
           BookingHandlerOK(t)'
    PROVE  BookingInv'
<1>1. t \in Handlers /\ BookingColumnsOK'
  BY DEF Handlers, BookingInv, BookingTypeOK, BookingColumnsOK
<1>2. BookingTablesOK'
  BY <1>1, BookingsStay
<1>3. QED
  BY <1>1, <1>2, BookingMoves

LEMMA BookingRead ==
    ASSUME NEW t \in Officers, BookingInv, NEW b \in Bookings,
           NEW statuses \in SUBSET {"PENDING", "APPROVED", "ACTIVE"},
           NEW label \in {"conflicts", "cancel", "save"}, NEW row \in EquipmentBooking,
           ReadBooking(t, b, statuses, label, row), row.status # "NONE",
           row.workflowInstanceId = bookings[b].workflowInstanceId,
           label = "conflicts" => InForce(row), label = "cancel" => row.workflowInstanceId # 0,
           label = "save" /\ Refused(row) => row.workflowInstanceId = 0
    PROVE  BookingInv'
<1> DEFINE h == [id |-> b, read |-> bookings[b], row |-> row]
<1>1. /\ BookingTypeOK /\ bpc[t] = "idle" /\ wpc[t] = "idle" /\ t \in Handlers /\ label \in BookingLabels
      /\ InForce(bookings[b]) /\ BookingAt(t, label, h)
      /\ UNCHANGED <<engineVars, bookings, raced, today>>
  BY DEF BookingInv, BookingHandlerOK, Handlers, BookingLabels, ReadBooking, InForce
<1>2. h \in Booked /\ h.id = b /\ h.read = bookings[b] /\ h.row = row
  <2>1. b \in 0 .. MaxBookings /\ bookings[b] \in EquipmentBooking
    BY <1>1 DEF BookingTypeOK, Bookings
  <2>2. QED
    BY <2>1 DEF Booked
<1> HIDE DEF h
<1>3. bpc'[t] = label /\ booking'[t] = h
  BY <1>1, <1>2, BookingAtFacts
<1>4. EngineFrame(t) /\ wpc'[t] = "idle" /\ UNCHANGED instances
  BY <1>1, QuietFrame DEF engineVars
<1>5. row.workflowInstanceId # 0 => Exists(row.workflowInstanceId)
  BY DEF BookingInv, BookingTablesOK, BookingWorkflowsExist
<1>6. (booking[t].row.workflowInstanceId # 0 => Exists(booking[t].row.workflowInstanceId))'
  BY <1>2, <1>3, <1>4, <1>5 DEF Exists
<1>7. BookingHandlerOK(t)'
  BY <1>1, <1>2, <1>3, <1>4, <1>6
     DEF BookingHandlerOK, CancellationEnding, CancelledRowOK, InForce, Refused
<1>8. QED
  BY <1>1, <1>2, <1>4, <1>7, BookingGoes

LEMMA BookingRequests ==
    ASSUME NEW t \in Officers, BookingInv, NEW b \in Bookings,
           \/ UpdateBooking(t, b) \/ ApproveBooking(t, b) \/ RejectBooking(t, b)
           \/ CancelBooking(t, b) \/ PickupEquipment(t, b) \/ ReturnEquipment(t, b)
    PROVE  BookingInv'
<1> DEFINE r == bookings[b]
           Reads(statuses, label, row) ==
             /\ ReadBooking(t, b, statuses, label, row)
             /\ statuses \subseteq {"PENDING", "APPROVED", "ACTIVE"}
             /\ label \in {"conflicts", "cancel", "save"} /\ row \in EquipmentBooking
             /\ row.status # "NONE" /\ row.workflowInstanceId = r.workflowInstanceId
             /\ label = "conflicts" => InForce(row)
             /\ label = "cancel" => row.workflowInstanceId # 0
             /\ label = "save" /\ Refused(row) => row.workflowInstanceId = 0
<1>1. r \in EquipmentBooking
  BY DEF BookingInv, BookingTypeOK
<1>2. \A statuses, label, row : Reads(statuses, label, row) => BookingInv'
  BY BookingRead
<1>3. ASSUME NEW status \in {"APPROVED", "REJECTED", "CANCELLED", "ACTIVE", "COMPLETED"},
             NEW statuses \in SUBSET {"PENDING", "APPROVED", "ACTIVE"},
             NEW label \in {"save", "cancel"},
             ReadBooking(t, b, statuses, label, [r EXCEPT !.status = status]),
             label = "cancel" => r.workflowInstanceId # 0,
             label = "save" /\ status \in {"REJECTED", "CANCELLED"} => r.workflowInstanceId = 0
      PROVE  BookingInv'
  <2> DEFINE row == [r EXCEPT !.status = status]
  <2>1. row \in EquipmentBooking /\ row.status = status
        /\ row.workflowInstanceId = r.workflowInstanceId
    BY <1>1 DEF EquipmentBooking, BookingStatus
  <2>2. ReadBooking(t, b, statuses, label, row)
    BY <1>3
  <2> HIDE DEF row
  <2>3. Reads(statuses, label, row)
    BY <1>3, <2>1, <2>2 DEF Refused
  <2>4. QED
    BY <1>2, <2>3
<1>4. CASE UpdateBooking(t, b)
  <2>1. CASE ReadBooking(t, b, {"PENDING", "APPROVED"}, "save", r)
    <3>1. r.status \in {"PENDING", "APPROVED"}
      BY <2>1 DEF ReadBooking
    <3>2. Reads({"PENDING", "APPROVED"}, "save", r)
      BY <1>1, <2>1, <3>1 DEF Refused
    <3>3. QED
      BY <1>2, <3>2
  <2>2. ASSUME NEW start \in Days, NEW end \in Days,
               ReadBooking(t, b, {"PENDING", "APPROVED"}, "conflicts",
                           [r EXCEPT !.startDate = start, !.endDate = end])
        PROVE  BookingInv'
    <3> DEFINE row == [r EXCEPT !.startDate = start, !.endDate = end]
    <3>1. row \in EquipmentBooking /\ row.status = r.status
          /\ row.workflowInstanceId = r.workflowInstanceId
      <4>1. start \in 0 .. LastDay /\ end \in 0 .. LastDay
        BY DEF Days
      <4>2. QED
        BY <1>1, <4>1 DEF EquipmentBooking
    <3>2. r.status \in {"PENDING", "APPROVED"}
      BY <2>2 DEF ReadBooking
    <3>3. ReadBooking(t, b, {"PENDING", "APPROVED"}, "conflicts", row)
      BY <2>2
    <3> HIDE DEF row
    <3>4. Reads({"PENDING", "APPROVED"}, "conflicts", row)
      BY <3>1, <3>2, <3>3 DEF InForce
    <3>5. QED
      BY <1>2, <3>4
  <2>3. QED
    BY <1>4, <2>1, <2>2 DEF UpdateBooking
<1>5. CASE ApproveBooking(t, b) \/ PickupEquipment(t, b) \/ ReturnEquipment(t, b)
  BY <1>3, <1>5 DEF ApproveBooking, PickupEquipment, ReturnEquipment
<1>6. CASE RejectBooking(t, b) \/ CancelBooking(t, b)
  BY <1>3, <1>6 DEF RejectBooking, CancelBooking, WithWorkflow
<1>7. QED
  BY <1>4, <1>5, <1>6

LEMMA CreateBookingStep ==
    ASSUME NEW t \in Officers, BookingInv, CreateBooking(t)
    PROVE  BookingInv'
<1>1. PICK start \in Days, end \in Days, requiresApproval \in BOOLEAN :
        BookingAt(t, IF requiresApproval THEN "start" ELSE "insert",
          [NoBooking EXCEPT !.row = [status |-> IF requiresApproval THEN "PENDING" ELSE "APPROVED",
                                     startDate |-> start, endDate |-> end, workflowInstanceId |-> 0]])
  BY DEF CreateBooking
<1> DEFINE label == IF requiresApproval THEN "start" ELSE "insert"
           row == [status |-> IF requiresApproval THEN "PENDING" ELSE "APPROVED",
                   startDate |-> start, endDate |-> end, workflowInstanceId |-> 0]
           h == [NoBooking EXCEPT !.row = row]
<1>2. /\ BookingTypeOK /\ wpc[t] = "idle" /\ t \in Handlers
      /\ UNCHANGED <<engineVars, bookings, raced, today>>
  BY DEF BookingInv, BookingHandlerOK, Handlers, CreateBooking
<1>3. row \in EquipmentBooking /\ InForce(row) /\ row.workflowInstanceId = 0
  BY BookingAssumption, WorkflowAssumption DEF EquipmentBooking, BookingStatus, Days, InForce
<1>4. label \in {"start", "insert"} /\ label \in BookingLabels /\ BookingAt(t, label, h)
  BY <1>1 DEF BookingLabels
<1> HIDE DEF row, label
<1>5. h \in Booked /\ h.id = 0 /\ h.row = row
  BY <1>3, BookingConstants DEF Booked, NoBooking
<1> HIDE DEF h
<1>6. bpc'[t] = label /\ booking'[t] = h
  BY <1>2, <1>4, <1>5, BookingAtFacts
<1>7. EngineFrame(t) /\ wpc'[t] = "idle"
  BY <1>2, QuietFrame DEF engineVars
<1>8. BookingHandlerOK(t)'
  BY <1>3, <1>4, <1>5, <1>6, <1>7 DEF BookingHandlerOK, Starting, RestLabels, InForce
<1>9. QED
  BY <1>2, <1>4, <1>5, <1>7, <1>8, BookingGoes

LEMMA FindConflictsStep ==
    ASSUME NEW t \in Officers, BookingInv, FindConflicts(t)
    PROVE  BookingInv'
<1> DEFINE h == booking[t]
<1>1. /\ BookingTypeOK /\ BookingHandlerOK(t) /\ bpc[t] = "conflicts" /\ wpc[t] = "idle"
      /\ UNCHANGED <<engineVars, bookings, raced, today>> /\ h \in Booked /\ t \in Handlers
  BY BookingTyped DEF BookingInv, BookingHandlerOK, FindConflicts, Handlers
<1>2. EngineFrame(t) /\ wpc'[t] = "idle" /\ UNCHANGED instances
  BY <1>1, QuietFrame DEF engineVars
<1>3. CASE BookingAt(t, "save", h)
  <2>1. "save" \in BookingLabels
    BY DEF BookingLabels
  <2>2. bpc'[t] = "save" /\ booking'[t] = h
    BY <1>1, <1>3, <2>1, BookingAtFacts
  <2>3. (booking[t].row.workflowInstanceId # 0 => Exists(booking[t].row.workflowInstanceId))'
    BY <1>1, <1>2, <2>2 DEF BookingHandlerOK, Exists
  <2>4. BookingHandlerOK(t)'
    BY <1>1, <1>2, <2>2, <2>3 DEF BookingHandlerOK, InForce, Refused
  <2>5. QED
    BY <1>1, <1>2, <1>3, <2>1, <2>4, BookingGoes
<1>4. CASE BookingDone(t)
  <2>1. BookingColumnsOK' /\ BookingTablesOK'
    BY <1>1, <1>2, BookingsStay DEF BookingTypeOK, BookingColumnsOK
  <2>2. QED
    BY <1>1, <1>2, <1>4, <2>1, BookingEnds
<1>5. QED
  BY <1>3, <1>4 DEF FindConflicts

-----------------------------------------------------------------------------
(* Equipment bookings: the calls of the engine, and what follows them. *)

LEMMA StartBookingStep ==
    ASSUME NEW t \in Officers, EngineInv, BookingInv, StartBookingWorkflow(t)
    PROVE  EngineInv' /\ BookingInv'
<1>1. PICK k \in Keys : FindByEntity(t, Unsaved, k)
  BY DEF StartBookingWorkflow
<1>2. /\ t \in Handlers /\ BookingTypeOK /\ BookingHandlerOK(t) /\ Unsaved \in Entities
      /\ booking[t] \in Booked /\ "insert" \in BookingLabels
  BY BookingTyped, BookingAssumption DEF Handlers, BookingInv, BookingLabels
<1>3. EngineFrame(t) /\ EngineInv' /\ Starting(t)'
  BY <1>1, <1>2, RequestFrame, FindByEntityStep, LookStarts
<1>4. /\ bpc[t] = "start" /\ BookingAt(t, "insert", booking[t])
      /\ UNCHANGED <<bookings, raced, today>>
  BY DEF StartBookingWorkflow
<1>5. bpc'[t] = "insert" /\ booking'[t] = booking[t]
  BY <1>2, <1>4, BookingAtFacts
<1>6. BookingHandlerOK(t)'
  <2>1. \A i : Exists(i) => Exists(i)'
    BY <1>2, <1>3, ExistsKept
  <2>2. (booking[t].row.workflowInstanceId # 0 => Exists(booking[t].row.workflowInstanceId))'
    BY <1>2, <1>5, <2>1 DEF BookingHandlerOK, Exists
  <2>3. QED
    BY <1>2, <1>3, <1>4, <1>5, <2>2 DEF BookingHandlerOK, InForce
<1>7. QED
  BY <1>2, <1>3, <1>4, <1>6, BookingGoes

LEMMA CancelBookingWorkflowStep ==
    ASSUME NEW t \in Officers, EngineInv, BookingInv, CancelBookingWorkflow(t)
    PROVE  EngineInv' /\ BookingInv'
<1> DEFINE i == booking[t].row.workflowInstanceId
<1>1. /\ t \in Handlers /\ BookingTypeOK /\ BookingHandlerOK(t) /\ booking[t] \in Booked
      /\ "save" \in BookingLabels /\ bpc[t] = "cancel" /\ FindForCancel(t, i)
      /\ BookingAt(t, "save", booking[t]) /\ UNCHANGED <<bookings, raced, today>>
  BY BookingTyped DEF Handlers, BookingInv, BookingLabels, CancelBookingWorkflow
<1>2. Exists(i) /\ i \in Instances
  BY <1>1 DEF BookingHandlerOK, Exists
<1>3. EngineFrame(t) /\ EngineInv'
  BY <1>1, <1>2, RequestFrame, FindForCancelStep
<1>4. bpc'[t] = "save" /\ booking'[t] = booking[t]
  BY <1>1, BookingAtFacts
<1>5. \A j : j = i => CancellationEnding(t, j)' /\ Exists(j)'
  BY <1>1, <1>2, <1>3, CancellationAsked, ExistsKept
<1>6. (Exists(booking[t].row.workflowInstanceId))'
      /\ CancellationEnding(t, booking[t].row.workflowInstanceId)'
  BY <1>4, <1>5 DEF CancellationEnding, CancelledRowOK, Ended, Exists
<1>7. BookingHandlerOK(t)'
  BY <1>1, <1>4, <1>6 DEF BookingHandlerOK, InForce, Refused
<1>8. QED
  BY <1>1, <1>3, <1>4, <1>7, BookingGoes

(* A booking is saved, and its handler ends. *)
LEMMA BookingSaved ==
    ASSUME NEW t \in Officers, EngineFrame(t), BookingInv, UNCHANGED <<instances, today>>,
           wpc'[t] = "idle", BookingDone(t),
           NEW b \in Bookings, NEW row \in EquipmentBooking,
           bookings' = [bookings EXCEPT ![b] = row], raced' \in {raced, raced \cup {b}},
           row.workflowInstanceId # 0 => Exists(row.workflowInstanceId),
           b \notin raced' /\ Refused(row) => CancelledRowOK(row.workflowInstanceId),
           b \notin raced' /\ InForce(row) =>
              \A c \in Bookings \ ({b} \cup raced') :
                  InForce(bookings[c]) => On(row) \cap On(bookings[c]) = {}
    PROVE  BookingInv'
<1>1. BookingColumnsOK' /\ raced \subseteq raced'
  BY DEF BookingInv, BookingTypeOK, BookingColumnsOK
<1>2. BookingTablesOK'
  BY <1>1, BookingWritten
<1>3. QED
  BY <1>1, <1>2, BookingEnds

(* What the query leaves out shares no day with the row. *)
LEMMA QueryClears ==
    ASSUME BookingTypeOK, NEW row \in EquipmentBooking, NEW own,
           ActiveBookingsInRange(row.startDate, row.endDate) \ {own} = {}
    PROVE  \A c \in Bookings \ {own} :
              InForce(bookings[c]) => On(row) \cap On(bookings[c]) = {}
<1>1. row.startDate \in Int /\ row.endDate \in Int
  BY DEF EquipmentBooking
<1>2. \A c \in Bookings \ {own} : c \in Bookings \ ActiveBookingsInRange(row.startDate, row.endDate)
  OBVIOUS
<1>3. QED
  BY <1>1, <1>2, QueryFindsOverlaps DEF On

LEMMA InsertBookingStep ==
    ASSUME NEW t \in Officers, EngineInv, BookingInv, InsertBooking(t)
    PROVE  EngineInv' /\ BookingInv'
<1> DEFINE g == booking[t]
<1>1. PICK b \in Bookings :
        /\ bookings[b].status = "NONE"
        /\ bookings' = [bookings EXCEPT ![b] = IF wpc[t] = "returned"
                          THEN [g.row EXCEPT !.workflowInstanceId = call[t].id] ELSE g.row]
        /\ raced' = IF ActiveBookingsInRange(g.row.startDate, g.row.endDate) = {} THEN raced
                    ELSE raced \cup {b}
  BY DEF InsertBooking
<1>2. /\ BookingTypeOK /\ BookingHandlerOK(t) /\ bpc[t] = "insert" /\ Resume(t) /\ BookingDone(t)
      /\ UNCHANGED today
  BY DEF InsertBooking, BookingInv
<1>3. /\ wpc'[t] = "idle" /\ EngineFrame(t) /\ EngineInv' /\ t \in Handlers
      /\ UNCHANGED instances
  BY <1>2, ResumeRests
<1>4. g.row \in EquipmentBooking /\ InForce(g.row) /\ call[t].id \in 0 .. MaxInstances
      /\ (g.row.workflowInstanceId # 0 => Exists(g.row.workflowInstanceId))
      /\ (wpc[t] = "returned" => Exists(call[t].id))
  BY <1>2, <1>3, BookingTyped DEF BookingHandlerOK, Starting, EngineInv, EngineTypeOK, Call
<1>5. \E row \in EquipmentBooking :
        /\ bookings' = [bookings EXCEPT ![b] = row] /\ row.status = g.row.status
        /\ row.startDate = g.row.startDate /\ row.endDate = g.row.endDate
        /\ row.workflowInstanceId # 0 => Exists(row.workflowInstanceId)
  <2>1. CASE wpc[t] = "returned"
    <3> DEFINE row == [g.row EXCEPT !.workflowInstanceId = call[t].id]
    <3>1. /\ row \in EquipmentBooking /\ row.status = g.row.status
          /\ row.startDate = g.row.startDate /\ row.endDate = g.row.endDate
          /\ row.workflowInstanceId = call[t].id
      BY <1>4 DEF EquipmentBooking
    <3>2. bookings' = [bookings EXCEPT ![b] = row]
      BY <1>1, <2>1
    <3> HIDE DEF row
    <3>3. QED
      BY <1>4, <2>1, <3>1, <3>2
  <2>2. CASE wpc[t] # "returned"
    BY <1>1, <1>4, <2>2
  <2>3. QED
    BY <2>1, <2>2
<1>6. PICK row \in EquipmentBooking :
        /\ bookings' = [bookings EXCEPT ![b] = row] /\ row.status = g.row.status
        /\ row.startDate = g.row.startDate /\ row.endDate = g.row.endDate
        /\ row.workflowInstanceId # 0 => Exists(row.workflowInstanceId)
  BY <1>5
<1>7. ~Refused(row)
  BY <1>4, <1>6 DEF InForce, Refused
<1>8. raced' \in {raced, raced \cup {b}}
  BY <1>1
<1>9. ASSUME b \notin raced'
      PROVE  \A c \in Bookings \ {b} : InForce(bookings[c]) => On(row) \cap On(bookings[c]) = {}
  <2>1. ActiveBookingsInRange(row.startDate, row.endDate) = {}
    BY <1>1, <1>6, <1>9
  <2>2. ActiveBookingsInRange(row.startDate, row.endDate) \ {b} = {}
    BY <2>1
  <2>3. QED
    BY <1>2, <2>2, QueryClears
<1>10. BookingInv'
  BY <1>2, <1>3, <1>6, <1>7, <1>8, <1>9, BookingSaved
<1>11. QED
  BY <1>3, <1>10

LEMMA SaveBookingStep ==
    ASSUME NEW t \in Officers, EngineInv, BookingInv, SaveBooking(t)
    PROVE  EngineInv' /\ BookingInv'
<1> DEFINE h == booking[t]
           moved == h.row.startDate # h.read.startDate \/ h.row.endDate # h.read.endDate
           inTheWay == ActiveBookingsInRange(h.row.startDate, h.row.endDate) \ {h.id}
<1>1. /\ BookingTypeOK /\ BookingHandlerOK(t) /\ bpc[t] = "save" /\ Resume(t) /\ BookingDone(t)
      /\ UNCHANGED today /\ bookings' = [bookings EXCEPT ![h.id] = h.row]
      /\ raced' = IF bookings[h.id] # h.read \/ (moved /\ inTheWay # {})
                  THEN raced \cup {h.id} ELSE raced
  BY DEF SaveBooking, BookingInv
<1>2. /\ wpc'[t] = "idle" /\ EngineFrame(t) /\ EngineInv' /\ wpc[t] \in RestLabels
      /\ UNCHANGED instances
  BY <1>1, ResumeRests
<1>3. /\ h.row \in EquipmentBooking /\ h.id \in Bookings /\ InForce(h.read)
      /\ h.row.workflowInstanceId # 0 => Exists(h.row.workflowInstanceId)
  BY <1>1, BookingTyped DEF BookingHandlerOK
<1>4. h.id \notin raced' /\ Refused(h.row) => CancelledRowOK(h.row.workflowInstanceId)
  BY <1>1, <1>2 DEF BookingHandlerOK, CancellationEnding, RestLabels
<1>5. raced' \in {raced, raced \cup {h.id}}
  BY <1>1
<1>6. ASSUME h.id \notin raced'
      PROVE  \A c \in Bookings \ ({h.id} \cup raced') :
                InForce(bookings[c]) => On(h.row) \cap On(bookings[c]) = {}
  <2>1. bookings[h.id] = h.read /\ (moved => inTheWay = {}) /\ raced' = raced
    BY <1>1, <1>6
  <2>2. CASE inTheWay = {}
    BY <1>1, <1>3, <2>2, QueryClears
  <2>3. CASE ~moved
    <3>1. On(h.row) = On(bookings[h.id])
      BY <2>1, <2>3 DEF On
    <3>2. NoDoubleBooking
      BY DEF BookingInv, BookingTablesOK
    <3>3. QED
      BY <1>3, <1>6, <2>1, <3>1, <3>2, NoOverlaps
  <2>4. QED
    BY <2>1, <2>2, <2>3
<1>7. ASSUME NEW b \in Bookings, b = h.id, NEW r \in EquipmentBooking, r = h.row PROVE BookingInv'
  BY <1>1, <1>2, <1>3, <1>4, <1>5, <1>6, <1>7, BookingSaved
<1>8. QED
  BY <1>2, <1>3, <1>7

-----------------------------------------------------------------------------
(* Equipment bookings: steps of the engine, failures, crashes, and all of the steps. *)

(* The engine moves, of a client or for the service's handler. *)
LEMMA EngineMovesBooking ==
    ASSUME NEW t \in Handlers, EngineFrame(t), BookingInv, UNCHANGED <<bookings, bpc, booking, today>>,
           raced \subseteq raced', raced' \subseteq Bookings,
           t \in Officers => BookingHandlerOK(t)'
    PROVE  BookingInv'
<1>1. BookingTypeOK' /\ OtherBookingHandlersStand(t)
  BY DEF BookingInv, BookingTypeOK, OtherBookingHandlersStand
<1>2. QED
  BY <1>1, BookingsStay, BookingStepOK

LEMMA BookingEngineStep ==
    ASSUME NEW t \in Officers, EngineInv, BookingInv, EngineStep(t), UNCHANGED bookingRowVars
    PROVE  EngineInv' /\ BookingInv'
<1>1. UNCHANGED <<bookings, bpc, booking, raced, today>> /\ t \in Handlers
  BY DEF bookingRowVars, Handlers
<1>2. EngineFrame(t) /\ EngineInv' /\ BookingHandlerOK(t) /\ BookingTypeOK
  BY <1>1, EngineStepFrame, EngineStepKeeps DEF BookingInv
<1> DEFINE i == booking[t].row.workflowInstanceId
<1>3. i # 0 => Exists(i) /\ Exists(i)'
  BY <1>1, <1>2, ExistsKept DEF BookingHandlerOK
<1>4. bpc[t] \in {"insert", "save"}
  BY <1>2, EngineStepLabels DEF BookingHandlerOK
<1>5. bpc[t] = "insert" => Starting(t)'
  BY <1>2, EngineStepLabels, InsertedExists DEF BookingHandlerOK
<1>6. \A j : j = i /\ CancellationEnding(t, j) => CancelledRowOK(j)'
  BY <1>2, <1>3, CancellationGoesOn
<1>7. (booking[t].row.workflowInstanceId # 0 => Exists(booking[t].row.workflowInstanceId))'
  BY <1>1, <1>3 DEF Exists
<1>8. CancellationEnding(t, i) => CancellationEnding(t, booking[t].row.workflowInstanceId)'
  BY <1>1, <1>6 DEF CancellationEnding, CancelledRowOK, Ended
<1>9. BookingHandlerOK(t)'
  BY <1>1, <1>2, <1>4, <1>5, <1>7, <1>8 DEF BookingHandlerOK, InForce, Refused
<1>10. QED
  BY <1>1, <1>2, <1>9, EngineMovesBooking DEF BookingTypeOK

LEMMA BookingClientStep ==
    ASSUME NEW t \in Clients, EngineInv, BookingInv,
           Request(t) \/ EngineStep(t) \/ EngineFault(t), UNCHANGED bookingRowVars
    PROVE  EngineInv' /\ BookingInv'
<1>1. t \in Handlers /\ t \notin Officers
  BY WorkflowAssumption DEF Handlers
<1>2. EngineFrame(t) /\ EngineInv'
  BY <1>1, EngineStepFrame, RequestFrame, EngineStepKeeps, RequestKeeps, EngineFaultStep
<1>3. QED
  BY <1>1, <1>2, EngineMovesBooking DEF bookingRowVars, BookingInv, BookingTypeOK

LEMMA BookingFaultStep ==
    ASSUME NEW t \in Officers, EngineInv, BookingInv, BookingFault(t)
    PROVE  EngineInv' /\ BookingInv'
<1>1. /\ t \in Handlers /\ BookingTypeOK /\ BookingHandlerOK(t) /\ UNCHANGED <<bookings, today>>
      /\ booking[t].id \in 0 .. MaxBookings
  BY BookingTyped DEF Handlers, BookingInv, BookingFault
<1>2. CASE /\ EngineFault(t) /\ raced' = raced \cup ({booking[t].id} \ {0})
           /\ UNCHANGED <<bpc, booking>>
  <2>1. EngineFrame(t) /\ EngineInv'
    BY <1>1, <1>2, RequestFrame, EngineFaultStep
  <2>2. wpc[t] # "idle" /\ Starting(t)'
    BY <1>2, EngineFaultThrows
  <2>3. \A i : Exists(i) => Exists(i)'
    BY <1>1, <2>1, ExistsKept
  <2>4. (booking[t].row.workflowInstanceId # 0 => Exists(booking[t].row.workflowInstanceId))'
    BY <1>1, <1>2, <2>3 DEF BookingHandlerOK, Exists
  <2>5. bpc[t] = "save" => booking[t].id \in raced'
    <3>1. 0 \notin Bookings
      BY DEF Bookings
    <3>2. bpc[t] = "save" => booking[t].id \in Bookings
      BY <1>1 DEF BookingHandlerOK
    <3>3. QED
      BY <1>2, <3>1, <3>2
  <2>6. BookingHandlerOK(t)'
    <3>1. CASE bpc[t] = "insert"
      BY <1>1, <1>2, <2>2, <2>4, <3>1 DEF BookingHandlerOK, InForce
    <3>2. CASE bpc[t] = "save"
      <4>1. bpc'[t] = "save" /\ booking'[t] = booking[t] /\ booking'[t].id \in raced'
        BY <1>2, <2>5, <3>2
      <4>2. /\ booking[t].id \in Bookings /\ InForce(booking[t].read) /\ booking[t].row.status # "NONE"
            /\ booking[t].row.workflowInstanceId = booking[t].read.workflowInstanceId
        BY <1>1, <3>2 DEF BookingHandlerOK
      <4>3. InForce(booking[t].read)'
        BY <4>1, <4>2 DEF InForce
      <4>4. QED
        BY <2>4, <4>1, <4>2, <4>3 DEF BookingHandlerOK
    <3>3. bpc[t] \in {"insert", "save"}
      BY <1>1, <2>2 DEF BookingHandlerOK
    <3>4. QED
      BY <3>1, <3>2, <3>3
  <2>7. raced \subseteq raced' /\ raced' \subseteq Bookings
    <3>1. booking[t].id = 0 \/ booking[t].id \in Bookings
      BY <1>1 DEF Bookings
    <3>2. QED
      BY <1>1, <1>2, <3>1 DEF BookingTypeOK
  <2>8. QED
    BY <1>1, <1>2, <2>1, <2>6, <2>7, EngineMovesBooking
<1>3. CASE ServiceFault(t) /\ BookingDone(t) /\ UNCHANGED raced
  <2>1. EngineFrame(t) /\ EngineInv' /\ wpc'[t] = "idle"
    BY <1>3, ServiceFaultRests
  <2>2. BookingTablesOK' /\ BookingColumnsOK'
    BY <1>1, <1>3, <2>1, BookingsStay DEF BookingTypeOK, BookingColumnsOK
  <2>3. QED
    BY <1>1, <1>3, <2>1, <2>2, BookingEnds
<1>4. QED
  BY <1>2, <1>3 DEF BookingFault

LEMMA BookingCrashStep ==
    ASSUME EngineInv, BookingInv, BookingCrash
    PROVE  EngineInv' /\ BookingInv'
<1>1. /\ BookingTypeOK /\ BookingTablesOK /\ EngineInv'
      /\ UNCHANGED <<instances, bookings, raced, today>>
      /\ bpc' = [t \in Officers |-> "idle"] /\ booking' = [t \in Officers |-> NoBooking]
  BY EngineCrashStep DEF BookingCrash, EngineCrash, BookingInv
<1>2. BookingTypeOK'
  BY <1>1, BookingConstants DEF BookingTypeOK
<1>3. ASSUME NEW t \in Officers PROVE BookingHandlerOK(t)'
  <2>1. bpc'[t] = "idle" /\ booking'[t] = NoBooking /\ wpc'[t] = "idle"
    BY DEF BookingCrash, EngineCrash, Handlers
  <2>2. QED
    BY <2>1, BookingConstants DEF BookingHandlerOK
<1>4. BookingTablesOK'
  BY <1>1
     DEF BookingTablesOK, BookingWorkflowsExist, NoDoubleBooking, RefusedBookingsEndTheirWorkflow, Exists
<1>5. QED
  BY <1>1, <1>2, <1>3, <1>4 DEF BookingInv

LEMMA BookingRowsQuiet ==
    ASSUME EngineInv, BookingInv, UNCHANGED <<engineVars, bookings, bpc, booking, raced>>, BookingTypeOK'
    PROVE  EngineInv' /\ BookingInv'
<1>1. UNCHANGED <<instances, trail, wpc, call, beside, faults>>
  BY DEF engineVars
<1>2. EngineInv'
  BY EngineIdleKeeps
<1>3. BookingTablesOK'
  BY <1>1
     DEF BookingInv, BookingTablesOK, BookingWorkflowsExist, NoDoubleBooking,
         RefusedBookingsEndTheirWorkflow, Exists
<1>4. ASSUME NEW t \in Officers PROVE BookingHandlerOK(t)'
  BY <1>1
     DEF BookingInv, BookingHandlerOK, Exists, CancellationEnding, CancelledRowOK, Ended, Starting,
         InForce, Refused
<1>5. QED
  BY <1>2, <1>3, <1>4 DEF BookingInv

LEMMA TomorrowStep ==
    ASSUME EngineInv, BookingInv, Tomorrow
    PROVE  EngineInv' /\ BookingInv'
<1>1. BookingTypeOK'
  BY BookingAssumption DEF Tomorrow, BookingInv, BookingTypeOK
<1>2. QED
  BY <1>1, BookingRowsQuiet DEF Tomorrow

LEMMA BookingQuiet ==
    ASSUME EngineInv, BookingInv, UNCHANGED bookingVars
    PROVE  EngineInv' /\ BookingInv'
<1>1. UNCHANGED <<engineVars, bookings, bpc, booking, raced, today>>
  BY DEF bookingVars, bookingRowVars
<1>2. BookingTypeOK'
  BY <1>1 DEF BookingInv, BookingTypeOK
<1>3. QED
  BY <1>1, <1>2, BookingRowsQuiet

LEMMA BookingInitOK == BookingInit => EngineInv /\ BookingInv
<1> SUFFICES ASSUME BookingInit PROVE EngineInv /\ BookingInv
  OBVIOUS
<1>1. EngineInv /\ EngineInit
  BY EngineInitOK DEF BookingInit
<1>2. BookingTypeOK
  BY BookingConstants, BookingAssumption DEF BookingInit, BookingTypeOK
<1>3. BookingTablesOK
  BY DEF BookingInit, NoBookingRow, BookingTablesOK, BookingWorkflowsExist, NoDoubleBooking,
     RefusedBookingsEndTheirWorkflow
<1>4. ASSUME NEW t \in Officers PROVE BookingHandlerOK(t)
  <2>1. bpc[t] = "idle" /\ booking[t] = NoBooking /\ wpc[t] = "idle"
    BY <1>1 DEF BookingInit, EngineInit, Handlers
  <2>2. QED
    BY <2>1, BookingConstants DEF BookingHandlerOK
<1>5. QED
  BY <1>1, <1>2, <1>3, <1>4 DEF BookingInv

LEMMA BookingStepKeeps ==
    ASSUME NEW t \in Officers, EngineInv, BookingInv, BookingStep(t)
    PROVE  EngineInv' /\ BookingInv'
<1>1. ASSUME NEW b \in Bookings,
             \/ UpdateBooking(t, b) \/ ApproveBooking(t, b) \/ RejectBooking(t, b)
             \/ CancelBooking(t, b) \/ PickupEquipment(t, b) \/ ReturnEquipment(t, b)
      PROVE  EngineInv' /\ BookingInv'
  <2>1. UNCHANGED engineVars
    BY <1>1 DEF UpdateBooking, ApproveBooking, RejectBooking, CancelBooking, PickupEquipment,
       ReturnEquipment, ReadBooking
  <2>2. QED
    BY <1>1, <2>1, EngineIdleKeeps, BookingRequests
<1>2. CASE CreateBooking(t) \/ FindConflicts(t)
  <2>1. UNCHANGED engineVars
    BY <1>2 DEF CreateBooking, FindConflicts
  <2>2. QED
    BY <1>2, <2>1, EngineIdleKeeps, CreateBookingStep, FindConflictsStep
<1>3. CASE StartBookingWorkflow(t) \/ InsertBooking(t) \/ CancelBookingWorkflow(t) \/ SaveBooking(t)
  BY <1>3, StartBookingStep, InsertBookingStep, CancelBookingWorkflowStep, SaveBookingStep
<1>4. CASE BookingFault(t) \/ (EngineStep(t) /\ UNCHANGED bookingRowVars)
  BY <1>4, BookingFaultStep, BookingEngineStep
<1>5. QED
  BY <1>1, <1>2, <1>3, <1>4 DEF BookingStep

LEMMA BookingInvKept ==
    ASSUME EngineInv, BookingInv, [BookingNext]_bookingVars
    PROVE  EngineInv' /\ BookingInv'
BY BookingStepKeeps, BookingClientStep, TomorrowStep, BookingCrashStep, BookingQuiet DEF BookingNext

LEMMA BookingInvHolds == BookingSpec => [](EngineInv /\ BookingInv)
BY BookingInitOK, BookingInvKept, PTL DEF BookingSpec

(* The tables and the handlers' local entities keep the shape of their columns. *)
THEOREM BookingTypes == BookingSpec => [](EngineTypeOK /\ BookingTypeOK)
<1>1. EngineInv /\ BookingInv => EngineTypeOK /\ BookingTypeOK
  BY DEF EngineInv, BookingInv
<1>2. QED
  BY <1>1, BookingInvHolds, PTL

(* Two bookings in force never share a day, unless one was saved when what its      *)
(* handler had looked up was stale: for any dates and any number of bookings and    *)
(* officers.                                                                         *)
THEOREM NoDayBookedTwice == BookingSpec => []NoDoubleBooking
<1>1. BookingInv => NoDoubleBooking
  BY DEF BookingInv, BookingTablesOK
<1>2. QED
  BY <1>1, BookingInvHolds, PTL

(* The workflow of a rejected or cancelled booking is over, unless a failure was *)
(* swallowed or a stale save came between.                                        *)
THEOREM RefusedBookingsEnd == BookingSpec => []RefusedBookingsEndTheirWorkflow
<1>1. BookingInv => RefusedBookingsEndTheirWorkflow
  BY DEF BookingInv, BookingTablesOK
<1>2. QED
  BY <1>1, BookingInvHolds, PTL

LEMMA EndedBookingsStand ==
    ASSUME BookingInv, [BookingNext]_bookingVars
    PROVE  EndedBookingsKept
<1>1. CASE UNCHANGED bookings
  BY <1>1 DEF EndedBookingsKept
<1>2. CASE \E t \in Officers : InsertBooking(t)
  BY <1>2 DEF InsertBooking, EndedBookingsKept, BookingInv, BookingTypeOK
<1>3. CASE \E t \in Officers : SaveBooking(t)
  <2>1. PICK t \in Officers : SaveBooking(t)
    BY <1>3
  <2>2. booking[t].id \in Bookings /\ InForce(booking[t].read)
    BY <2>1 DEF BookingInv, BookingHandlerOK, SaveBooking
  <2>3. booking[t].id \in raced' \/ bookings[booking[t].id] = booking[t].read
    BY <2>1 DEF SaveBooking
  <2>4. QED
    BY <2>1, <2>2, <2>3 DEF SaveBooking, EndedBookingsKept, BookingInv, BookingTypeOK, InForce
<1>4. QED
  BY <1>1, <1>2, <1>3
     DEF BookingNext, BookingStep, CreateBooking, StartBookingWorkflow, FindConflicts,
         CancelBookingWorkflow, BookingFault, UpdateBooking, ApproveBooking, RejectBooking,
         CancelBooking, PickupEquipment, ReturnEquipment, ReadBooking, Tomorrow, BookingCrash,
         bookingRowVars, bookingVars

(* What has been refused, cancelled or returned stays so, except by a stale save. *)
THEOREM EndedBookingsStay == BookingSpec => [][EndedBookingsKept]_bookingVars
<1>1. BookingInv /\ [BookingNext]_bookingVars => [EndedBookingsKept]_bookingVars
  BY EndedBookingsStand
<1>2. QED
  BY <1>1, BookingInvHolds, PTL DEF BookingSpec

-----------------------------------------------------------------------------
(* All the services: a behaviour plays one scene, and the rows of the others stay empty. *)

SheetScenes == {"timesheets", "sheet"}
BookingScenes == {"calendar", "approval"}
NoSheets == sheets = [s \in Sheets |-> NoSheet]
NoLeaves == leaves = [l \in Leaves |-> NoLeave]
NoBookings == bookings = [b \in Bookings |-> NoBookingRow]

ScenesInv ==
    /\ EngineInv /\ TimesheetTypeOK /\ LeaveTypeOK /\ BookingTypeOK
    /\ IF scene \in SheetScenes THEN SheetInv ELSE NoSheets
    /\ IF scene = "leave" THEN LeaveInv ELSE NoLeaves
    /\ IF scene \in BookingScenes THEN BookingInv ELSE NoBookings

(* Whatever step a scene takes is one of the service it plays. *)
ScenePlays ==
    \/ /\ scene = "engine" /\ EngineNext
       /\ UNCHANGED <<sheetVars, leaveRowVars, bookingRowVars, scene>>
    \/ /\ scene \in SheetScenes /\ TimesheetNext
       /\ UNCHANGED <<leaveRowVars, bookingRowVars, scene>>
    \/ /\ scene = "leave" /\ LeaveNext
       /\ UNCHANGED <<sheetVars, bookingRowVars, scene>>
    \/ /\ scene \in BookingScenes /\ BookingNext
       /\ UNCHANGED <<sheetVars, leaveRowVars, scene>>

LEMMA ScenesPlay == MCNext => ScenePlays
<1> SUFFICES ASSUME MCNext PROVE ScenePlays
  OBVIOUS
<1>1. CASE EngineScene
  BY <1>1 DEF EngineScene, ScenePlays
<1>2. CASE TimesheetScene
  BY <1>2 DEF TimesheetScene, TimesheetNext, ScenePlays, SheetScenes
<1>3. CASE SheetScene
  BY <1>3, SceneAssumption DEF SheetScene, TimesheetNext, ScenePlays, SheetScenes
<1>4. CASE LeaveScene
  BY <1>4 DEF LeaveScene, LeaveNext, ScenePlays
<1>5. CASE CalendarScene \/ ApprovalScene
  BY <1>5 DEF CalendarScene, ApprovalScene, BookingNext, ScenePlays, BookingScenes
<1>6. QED
  BY <1>1, <1>2, <1>3, <1>4, <1>5 DEF MCNext

LEMMA SheetRowsStand ==
    ASSUME UNCHANGED sheetVars
    PROVE  /\ TimesheetTypeOK => TimesheetTypeOK'
           /\ NoSheets => NoSheets'
           /\ LockedSheetsKept
BY DEF sheetVars, TimesheetTypeOK, NoSheets, LockedSheetsKept

LEMMA LeaveRowsStand ==
    ASSUME UNCHANGED leaveRowVars
    PROVE  /\ LeaveTypeOK => LeaveTypeOK'
           /\ NoLeaves => NoLeaves'
           /\ CancelledLeaveKept
BY DEF leaveRowVars, LeaveTypeOK, NoLeaves, CancelledLeaveKept

LEMMA BookingRowsStand ==
    ASSUME UNCHANGED bookingRowVars
    PROVE  /\ BookingTypeOK => BookingTypeOK'
           /\ NoBookings => NoBookings'
           /\ EndedBookingsKept
BY DEF bookingRowVars, BookingTypeOK, NoBookings, EndedBookingsKept

LEMMA ScenesInitOK == MCInit => ScenesInv
BY TimesheetInitOK, LeaveInitOK, BookingInitOK
   DEF MCInit, ScenesInv, SheetInv, LeaveInv, BookingInv, TimesheetInit, LeaveInit, BookingInit,
       NoSheets, NoLeaves, NoBookings

LEMMA ScenesKept ==
    ASSUME ScenesInv, ScenePlays
    PROVE  ScenesInv'
<1>1. CASE scene = "engine" /\ EngineNext
  <2>1. EngineInv'
    BY <1>1, EngineStepKeeps, RequestKeeps, EngineFaultStep, EngineCrashStep
       DEF ScenesInv, EngineNext, Handlers
  <2>2. UNCHANGED <<sheetVars, leaveRowVars, bookingRowVars, scene>>
    BY <1>1 DEF ScenePlays, SheetScenes, BookingScenes
  <2>3. QED
    BY <1>1, <2>1, <2>2, SheetRowsStand, LeaveRowsStand, BookingRowsStand
       DEF ScenesInv, SheetScenes, BookingScenes
<1>2. CASE scene \in SheetScenes /\ TimesheetNext
  <2>1. EngineInv' /\ SheetInv'
    BY <1>2, TimesheetInvKept DEF ScenesInv
  <2>2. UNCHANGED <<leaveRowVars, bookingRowVars, scene>>
    BY <1>2 DEF ScenePlays, SheetScenes, BookingScenes
  <2>3. TimesheetTypeOK'
    BY <2>1 DEF SheetInv
  <2>4. QED
    BY <1>2, <2>1, <2>2, <2>3, LeaveRowsStand, BookingRowsStand
       DEF ScenesInv, SheetScenes, BookingScenes
<1>3. CASE scene = "leave" /\ LeaveNext
  <2>1. EngineInv' /\ LeaveInv'
    BY <1>3, LeaveInvKept DEF ScenesInv
  <2>2. UNCHANGED <<sheetVars, bookingRowVars, scene>>
    BY <1>3 DEF ScenePlays, SheetScenes, BookingScenes
  <2>3. LeaveTypeOK'
    BY <2>1 DEF LeaveInv
  <2>4. QED
    BY <1>3, <2>1, <2>2, <2>3, SheetRowsStand, BookingRowsStand
       DEF ScenesInv, SheetScenes, BookingScenes
<1>4. CASE scene \in BookingScenes /\ BookingNext
  <2>1. EngineInv' /\ BookingInv'
    BY <1>4, BookingInvKept DEF ScenesInv
  <2>2. UNCHANGED <<sheetVars, leaveRowVars, scene>>
    BY <1>4 DEF ScenePlays, SheetScenes, BookingScenes
  <2>3. BookingTypeOK'
    BY <2>1 DEF BookingInv
  <2>4. QED
    BY <1>4, <2>1, <2>2, <2>3, SheetRowsStand, LeaveRowsStand
       DEF ScenesInv, SheetScenes, BookingScenes
<1>5. QED
  BY <1>1, <1>2, <1>3, <1>4 DEF ScenePlays

LEMMA ScenesQuiet ==
    ASSUME ScenesInv, UNCHANGED scenes
    PROVE  ScenesInv'
<1>1. /\ UNCHANGED <<engineVars, sheetVars, leaveRowVars, bookingRowVars, scene>>
      /\ UNCHANGED timesheetVars /\ UNCHANGED leaveVars /\ UNCHANGED bookingVars
  BY DEF scenes, timesheetVars, leaveVars, bookingVars
<1>2. /\ EngineInv' /\ TimesheetTypeOK' /\ LeaveTypeOK' /\ BookingTypeOK'
      /\ NoSheets => NoSheets'
      /\ NoLeaves => NoLeaves'
      /\ NoBookings => NoBookings'
  BY <1>1, EngineIdleKeeps, SheetRowsStand, LeaveRowsStand, BookingRowsStand DEF ScenesInv
<1>3. (SheetInv => SheetInv') /\ (LeaveInv => LeaveInv') /\ (BookingInv => BookingInv')
  BY <1>1, SheetQuiet, LeaveQuiet, BookingQuiet DEF ScenesInv
<1>4. QED
  BY <1>1, <1>2, <1>3 DEF ScenesInv

LEMMA ScenesInvHolds == MCSpec => []ScenesInv
<1>1. ScenesInv /\ [MCNext]_scenes => ScenesInv'
  BY ScenesPlay, ScenesKept, ScenesQuiet
<1>2. QED
  BY <1>1, ScenesInitOK, PTL DEF MCSpec

(* The tables and the handlers' local entities keep the shape of their columns. *)
THEOREM WorkflowsTypes == MCSpec => []WorkflowsTypeOK
<1>1. ScenesInv => WorkflowsTypeOK
  BY DEF ScenesInv, EngineInv, WorkflowsTypeOK
<1>2. QED
  BY <1>1, ScenesInvHolds, PTL

LEMMA EmptyRowsUncancelled ==
    /\ NoLeaves => CancelledLeaveIsOver
    /\ NoBookings => RefusedBookingsEndTheirWorkflow
<1>2. NoLeaves => CancelledLeaveIsOver
  BY DEF NoLeaves, NoLeave, CancelledLeaveIsOver
<1>3. NoBookings => RefusedBookingsEndTheirWorkflow
  BY DEF NoBookings, NoBookingRow, RefusedBookingsEndTheirWorkflow
<1>4. QED
  BY <1>2, <1>3

(* What is rejected or cancelled in a service has its workflow cancelled with it,  *)
(* although the services go on when the engine throws: leave requests and bookings, *)
(* for every definition and number of officers.                                     *)
THEOREM CancelledRowsEnd == MCSpec => []CancelledRowsEndTheirWorkflow
<1>1. LeaveInv => CancelledLeaveIsOver
  BY DEF LeaveInv
<1>2. BookingInv => RefusedBookingsEndTheirWorkflow
  BY DEF BookingInv, BookingTablesOK
<1>3. ScenesInv => CancelledRowsEndTheirWorkflow
  BY <1>1, <1>2, EmptyRowsUncancelled DEF ScenesInv, CancelledRowsEndTheirWorkflow
<1>4. QED
  BY <1>3, ScenesInvHolds, PTL

(* Services and clients of the engine move instances as their definitions say. *)
LEMMA ServicesFollow ==
    ASSUME EngineInv,
           EngineNext \/ TimesheetNext \/ LeaveNext \/ BookingNext
    PROVE  InstancesFollowDefinition
<1>1. CASE \E t \in Handlers : EngineStep(t)
  BY <1>1, EngineStepFollows
<1>2. CASE ~\E t \in Handlers : EngineStep(t)
  <2>1. Officers \subseteq Handlers /\ Clients \subseteq Handlers
    BY DEF Handlers
  <2>2. \A t : /\ Request(t) => UNCHANGED instances
               /\ EngineFault(t) => UNCHANGED instances
               /\ ServiceFault(t) => UNCHANGED instances
               /\ Resume(t) => UNCHANGED instances
    BY DEF Request, FindByEntity, FindForTransition, FindForCancel, EngineFault, ServiceFault,
       Resume
  <2>3. /\ EngineCrash => UNCHANGED instances
        /\ UNCHANGED engineVars => UNCHANGED instances
        /\ \A t, e, k : FindByEntity(t, e, k) => UNCHANGED instances
        /\ \A t, i, name : FindForTransition(t, i, name) => UNCHANGED instances
        /\ \A t, i : FindForCancel(t, i) => UNCHANGED instances
    BY DEF EngineCrash, engineVars, FindByEntity, FindForTransition, FindForCancel
  <2>4. CASE EngineNext
    BY <1>2, <2>1, <2>2, <2>3, <2>4, InstancesStand DEF EngineNext
  <2>5. CASE TimesheetNext
    <3>1. UNCHANGED instances
      BY <1>2, <2>1, <2>2, <2>3, <2>5
         DEF TimesheetNext, TimesheetStep, TimesheetRequest, InsertEntry, RecalculateTimesheet,
             FindEntries, SaveTotals, RereadTimesheet, StartWorkflow, SaveSubmitted,
             TransitionWorkflow, SaveDecided, GetOrCreateTimesheet, CreateTimesheetEntry,
             RequestTotals, SubmitTimesheet, ApproveTimesheet, RejectTimesheet, Decide,
             TimesheetFault, TimesheetCrash
    <3>2. QED
      BY <3>1, InstancesStand
  <2>6. CASE LeaveNext
    <3>1. UNCHANGED instances
      BY <1>2, <2>1, <2>2, <2>3, <2>6
         DEF LeaveNext, LeaveStep, CreateLeaveRequest, StartLeaveWorkflow, SaveWorkflowId,
             UpdateLeaveRequest, CancelLeaveRequest, CancelLeaveWorkflow, SaveLeaveRequest,
             LeaveFault, LeaveCrash
    <3>2. QED
      BY <3>1, InstancesStand
  <2>7. CASE BookingNext
    <3>1. UNCHANGED instances
      BY <1>2, <2>1, <2>2, <2>3, <2>7
         DEF BookingNext, BookingStep, CreateBooking, StartBookingWorkflow, InsertBooking,
             FindConflicts, CancelBookingWorkflow, SaveBooking, BookingFault, UpdateBooking,
             ApproveBooking, RejectBooking, CancelBooking, PickupEquipment, ReturnEquipment,
             ReadBooking, Tomorrow, BookingCrash
    <3>2. QED
      BY <3>1, InstancesStand
  <2>8. QED
    BY <2>4, <2>5, <2>6, <2>7
<1>3. QED
  BY <1>1, <1>2

(* Workflows move as their definitions say, whoever calls the engine, and what is  *)
(* decided stays decided: only a handler that read a row before the decision undoes *)
(* it, in the engine and in each of the services.                                   *)
THEOREM DecisionsStand == MCSpec => DecisionsStay
<1>1. ASSUME ScenesInv, ScenePlays
      PROVE  InstancesFollowDefinition /\ LockedSheetsKept /\ CancelledLeaveKept /\ EndedBookingsKept
  <2>1. InstancesFollowDefinition
    BY <1>1, ServicesFollow DEF ScenesInv, ScenePlays
  <2>2. LockedSheetsKept
    BY <1>1, SheetRowsStand, LocksKept DEF ScenesInv, ScenePlays
  <2>3. CancelledLeaveKept
    BY <1>1, LeaveRowsStand, CancellationsKept DEF ScenesInv, ScenePlays
  <2>4. EndedBookingsKept
    BY <1>1, BookingRowsStand, EndedBookingsStand DEF ScenesInv, ScenePlays
  <2>5. QED
    BY <2>1, <2>2, <2>3, <2>4
<1>2. ScenesInv /\ [MCNext]_scenes =>
        [InstancesFollowDefinition /\ LockedSheetsKept /\ CancelledLeaveKept /\ EndedBookingsKept]_scenes
  BY <1>1, ScenesPlay
<1>3. QED
  BY <1>2, ScenesInvHolds, PTL DEF MCSpec, DecisionsStay

(* The engine's promises hold also where services call it and swallow what it throws. *)
THEOREM ServicesKeepEngine ==
    /\ TimesheetSpec => [](OneActivePerEntity /\ TrailLeadsToState /\ NoMoveIsStored)
    /\ LeaveSpec => [](OneActivePerEntity /\ TrailLeadsToState /\ NoMoveIsStored)
    /\ BookingSpec => [](OneActivePerEntity /\ TrailLeadsToState /\ NoMoveIsStored)
<1>1. EngineInv => OneActivePerEntity /\ TrailLeadsToState /\ NoMoveIsStored
  BY EngineInvImplies DEF EngineInv, AtStart, NoMoveIsStored, InitialStates
<1>2. TimesheetSpec => [](OneActivePerEntity /\ TrailLeadsToState /\ NoMoveIsStored)
  BY <1>1, TimesheetInvHolds, PTL
<1>3. LeaveSpec => [](OneActivePerEntity /\ TrailLeadsToState /\ NoMoveIsStored)
  BY <1>1, LeaveInvHolds, PTL
<1>4. BookingSpec => [](OneActivePerEntity /\ TrailLeadsToState /\ NoMoveIsStored)
  BY <1>1, BookingInvHolds, PTL
<1>5. QED
  BY <1>2, <1>3, <1>4
====
