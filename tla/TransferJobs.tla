----------------------------- MODULE TransferJobs ---------------------------
(***************************************************************************)
(* Import and export jobs (src/src/import-export): a row of import_jobs or *)
(* export_jobs that a request creates, another processes in the background *)
(* and a third may cancel.  A processing handler saves the copy it read at *)
(* its start again and again.  What a record is turned into is not built   *)
(* yet ("TODO: Implement entity-specific import logic").                   *)
(***************************************************************************)
EXTENDS Integers, Sequences, FiniteSets

CONSTANTS
    Transfers,          \* jobs ever created
    Files,              \* what imported files may hold: sequences of verdicts
    Workers,            \* processing and cancelling requests under way
    MaxTransferFaults   \* bound: saves that reject, and crashes

(* A record is valid, breaks a validation rule (or is a duplicate under the *)
(* strategy "error"), or is a duplicate to be skipped.                      *)
Verdicts == {"ok", "invalid", "duplicate"}
ASSUME TransferAssumption == Files \subseteq Seq(Verdicts) /\ MaxTransferFaults \in Nat

Nothing == [processed |-> 0, failed |-> 0, skipped |-> 0]
ImportJobStatus == {"NONE", "PENDING", "PROCESSING", "COMPLETED", "PARTIALLY_COMPLETED", "FAILED", "CANCELLED"}
NoTransfer == [kind |-> "import", status |-> "NONE", counts |-> Nothing, file |-> <<>>,
               rollbackOnFailure |-> FALSE, byMail |-> FALSE]

VARIABLES
    transfers,      \* the rows; file: what lies at filePath
    wpc,            \* worker -> the await it stands at
    task,           \* worker -> the job it works on, its copy, and the row as it last knew it
    counts,         \* worker -> records counted so far, and how many it has been through
    cancelled,      \* history: jobs whose cancellation was saved
    transferFaults,
    disturbed       \* history: jobs saved over another's work, or by a handler cut short

transferVars == <<transfers, wpc, task, counts, cancelled, transferFaults, disturbed>>

NoTask == [id |-> "none", row |-> NoTransfer, known |-> NoTransfer]
NoCounts == [sum |-> Nothing, at |-> 0]

TransferInit ==
    /\ transfers = [j \in Transfers |-> NoTransfer]
    /\ wpc = [w \in Workers |-> "idle"]
    /\ task = [w \in Workers |-> NoTask]
    /\ counts = [w \in Workers |-> NoCounts]
    /\ cancelled = {}
    /\ transferFaults = 0
    /\ disturbed = {}

WorkerAt(w, label, t, c) ==
    /\ wpc' = [wpc EXCEPT ![w] = label]
    /\ task' = [task EXCEPT ![w] = t]
    /\ counts' = [counts EXCEPT ![w] = c]
WorkEnds(w) == WorkerAt(w, "idle", NoTask, NoCounts)

(* The worker saves its copy as row and goes on to label. *)
SaveAs(w, row, label) ==
    LET j == task[w].id IN
    /\ transfers' = [transfers EXCEPT ![j] = row]
    /\ disturbed' = IF transfers[j] = task[w].known THEN disturbed ELSE disturbed \cup {j}
    /\ IF label = "idle" THEN WorkEnds(w)
       ELSE WorkerAt(w, label, [task[w] EXCEPT !.row = row, !.known = row], counts[w])
    /\ UNCHANGED transferFaults
Local == <<transfers, cancelled, transferFaults, disturbed>>

-----------------------------------------------------------------------------
CreateImportJob ==
    \E j \in Transfers, file \in Files, rollback \in BOOLEAN :
        /\ transfers[j].status = "NONE"
        /\ transfers' = [transfers EXCEPT ![j] = [NoTransfer EXCEPT !.status = "PENDING", !.file = file,
                                                                    !.rollbackOnFailure = rollback]]
        /\ UNCHANGED <<wpc, task, counts, cancelled, transferFaults, disturbed>>

CreateExportJob ==
    \E j \in Transfers, byMail \in BOOLEAN :
        /\ transfers[j].status = "NONE"
        /\ transfers' = [transfers EXCEPT ![j] = [NoTransfer EXCEPT !.status = "PENDING", !.kind = "export",
                                                                    !.byMail = byMail]]
        /\ UNCHANGED <<wpc, task, counts, cancelled, transferFaults, disturbed>>

ReadTransfer(w, statuses, label) ==
    \E j \in Transfers :
        /\ wpc[w] = "idle"
        /\ transfers[j].status \in statuses
        /\ WorkerAt(w, label, [id |-> j, row |-> transfers[j], known |-> transfers[j]], NoCounts)
        /\ UNCHANGED Local

(* processImportJob and processExportJob. *)
ProcessTransfer(w) == ReadTransfer(w, {"PENDING"}, "begin")
CancelTransfer(w) == ReadTransfer(w, {"PENDING", "PROCESSING"}, "cancel")

(* Mutant: the status is written as the other modules spell it. *)
SaveCancelledMisspelled(w) ==
    /\ wpc[w] = "cancel"
    /\ SaveAs(w, [task[w].row EXCEPT !.status = "CANCELED"], "idle")
    /\ cancelled' = cancelled \cup {task[w].id}

SaveCancelled(w) ==
    /\ wpc[w] = "cancel"
    /\ SaveAs(w, [task[w].row EXCEPT !.status = "CANCELLED"], "idle")
    /\ cancelled' = cancelled \cup {task[w].id}

SaveProcessing(w) ==
    /\ wpc[w] = "begin"
    /\ SaveAs(w, [task[w].row EXCEPT !.status = "PROCESSING"],
              IF task[w].row.kind = "import" THEN "parse" ELSE "generate")
    /\ UNCHANGED cancelled

-----------------------------------------------------------------------------
(* The number of records is saved with the copy. *)
SaveTotal(w) ==
    /\ wpc[w] = "parse"
    /\ SaveAs(w, task[w].row, "record")
    /\ UNCHANGED cancelled

(* The verdict on a record is looked up under a number that is computed from the *)
(* counts, not from the record's place.                                          *)
RowNumber(w) == LET s == counts[w].sum IN s.processed + s.failed + s.skipped + 1
Verdict(w) ==
    LET file == task[w].row.file IN
    IF RowNumber(w) <= Len(file) THEN file[RowNumber(w)] ELSE "ok"

CountRecord(w, skip) ==
    LET passed == [counts[w] EXCEPT !.at = @ + 1] IN
    /\ wpc[w] = "record"
    /\ counts[w].at < Len(task[w].row.file)
    /\ CASE Verdict(w) = "invalid" -> WorkerAt(w, "record", task[w], [passed EXCEPT !.sum.failed = @ + 1])
         [] Verdict(w) = "duplicate" -> WorkerAt(w, "record", task[w], [passed EXCEPT !.sum.skipped = @ + skip])
         [] OTHER -> WorkerAt(w, "progress", task[w], [passed EXCEPT !.sum.processed = @ + 1])
    /\ UNCHANGED Local

(* Mutant: records that are skipped are not counted. *)
ProcessRecordSkipsUncounted(w) == CountRecord(w, 0)

ProcessRecord(w) == CountRecord(w, 1)

SaveProgress(w) ==
    /\ wpc[w] = "progress"
    /\ SaveAs(w, [task[w].row EXCEPT !.counts = counts[w].sum], "record")
    /\ UNCHANGED cancelled

Outcome(row, s) ==
    IF row.rollbackOnFailure /\ s.failed > 0 /\ s.processed = 0 THEN "FAILED"
    ELSE IF s.failed > 0 THEN "PARTIALLY_COMPLETED" ELSE "COMPLETED"
SaveImported(w) ==
    /\ wpc[w] = "record"
    /\ counts[w].at = Len(task[w].row.file)
    /\ SaveAs(w, [task[w].row EXCEPT !.status = Outcome(task[w].row, counts[w].sum), !.counts = counts[w].sum],
              "idle")
    /\ UNCHANGED cancelled

-----------------------------------------------------------------------------
(* The file is written; with delivery by mail the row is saved once more. *)
SaveExported(w) ==
    /\ wpc[w] = "generate"
    /\ SaveAs(w, [task[w].row EXCEPT !.status = "COMPLETED"], IF task[w].row.byMail THEN "mail" ELSE "idle")
    /\ UNCHANGED cancelled

SaveMailed(w) ==
    /\ wpc[w] = "mail"
    /\ SaveAs(w, task[w].row, "idle")
    /\ UNCHANGED cancelled

SaveFailed(w) ==
    /\ wpc[w] = "fail"
    /\ SaveAs(w, [task[w].row EXCEPT !.status = "FAILED"], "idle")
    /\ UNCHANGED cancelled

(* Parsing, the query or the file goes wrong. *)
TransferFails(w) ==
    /\ wpc[w] \in {"parse", "generate"}
    /\ WorkerAt(w, "fail", task[w], counts[w])
    /\ UNCHANGED Local

(* A save rejects.  The one of a record's progress counts that record a second time,  *)
(* as failed; the last one of an import finds its transaction over and so cannot be   *)
(* followed by FAILED.                                                                *)
SaveRejects(w) ==
    /\ \/ wpc[w] \in {"begin", "cancel", "fail", "parse", "progress", "generate", "mail"}
       \/ wpc[w] = "record" /\ counts[w].at = Len(task[w].row.file)
    /\ transferFaults < MaxTransferFaults
    /\ transferFaults' = transferFaults + 1
    /\ disturbed' = IF wpc[w] \in {"begin", "cancel"} THEN disturbed ELSE disturbed \cup {task[w].id}
    /\ CASE wpc[w] \in {"parse", "generate", "mail"} -> WorkerAt(w, "fail", task[w], counts[w])
         [] wpc[w] = "progress" -> WorkerAt(w, "record", task[w], [counts[w] EXCEPT !.sum.failed = @ + 1])
         [] OTHER -> WorkEnds(w)
    /\ UNCHANGED <<transfers, cancelled>>

TransferCrash ==
    /\ transferFaults < MaxTransferFaults
    /\ transferFaults' = transferFaults + 1
    /\ disturbed' = disturbed \cup {j \in Transfers : \E w \in Workers : task[w].id = j}
    /\ wpc' = [w \in Workers |-> "idle"]
    /\ task' = [w \in Workers |-> NoTask]
    /\ counts' = [w \in Workers |-> NoCounts]
    /\ UNCHANGED <<transfers, cancelled>>

TransferNext ==
    \/ CreateImportJob \/ CreateExportJob \/ TransferCrash
    \/ \E w \in Workers :
         \/ ProcessTransfer(w) \/ CancelTransfer(w) \/ SaveCancelled(w) \/ SaveProcessing(w)
         \/ SaveTotal(w) \/ ProcessRecord(w) \/ SaveProgress(w) \/ SaveImported(w)
         \/ SaveExported(w) \/ SaveMailed(w) \/ SaveFailed(w) \/ TransferFails(w) \/ SaveRejects(w)

TransferSpec == TransferInit /\ [][TransferNext]_transferVars

-----------------------------------------------------------------------------
(* Properties. *)

(* The rows keep the shape of their columns. *)
TransferTypeOK == \A j \in Transfers :
    /\ transfers[j].kind \in {"import", "export"}
    /\ transfers[j].status \in ImportJobStatus
    /\ transfers[j].kind = "export" => transfers[j].status # "PARTIALLY_COMPLETED"
    /\ transfers[j].file \in Files \cup {<<>>}
    /\ transfers[j].counts.processed <= Len(transfers[j].file)

(* An import that ran to its end has counted each record of its file once, and    *)
(* under its own verdict, and its status says what the counts say.  A job whose   *)
(* cancellation was saved stays cancelled.  Both end where a handler saves over   *)
(* another's work, or where a save rejects.                                       *)
Of(file, verdict) == Cardinality({i \in DOMAIN file : file[i] = verdict})
TransfersAddUp == \A j \in Transfers \ disturbed :
    LET row == transfers[j] IN
    /\ row.kind = "import" /\ row.status \in {"COMPLETED", "PARTIALLY_COMPLETED"} =>
         /\ row.counts = [processed |-> Of(row.file, "ok"), failed |-> Of(row.file, "invalid"),
                          skipped |-> Of(row.file, "duplicate")]
         /\ (row.status = "COMPLETED") = (Of(row.file, "invalid") = 0)
    /\ j \in cancelled => row.status = "CANCELLED"
=============================================================================
