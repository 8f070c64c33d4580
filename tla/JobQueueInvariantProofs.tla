---------------------- MODULE JobQueueInvariantProofs -----------------------
(* The inductive invariant QueueInvariant of JobQueue, and what follows from it; *)
(* then, for one thread at a time, that the queue implements JobLifecycle.       *)
EXTENDS JobQueueProofs, JobQueueLifecycle

(* The executions of a step are those of before, and no thread begins to own one. *)
Quiet ==
    /\ executions' = executions
    /\ \A t \in Threads : pc'[t] \in Executing =>
         /\ pc[t] \in Executing
         /\ savedExecution'[t] = savedExecution[t] /\ jobId'[t] = jobId[t]

(* What HistoryIsKept says of one step, and that what is settled stays settled. *)
HistoryStep ==
    /\ Len(executions) <= Len(executions')
    /\ \A i \in 1 .. Len(executions) : Settled(i, ExecutionStatus) =>
         /\ executions'[i] = executions[i]
         /\ \A t \in Threads : ~Owns(t, i)'

(* What is shown of every step: the invariant and the history are kept. *)
StepKeeps == QueueInvariant' /\ HistoryStep

LEMMA QuietHistory ==
    ASSUME TypeOK, ExecutionsAreOwnedOnce, Quiet
    PROVE  HistoryStep /\ ExecutionsAreOwnedOnce'
<1>1. \A t \in Threads, i \in Nat : Owns(t, i)' => Owns(t, i)
  BY DEF Quiet, Owns, TypeOK
<1>2. HistoryStep
  BY <1>1 DEF HistoryStep, Quiet, Settled, TypeOK
<1>3. ExecutionsAreOwnedOnce'
  <2> SUFFICES ASSUME NEW t \in Threads, pc'[t] \in Executing
               PROVE  /\ savedExecution'[t] \in 1 .. Len(executions')
                      /\ executions'[savedExecution'[t]].jobQueueId = jobId'[t]
                      /\ \A u \in Threads \ {t} : ~Owns(u, savedExecution[t])'
    BY DEF ExecutionsAreOwnedOnce
  <2>1. /\ pc[t] \in Executing /\ savedExecution'[t] = savedExecution[t]
        /\ jobId'[t] = jobId[t] /\ executions' = executions
    BY DEF Quiet
  <2>2. /\ savedExecution[t] \in 1 .. Len(executions)
        /\ executions[savedExecution[t]].jobQueueId = jobId[t]
        /\ \A u \in Threads \ {t} : ~Owns(u, savedExecution[t])
    BY <2>1 DEF ExecutionsAreOwnedOnce
  <2>3. savedExecution[t] \in Nat
    BY DEF TypeOK
  <2>4. \A u \in Threads \ {t} : ~Owns(u, savedExecution[t])'
    BY <1>1, <2>1, <2>2, <2>3 DEF Owns
  <2> QED
    BY <2>1, <2>2, <2>4
<1> QED
  BY <1>2, <1>3

LEMMA StartedHistory ==
    ASSUME TypeOK, ExecutionsAreOwnedOnce, NEW t \in Threads, SaveStarted(t)
    PROVE  HistoryStep /\ ExecutionsAreOwnedOnce'
<1> DEFINE n == Len(executions)
<1>1. /\ executions' = Append(executions, [jobQueueId |-> jobId[t], status |-> "STARTED"])
      /\ savedExecution' = [savedExecution EXCEPT ![t] = n + 1]
      /\ pc' = [pc EXCEPT ![t] = "claim"] /\ jobId' = jobId /\ pc[t] = "start"
  BY DEF SaveStarted, Goto
<1>2. /\ n \in Nat /\ Len(executions') = n + 1
      /\ \A i \in 1 .. n : executions'[i] = executions[i]
      /\ executions'[n + 1].jobQueueId = jobId[t]
  BY <1>1 DEF TypeOK
<1>3. \A u \in Threads \ {t} :
        /\ pc'[u] = pc[u] /\ savedExecution'[u] = savedExecution[u] /\ jobId'[u] = jobId[u]
  BY <1>1 DEF TypeOK
<1>4. savedExecution'[t] = n + 1 /\ jobId'[t] = jobId[t] /\ pc'[t] = "claim"
  BY <1>1 DEF TypeOK
<1>5. \A u \in Threads, i \in 1 .. n : Owns(u, i)' => Owns(u, i)
  BY <1>2, <1>3, <1>4 DEF Owns
<1>6. HistoryStep
  BY <1>2, <1>5 DEF HistoryStep, Settled
<1>7. ExecutionsAreOwnedOnce'
  <2> SUFFICES ASSUME NEW u \in Threads, pc'[u] \in Executing
               PROVE  /\ savedExecution'[u] \in 1 .. Len(executions')
                      /\ executions'[savedExecution'[u]].jobQueueId = jobId'[u]
                      /\ \A v \in Threads \ {u} : ~Owns(v, savedExecution[u])'
    BY DEF ExecutionsAreOwnedOnce
  <2>1. \A v \in Threads : pc[v] \in Executing => savedExecution[v] \in 1 .. n
    BY DEF ExecutionsAreOwnedOnce
  <2>2. CASE u = t
    BY <1>2, <1>3, <1>4, <2>1, <2>2 DEF Owns
  <2>3. CASE u # t
    BY <1>2, <1>3, <1>4, <2>1, <2>3 DEF Owns, ExecutionsAreOwnedOnce
  <2> QED
    BY <2>2, <2>3
<1> QED
  BY <1>6, <1>7

(* A thread that writes a status writes it to the execution it owns. *)
LEMMA StatusHistory ==
    ASSUME TypeOK, ExecutionsAreOwnedOnce, NEW t \in Threads, pc[t] \in Executing,
           NEW st \in ExecutionStatus, NEW to \in Executing,
           executions' = [executions EXCEPT ![savedExecution[t]].status = st],
           pc' = [pc EXCEPT ![t] = to], UNCHANGED <<savedExecution, jobId>>
    PROVE  HistoryStep /\ ExecutionsAreOwnedOnce'
<1> DEFINE k == savedExecution[t]
<1>1. k \in 1 .. Len(executions) /\ Owns(t, k)
  BY DEF ExecutionsAreOwnedOnce, Owns
<1>2. /\ Len(executions') = Len(executions)
      /\ \A i \in 1 .. Len(executions) : /\ i # k => executions'[i] = executions[i]
                                         /\ executions'[i].jobQueueId = executions[i].jobQueueId
  BY <1>1 DEF TypeOK, Execution
<1>3. \A u \in Threads, i \in Nat : Owns(u, i)' <=> Owns(u, i)
  BY DEF Owns, TypeOK
<1>4. HistoryStep
  BY <1>1, <1>2, <1>3 DEF HistoryStep, Settled, TypeOK
<1>5. ExecutionsAreOwnedOnce'
  <2> SUFFICES ASSUME NEW u \in Threads, pc'[u] \in Executing
               PROVE  /\ savedExecution'[u] \in 1 .. Len(executions')
                      /\ executions'[savedExecution'[u]].jobQueueId = jobId'[u]
                      /\ \A v \in Threads \ {u} : ~Owns(v, savedExecution[u])'
    BY DEF ExecutionsAreOwnedOnce
  <2>1. pc[u] \in Executing /\ savedExecution[u] \in Nat
    BY DEF TypeOK
  <2>2. /\ savedExecution[u] \in 1 .. Len(executions)
        /\ executions[savedExecution[u]].jobQueueId = jobId[u]
        /\ \A v \in Threads \ {u} : ~Owns(v, savedExecution[u])
    BY <2>1 DEF ExecutionsAreOwnedOnce
  <2>3. \A v \in Threads \ {u} : ~Owns(v, savedExecution[u])'
    BY <1>3, <2>1, <2>2 DEF Owns
  <2> QED
    BY <1>2, <2>2, <2>3
<1> QED
  BY <1>4, <1>5

(* What has settled stays settled when history is kept. *)
LEMMA SettledStays ==
    ASSUME HistoryStep, TypeOK, TypeOK', NEW j, NEW S \in SUBSET ExecutionStatus,
           HasSettled(j, S)
    PROVE  HasSettled(j, S)'
<1>1. PICK i \in 1 .. Len(executions) : executions[i].jobQueueId = j /\ Settled(i, S)
  BY DEF HasSettled
<1>2. Settled(i, ExecutionStatus) /\ executions[i].status \in S
  BY <1>1 DEF Settled
<1>3. executions'[i] = executions[i] /\ \A t \in Threads : ~Owns(t, i)'
  BY <1>2 DEF HistoryStep
<1>4. i \in 1 .. Len(executions')
  BY DEF HistoryStep, TypeOK
<1> QED
  BY <1>1, <1>2, <1>3, <1>4 DEF HasSettled, Settled

LEMMA BackedStays ==
    ASSUME HistoryStep, TypeOK, TypeOK', NEW j, NEW status, Backed(j, status)
    PROVE  Backed(j, status)'
<1>1. {"COMPLETED"} \in SUBSET ExecutionStatus /\ {"FAILED", "TIMEOUT"} \in SUBSET ExecutionStatus
  BY DEF ExecutionStatus
<1> QED
  BY <1>1, SettledStays DEF Backed

-----------------------------------------------------------------------------
(* How a step of thread t leaves the other threads and the rows. *)

OthersKeep(t) ==
    \A u \in Threads \ {t} :
        /\ pc'[u] = pc[u] /\ jobId'[u] = jobId[u]
        /\ job'[u] = job[u] /\ savedExecution'[u] = savedExecution[u]
        /\ pc[u] \in Executing => executions'[savedExecution[u]] = executions[savedExecution[u]]

RowsKept == \A j \in Jobs : /\ jobQueue'[j].status = jobQueue[j].status
                            /\ jobQueue'[j].set = jobQueue[j].set

(* A thread whose local state a step leaves alone still agrees with the tables. *)
LEMMA KeptAgrees ==
    ASSUME QueueInvariant, TypeOK', HistoryStep, Existing \subseteq Existing',
           NEW u \in Threads,
           pc'[u] = pc[u], jobId'[u] = jobId[u], job'[u] = job[u],
           savedExecution'[u] = savedExecution[u],
           pc[u] \in Executing => executions'[savedExecution[u]] = executions[savedExecution[u]]
    PROVE  EntityAgrees(u)' /\ DependenciesMet(u)'
<1>1. EntityAgrees(u) /\ DependenciesMet(u) /\ TypeOK
  BY DEF QueueInvariant, EntitiesAgree, DependenciesFirst
<1>2. Working(u) => Backed(jobId[u], job[u].status)'
  BY <1>1, BackedStays DEF EntityAgrees
<1>3. KnownIds \subseteq KnownIds'
  BY DEF KnownIds
<1>4. {"COMPLETED"} \in SUBSET ExecutionStatus
  BY DEF ExecutionStatus
<1>5. DependenciesMet(u)'
  BY <1>1, <1>4, SettledStays DEF DependenciesMet
<1>6. EntityAgrees(u)'
  <2>1. Working(u)' <=> Working(u)
    BY DEF Working
  <2>2. Working(u)' => Backed(jobId[u], job[u].status)'
    BY <1>2, <2>1
  <2> QED
    BY <1>1, <1>3, <2>1, <2>2 DEF EntityAgrees, Executing, Claimed
<1> QED
  BY <1>5, <1>6

(* The invariant after a step of thread t, from what is particular to the step. *)
LEMMA Assemble ==
    ASSUME QueueInvariant, TypeOK', HistoryStep, ExecutionsAreOwnedOnce',
           Existing \subseteq Existing', StatusIsBacked', RowsAgree',
           NEW t \in Threads, OthersKeep(t), EntityAgrees(t)', DependenciesMet(t)'
    PROVE  StepKeeps
<1>1. \A u \in Threads \ {t} : EntityAgrees(u)' /\ DependenciesMet(u)'
  BY KeptAgrees DEF OthersKeep
<1> QED
  BY <1>1 DEF QueueInvariant, EntitiesAgree, DependenciesFirst, StepKeeps

LEMMA RowsKeptAgree ==
    ASSUME QueueInvariant, TypeOK', HistoryStep, RowsKept
    PROVE  Existing \subseteq Existing' /\ StatusIsBacked' /\ RowsAgree'
<1>1. Existing = Existing'
  BY DEF Existing, RowsKept
<1>2. TypeOK /\ \A j \in Jobs : Backed(j, jobQueue[j].status)
  BY DEF QueueInvariant, StatusIsBacked
<1>3. \A j \in Jobs : Backed(j, jobQueue[j].status)'
  <2> SUFFICES ASSUME NEW j \in Jobs PROVE Backed(j, jobQueue[j].status)'
    OBVIOUS
  <2>1. Backed(j, jobQueue[j].status)
    BY <1>2
  <2> DEFINE st == jobQueue[j].status
  <2>2. jobQueue'[j].status = st
    BY DEF RowsKept
  <2>3. \A S \in SUBSET ExecutionStatus : HasSettled(j, S) => HasSettled(j, S)'
    BY <1>2, SettledStays
  <2>4. {"COMPLETED"} \in SUBSET ExecutionStatus /\ {"FAILED", "TIMEOUT"} \in SUBSET ExecutionStatus
    BY DEF ExecutionStatus
  <2> QED
    BY <2>1, <2>2, <2>3, <2>4 DEF Backed
<1>4. RowsAgree'
  BY <1>1 DEF QueueInvariant, RowsAgree, RowsKept, KnownIds
<1> QED
  BY <1>1, <1>3, <1>4 DEF StatusIsBacked

(* A save of an entity that agrees with the tables leaves rows that agree. *)
LEMMA SavedRowAgrees ==
    ASSUME QueueInvariant, TypeOK', HistoryStep, NEW j \in Jobs, NEW e \in JobRow,
           jobQueue' = [jobQueue EXCEPT ![j] = e], e.status # "ABSENT",
           Backed(j, e.status)', e.set.dependencies \subseteq KnownIds
    PROVE  Existing \subseteq Existing' /\ StatusIsBacked' /\ RowsAgree'
<1>0. TypeOK /\ StatusIsBacked /\ RowsAgree
  BY DEF QueueInvariant
<1>1. jobQueue'[j] = e /\ \A k \in Jobs \ {j} : jobQueue'[k] = jobQueue[k]
  BY <1>0 DEF TypeOK
<1>2. Existing \subseteq Existing'
  BY <1>1 DEF Existing
<1>3. ASSUME NEW k \in Jobs PROVE Backed(k, jobQueue[k].status)'
  <2> DEFINE st == jobQueue[k].status
  <2>1. CASE k = j
    BY <1>1, <2>1 DEF Backed
  <2>2. CASE k # j
    <3>1. jobQueue'[k].status = jobQueue[k].status
      BY <1>1, <2>2
    <3>2. \A S \in SUBSET ExecutionStatus : HasSettled(k, S) => HasSettled(k, S)'
      BY <1>0, SettledStays
    <3>3. /\ {"COMPLETED"} \in SUBSET ExecutionStatus
          /\ {"FAILED", "TIMEOUT"} \in SUBSET ExecutionStatus
      BY DEF ExecutionStatus
    <3>4. Backed(k, jobQueue[k].status)
      BY <1>0 DEF StatusIsBacked
    <3> QED
      BY <3>1, <3>2, <3>3, <3>4 DEF Backed
  <2> QED
    BY <2>1, <2>2
<1>4. RowsAgree'
  BY <1>0, <1>1, <1>2 DEF RowsAgree, KnownIds
<1> QED
  BY <1>2, <1>3, <1>4 DEF StatusIsBacked

-----------------------------------------------------------------------------
(* Steps that write no execution. *)

LEMMA ReturnStep ==
    ASSUME QueueInvariant, NEW t \in Threads, Return(t), executions' = executions
    PROVE  /\ HistoryStep /\ ExecutionsAreOwnedOnce' /\ OthersKeep(t)
           /\ EntityAgrees(t)' /\ DependenciesMet(t)'
<1>0. TypeOK /\ ExecutionsAreOwnedOnce
  BY DEF QueueInvariant
<1>1. pc'[t] \in {"idle", "next"}
  BY <1>0 DEF Return, Goto, TypeOK
<1>2. OthersKeep(t)
  BY <1>0 DEF OthersKeep, Return, Goto, TypeOK
<1>3. Quiet
  BY <1>1, <1>2 DEF Quiet, OthersKeep, Executing
<1>4. EntityAgrees(t)' /\ DependenciesMet(t)'
  BY <1>1 DEF EntityAgrees, DependenciesMet, Executing, Claimed, Working
<1> QED
  BY <1>0, <1>2, <1>3, <1>4, QuietHistory

(* A thread moves to a label where it owns no execution, or keeps the one it had. *)
LEMMA MoveStep ==
    ASSUME QueueInvariant, NEW t \in Threads, executions' = executions,
           NEW to, pc' = [pc EXCEPT ![t] = to],
           \A u \in Threads \ {t} : /\ jobId'[u] = jobId[u] /\ job'[u] = job[u]
                                    /\ savedExecution'[u] = savedExecution[u],
           to \in Executing => /\ pc[t] \in Executing /\ jobId'[t] = jobId[t]
                               /\ savedExecution'[t] = savedExecution[t]
    PROVE  HistoryStep /\ ExecutionsAreOwnedOnce' /\ OthersKeep(t) /\ pc'[t] = to
<1>0. TypeOK /\ ExecutionsAreOwnedOnce
  BY DEF QueueInvariant
<1>1. pc'[t] = to /\ \A u \in Threads \ {t} : pc'[u] = pc[u]
  BY <1>0 DEF TypeOK
<1>2. OthersKeep(t)
  BY <1>1 DEF OthersKeep
<1>3. Quiet
  BY <1>1 DEF Quiet
<1> QED
  BY <1>0, <1>1, <1>2, <1>3, QuietHistory

LEMMA BeginProcessStep ==
    ASSUME QueueInvariant, TypeOK', NEW t \in Threads, NEW j \in Jobs, BeginProcess(t, j),
           UNCHANGED table
    PROVE  StepKeeps
<1>0. TypeOK /\ StatusIsBacked /\ RowsAgree /\ executions' = executions /\ jobQueue' = jobQueue
  BY DEF QueueInvariant, table
<1>1. RowsKept
  BY <1>0 DEF RowsKept
<1>2. CASE jobQueue[j].status \notin Processable
  BY <1>0, <1>1, <1>2, ReturnStep, RowsKeptAgree, Assemble DEF BeginProcess
<1>3. CASE jobQueue[j].status \in Processable
  <2> DEFINE to == IF jobQueue[j].set.dependencies = {} THEN "start" ELSE "dependencies"
  <2>1. /\ pc' = [pc EXCEPT ![t] = to] /\ jobId' = [jobId EXCEPT ![t] = j]
        /\ job' = [job EXCEPT ![t] = jobQueue[j]] /\ savedExecution' = savedExecution
    BY <1>3 DEF BeginProcess, Goto
  <2>2. to \notin Executing /\ to \in {"start", "dependencies"}
    BY DEF Executing
  <2> HIDE DEF to
  <2>3. \A u \in Threads \ {t} : /\ jobId'[u] = jobId[u] /\ job'[u] = job[u]
                                 /\ savedExecution'[u] = savedExecution[u]
    BY <1>0, <2>1 DEF TypeOK
  <2>4. HistoryStep /\ ExecutionsAreOwnedOnce' /\ OthersKeep(t) /\ pc'[t] = to
    BY <1>0, <2>1, <2>2, <2>3, MoveStep
  <2>5. Existing \subseteq Existing' /\ StatusIsBacked' /\ RowsAgree'
    BY <1>1, <2>4, RowsKeptAgree
  <2>6. jobId'[t] = j /\ job'[t] = jobQueue[j]
    BY <1>0, <2>1 DEF TypeOK
  <2>7. EntityAgrees(t)'
    <3>1. Backed(j, jobQueue[j].status)' /\ jobQueue'[j] = jobQueue[j]
      BY <1>0, <2>5 DEF StatusIsBacked
    <3>2. Backed(jobId[t], job[t].status)'
      BY <2>6, <3>1 DEF Backed
    <3>3. /\ job'[t].set.dependencies \subseteq KnownIds /\ KnownIds' = KnownIds
          /\ j \in Existing' /\ job'[t].status \in Processable
      BY <1>0, <1>3, <2>6 DEF RowsAgree, KnownIds, Existing, Processable
    <3> QED
      BY <2>2, <2>4, <2>6, <3>2, <3>3 DEF EntityAgrees, Claimed
  <2>8. DependenciesMet(t)'
    <3>1. pc'[t] = "start" => job'[t].set.dependencies = {}
      BY <2>4, <2>6 DEF to
    <3> QED
      BY <2>2, <2>4, <3>1 DEF DependenciesMet
  <2> QED
    BY <2>4, <2>5, <2>7, <2>8, Assemble
<1> QED
  BY <1>2, <1>3

(* A handler that read row j and changed its copy to e, which agrees with the tables. *)
LEMMA BeginEditStep ==
    ASSUME QueueInvariant, TypeOK', NEW t \in Threads, NEW j \in Jobs, NEW e \in JobRow,
           BeginEdit(t, j, e), j \in Existing, e.status \notin {"ABSENT", "RUNNING"},
           Backed(j, e.status), e.set.dependencies \subseteq KnownIds
    PROVE  StepKeeps
<1>0. /\ TypeOK /\ executions' = executions /\ jobQueue' = jobQueue
      /\ pc' = [pc EXCEPT ![t] = "save"] /\ jobId' = [jobId EXCEPT ![t] = j]
      /\ job' = [job EXCEPT ![t] = e] /\ savedExecution' = savedExecution
  BY DEF QueueInvariant, table, BeginEdit, Goto
<1>1. RowsKept /\ KnownIds' = KnownIds /\ j \in Existing'
  BY <1>0 DEF RowsKept, KnownIds, Existing
<1>2. \A u \in Threads \ {t} : /\ jobId'[u] = jobId[u] /\ job'[u] = job[u]
                               /\ savedExecution'[u] = savedExecution[u]
  BY <1>0 DEF TypeOK
<1>3. HistoryStep /\ ExecutionsAreOwnedOnce' /\ OthersKeep(t) /\ pc'[t] = "save"
  BY <1>0, <1>2, MoveStep DEF Executing
<1>4. Existing \subseteq Existing' /\ StatusIsBacked' /\ RowsAgree'
  BY <1>1, <1>3, RowsKeptAgree
<1>5. jobId'[t] = j /\ job'[t] = e
  BY <1>0 DEF TypeOK
<1>6. EntityAgrees(t)'
  <2>1. Backed(j, e.status)'
    BY <1>0, <1>3, BackedStays
  <2>2. Backed(jobId[t], job[t].status)'
    BY <1>5, <2>1 DEF Backed
  <2> QED
    BY <1>1, <1>3, <1>5, <2>2 DEF EntityAgrees, Claimed
<1>7. DependenciesMet(t)'
  BY <1>3 DEF DependenciesMet, Executing
<1> QED
  BY <1>3, <1>4, <1>6, <1>7, Assemble

(* A handler saves its outcome e and is done. *)
LEMMA SaveAndReturnStep ==
    ASSUME QueueInvariant, TypeOK', NEW t \in Threads, Working(t), NEW e \in JobRow,
           SaveJob(t, e), Return(t), executions' = executions, e.status # "ABSENT",
           \A j \in Jobs : j = jobId[t] => Backed(j, e.status)',
           e.set.dependencies \subseteq KnownIds
    PROVE  StepKeeps
<1>0. jobId[t] \in Jobs
  BY DEF QueueInvariant, TypeOK, Working
<1>1. PICK j \in Jobs : j = jobId[t]
  BY <1>0
<1>2. jobQueue' = [jobQueue EXCEPT ![j] = e] /\ Backed(j, e.status)'
  BY <1>1 DEF SaveJob
<1>3. HistoryStep /\ ExecutionsAreOwnedOnce' /\ OthersKeep(t)
      /\ EntityAgrees(t)' /\ DependenciesMet(t)'
  BY ReturnStep
<1>4. Existing \subseteq Existing' /\ StatusIsBacked' /\ RowsAgree'
  BY <1>2, <1>3, SavedRowAgrees
<1> QED
  BY <1>3, <1>4, Assemble

(* A handler goes from one label where it owns its execution to another and writes *)
(* no row.                                                                         *)
LEMMA LabelStep ==
    ASSUME QueueInvariant, TypeOK', NEW t \in Threads, NEW to,
           Working(t), to \notin {"idle", "next", "save"},
           HistoryStep, ExecutionsAreOwnedOnce', OthersKeep(t), pc'[t] = to,
           jobId'[t] = jobId[t], job'[t] = job[t], jobQueue' = jobQueue,
           to \in {"dependencies", "start", "claim"} => job[t].status \in Processable,
           to \in Claimed => job[t].status = "RUNNING",
           to = "succeeded" => executions'[savedExecution'[t]].status = "COMPLETED",
           to = "failed" => executions'[savedExecution'[t]].status \in {"FAILED", "TIMEOUT"},
           \A d \in job[t].set.dependencies \cap Jobs :
              to \in Executing \cup {"start"} => HasSettled(d, {"COMPLETED"})
    PROVE  StepKeeps
<1>0. TypeOK /\ EntityAgrees(t)
  BY DEF QueueInvariant, EntitiesAgree
<1>1. RowsKept /\ KnownIds' = KnownIds /\ Existing' = Existing
  BY DEF RowsKept, KnownIds, Existing
<1>2. Existing \subseteq Existing' /\ StatusIsBacked' /\ RowsAgree'
  BY <1>1, RowsKeptAgree
<1>3. EntityAgrees(t)'
  <2>1. Backed(jobId[t], job[t].status)'
    BY <1>0, BackedStays DEF EntityAgrees
  <2> QED
    BY <1>0, <1>1, <2>1 DEF EntityAgrees
<1>4. DependenciesMet(t)'
  <2>1. {"COMPLETED"} \in SUBSET ExecutionStatus
    BY DEF ExecutionStatus
  <2> QED
    BY <1>0, <2>1, SettledStays DEF DependenciesMet
<1> QED
  BY <1>2, <1>3, <1>4, Assemble

(* A step of the environment or of a request that touches no handler. *)
LEMMA NoHandlerStep ==
    ASSUME QueueInvariant, TypeOK', executions' = executions, UNCHANGED local
    PROVE  /\ HistoryStep /\ ExecutionsAreOwnedOnce'
           /\ (Existing \subseteq Existing' /\ StatusIsBacked' /\ RowsAgree') => StepKeeps
<1>0. TypeOK /\ ExecutionsAreOwnedOnce
  BY DEF QueueInvariant
<1>1. Quiet
  BY DEF Quiet, local
<1>2. HistoryStep /\ ExecutionsAreOwnedOnce'
  BY <1>0, <1>1, QuietHistory
<1>3. ASSUME Existing \subseteq Existing', NEW u \in Threads
      PROVE  EntityAgrees(u)' /\ DependenciesMet(u)'
  BY <1>2, <1>3, KeptAgrees DEF local
<1> QED
  BY <1>2, <1>3 DEF QueueInvariant, EntitiesAgree, DependenciesFirst, StepKeeps

-----------------------------------------------------------------------------
(* One lemma per action. *)

LEMMA CreateJobStep ==
    ASSUME QueueInvariant, TypeOK', NEW j \in Jobs, CreateJob(j) PROVE StepKeeps
<1>0. TypeOK /\ executions' = executions /\ UNCHANGED local
  BY DEF QueueInvariant, CreateJob
<1>1. HistoryStep /\ ExecutionsAreOwnedOnce'
  BY <1>0, NoHandlerStep
<1>2. PICK s \in Settings, at \in RequestTimes :
        /\ s.dependencies \subseteq KnownIds
        /\ jobQueue' = [jobQueue EXCEPT ![j] =
             [status |-> "PENDING", retryCount |-> 0, scheduledAt |-> at,
              nextExecutionAt |-> IF s.isRecurring /\ s.cron THEN "later" ELSE "none",
              set |-> [s EXCEPT !.maxRetries =
                         IF @ = 0 THEN DefaultMaxRetries ELSE @]]]
  BY DEF CreateJob
<1> DEFINE e == jobQueue'[j]
<1>3. e \in JobRow
  BY DEF TypeOK
<1>4. e.status = "PENDING" /\ e.set.dependencies = s.dependencies
  <2>1. s \in SettingType
    BY JobQueueAssumption
  <2> QED
    BY <1>0, <1>2, <2>1 DEF TypeOK, SettingType
<1>5. \A k \in Jobs \ {j} : jobQueue'[k] = jobQueue[k]
  BY <1>0, <1>2 DEF TypeOK
<1>6. Existing \subseteq Existing'
  BY <1>4, <1>5 DEF Existing
<1>7. StatusIsBacked'
  <2>1. ASSUME NEW k \in Jobs PROVE Backed(k, jobQueue[k].status)'
    <3>1. CASE k = j
      BY <1>4, <3>1 DEF Backed
    <3>2. CASE k # j
      <4>1. jobQueue'[k].status = jobQueue[k].status
        BY <1>5, <3>2
      <4>2. \A S \in SUBSET ExecutionStatus : HasSettled(k, S) => HasSettled(k, S)'
        BY <1>0, <1>1, SettledStays
      <4>3. /\ {"COMPLETED"} \in SUBSET ExecutionStatus
            /\ {"FAILED", "TIMEOUT"} \in SUBSET ExecutionStatus
        BY DEF ExecutionStatus
      <4>4. Backed(k, jobQueue[k].status)
        BY DEF QueueInvariant, StatusIsBacked
      <4> QED
        BY <4>1, <4>2, <4>3, <4>4 DEF Backed
    <3> QED
      BY <3>1, <3>2
  <2> QED
    BY <2>1 DEF StatusIsBacked
<1>8. RowsAgree'
  BY <1>2, <1>4, <1>5, <1>6 DEF QueueInvariant, RowsAgree, KnownIds
<1> QED
  BY <1>0, <1>6, <1>7, <1>8, NoHandlerStep

LEMMA TimePassesStep ==
    ASSUME QueueInvariant, TypeOK', NEW j \in Jobs, TimePasses(j) PROVE StepKeeps
<1>0. TypeOK /\ executions' = executions /\ UNCHANGED local
  BY DEF QueueInvariant, TimePasses
<1>1. HistoryStep /\ ExecutionsAreOwnedOnce'
  BY <1>0, NoHandlerStep
<1>2. RowsKept
  <2>1. /\ jobQueue[j] \in JobRow
        /\ \/ jobQueue' = [jobQueue EXCEPT ![j].scheduledAt = "passed"]
           \/ jobQueue' = [jobQueue EXCEPT ![j].nextExecutionAt = "passed"]
    BY <1>0 DEF TimePasses, TypeOK
  <2>2. /\ \/ jobQueue'[j] = [jobQueue[j] EXCEPT !.scheduledAt = "passed"]
           \/ jobQueue'[j] = [jobQueue[j] EXCEPT !.nextExecutionAt = "passed"]
        /\ \A k \in Jobs \ {j} : jobQueue'[k] = jobQueue[k]
    BY <1>0, <2>1 DEF TypeOK
  <2>3. jobQueue'[j].status = jobQueue[j].status /\ jobQueue'[j].set = jobQueue[j].set
    BY <2>1, <2>2 DEF JobRow
  <2> QED
    BY <2>2, <2>3 DEF RowsKept
<1> QED
  BY <1>0, <1>1, <1>2, RowsKeptAgree, NoHandlerStep

LEMMA RequestStepStep ==
    ASSUME QueueInvariant, TypeOK', NEW t \in Requests, RequestStep(t) PROVE StepKeeps
<1>0. TypeOK /\ StatusIsBacked /\ RowsAgree /\ EntityAgrees(t) /\ t \in Threads
  BY DEF QueueInvariant, EntitiesAgree, Threads
<1>1. ASSUME NEW j \in Jobs, UpdateJob(t, j) PROVE StepKeeps
  <2>0. PICK s \in Settings, at \in RequestTimes \cup {jobQueue[j].scheduledAt} :
          /\ jobQueue[j].status \notin {"ABSENT", "RUNNING"}
          /\ s.dependencies \subseteq KnownIds
          /\ \E next \in {jobQueue[j].nextExecutionAt}
                           \cup (IF s.isRecurring THEN {"later"} ELSE {}) :
               BeginEdit(t, j, [jobQueue[j] EXCEPT !.set = s, !.scheduledAt = at,
                                                   !.nextExecutionAt = next])
    BY <1>1 DEF UpdateJob
  <2>1. PICK next \in {jobQueue[j].nextExecutionAt}
                         \cup (IF s.isRecurring THEN {"later"} ELSE {}) :
          BeginEdit(t, j, [jobQueue[j] EXCEPT !.set = s, !.scheduledAt = at,
                                              !.nextExecutionAt = next])
    BY <2>0
  <2> DEFINE e == [jobQueue[j] EXCEPT !.set = s, !.scheduledAt = at,
                                      !.nextExecutionAt = next]
  <2>2. jobQueue[j] \in JobRow /\ s \in SettingType /\ at \in Times /\ next \in Times
    <3>1. jobQueue[j] \in JobRow
      BY <1>0 DEF TypeOK
    <3> QED
      BY <3>1, JobQueueAssumption DEF JobRow, Times
  <2>3. e \in JobRow /\ e.status = jobQueue[j].status /\ e.set = s
    BY <2>2 DEF JobRow
  <2>4. BeginEdit(t, j, e)
    BY <2>1
  <2> HIDE DEF e
  <2>5. Backed(j, e.status)
    BY <1>0, <2>3 DEF StatusIsBacked
  <2>6. j \in Existing
    BY <2>0 DEF Existing
  <2> QED
    BY <1>0, <2>0, <2>3, <2>4, <2>5, <2>6, BeginEditStep
<1>2. ASSUME NEW j \in Jobs, CancelJob(t, j) PROVE StepKeeps
  <2> DEFINE e == [jobQueue[j] EXCEPT !.status = "CANCELLED"]
  <2>1. jobQueue[j] \in JobRow /\ j \in Existing /\ BeginEdit(t, j, e)
    BY <1>0, <1>2 DEF TypeOK, CancelJob, Existing
  <2>2. e \in JobRow /\ e.status = "CANCELLED" /\ e.set = jobQueue[j].set
    BY <2>1 DEF JobRow, JobStatus
  <2> HIDE DEF e
  <2>3. Backed(j, e.status) /\ e.set.dependencies \subseteq KnownIds
    BY <1>0, <2>2 DEF Backed, RowsAgree
  <2> QED
    BY <1>0, <2>1, <2>2, <2>3, BeginEditStep
<1>3. ASSUME NEW j \in Jobs, RetryJob(t, j) PROVE StepKeeps
  <2> DEFINE e == [jobQueue[j] EXCEPT !.status = "RETRYING", !.retryCount = @ + 1,
                                      !.scheduledAt = "later"]
  <2>0. jobQueue[j] \in JobRow /\ jobQueue[j].retryCount + 1 \in Nat
    BY <1>0 DEF TypeOK, JobRow
  <2>1. jobQueue[j].status = "FAILED" /\ j \in Existing /\ BeginEdit(t, j, e)
    BY <1>3 DEF RetryJob, Existing
  <2>2. e \in JobRow /\ e.status = "RETRYING" /\ e.set = jobQueue[j].set
    BY <2>0 DEF JobRow, JobStatus, Times
  <2> HIDE DEF e
  <2>3. Backed(j, jobQueue[j].status)
    BY <1>0 DEF StatusIsBacked
  <2>4. Backed(j, e.status) /\ e.set.dependencies \subseteq KnownIds
    BY <1>0, <2>1, <2>2, <2>3 DEF Backed, RowsAgree
  <2> QED
    BY <1>0, <2>1, <2>2, <2>4, BeginEditStep
<1>4. ASSUME NEW j \in Jobs, ExecuteJob(t, j) PROVE StepKeeps
  BY <1>0, <1>4, BeginProcessStep DEF ExecuteJob
<1>5. CASE SaveEdit(t)
  <2>1. /\ pc[t] = "save" /\ SaveJob(t, job[t]) /\ Return(t) /\ executions' = executions
    BY <1>5 DEF SaveEdit
  <2>2. /\ Working(t) /\ job[t] \in JobRow /\ job[t].status # "ABSENT"
        /\ Backed(jobId[t], job[t].status) /\ job[t].set.dependencies \subseteq KnownIds
    BY <1>0, <2>1 DEF Working, EntityAgrees, TypeOK
  <2>3. HistoryStep
    BY <1>0, <2>1, ReturnStep
  <2>4. PICK e \in JobRow : e = job[t]
    BY <2>2
  <2>5. \A j \in Jobs : j = jobId[t] => Backed(j, e.status)'
    <3> SUFFICES ASSUME NEW j \in Jobs, j = jobId[t] PROVE Backed(j, e.status)'
      OBVIOUS
    <3>1. Backed(j, e.status)
      BY <2>2, <2>4
    <3> QED
      BY <1>0, <2>3, <3>1, BackedStays
  <2> QED
    BY <1>0, <2>1, <2>2, <2>4, <2>5, SaveAndReturnStep
<1> QED
  BY <1>1, <1>2, <1>3, <1>4, <1>5 DEF RequestStep

(* The execution of a handler that is about to save its outcome has that outcome. *)
OwnedStatus(t) ==
    /\ pc[t] = "succeeded" => executions[savedExecution[t]].status = "COMPLETED"
    /\ pc[t] = "failed" => executions[savedExecution[t]].status \in {"FAILED", "TIMEOUT"}

LEMMA ProcessStepStep ==
    ASSUME QueueInvariant, TypeOK', NEW t \in Threads, ProcessStep(t) PROVE StepKeeps
<1>0. /\ TypeOK /\ EntityAgrees(t) /\ DependenciesMet(t) /\ ExecutionsAreOwnedOnce
      /\ pc[t] \in Executing => savedExecution[t] \in 1 .. Len(executions)
      /\ pc[t] \in Executing => executions[savedExecution[t]].jobQueueId = jobId[t]
      /\ pc[t] \in Executing => \A u \in Threads \ {t} : ~Owns(u, savedExecution[t])
  BY DEF QueueInvariant, EntitiesAgree, DependenciesFirst, ExecutionsAreOwnedOnce
<1> DEFINE deps == job[t].set.dependencies
<1>1. CASE CheckDependencies(t)
  <2>1. pc[t] = "dependencies" /\ executions' = executions /\ jobQueue' = jobQueue
    BY <1>1 DEF CheckDependencies, table
  <2>2. CASE ~AllCompleted(deps)
    <3>1. Return(t) /\ RowsKept
      BY <1>1, <2>1, <2>2 DEF CheckDependencies, RowsKept
    <3>2. HistoryStep
      BY <2>1, <3>1, ReturnStep
    <3>3. Existing \subseteq Existing' /\ StatusIsBacked' /\ RowsAgree'
      BY <3>1, <3>2, RowsKeptAgree
    <3> QED
      BY <2>1, <3>1, <3>3, ReturnStep, Assemble
  <2>3. CASE AllCompleted(deps)
    <3>1. pc' = [pc EXCEPT ![t] = "start"] /\ UNCHANGED <<jobId, job, savedExecution>>
      BY <1>1, <2>3 DEF CheckDependencies, Goto
    <3>2. HistoryStep /\ ExecutionsAreOwnedOnce' /\ OthersKeep(t) /\ pc'[t] = "start"
      BY <2>1, <3>1, MoveStep DEF Executing
    <3>3. \A d \in deps \cap Jobs : HasSettled(d, {"COMPLETED"})
      <4> SUFFICES ASSUME NEW d \in deps \cap Jobs PROVE HasSettled(d, {"COMPLETED"})
        OBVIOUS
      <4>1. d \in Existing
        BY <1>0, <2>1, JobQueueAssumption DEF EntityAgrees, Working, KnownIds
      <4>2. jobQueue[d].status = "COMPLETED"
        BY <2>3, <4>1 DEF AllCompleted
      <4> QED
        BY <4>2 DEF QueueInvariant, StatusIsBacked, Backed
    <3> QED
      BY <1>0, <2>1, <3>1, <3>2, <3>3, LabelStep DEF Working, EntityAgrees, Claimed
  <2> QED
    BY <2>2, <2>3
<1>2. CASE SaveStarted(t)
  <2>1. /\ pc[t] = "start" /\ pc' = [pc EXCEPT ![t] = "claim"] /\ jobQueue' = jobQueue
        /\ UNCHANGED <<jobId, job>> /\ savedExecution' = [savedExecution EXCEPT ![t] = Len(executions) + 1]
    BY <1>2 DEF SaveStarted, Goto
  <2>2. HistoryStep /\ ExecutionsAreOwnedOnce'
    BY <1>0, <1>2, StartedHistory
  <2>3. /\ pc'[t] = "claim"
        /\ \A u \in Threads \ {t} : pc'[u] = pc[u] /\ savedExecution'[u] = savedExecution[u]
    BY <1>0, <2>1 DEF TypeOK
  <2>4. \A i \in 1 .. Len(executions) : executions'[i] = executions[i]
    BY <1>0, <1>2 DEF SaveStarted, TypeOK
  <2>5. OthersKeep(t)
    BY <1>0, <2>1, <2>3, <2>4 DEF OthersKeep, ExecutionsAreOwnedOnce
  <2> QED
    BY <1>0, <2>1, <2>2, <2>3, <2>5, LabelStep DEF Working, EntityAgrees, Claimed, DependenciesMet
<1>3. CASE SaveRunning(t)
  <2>0. PICK e : e = [job[t] EXCEPT !.status = "RUNNING"]
    OBVIOUS
  <2>1. /\ pc[t] = "claim" /\ pc' = [pc EXCEPT ![t] = "run"] /\ SaveJob(t, e)
        /\ job' = [job EXCEPT ![t] = e] /\ UNCHANGED <<executions, jobId, savedExecution>>
    BY <1>3, <2>0 DEF SaveRunning, Goto
  <2>2. job[t] \in JobRow
    BY <1>0 DEF TypeOK
  <2>3. e \in JobRow /\ e.status = "RUNNING" /\ e.set = job[t].set
    BY <2>0, <2>2 DEF JobRow, JobStatus
  <2>4. \A u \in Threads \ {t} : /\ jobId'[u] = jobId[u] /\ job'[u] = job[u]
                                 /\ savedExecution'[u] = savedExecution[u]
    BY <1>0, <2>1 DEF TypeOK
  <2>5. HistoryStep /\ ExecutionsAreOwnedOnce' /\ OthersKeep(t) /\ pc'[t] = "run"
    BY <2>1, <2>4, MoveStep DEF Executing
  <2>6. PICK j \in Jobs : j = jobId[t]
    BY <1>0, <2>1 DEF TypeOK
  <2>7. /\ deps \subseteq KnownIds /\ j \in Existing
        /\ \A d \in deps \cap Jobs : HasSettled(d, {"COMPLETED"})
    BY <1>0, <2>1, <2>6 DEF EntityAgrees, DependenciesMet, Working, Executing
  <2>8. Existing \subseteq Existing' /\ StatusIsBacked' /\ RowsAgree'
    <3>1. Backed(j, e.status)'
      BY <2>3 DEF Backed
    <3>2. jobQueue' = [jobQueue EXCEPT ![j] = e]
      BY <2>1, <2>6 DEF SaveJob
    <3> QED
      BY <2>3, <2>5, <2>7, <3>1, <3>2, SavedRowAgrees
  <2>9. job'[t] = e /\ jobId'[t] = j
    BY <1>0, <2>1, <2>6 DEF TypeOK
  <2>10. EntityAgrees(t)'
    <3>1. Backed(jobId[t], job[t].status)'
      BY <2>3, <2>9 DEF Backed
    <3>2. job'[t].set.dependencies \subseteq KnownIds' /\ jobId'[t] \in Existing'
      BY <2>3, <2>7, <2>8, <2>9 DEF KnownIds
    <3> QED
      BY <2>3, <2>5, <2>9, <3>1, <3>2 DEF EntityAgrees
  <2>11. DependenciesMet(t)'
    <3>1. {"COMPLETED"} \in SUBSET ExecutionStatus
      BY DEF ExecutionStatus
    <3> QED
      BY <1>0, <2>3, <2>5, <2>7, <2>9, <3>1, SettledStays DEF DependenciesMet
  <2> QED
    BY <2>5, <2>8, <2>10, <2>11, Assemble
<1>4. CASE SaveExecutionSuccess(t)
  <2>1. /\ pc[t] = "run" /\ pc' = [pc EXCEPT ![t] = "succeeded"]
        /\ executions' = [executions EXCEPT ![savedExecution[t]].status = "COMPLETED"]
        /\ UNCHANGED <<jobQueue, jobId, job, savedExecution>>
    BY <1>4 DEF SaveExecutionSuccess, Goto
  <2>2. HistoryStep /\ ExecutionsAreOwnedOnce'
    BY <1>0, <2>1, StatusHistory DEF Executing, ExecutionStatus
  <2>3. pc'[t] = "succeeded" /\ \A u \in Threads \ {t} : pc'[u] = pc[u]
    BY <1>0, <2>1 DEF TypeOK
  <2>4. OthersKeep(t) /\ executions'[savedExecution'[t]].status = "COMPLETED"
    BY <1>0, <2>1, <2>3 DEF OthersKeep, Owns, TypeOK, Execution, Executing
  <2> QED
    BY <1>0, <2>1, <2>2, <2>3, <2>4, LabelStep
    DEF Working, EntityAgrees, Claimed, DependenciesMet, Executing
<1>5. CASE ProcessorThrows(t)
  <2>1. /\ pc[t] = "run" /\ pc' = [pc EXCEPT ![t] = "caught"]
        /\ UNCHANGED <<jobQueue, executions, jobId, job, savedExecution>>
    BY <1>5 DEF ProcessorThrows, Goto, table
  <2>2. HistoryStep /\ ExecutionsAreOwnedOnce' /\ OthersKeep(t) /\ pc'[t] = "caught"
    BY <2>1, MoveStep DEF Executing
  <2> QED
    BY <1>0, <2>1, <2>2, LabelStep
    DEF Working, EntityAgrees, Claimed, DependenciesMet, Executing
<1>6. CASE SaveExecutionFailure(t)
  <2>1. PICK st \in {"FAILED", "TIMEOUT"} :
        /\ pc[t] = "caught" /\ pc' = [pc EXCEPT ![t] = "failed"]
        /\ executions' = [executions EXCEPT ![savedExecution[t]].status = st]
        /\ UNCHANGED <<jobQueue, jobId, job, savedExecution>>
    BY <1>6 DEF SaveExecutionFailure, Goto
  <2>2. HistoryStep /\ ExecutionsAreOwnedOnce'
    BY <1>0, <2>1, StatusHistory DEF Executing, ExecutionStatus
  <2>3. pc'[t] = "failed" /\ \A u \in Threads \ {t} : pc'[u] = pc[u]
    BY <1>0, <2>1 DEF TypeOK
  <2>4. OthersKeep(t) /\ executions'[savedExecution'[t]].status = st
    BY <1>0, <2>1, <2>3 DEF OthersKeep, Owns, TypeOK, Execution, Executing
  <2> QED
    BY <1>0, <2>1, <2>2, <2>3, <2>4, LabelStep
    DEF Working, EntityAgrees, Claimed, DependenciesMet, Executing
<1>7. CASE SaveJobSuccess(t) \/ SaveJobFailure(t)
  <2>0. /\ pc[t] \in {"succeeded", "failed"} /\ Return(t) /\ executions' = executions
        /\ (pc[t] = "succeeded") <=> SaveJobSuccess(t)
    BY <1>7 DEF SaveJobSuccess, SaveJobFailure
  <2>1. job[t] \in JobRow /\ job[t].retryCount + 1 \in Nat
    BY <1>0 DEF TypeOK, JobRow
  <2>2. PICK e \in JobRow :
          /\ SaveJob(t, e) /\ e.set = job[t].set
          /\ e.status \in (IF pc[t] = "succeeded" THEN {"PENDING", "COMPLETED"}
                           ELSE {"RETRYING", "FAILED"})
    <3> DEFINE again == [job[t] EXCEPT !.status = "RETRYING", !.retryCount = @ + 1,
                                       !.scheduledAt = "later"]
               over  == [job[t] EXCEPT !.status = "FAILED"]
               next  == [job[t] EXCEPT !.status = "PENDING", !.nextExecutionAt = "later"]
               done  == [job[t] EXCEPT !.status = "COMPLETED"]
    <3>1. /\ {again, over, next, done} \subseteq JobRow
          /\ \A e \in {again, over, next, done} : e.set = job[t].set
          /\ again.status = "RETRYING" /\ over.status = "FAILED"
          /\ next.status = "PENDING" /\ done.status = "COMPLETED"
      BY <2>1 DEF JobRow, JobStatus, Times
    <3>2. CASE SaveJobSuccess(t)
      <4>1. pc[t] = "succeeded" /\ (SaveJob(t, next) \/ SaveJob(t, done))
        BY <3>2 DEF SaveJobSuccess
      <4> HIDE DEF again, over, next, done
      <4> QED
        BY <3>1, <4>1
    <3>3. CASE SaveJobFailure(t)
      <4>1. pc[t] = "failed" /\ (SaveJob(t, again) \/ SaveJob(t, over))
        BY <3>3 DEF SaveJobFailure
      <4> HIDE DEF again, over, next, done
      <4> QED
        BY <3>1, <4>1
    <3> QED
      BY <1>7, <3>2, <3>3
  <2>3. PICK j \in Jobs : j = jobId[t]
    BY <1>0, <2>0 DEF TypeOK
  <2>4. OwnedStatus(t) /\ Working(t) /\ deps \subseteq KnownIds
    BY <1>0, <2>0 DEF EntityAgrees, OwnedStatus, Working
  <2>5. Backed(j, e.status)'
    <3>0. PICK i : i = savedExecution[t]
      OBVIOUS
    <3>1. i \in 1 .. Len(executions) /\ executions'[i].jobQueueId = j
      BY <1>0, <2>0, <2>3, <3>0 DEF Executing
    <3>2. \A u \in Threads : ~Owns(u, i)'
      <4>1. \A u \in Threads \ {t} : ~Owns(u, i)
        BY <1>0, <2>0, <3>0 DEF Executing
      <4>2. \A u \in Threads \ {t} : pc'[u] = pc[u] /\ savedExecution'[u] = savedExecution[u]
        BY <1>0, <2>0 DEF Return, Goto, TypeOK
      <4>3. pc'[t] \notin Executing
        BY <1>0, <2>0 DEF Return, Goto, TypeOK, Executing
      <4> QED
        BY <4>1, <4>2, <4>3 DEF Owns
    <3>3. \A S \in SUBSET ExecutionStatus : executions[i].status \in S => HasSettled(j, S)'
      BY <2>0, <3>1, <3>2 DEF HasSettled, Settled
    <3>4. /\ {"COMPLETED"} \in SUBSET ExecutionStatus
          /\ {"FAILED", "TIMEOUT"} \in SUBSET ExecutionStatus
      BY DEF ExecutionStatus
    <3> QED
      BY <2>0, <2>2, <2>4, <3>0, <3>3, <3>4 DEF Backed, OwnedStatus
  <2> QED
    BY <2>0, <2>2, <2>3, <2>4, <2>5, SaveAndReturnStep
<1> QED
  BY <1>1, <1>2, <1>3, <1>4, <1>5, <1>6, <1>7 DEF ProcessStep

LEMMA PassStepStep ==
    ASSUME QueueInvariant, TypeOK', NEW t \in Threads,
           \/ ProcessPendingJobs(t) \/ ProcessRetryableJobs(t) \/ NextJob(t) \/ FinishPass(t)
    PROVE  StepKeeps
<1>0. TypeOK
  BY DEF QueueInvariant
<1>1. ASSUME NEW to \in {"idle", "next"}, Goto(t, to),
             UNCHANGED <<table, jobId, job, savedExecution>>
      PROVE  StepKeeps
  <2>1. /\ pc' = [pc EXCEPT ![t] = to] /\ executions' = executions /\ to \notin Executing
        /\ UNCHANGED <<jobId, job, savedExecution>> /\ RowsKept
    BY <1>1 DEF Goto, table, RowsKept, Executing
  <2>2. HistoryStep /\ ExecutionsAreOwnedOnce' /\ OthersKeep(t) /\ pc'[t] = to
    BY <2>1, MoveStep
  <2>3. EntityAgrees(t)' /\ DependenciesMet(t)'
    BY <2>1, <2>2 DEF EntityAgrees, DependenciesMet, Executing, Claimed, Working
  <2>4. Existing \subseteq Existing' /\ StatusIsBacked' /\ RowsAgree'
    BY <2>1, <2>2, RowsKeptAgree
  <2> QED
    BY <2>2, <2>3, <2>4, Assemble
<1>2. CASE ProcessPendingJobs(t) \/ ProcessRetryableJobs(t) \/ FinishPass(t)
  <2>1. \E to \in {"idle", "next"} : Goto(t, to) /\ UNCHANGED <<table, jobId, job, savedExecution>>
    BY <1>2 DEF ProcessPendingJobs, ProcessRetryableJobs, FinishPass, BeginPass
  <2> QED
    BY <1>1, <2>1
<1>3. CASE NextJob(t)
  <2>1. CASE BeginProcess(t, Head(jobsToProcess[t]).id)
    <3>1. Head(jobsToProcess[t]).id \in Jobs
      <4>1. jobsToProcess[t] \in Seq(Entry) /\ jobsToProcess[t] # <<>>
        BY <1>0, <1>3 DEF NextJob, TypeOK, Entry
      <4>2. Head(jobsToProcess[t]) \in Entry
        BY <4>1
      <4> QED
        BY <4>2 DEF Entry
    <3> QED
      BY <1>3, <2>1, <3>1, BeginProcessStep DEF NextJob
  <2>2. CASE UNCHANGED local
    <3>1. executions' = executions /\ RowsKept
      BY <1>3 DEF NextJob, table, RowsKept
    <3>2. HistoryStep
      BY <2>2, <3>1, NoHandlerStep
    <3> QED
      BY <2>2, <3>1, <3>2, RowsKeptAgree, NoHandlerStep
  <2> QED
    BY <1>3, <2>1, <2>2 DEF NextJob
<1> QED
  BY <1>2, <1>3

LEMMA DatabaseFaultStep ==
    ASSUME QueueInvariant, TypeOK', NEW t \in Threads, DatabaseFault(t)
    PROVE  StepKeeps
<1>0. /\ TypeOK /\ EntityAgrees(t) /\ DependenciesMet(t)
      /\ executions' = executions /\ jobQueue' = jobQueue
  BY DEF QueueInvariant, EntitiesAgree, DependenciesFirst, DatabaseFault, table
<1>1. RowsKept
  BY <1>0 DEF RowsKept
<1>2. CASE pc[t] \in {"run", "succeeded"}
  <2>1. pc' = [pc EXCEPT ![t] = "caught"] /\ UNCHANGED <<jobId, job, savedExecution>>
    BY <1>2 DEF DatabaseFault, Goto
  <2>2. HistoryStep /\ ExecutionsAreOwnedOnce' /\ OthersKeep(t) /\ pc'[t] = "caught"
    BY <1>0, <1>2, <2>1, MoveStep DEF Executing
  <2> QED
    BY <1>0, <1>2, <2>1, <2>2, LabelStep
    DEF Working, EntityAgrees, Claimed, DependenciesMet, Executing
<1>3. CASE pc[t] \notin {"run", "succeeded"}
  <2>1. Return(t)
    BY <1>3 DEF DatabaseFault
  <2> QED
    BY <1>0, <1>1, <2>1, ReturnStep, RowsKeptAgree, Assemble
<1> QED
  BY <1>2, <1>3

LEMMA CrashStep ==
    ASSUME QueueInvariant, TypeOK', NEW s \in Servers, Crash(s) PROVE StepKeeps
<1>0. TypeOK /\ ExecutionsAreOwnedOnce /\ executions' = executions /\ RowsKept
  BY DEF QueueInvariant, Crash, table, RowsKept
<1>1. \A t \in Threads :
        \/ pc'[t] = "idle"
        \/ /\ pc'[t] = pc[t] /\ jobId'[t] = jobId[t] /\ job'[t] = job[t]
           /\ savedExecution'[t] = savedExecution[t]
  BY DEF Crash
<1>2. HistoryStep /\ ExecutionsAreOwnedOnce'
  <2>1. Quiet
    BY <1>0, <1>1 DEF Quiet, Executing
  <2> QED
    BY <1>0, <2>1, QuietHistory
<1>3. Existing \subseteq Existing' /\ StatusIsBacked' /\ RowsAgree'
  BY <1>0, <1>2, RowsKeptAgree
<1>4. ASSUME NEW t \in Threads PROVE EntityAgrees(t)' /\ DependenciesMet(t)'
  <2>1. CASE pc'[t] = "idle"
    BY <2>1 DEF EntityAgrees, DependenciesMet, Executing, Claimed, Working
  <2>2. CASE pc'[t] # "idle"
    BY <1>0, <1>1, <1>2, <1>3, <2>2, KeptAgrees
  <2> QED
    BY <2>1, <2>2
<1> QED
  BY <1>2, <1>3, <1>4 DEF QueueInvariant, EntitiesAgree, DependenciesFirst, StepKeeps

-----------------------------------------------------------------------------
(* Every step keeps the invariant, and the history. *)
LEMMA EveryStepKeeps == QueueInvariant /\ [Next]_vars => StepKeeps
<1> SUFFICES ASSUME QueueInvariant, [Next]_vars PROVE StepKeeps
  OBVIOUS
<1>0. TypeOK'
  BY TypeStep DEF QueueInvariant
<1>1. ASSUME NEW j \in Jobs, CreateJob(j) \/ TimePasses(j) PROVE StepKeeps
  BY <1>0, <1>1, CreateJobStep, TimePassesStep
<1>2. ASSUME NEW t \in Requests, RequestStep(t) PROVE StepKeeps
  BY <1>0, <1>2, RequestStepStep
<1>3. ASSUME NEW t \in Threads, \/ ProcessPendingJobs(t) \/ ProcessRetryableJobs(t)
                                \/ PassStep(t)
      PROVE  StepKeeps
  BY <1>0, <1>3, PassStepStep DEF PassStep
<1>4. ASSUME NEW t \in Threads, ProcessStep(t) \/ DatabaseFault(t) PROVE StepKeeps
  BY <1>0, <1>4, ProcessStepStep, DatabaseFaultStep
<1>5. ASSUME NEW s \in Servers, Crash(s) PROVE StepKeeps
  BY <1>0, <1>5, CrashStep
<1>6. CASE UNCHANGED vars
  <2>1. executions' = executions /\ UNCHANGED local /\ RowsKept
    BY <1>6 DEF vars, table, RowsKept
  <2>2. HistoryStep
    BY <1>0, <2>1, NoHandlerStep
  <2> QED
    BY <1>0, <2>1, <2>2, RowsKeptAgree, NoHandlerStep
<1> QED
  BY <1>1, <1>2, <1>3, <1>4, <1>5, <1>6 DEF Next, Threads

LEMMA InvariantStep == QueueInvariant /\ [Next]_vars => QueueInvariant'
BY EveryStepKeeps DEF StepKeeps

LEMMA InvariantInit == Init => QueueInvariant
<1> SUFFICES ASSUME Init PROVE QueueInvariant
  OBVIOUS
<1>1. TypeOK
  BY NoRowType DEF Init, TypeOK, Labels
<1>2. \A t \in Threads : pc[t] = "idle"
  BY DEF Init
<1>3. \A j \in Jobs : jobQueue[j].status = "ABSENT" /\ jobQueue[j].set.dependencies = {}
  BY DEF Init, NoRow
<1>4. ExecutionsAreOwnedOnce /\ EntitiesAgree /\ DependenciesFirst
  BY <1>2 DEF ExecutionsAreOwnedOnce, EntitiesAgree, EntityAgrees, DependenciesFirst,
              DependenciesMet, Executing, Claimed, Working
<1>5. StatusIsBacked /\ RowsAgree
  BY <1>3 DEF StatusIsBacked, Backed, RowsAgree
<1> QED
  BY <1>1, <1>4, <1>5 DEF QueueInvariant

LEMMA InvariantHolds == Spec => []QueueInvariant
BY InvariantInit, InvariantStep, PTL DEF Spec

(* Whatever the overlaps, crashes and failing saves, a status shown to clients was *)
(* earned: COMPLETED by an execution that completed and stays so, FAILED and       *)
(* RETRYING by one that failed.                                                    *)
THEOREM StatusBacked == Spec => []StatusIsBacked
<1>1. QueueInvariant => StatusIsBacked
  BY DEF QueueInvariant
<1> QED
  BY <1>1, InvariantHolds, PTL

(* No job is executed before every dependency it names and that exists completed. *)
THEOREM DependenciesCompleteFirst == Spec => []DependenciesFirst
<1>1. QueueInvariant => DependenciesFirst
  BY DEF QueueInvariant
<1> QED
  BY <1>1, InvariantHolds, PTL

(* An execution row has one writer, and the writer is at work on the row's job. *)
THEOREM OneWriterPerExecution == Spec => []ExecutionsAreOwnedOnce
<1>1. QueueInvariant => ExecutionsAreOwnedOnce
  BY DEF QueueInvariant
<1> QED
  BY <1>1, InvariantHolds, PTL

(* No step changes or deletes an execution that has ended and that no handler is *)
(* still about to write.                                                         *)
THEOREM HistoryKept == Spec => HistoryIsKept
<1>1. QueueInvariant /\ [Next]_vars =>
        [\A i \in 1 .. Len(executions) :
           /\ i <= Len(executions')
           /\ Settled(i, ExecutionStatus) => executions'[i] = executions[i]]_vars
  <2> SUFFICES ASSUME QueueInvariant, [Next]_vars, NEW i \in 1 .. Len(executions)
               PROVE  /\ i <= Len(executions')
                      /\ Settled(i, ExecutionStatus) => executions'[i] = executions[i]
    OBVIOUS
  <2>1. HistoryStep /\ QueueInvariant'
    BY EveryStepKeeps DEF StepKeeps
  <2>2. Len(executions) \in Nat /\ Len(executions') \in Nat
    BY <2>1 DEF QueueInvariant, TypeOK
  <2> QED
    BY <2>1, <2>2 DEF HistoryStep
<1> QED
  BY <1>1, InvariantHolds, PTL DEF Spec, HistoryIsKept

(* A cancellation is only ever undone by a handler that had read the job before it. *)
THEOREM CancelUndoneOnlyByStaleSaves == Spec => OnlyStaleSavesUndoCancel
<1>1. QueueInvariant /\ [Next]_vars =>
        [\A j \in Jobs :
           jobQueue[j].status = "CANCELLED" /\ jobQueue'[j].status # "CANCELLED" =>
             \E t \in Threads : jobId[t] = j /\ job[t].status # "CANCELLED"]_vars
  <2> SUFFICES ASSUME QueueInvariant, [Next]_vars, NEW j \in Jobs,
                      jobQueue[j].status = "CANCELLED", jobQueue'[j].status # "CANCELLED"
               PROVE  \E t \in Threads : jobId[t] = j /\ job[t].status # "CANCELLED"
    OBVIOUS
  <2>0. TypeOK /\ EntitiesAgree
    BY DEF QueueInvariant
  <2>1. ASSUME NEW k \in Jobs, CreateJob(k) PROVE FALSE
    BY <2>0, <2>1 DEF CreateJob, TypeOK
  <2>2. ASSUME NEW k \in Jobs, TimePasses(k) PROVE FALSE
    <3>1. jobQueue[j] \in JobRow
      BY <2>0 DEF TypeOK
    <3>2. jobQueue[k] \in JobRow
      BY <2>0 DEF TypeOK
    <3>3. PICK e \in JobRow : e.status = jobQueue[k].status
                              /\ jobQueue' = [jobQueue EXCEPT ![k] = e]
      <4>1. CASE jobQueue' = [jobQueue EXCEPT ![k].scheduledAt = "passed"]
        <5>1. [jobQueue[k] EXCEPT !.scheduledAt = "passed"] \in JobRow
          BY <3>2 DEF JobRow, Times
        <5>2. [jobQueue[k] EXCEPT !.scheduledAt = "passed"].status = jobQueue[k].status
          BY <3>2 DEF JobRow
        <5> QED
          BY <4>1, <5>1, <5>2
      <4>2. CASE jobQueue' = [jobQueue EXCEPT ![k].nextExecutionAt = "passed"]
        <5>1. [jobQueue[k] EXCEPT !.nextExecutionAt = "passed"] \in JobRow
          BY <3>2 DEF JobRow, Times
        <5>2. [jobQueue[k] EXCEPT !.nextExecutionAt = "passed"].status = jobQueue[k].status
          BY <3>2 DEF JobRow
        <5> QED
          BY <4>2, <5>1, <5>2
      <4> QED
        BY <2>2, <4>1, <4>2 DEF TimePasses
    <3>4. jobQueue'[j].status = jobQueue[j].status
      BY <2>0, <3>3 DEF TypeOK
    <3> QED
      BY <3>4
  <2>3. ASSUME NEW t \in Threads,
               SaveEdit(t) \/ SaveRunning(t) \/ SaveJobSuccess(t) \/ SaveJobFailure(t)
        PROVE  jobId[t] = j /\ job[t].status # "CANCELLED"
    <3>1. EntityAgrees(t) /\ job[t] \in JobRow
      BY <2>0 DEF EntitiesAgree, TypeOK
    <3>2. jobId[t] = j
      <4>1. PICK e : SaveJob(t, e)
        BY <2>3 DEF SaveEdit, SaveRunning, SaveJobSuccess, SaveJobFailure
      <4>2. jobQueue' = [jobQueue EXCEPT ![jobId[t]] = e]
        BY <4>1 DEF SaveJob
      <4> QED
        BY <2>0, <4>2 DEF TypeOK
    <3>3. CASE SaveEdit(t)
      BY <2>0, <3>2, <3>3 DEF SaveEdit, SaveJob, TypeOK
    <3>4. CASE SaveRunning(t) \/ SaveJobSuccess(t) \/ SaveJobFailure(t)
      BY <3>1, <3>2, <3>4 DEF SaveRunning, SaveJobSuccess, SaveJobFailure, EntityAgrees,
                        Processable, Claimed
    <3> QED
      BY <2>3, <3>2, <3>3, <3>4
  <2>4. CASE jobQueue' = jobQueue
    BY <2>4
  <2>5. ASSUME NEW t \in Threads,
               \/ ProcessPendingJobs(t) \/ ProcessRetryableJobs(t) \/ PassStep(t)
               \/ DatabaseFault(t) \/ CheckDependencies(t) \/ SaveStarted(t)
               \/ SaveExecutionSuccess(t) \/ ProcessorThrows(t) \/ SaveExecutionFailure(t)
               \/ \E k \in Jobs : \/ UpdateJob(t, k) \/ CancelJob(t, k)
                                  \/ RetryJob(t, k) \/ ExecuteJob(t, k)
        PROVE  jobQueue' = jobQueue
    <3>1. CASE \/ ProcessPendingJobs(t) \/ ProcessRetryableJobs(t) \/ PassStep(t)
               \/ DatabaseFault(t)
      BY <3>1 DEF ProcessPendingJobs, ProcessRetryableJobs, PassStep, NextJob, FinishPass,
                  BeginPass, DatabaseFault, table
    <3>2. CASE \/ CheckDependencies(t) \/ SaveStarted(t) \/ SaveExecutionSuccess(t)
               \/ ProcessorThrows(t) \/ SaveExecutionFailure(t)
      BY <3>2 DEF CheckDependencies, SaveStarted, SaveExecutionSuccess, ProcessorThrows,
                  SaveExecutionFailure, table
    <3>3. CASE \E k \in Jobs : \/ UpdateJob(t, k) \/ CancelJob(t, k)
                               \/ RetryJob(t, k) \/ ExecuteJob(t, k)
      BY <3>3 DEF UpdateJob, CancelJob, RetryJob, ExecuteJob, BeginEdit, table
    <3> QED
      BY <2>5, <3>1, <3>2, <3>3
  <2>6. ASSUME NEW c \in Servers, Crash(c) PROVE jobQueue' = jobQueue
    BY <2>6 DEF Crash, table
  <2>7. CASE UNCHANGED vars
    BY <2>4, <2>7 DEF vars, table
  <2> QED
    BY <2>1, <2>2, <2>3, <2>4, <2>5, <2>6, <2>7 DEF Next, RequestStep, ProcessStep, Threads
<1> QED
  BY <1>1, InvariantHolds, PTL DEF Spec, OnlyStaleSavesUndoCancel

-----------------------------------------------------------------------------
(* A RUNNING job and a STARTED execution have a handler, as long as nothing *)
(* fails.                                                                   *)

Owned ==
    /\ \A j \in Jobs : jobQueue[j].status = "RUNNING" =>
         \E t \in Threads : jobId[t] = j /\ pc[t] \in Claimed
    /\ \A i \in 1 .. Len(executions) : executions[i].status = "STARTED" =>
         \E t \in Threads : Owns(t, i)

(* A row that a step leaves RUNNING was RUNNING, and its handlers go on. *)
RowsCalm ==
    \A j \in Jobs : jobQueue'[j].status = "RUNNING" =>
        /\ jobQueue[j].status = "RUNNING"
        /\ \A u \in Threads : jobId[u] = j /\ pc[u] \in Claimed => jobId'[u] = j /\ pc'[u] \in Claimed

(* The same of an execution that a step leaves STARTED. *)
ExecutionsCalm ==
    /\ Len(executions') = Len(executions)
    /\ \A i \in 1 .. Len(executions) : executions'[i].status = "STARTED" =>
         /\ executions[i].status = "STARTED"
         /\ \A u \in Threads : Owns(u, i) => Owns(u, i)'

(* The other threads stay where they are. *)
OthersStay(t) ==
    \A u \in Threads \ {t} :
        pc'[u] = pc[u] /\ jobId'[u] = jobId[u] /\ savedExecution'[u] = savedExecution[u]

(* Rows keep a status other than RUNNING, or get one. *)
NoNewRunning == \A j \in Jobs : jobQueue'[j].status = "RUNNING" => jobQueue[j].status = "RUNNING"

LEMMA CalmKeeps ==
    ASSUME Owned, RowsCalm, ExecutionsCalm
    PROVE  Owned'
BY DEF Owned, RowsCalm, ExecutionsCalm

LEMMA ClaimedExecute == Claimed \subseteq Executing
BY DEF Claimed, Executing

(* A thread that executes nothing: what it does with its own labels is its affair. *)
LEMMA BystanderKeeps ==
    ASSUME Owned, NEW t \in Threads, pc[t] \notin Executing, OthersStay(t),
           executions' = executions, NoNewRunning
    PROVE  Owned'
<1>1. RowsCalm
  BY ClaimedExecute DEF RowsCalm, OthersStay, NoNewRunning
<1>2. ExecutionsCalm
  BY DEF ExecutionsCalm, OthersStay, Owns
<1> QED
  BY <1>1, <1>2, CalmKeeps

LEMMA ThreadStays ==
    ASSUME TypeOK, NEW t \in Threads, NEW l, pc' = [pc EXCEPT ![t] = l],
           (\E j : jobId' = [jobId EXCEPT ![t] = j]) \/ UNCHANGED jobId,
           (\E i : savedExecution' = [savedExecution EXCEPT ![t] = i]) \/ UNCHANGED savedExecution
    PROVE  OthersStay(t) /\ pc'[t] = l
BY DEF TypeOK, OthersStay

LEMMA ReturnStays ==
    ASSUME TypeOK, NEW t \in Threads, Return(t)
    PROVE  OthersStay(t) /\ pc'[t] \in {"idle", "next"}
BY DEF Return, Goto, TypeOK, OthersStay

LEMMA BeginProcessStays ==
    ASSUME TypeOK, NEW t \in Threads, NEW j, BeginProcess(t, j)
    PROVE  OthersStay(t)
BY ReturnStays DEF BeginProcess, Goto, TypeOK, OthersStay

LEMMA RequestKeepsOwners ==
    ASSUME QueueInvariant, Owned, NEW t \in Threads, RequestStep(t)
    PROVE  Owned'
<1>0. TypeOK /\ EntityAgrees(t)
  BY DEF QueueInvariant, EntitiesAgree
<1>1. ASSUME NEW j \in Jobs, UpdateJob(t, j) \/ CancelJob(t, j) \/ RetryJob(t, j) PROVE Owned'
  <2>1. PICK e : BeginEdit(t, j, e)
    BY <1>1, Zenon DEF UpdateJob, CancelJob, RetryJob
  <2>2. pc[t] \notin Executing /\ executions' = executions /\ NoNewRunning
    BY <2>1 DEF BeginEdit, Executing, table, NoNewRunning
  <2>3. OthersStay(t)
    BY <1>0, <2>1 DEF BeginEdit, Goto, OthersStay, TypeOK
  <2> QED
    BY <2>2, <2>3, BystanderKeeps
<1>2. ASSUME NEW j \in Jobs, ExecuteJob(t, j) PROVE Owned'
  <2>1. pc[t] \notin Executing /\ executions' = executions /\ NoNewRunning
    BY <1>2 DEF ExecuteJob, Executing, table, NoNewRunning
  <2>2. OthersStay(t)
    BY <1>0, <1>2, BeginProcessStays DEF ExecuteJob
  <2> QED
    BY <2>1, <2>2, BystanderKeeps
<1>3. CASE SaveEdit(t)
  <2>1. pc[t] = "save" /\ executions' = executions /\ jobQueue' = [jobQueue EXCEPT ![jobId[t]] = job[t]]
    BY <1>3 DEF SaveEdit, SaveJob
  <2>2. job[t].status # "RUNNING"
    BY <1>0, <2>1 DEF EntityAgrees
  <2>3. NoNewRunning
    BY <1>0, <2>1, <2>2 DEF NoNewRunning, TypeOK
  <2>4. OthersStay(t)
    BY <1>0, <1>3, ReturnStays DEF SaveEdit
  <2> QED
    BY <2>1, <2>3, <2>4, BystanderKeeps DEF Executing
<1> QED
  BY <1>1, <1>2, <1>3 DEF RequestStep

LEMMA PassKeepsOwners ==
    ASSUME QueueInvariant, Owned, NEW t \in Threads,
           ProcessPendingJobs(t) \/ ProcessRetryableJobs(t) \/ PassStep(t)
    PROVE  Owned'
<1>0. TypeOK
  BY DEF QueueInvariant
<1>1. executions' = executions /\ NoNewRunning /\ pc[t] \in {"idle", "next"}
  BY DEF ProcessPendingJobs, ProcessRetryableJobs, PassStep, BeginPass, NextJob, FinishPass,
         table, NoNewRunning
<1>2. CASE ProcessPendingJobs(t) \/ ProcessRetryableJobs(t) \/ FinishPass(t)
  <2>1. (\E l : pc' = [pc EXCEPT ![t] = l]) /\ UNCHANGED <<jobId, savedExecution>>
    BY <1>2 DEF ProcessPendingJobs, ProcessRetryableJobs, BeginPass, FinishPass, Goto
  <2>2. OthersStay(t)
    BY <1>0, <2>1 DEF OthersStay, TypeOK
  <2> QED
    BY <1>1, <2>2, BystanderKeeps DEF Executing
<1>3. CASE NextJob(t)
  <2>1. (\E j : BeginProcess(t, j)) \/ UNCHANGED local
    BY <1>3 DEF NextJob
  <2>2. OthersStay(t)
    BY <1>0, <2>1, BeginProcessStays DEF OthersStay, local
  <2> QED
    BY <1>1, <2>2, BystanderKeeps DEF Executing
<1> QED
  BY <1>2, <1>3 DEF PassStep

-----------------------------------------------------------------------------
(* processJob. *)

LEMMA StartedKeepsOwners ==
    ASSUME QueueInvariant, Owned, NEW t \in Threads, SaveStarted(t)
    PROVE  Owned'
<1>0. TypeOK
  BY DEF QueueInvariant
<1>1. /\ pc[t] = "start" /\ pc' = [pc EXCEPT ![t] = "claim"] /\ UNCHANGED <<jobQueue, jobId>>
      /\ savedExecution' = [savedExecution EXCEPT ![t] = Len(executions) + 1]
      /\ executions' = Append(executions, [jobQueueId |-> jobId[t], status |-> "STARTED"])
  BY DEF SaveStarted, Goto
<1>2. OthersStay(t) /\ pc'[t] = "claim" /\ savedExecution'[t] = Len(executions) + 1
  BY <1>0, <1>1 DEF OthersStay, TypeOK
<1>3. RowsCalm
  BY <1>1, <1>2 DEF RowsCalm, OthersStay, Claimed
<1>4. /\ Len(executions') = Len(executions) + 1 /\ Len(executions) \in Nat
      /\ \A i \in 1 .. Len(executions) : executions'[i] = executions[i]
  BY <1>0, <1>1 DEF TypeOK
<1>5. \A i : i = Len(executions) + 1 => Owns(t, i)'
  BY <1>2 DEF Owns, Executing
<1>6. \A u \in Threads, i \in 1 .. Len(executions) : Owns(u, i) => Owns(u, i)'
  BY <1>1, <1>2 DEF Owns, Executing, OthersStay
<1>7. \A i \in 1 .. Len(executions') : executions'[i].status = "STARTED" => \E u \in Threads : Owns(u, i)'
  <2> SUFFICES ASSUME NEW i \in 1 .. Len(executions'), executions'[i].status = "STARTED"
               PROVE  \E u \in Threads : Owns(u, i)'
    OBVIOUS
  <2>1. CASE i = Len(executions) + 1
    BY <1>5, <2>1
  <2>2. CASE i \in 1 .. Len(executions)
    <3>1. executions[i].status = "STARTED"
      BY <1>4, <2>2
    <3>2. PICK u \in Threads : Owns(u, i)
      BY <2>2, <3>1 DEF Owned
    <3> QED
      BY <1>6, <2>2, <3>2
  <2> QED
    BY <1>4, <2>1, <2>2
<1>8. \A j \in Jobs : jobQueue'[j].status = "RUNNING" =>
        \E u \in Threads : jobId'[u] = j /\ pc'[u] \in Claimed
  BY <1>3 DEF RowsCalm, Owned
<1> QED
  BY <1>7, <1>8 DEF Owned

LEMMA RunningKeepsOwners ==
    ASSUME QueueInvariant, Owned, NEW t \in Threads, SaveRunning(t)
    PROVE  Owned'
<1>0. TypeOK
  BY DEF QueueInvariant
<1>1. PICK e : jobQueue' = [jobQueue EXCEPT ![jobId[t]] = e]
  BY DEF SaveRunning, SaveJob
<1>2. /\ pc[t] = "claim" /\ pc' = [pc EXCEPT ![t] = "run"]
      /\ UNCHANGED <<executions, jobId, savedExecution>>
  BY DEF SaveRunning, Goto
<1>3. OthersStay(t) /\ pc'[t] = "run"
  BY <1>0, <1>2 DEF OthersStay, TypeOK
<1>4. ExecutionsCalm
  BY <1>2, <1>3 DEF ExecutionsCalm, OthersStay, Owns, Executing
<1>5. ASSUME NEW j \in Jobs, jobQueue'[j].status = "RUNNING"
      PROVE  \E u \in Threads : jobId'[u] = j /\ pc'[u] \in Claimed
  <2>1. CASE j = jobId[t]
    BY <1>2, <1>3, <2>1 DEF Claimed
  <2>2. CASE j # jobId[t]
    <3>1. jobQueue[j].status = "RUNNING"
      BY <1>0, <1>1, <1>5, <2>2 DEF TypeOK
    <3>2. PICK u \in Threads : jobId[u] = j /\ pc[u] \in Claimed
      BY <3>1 DEF Owned
    <3> QED
      BY <1>2, <1>3, <2>2, <3>2 DEF OthersStay
  <2> QED
    BY <2>1, <2>2
<1>6. \A i \in 1 .. Len(executions') : executions'[i].status = "STARTED" => \E u \in Threads : Owns(u, i)'
  BY <1>4 DEF ExecutionsCalm, Owned
<1> QED
  BY <1>5, <1>6 DEF Owned

(* An execution is given another status. *)
LEMMA StatusWritten ==
    ASSUME NEW rows \in Seq(Execution), NEW k, NEW st, st # "STARTED"
    PROVE  LET new == [rows EXCEPT ![k].status = st] IN
           /\ Len(new) = Len(rows)
           /\ \A i \in 1 .. Len(rows) : new[i].status = "STARTED" => rows[i].status = "STARTED"
<1> DEFINE new == [rows EXCEPT ![k].status = st]
<1>1. rows \in [1 .. Len(rows) -> Execution] /\ Len(rows) \in Nat
  OBVIOUS
<1>2. DOMAIN new = 1 .. Len(rows)
  BY <1>1
<1>3. new = [i \in 1 .. Len(rows) |-> IF i = k THEN [rows[k] EXCEPT !.status = st] ELSE rows[i]]
  BY <1>1
<1>4. Len(new) = Len(rows)
  BY <1>1, <1>3
<1>5. ASSUME NEW i \in 1 .. Len(rows), new[i].status = "STARTED" PROVE rows[i].status = "STARTED"
  <2>1. rows[i] \in Execution
    BY <1>1
  <2>2. [rows[i] EXCEPT !.status = st].status = st
    BY <2>1 DEF Execution
  <2> QED
    BY <1>3, <1>5, <2>2
<1> QED
  BY <1>4, <1>5

(* The outcome of the execution is saved, or the processor throws. *)
LEMMA OutcomeKeepsOwners ==
    ASSUME QueueInvariant, Owned, NEW t \in Threads,
           SaveExecutionSuccess(t) \/ ProcessorThrows(t) \/ SaveExecutionFailure(t)
    PROVE  Owned'
<1>0. TypeOK
  BY DEF QueueInvariant
<1>1. pc[t] \in {"run", "caught"} /\ UNCHANGED <<jobQueue, jobId, savedExecution>>
  BY DEF SaveExecutionSuccess, ProcessorThrows, SaveExecutionFailure, table
<1>2. PICK l \in {"succeeded", "caught", "failed"} : pc' = [pc EXCEPT ![t] = l]
  BY DEF SaveExecutionSuccess, ProcessorThrows, SaveExecutionFailure, Goto
<1>3. OthersStay(t) /\ pc'[t] \in Claimed /\ pc'[t] \in Executing
  BY <1>0, <1>1, <1>2 DEF OthersStay, TypeOK, Claimed, Executing
<1>4. RowsCalm
  BY <1>1, <1>3 DEF RowsCalm, OthersStay
<1>5. \A u \in Threads, i \in Nat : Owns(u, i) => Owns(u, i)'
  BY <1>1, <1>3 DEF Owns, OthersStay
<1>6. executions' = executions \/ \E st \in {"COMPLETED", "TIMEOUT", "FAILED"} :
        executions' = [executions EXCEPT ![savedExecution[t]].status = st]
  BY DEF SaveExecutionSuccess, ProcessorThrows, SaveExecutionFailure, table
<1>7. /\ Len(executions') = Len(executions)
      /\ \A i \in 1 .. Len(executions) : executions'[i].status = "STARTED" => executions[i].status = "STARTED"
  <2>1. CASE executions' = executions
    BY <2>1
  <2>2. ASSUME NEW st \in {"COMPLETED", "TIMEOUT", "FAILED"},
               executions' = [executions EXCEPT ![savedExecution[t]].status = st]
        PROVE  <1>7
    BY <1>0, <2>2, StatusWritten
  <2> QED
    BY <1>6, <2>1, <2>2
<1>8. ExecutionsCalm
  BY <1>0, <1>5, <1>7 DEF ExecutionsCalm, TypeOK
<1> QED
  BY <1>4, <1>8, CalmKeeps

(* The job's outcome is saved after its execution's, and is not RUNNING. *)
LEMMA JobOutcomeKeepsOwners ==
    ASSUME QueueInvariant, Owned, NEW t \in Threads, SaveJobSuccess(t) \/ SaveJobFailure(t)
    PROVE  Owned'
<1>0. TypeOK /\ EntityAgrees(t)
  BY DEF QueueInvariant, EntitiesAgree
<1>1. pc[t] \in {"succeeded", "failed"} /\ Return(t) /\ executions' = executions
  BY DEF SaveJobSuccess, SaveJobFailure
<1>2. OthersStay(t) /\ pc'[t] \in {"idle", "next"}
  BY <1>0, <1>1, ReturnStays
<1>3. job[t] \in JobRow
  BY <1>0 DEF TypeOK
<1>4. \E e : jobQueue' = [jobQueue EXCEPT ![jobId[t]] = e] /\ e.status # "RUNNING"
  <2>1. CASE SaveJobSuccess(t)
    <3> DEFINE e == IF job[t].set.isRecurring
                    THEN [job[t] EXCEPT !.status = "PENDING", !.nextExecutionAt = "later"]
                    ELSE [job[t] EXCEPT !.status = "COMPLETED"]
    <3>1. e.status # "RUNNING"
      BY <1>3 DEF JobRow
    <3>2. jobQueue' = [jobQueue EXCEPT ![jobId[t]] = e]
      BY <2>1 DEF SaveJobSuccess, SaveJob
    <3> HIDE DEF e
    <3> QED
      BY <3>1, <3>2
  <2>2. CASE SaveJobFailure(t)
    <3> DEFINE e == IF job[t].retryCount < job[t].set.maxRetries
                    THEN [job[t] EXCEPT !.status = "RETRYING", !.retryCount = @ + 1,
                                        !.scheduledAt = "later"]
                    ELSE [job[t] EXCEPT !.status = "FAILED"]
    <3>1. e.status # "RUNNING"
      BY <1>3 DEF JobRow
    <3>2. jobQueue' = [jobQueue EXCEPT ![jobId[t]] = e]
      BY <2>2 DEF SaveJobFailure, SaveJob
    <3> HIDE DEF e
    <3> QED
      BY <3>1, <3>2
  <2> QED
    BY <2>1, <2>2
<1>5. RowsCalm
  <2>1. PICK e : jobQueue' = [jobQueue EXCEPT ![jobId[t]] = e] /\ e.status # "RUNNING"
    BY <1>4
  <2> QED
    BY <1>0, <1>2, <2>1 DEF RowsCalm, OthersStay, TypeOK
<1>6. executions[savedExecution[t]].status # "STARTED"
  BY <1>0, <1>1 DEF EntityAgrees
<1>7. ExecutionsCalm
  BY <1>1, <1>2, <1>6 DEF ExecutionsCalm, OthersStay, Owns
<1> QED
  BY <1>5, <1>7, CalmKeeps

LEMMA ProcessKeepsOwners ==
    ASSUME QueueInvariant, Owned, NEW t \in Threads, ProcessStep(t)
    PROVE  Owned'
<1>1. CASE CheckDependencies(t)
  <2>0. TypeOK
    BY DEF QueueInvariant
  <2>1. pc[t] \notin Executing /\ executions' = executions /\ NoNewRunning
    BY <1>1 DEF CheckDependencies, Executing, table, NoNewRunning
  <2>2. CASE Return(t)
    BY <2>0, <2>1, <2>2, ReturnStays, BystanderKeeps
  <2>3. CASE Goto(t, "start") /\ UNCHANGED <<jobId, job, savedExecution>>
    <3>1. OthersStay(t)
      BY <2>0, <2>3 DEF Goto, OthersStay, TypeOK
    <3> QED
      BY <2>1, <3>1, BystanderKeeps
  <2> QED
    BY <1>1, <2>2, <2>3 DEF CheckDependencies
<1> QED
  BY <1>1, StartedKeepsOwners, RunningKeepsOwners, OutcomeKeepsOwners, JobOutcomeKeepsOwners
     DEF ProcessStep

LEMMA ClockKeepsOwners ==
    ASSUME QueueInvariant, Owned, NEW j \in Jobs, CreateJob(j) \/ TimePasses(j)
    PROVE  Owned'
<1>0. TypeOK
  BY DEF QueueInvariant
<1>1. UNCHANGED <<executions, pc, jobId, savedExecution>>
  BY DEF CreateJob, TimePasses, local
<1>2. NoNewRunning
  <2>1. CASE CreateJob(j)
    <3>1. \A k \in Jobs \ {j} : jobQueue'[k] = jobQueue[k]
      BY <1>0, <2>1 DEF CreateJob, TypeOK
    <3>2. jobQueue'[j].status = "PENDING"
      BY <1>0, <2>1 DEF CreateJob, TypeOK
    <3> QED
      BY <3>1, <3>2 DEF NoNewRunning
  <2>2. CASE TimePasses(j)
    <3>1. jobQueue[j] \in JobRow
      BY <1>0 DEF TypeOK
    <3>2. CASE jobQueue' = [jobQueue EXCEPT ![j].scheduledAt = "passed"]
      BY <1>0, <3>1, <3>2 DEF NoNewRunning, TypeOK, JobRow
    <3>3. CASE jobQueue' = [jobQueue EXCEPT ![j].nextExecutionAt = "passed"]
      BY <1>0, <3>1, <3>3 DEF NoNewRunning, TypeOK, JobRow
    <3> QED
      BY <2>2, <3>2, <3>3 DEF TimePasses
  <2> QED
    BY <2>1, <2>2
<1>3. RowsCalm /\ ExecutionsCalm
  BY <1>1, <1>2 DEF RowsCalm, ExecutionsCalm, NoNewRunning, Owns
<1> QED
  BY <1>3, CalmKeeps

-----------------------------------------------------------------------------
OwnerInvariant == QueueInvariant /\ RunningIsOwned

(* A step that fails is counted. *)
LEMMA FailuresCount ==
    ASSUME TypeOK, [Next]_vars, faults' = 0, crashes' = 0
    PROVE  /\ faults = 0 /\ crashes = 0
           /\ \A t \in Threads : ~DatabaseFault(t)
           /\ \A s \in Servers : ~Crash(s)
<1>0. faults \in Nat /\ crashes \in Nat
  BY DEF TypeOK
<1>1. \A t \in Threads : ~DatabaseFault(t)
  BY <1>0 DEF DatabaseFault
<1>2. \A s \in Servers : ~Crash(s)
  BY <1>0 DEF Crash
<1>3. UNCHANGED <<faults, crashes>>
  <2>1. ASSUME NEW j \in Jobs, CreateJob(j) \/ TimePasses(j) PROVE <1>3
    BY <2>1 DEF CreateJob, TimePasses
  <2>2. ASSUME NEW t \in Requests, RequestStep(t) PROVE <1>3
    <3>1. ASSUME NEW j \in Jobs, UpdateJob(t, j) \/ CancelJob(t, j) \/ RetryJob(t, j) PROVE <1>3
      <4>1. PICK e : BeginEdit(t, j, e)
        BY <3>1, Zenon DEF UpdateJob, CancelJob, RetryJob
      <4> QED
        BY <4>1 DEF BeginEdit
    <3>2. ASSUME NEW j \in Jobs, ExecuteJob(t, j) PROVE <1>3
      BY <3>2 DEF ExecuteJob
    <3>3. CASE SaveEdit(t)
      BY <3>3 DEF SaveEdit
    <3> QED
      BY <2>2, <3>1, <3>2, <3>3 DEF RequestStep
  <2>3. ASSUME NEW t, ProcessPendingJobs(t) \/ ProcessRetryableJobs(t) \/ PassStep(t) PROVE <1>3
    BY <2>3 DEF ProcessPendingJobs, ProcessRetryableJobs, BeginPass, PassStep, NextJob, FinishPass
  <2>4. ASSUME NEW t \in Threads, ProcessStep(t) PROVE <1>3
    BY <2>4 DEF ProcessStep, CheckDependencies, SaveStarted, SaveRunning, SaveExecutionSuccess,
                SaveJobSuccess, ProcessorThrows, SaveExecutionFailure, SaveJobFailure
  <2>5. CASE UNCHANGED vars
    BY <2>5 DEF vars
  <2> QED
    BY <1>1, <1>2, <2>1, <2>2, <2>3, <2>4, <2>5 DEF Next
<1> QED
  BY <1>1, <1>2, <1>3

LEMMA OwnersKept ==
    ASSUME QueueInvariant, Owned, [Next]_vars,
           \A t \in Threads : ~DatabaseFault(t), \A s \in Servers : ~Crash(s)
    PROVE  Owned'
<1>1. ASSUME NEW j \in Jobs, CreateJob(j) \/ TimePasses(j) PROVE Owned'
  BY <1>1, ClockKeepsOwners
<1>2. ASSUME NEW t \in Requests, RequestStep(t) PROVE Owned'
  BY <1>2, RequestKeepsOwners DEF Threads
<1>3. ASSUME NEW t \in Pendings \cup Retriers,
             ProcessPendingJobs(t) \/ ProcessRetryableJobs(t) \/ PassStep(t)
      PROVE  Owned'
  BY <1>3, PassKeepsOwners DEF Threads
<1>4. ASSUME NEW t \in Threads, ProcessStep(t) PROVE Owned'
  BY <1>4, ProcessKeepsOwners
<1>5. CASE UNCHANGED vars
  <2>1. UNCHANGED <<jobQueue, executions, pc, jobId, savedExecution>>
    BY <1>5 DEF vars, table, local
  <2>2. RowsCalm /\ ExecutionsCalm
    BY <2>1 DEF RowsCalm, ExecutionsCalm, Owns
  <2> QED
    BY <2>2, CalmKeeps
<1> QED
  BY <1>1, <1>2, <1>3, <1>4, <1>5 DEF Next

LEMMA OwnerInit == Init => OwnerInvariant
<1> SUFFICES ASSUME Init PROVE RunningIsOwned
  BY InvariantInit DEF OwnerInvariant
<1>1. \A j \in Jobs : jobQueue[j].status = "ABSENT"
  BY DEF Init, NoRow
<1>2. Len(executions) = 0
  BY DEF Init
<1> QED
  BY <1>1, <1>2 DEF RunningIsOwned

LEMMA OwnerStep == OwnerInvariant /\ [Next]_vars => OwnerInvariant'
<1> SUFFICES ASSUME OwnerInvariant, [Next]_vars PROVE QueueInvariant' /\ RunningIsOwned'
  BY DEF OwnerInvariant
<1>1. QueueInvariant'
  BY InvariantStep DEF OwnerInvariant
<1>2. ASSUME faults' = 0, crashes' = 0 PROVE Owned'
  <2>1. QueueInvariant /\ TypeOK
    BY DEF OwnerInvariant, QueueInvariant
  <2>2. /\ faults = 0 /\ crashes = 0
        /\ \A t \in Threads : ~DatabaseFault(t)
        /\ \A s \in Servers : ~Crash(s)
    BY <1>2, <2>1, FailuresCount
  <2>3. Owned
    BY <2>2 DEF OwnerInvariant, RunningIsOwned, Owned
  <2> QED
    BY <2>1, <2>2, <2>3, OwnersKept
<1>3. RunningIsOwned'
  BY <1>2 DEF RunningIsOwned, Owned
<1> QED
  BY <1>1, <1>3

(* A row says RUNNING, and an execution STARTED, only while a handler is at    *)
(* work on it, as long as no database call fails and no server crashes: for    *)
(* any number of handlers, however their reads and saves overlap.              *)
THEOREM RunningOwned == Spec => []RunningIsOwned
<1>1. OwnerInvariant => RunningIsOwned
  BY DEF OwnerInvariant
<1> QED
  BY <1>1, OwnerInit, OwnerStep, PTL DEF Spec

-----------------------------------------------------------------------------
(* One thread at a time, and nothing that fails: the lifecycle. *)

OneThread == \A t, u \in Threads : t = u

(* What the row says that a handler is about to overwrite, by its label. *)
Fresh(t) == Working(t) =>
    LET row == jobQueue[jobId[t]].status
        copy == job[t].status
    IN /\ pc[t] \in {"dependencies", "start", "claim"} => row \in Processable
       /\ pc[t] \in Claimed => row = "RUNNING"
       /\ pc[t] = "save" =>
            \/ copy = row /\ row # "RUNNING"
            \/ copy = "CANCELLED" /\ row \in {"PENDING", "RETRYING", "FAILED"}
            \/ copy = "RETRYING" /\ row = "FAILED"

NoFailure == faults = 0 /\ crashes = 0
FreshInvariant == NoFailure => \A t \in Threads : Fresh(t)

Completed == {"COMPLETED"}
Failed == {"FAILED", "TIMEOUT"}

(* No execution settles, or ceases to be settled. *)
SameOutcomes == \A j \in Jobs : /\ CountSettled(j, Completed)' = CountSettled(j, Completed)
                                /\ CountSettled(j, Failed)' = CountSettled(j, Failed)

SameStatus == \A j \in Jobs : jobQueue'[j].status = jobQueue[j].status

Serves == [Lifecycle!Next]_(Lifecycle!vars)

(* What is shown of every step: the copies stay fresh, and the promise is kept. *)
StepServes == (\A t \in Threads : Fresh(t)') /\ Serves

LEMMA SameSettled ==
    ASSUME TypeOK, TypeOK', NEW S, Len(executions) <= Len(executions'),
           \A i \in 1 .. Len(executions) : /\ executions'[i].jobQueueId = executions[i].jobQueueId
                                           /\ Settled(i, S)' <=> Settled(i, S),
           \A i \in 1 .. Len(executions') : i > Len(executions) => ~Settled(i, S)'
    PROVE  \A j \in Jobs : CountSettled(j, S)' = CountSettled(j, S)
<1> SUFFICES ASSUME NEW j \in Jobs PROVE CountSettled(j, S)' = CountSettled(j, S)
  OBVIOUS
<1>1. Len(executions) \in Nat /\ Len(executions') \in Nat
  BY DEF TypeOK
<1>2. {i \in 1 .. Len(executions') : executions'[i].jobQueueId = j /\ Settled(i, S)'}
        = {i \in 1 .. Len(executions) : executions[i].jobQueueId = j /\ Settled(i, S)}
  BY <1>1
<1> QED
  BY <1>2 DEF CountSettled

(* Threads that own what they owned leave everything as settled as it was. *)
LEMMA SameOwners ==
    ASSUME TypeOK, TypeOK', executions' = executions,
           \A u \in Threads : /\ pc'[u] \in Executing <=> pc[u] \in Executing
                              /\ pc[u] \in Executing => savedExecution'[u] = savedExecution[u]
    PROVE  SameOutcomes
<1>1. \A u \in Threads : \A i : Owns(u, i)' <=> Owns(u, i)
  BY DEF Owns
<1>2. \A S : \A i \in 1 .. Len(executions) : Settled(i, S)' <=> Settled(i, S)
  BY <1>1 DEF Settled
<1>3. Len(executions) \in Nat
  BY DEF TypeOK
<1>4. \A j \in Jobs : CountSettled(j, Completed)' = CountSettled(j, Completed)
  BY <1>2, <1>3, SameSettled
<1>5. \A j \in Jobs : CountSettled(j, Failed)' = CountSettled(j, Failed)
  BY <1>2, <1>3, SameSettled
<1> QED
  BY <1>4, <1>5 DEF SameOutcomes

LEMMA OneMoreSettled ==
    ASSUME TypeOK, NEW S, executions' = executions, NEW k \in 1 .. Len(executions),
           ~Settled(k, S), Settled(k, S)',
           \A i \in 1 .. Len(executions) : i # k => (Settled(i, S)' <=> Settled(i, S))
    PROVE  \A j \in Jobs : CountSettled(j, S)' =
             IF j = executions[k].jobQueueId THEN CountSettled(j, S) + 1 ELSE CountSettled(j, S)
<1> SUFFICES ASSUME NEW j \in Jobs
             PROVE  CountSettled(j, S)' =
                      IF j = executions[k].jobQueueId THEN CountSettled(j, S) + 1 ELSE CountSettled(j, S)
  OBVIOUS
<1> DEFINE old == {i \in 1 .. Len(executions) : executions[i].jobQueueId = j /\ Settled(i, S)}
           new == {i \in 1 .. Len(executions) : executions[i].jobQueueId = j /\ Settled(i, S)'}
<1>1. CountSettled(j, S)' = Cardinality(new) /\ CountSettled(j, S) = Cardinality(old)
  BY DEF CountSettled
<1>2. IsFiniteSet(old)
  <2>1. Len(executions) \in Int
    BY DEF TypeOK
  <2>2. IsFiniteSet(1 .. Len(executions))
    BY <2>1, FS_Interval
  <2> QED
    BY <2>2, FS_Subset
<1>3. CASE j = executions[k].jobQueueId
  <2>1. new = old \cup {k} /\ k \notin old
    BY <1>3
  <2> HIDE DEF old, new
  <2>2. Cardinality(new) = Cardinality(old) + 1
    BY <1>2, <2>1, FS_AddElement
  <2> QED
    BY <1>1, <1>3, <2>2
<1>4. CASE j # executions[k].jobQueueId
  <2>1. new = old
    BY <1>4
  <2> QED
    BY <1>1, <1>4, <2>1
<1> QED
  BY <1>3, <1>4

LEMMA Stands ==
    ASSUME SameOutcomes, SameStatus
    PROVE  Serves
BY DEF SameOutcomes, SameStatus, Serves, Lifecycle!vars, Completed, Failed

(* One row moves to another status, and no execution settles. *)
LEMMA Moves ==
    ASSUME SameOutcomes, NEW j \in Jobs,
           \A k \in Jobs : k # j => jobQueue'[k].status = jobQueue[k].status,
           \/ jobQueue[j].status = "ABSENT" /\ jobQueue'[j].status = "PENDING"
           \/ jobQueue[j].status \in {"PENDING", "RETRYING"} /\ jobQueue'[j].status = "RUNNING"
           \/ jobQueue[j].status = "FAILED" /\ jobQueue'[j].status = "RETRYING"
           \/ jobQueue[j].status \in {"PENDING", "RETRYING", "FAILED"} /\ jobQueue'[j].status = "CANCELLED"
    PROVE  Serves
<1> DEFINE shown == [k \in Jobs |-> jobQueue[k].status]
<1>1. shown[j] = jobQueue[j].status /\ shown' = [shown EXCEPT ![j] = jobQueue'[j].status]
  OBVIOUS
<1>2. /\ [k \in Jobs |-> CountSettled(k, {"COMPLETED"})]' = [k \in Jobs |-> CountSettled(k, {"COMPLETED"})]
      /\ [k \in Jobs |-> CountSettled(k, {"FAILED", "TIMEOUT"})]'
           = [k \in Jobs |-> CountSettled(k, {"FAILED", "TIMEOUT"})]
  BY DEF SameOutcomes, Completed, Failed
<1>3. Lifecycle!Submit(j) \/ Lifecycle!Start(j) \/ Lifecycle!Retry(j) \/ Lifecycle!Cancel(j)
  BY <1>1, <1>2 DEF Lifecycle!Submit, Lifecycle!Start, Lifecycle!Retry, Lifecycle!Cancel, Lifecycle!Move
<1> QED
  BY <1>3 DEF Serves, Lifecycle!Next

(* One running job ends, with one more execution of its own settled. *)
LEMMA Ends ==
    ASSUME NEW j \in Jobs,
           \A k \in Jobs : k # j => jobQueue'[k].status = jobQueue[k].status,
           jobQueue[j].status = "RUNNING",
           \/ /\ jobQueue'[j].status \in {"PENDING", "COMPLETED"}
              /\ \A k \in Jobs : /\ CountSettled(k, Completed)' = IF k = j THEN CountSettled(k, Completed) + 1
                                                                         ELSE CountSettled(k, Completed)
                                 /\ CountSettled(k, Failed)' = CountSettled(k, Failed)
           \/ /\ jobQueue'[j].status \in {"RETRYING", "FAILED"}
              /\ \A k \in Jobs : /\ CountSettled(k, Failed)' = IF k = j THEN CountSettled(k, Failed) + 1
                                                                      ELSE CountSettled(k, Failed)
                                 /\ CountSettled(k, Completed)' = CountSettled(k, Completed)
    PROVE  Serves
<1> DEFINE shown == [k \in Jobs |-> jobQueue[k].status]
           completed == [k \in Jobs |-> CountSettled(k, Completed)]
           failed == [k \in Jobs |-> CountSettled(k, Failed)]
<1>1. shown[j] = jobQueue[j].status /\ shown' = [shown EXCEPT ![j] = jobQueue'[j].status]
  OBVIOUS
<1>2. /\ completed = [k \in Jobs |-> CountSettled(k, {"COMPLETED"})]
      /\ failed = [k \in Jobs |-> CountSettled(k, {"FAILED", "TIMEOUT"})]
      /\ completed' = [k \in Jobs |-> CountSettled(k, {"COMPLETED"})]'
      /\ failed' = [k \in Jobs |-> CountSettled(k, {"FAILED", "TIMEOUT"})]'
  BY DEF Completed, Failed
<1>3. CASE jobQueue'[j].status \in {"PENDING", "COMPLETED"}
  <2>1. completed' = [completed EXCEPT ![j] = @ + 1] /\ failed' = failed
    BY <1>3
  <2> HIDE DEF completed, failed, shown
  <2>2. Lifecycle!Succeed(j)
    BY <1>1, <1>2, <1>3, <2>1 DEF Lifecycle!Succeed, Lifecycle!Move, shown
  <2> QED
    BY <2>2 DEF Serves, Lifecycle!Next
<1>4. CASE jobQueue'[j].status \in {"RETRYING", "FAILED"}
  <2>1. failed' = [failed EXCEPT ![j] = @ + 1] /\ completed' = completed
    BY <1>4
  <2> HIDE DEF completed, failed, shown
  <2>2. Lifecycle!Fail(j)
    BY <1>1, <1>2, <1>4, <2>1 DEF Lifecycle!Fail, Lifecycle!Move, shown
  <2> QED
    BY <2>2 DEF Serves, Lifecycle!Next
<1> QED
  BY <1>3, <1>4

-----------------------------------------------------------------------------
(* Each step serves. *)

(* While the one thread has not claimed a job, none is running. *)
LEMMA NoneRunning ==
    ASSUME OneThread, Owned, NEW t \in Threads, pc[t] \notin Claimed
    PROVE  \A j \in Jobs : jobQueue[j].status # "RUNNING"
BY DEF OneThread, Owned

(* A row that no working thread is about may change its status. *)
LEMMA FreshStays ==
    ASSUME QueueInvariant, \A t \in Threads : Fresh(t), UNCHANGED <<pc, jobId, job>>,
           \A j \in Existing : jobQueue'[j].status = jobQueue[j].status
    PROVE  \A t \in Threads : Fresh(t)'
<1> SUFFICES ASSUME NEW t \in Threads, Working(t) PROVE Fresh(t)'
  BY DEF Fresh, Working
<1>1. jobId[t] \in Existing
  BY DEF QueueInvariant, EntitiesAgree, EntityAgrees
<1>2. jobQueue'[jobId'[t]].status = jobQueue[jobId[t]].status
  BY <1>1
<1> QED
  BY <1>2 DEF Fresh, Working

LEMMA CreateServes ==
    ASSUME QueueInvariant, QueueInvariant', \A t \in Threads : Fresh(t), NEW j \in Jobs, CreateJob(j)
    PROVE  StepServes
<1>1. /\ jobQueue \in [Jobs -> JobRow] /\ executions' = executions
      /\ UNCHANGED <<pc, jobId, job, savedExecution>>
      /\ jobQueue[j].status = "ABSENT"
      /\ \E row : row.status = "PENDING" /\ jobQueue' = [jobQueue EXCEPT ![j] = row]
  BY DEF CreateJob, local, QueueInvariant, TypeOK
<1>2. /\ jobQueue'[j].status = "PENDING"
      /\ \A k \in Jobs : k # j => jobQueue'[k].status = jobQueue[k].status
  BY <1>1
<1>3. SameOutcomes
  BY <1>1, SameOwners DEF QueueInvariant
<1>4. \A t \in Threads : Fresh(t)'
  BY <1>1, <1>2, FreshStays DEF Existing
<1> QED
  BY <1>1, <1>2, <1>3, <1>4, Moves DEF StepServes

LEMMA TimeServes ==
    ASSUME QueueInvariant, QueueInvariant', \A t \in Threads : Fresh(t), NEW j \in Jobs, TimePasses(j)
    PROVE  StepServes
<1>1. executions' = executions /\ UNCHANGED <<pc, jobId, job, savedExecution>>
  BY DEF TimePasses, local
<1>2. SameStatus
  <2>1. /\ jobQueue \in [Jobs -> JobRow]
        /\ \/ jobQueue' = [jobQueue EXCEPT ![j].scheduledAt = "passed"]
           \/ jobQueue' = [jobQueue EXCEPT ![j].nextExecutionAt = "passed"]
    BY DEF TimePasses, QueueInvariant, TypeOK
  <2> QED
    BY <2>1 DEF JobRow, SameStatus
<1>3. SameOutcomes
  BY <1>1, SameOwners DEF QueueInvariant
<1>4. \A t \in Threads : Fresh(t)'
  BY <1>1, <1>2, FreshStays DEF Existing, SameStatus
<1> QED
  BY <1>2, <1>3, <1>4, Stands DEF StepServes

(* The one thread goes from one label to another, and owns nothing at either. *)
LEMMA IdleServes ==
    ASSUME QueueInvariant, QueueInvariant', OneThread, NEW t \in Threads, UNCHANGED table,
           pc[t] \notin Executing, pc'[t] \notin Executing, Fresh(t)'
    PROVE  StepServes
<1>1. SameOutcomes
  BY SameOwners DEF OneThread, table, QueueInvariant
<1>2. SameStatus
  BY DEF table, SameStatus
<1>3. \A u \in Threads : Fresh(u)'
  BY DEF OneThread
<1> QED
  BY <1>1, <1>2, <1>3, Stands DEF StepServes

LEMMA ReturnFresh ==
    ASSUME TypeOK, NEW t \in Threads, Return(t)
    PROVE  pc'[t] \notin Executing /\ Fresh(t)'
<1>1. pc'[t] \in {"idle", "next"}
  BY DEF Return, Goto, TypeOK
<1> QED
  BY <1>1 DEF Executing, Fresh, Working

LEMMA BeginProcessFresh ==
    ASSUME TypeOK, NEW t \in Threads, NEW j \in Jobs, jobQueue' = jobQueue, BeginProcess(t, j)
    PROVE  pc'[t] \notin Executing /\ Fresh(t)'
<1>1. CASE jobQueue[j].status \in Processable
  <2>1. pc'[t] \in {"start", "dependencies"} /\ jobId'[t] = j
    BY <1>1 DEF BeginProcess, Goto, TypeOK
  <2> QED
    BY <1>1, <2>1 DEF Executing, Claimed, Fresh, Working
<1>2. CASE jobQueue[j].status \notin Processable
  BY <1>2, ReturnFresh DEF BeginProcess
<1> QED
  BY <1>1, <1>2

LEMMA BeginEditServes ==
    ASSUME QueueInvariant, QueueInvariant', OneThread, Owned, NEW t \in Threads, NEW j \in Jobs, NEW e,
           BeginEdit(t, j, e),
           \/ e.status = jobQueue[j].status
           \/ e.status = "CANCELLED" /\ jobQueue[j].status \notin {"ABSENT", "COMPLETED", "CANCELLED"}
           \/ e.status = "RETRYING" /\ jobQueue[j].status = "FAILED"
    PROVE  StepServes
<1>1. /\ pc[t] = "idle" /\ pc'[t] = "save" /\ jobId'[t] = j /\ job'[t] = e /\ UNCHANGED table
      /\ jobQueue' = jobQueue
  BY DEF BeginEdit, Goto, table, QueueInvariant, TypeOK
<1>2. jobQueue[j].status \in JobStatus /\ jobQueue[j].status # "RUNNING"
  BY <1>1, NoneRunning DEF QueueInvariant, TypeOK, JobRow, Claimed
<1>3. Fresh(t)'
  BY <1>1, <1>2 DEF Fresh, Working, JobStatus, Claimed
<1> QED
  BY <1>1, <1>3, IdleServes DEF Executing

LEMMA SaveEditServes ==
    ASSUME QueueInvariant, QueueInvariant', OneThread, NEW t \in Threads, Fresh(t), SaveEdit(t)
    PROVE  StepServes
<1>1. /\ pc[t] = "save" /\ Working(t) /\ executions' = executions /\ Return(t) /\ TypeOK
      /\ jobQueue' = [jobQueue EXCEPT ![jobId[t]] = job[t]]
  BY DEF SaveEdit, SaveJob, Working, QueueInvariant
<1>2. PICK j \in Jobs : j = jobId[t]
  BY <1>1 DEF TypeOK, Working
<1>3. jobQueue'[j] = job[t] /\ \A k \in Jobs : k # j => jobQueue'[k].status = jobQueue[k].status
  BY <1>1, <1>2 DEF TypeOK
<1>4. SameOutcomes
  BY <1>1, ReturnFresh, SameOwners DEF OneThread, QueueInvariant, Executing
<1>5. \A u \in Threads : Fresh(u)'
  BY <1>1, ReturnFresh DEF OneThread
<1>6. CASE job[t].status = jobQueue[j].status
  <2>1. SameStatus
    BY <1>3, <1>6 DEF SameStatus
  <2> QED
    BY <1>4, <1>5, <2>1, Stands DEF StepServes
<1>7. CASE job[t].status # jobQueue[j].status
  <2>1. \/ jobQueue'[j].status = "CANCELLED" /\ jobQueue[j].status \in {"PENDING", "RETRYING", "FAILED"}
        \/ jobQueue'[j].status = "RETRYING" /\ jobQueue[j].status = "FAILED"
    BY <1>1, <1>2, <1>3, <1>7 DEF Fresh
  <2> QED
    BY <1>3, <1>4, <1>5, <2>1, Moves DEF StepServes
<1> QED
  BY <1>6, <1>7

LEMMA RequestServes ==
    ASSUME QueueInvariant, QueueInvariant', OneThread, Owned, NEW t \in Threads, Fresh(t), RequestStep(t)
    PROVE  StepServes
<1>1. ASSUME NEW j \in Jobs, UpdateJob(t, j) PROVE StepServes
  <2>1. PICK e : BeginEdit(t, j, e) /\ e.status = jobQueue[j].status
    <3>1. jobQueue[j] \in JobRow
      BY DEF QueueInvariant, TypeOK
    <3>2. PICK s, at, next :
            BeginEdit(t, j, [jobQueue[j] EXCEPT !.set = s, !.scheduledAt = at, !.nextExecutionAt = next])
      BY <1>1, Zenon DEF UpdateJob
    <3>3. PICK e : e = [jobQueue[j] EXCEPT !.set = s, !.scheduledAt = at, !.nextExecutionAt = next]
      OBVIOUS
    <3>4. e.status = jobQueue[j].status
      BY <3>1, <3>3 DEF JobRow
    <3> QED
      BY <3>2, <3>3, <3>4
  <2> QED
    BY <2>1, BeginEditServes
<1>2. ASSUME NEW j \in Jobs, CancelJob(t, j) PROVE StepServes
  <2>1. PICK e : e = [jobQueue[j] EXCEPT !.status = "CANCELLED"]
    OBVIOUS
  <2>2. BeginEdit(t, j, e) /\ jobQueue[j].status \notin {"ABSENT", "COMPLETED", "CANCELLED"}
    BY <1>2, <2>1 DEF CancelJob
  <2>3. e.status = "CANCELLED"
    BY <2>1 DEF QueueInvariant, TypeOK, JobRow
  <2> QED
    BY <2>2, <2>3, BeginEditServes
<1>3. ASSUME NEW j \in Jobs, RetryJob(t, j) PROVE StepServes
  <2>1. PICK e : e = [jobQueue[j] EXCEPT !.status = "RETRYING", !.retryCount = @ + 1, !.scheduledAt = "later"]
    OBVIOUS
  <2>2. BeginEdit(t, j, e) /\ jobQueue[j].status = "FAILED"
    BY <1>3, <2>1 DEF RetryJob
  <2>3. e.status = "RETRYING"
    BY <2>1 DEF QueueInvariant, TypeOK, JobRow
  <2> QED
    BY <2>2, <2>3, BeginEditServes
<1>4. ASSUME NEW j \in Jobs, ExecuteJob(t, j) PROVE StepServes
  <2>1. pc[t] = "idle" /\ BeginProcess(t, j) /\ UNCHANGED table /\ jobQueue' = jobQueue /\ TypeOK
    BY <1>4 DEF ExecuteJob, table, QueueInvariant
  <2> QED
    BY <2>1, BeginProcessFresh, IdleServes DEF Executing
<1>5. CASE SaveEdit(t)
  BY <1>5, SaveEditServes
<1> QED
  BY <1>1, <1>2, <1>3, <1>4, <1>5 DEF RequestStep

LEMMA PassServes ==
    ASSUME QueueInvariant, QueueInvariant', OneThread, NEW t \in Threads, Fresh(t),
           ProcessPendingJobs(t) \/ ProcessRetryableJobs(t) \/ PassStep(t)
    PROVE  StepServes
<1>0. TypeOK
  BY DEF QueueInvariant
<1>1. CASE ProcessPendingJobs(t) \/ ProcessRetryableJobs(t)
  <2>1. PICK list : BeginPass(t, list)
    BY <1>1, Zenon DEF ProcessPendingJobs, ProcessRetryableJobs
  <2>2. pc[t] = "idle" /\ pc'[t] = "next" /\ UNCHANGED table
    BY <1>0, <2>1 DEF BeginPass, Goto, TypeOK
  <2> QED
    BY <2>2, IdleServes DEF Executing, Fresh, Working
<1>2. CASE FinishPass(t)
  <2>1. pc[t] = "next" /\ pc'[t] = "idle" /\ UNCHANGED table
    BY <1>0, <1>2 DEF FinishPass, Goto, TypeOK
  <2> QED
    BY <2>1, IdleServes DEF Executing, Fresh, Working
<1>3. CASE NextJob(t)
  <2>1. pc[t] = "next" /\ UNCHANGED table /\ jobQueue' = jobQueue
    BY <1>3 DEF NextJob, table
  <2>2. PICK e \in Entry : e = Head(jobsToProcess[t])
    <3>1. jobsToProcess[t] \in Seq(Entry) /\ jobsToProcess[t] # <<>>
      BY <1>0, <1>3 DEF NextJob, TypeOK, Entry
    <3> QED
      BY <3>1
  <2>3. BeginProcess(t, e.id) \/ UNCHANGED local
    BY <1>3, <2>2 DEF NextJob
  <2>4. CASE BeginProcess(t, e.id)
    BY <1>0, <2>1, <2>2, <2>4, BeginProcessFresh, IdleServes DEF Executing, Entry
  <2>5. CASE UNCHANGED local
    BY <2>1, <2>5, IdleServes DEF Executing, Fresh, Working, local
  <2> QED
    BY <2>3, <2>4, <2>5
<1> QED
  BY <1>1, <1>2, <1>3 DEF PassStep

(* The one thread goes from one label of its execution to another. *)
LEMMA LabelServes ==
    ASSUME QueueInvariant, QueueInvariant', OneThread, NEW t \in Threads, Fresh(t),
           executions' = executions, UNCHANGED <<jobQueue, jobId, job, savedExecution>>,
           pc[t] \in Claimed, pc'[t] \in Claimed
    PROVE  StepServes
<1>1. SameOutcomes
  BY SameOwners, ClaimedExecute DEF OneThread, QueueInvariant
<1>2. SameStatus
  BY DEF SameStatus
<1>3. \A u \in Threads : Fresh(u)'
  BY DEF OneThread, Fresh, Working, Claimed
<1> QED
  BY <1>1, <1>2, <1>3, Stands DEF StepServes

(* A status is written to an execution that is owned before and after. *)
LEMMA WriteServes ==
    ASSUME QueueInvariant, QueueInvariant', OneThread, NEW t \in Threads, Fresh(t), NEW st \in ExecutionStatus,
           executions' = [executions EXCEPT ![savedExecution[t]].status = st],
           UNCHANGED <<jobQueue, jobId, job, savedExecution>>,
           pc[t] \in Claimed, pc'[t] \in Claimed
    PROVE  StepServes
<1>1. /\ savedExecution[t] \in 1 .. Len(executions) /\ TypeOK /\ TypeOK'
      /\ pc[t] \in Executing /\ pc'[t] \in Executing
  BY ClaimedExecute DEF QueueInvariant, ExecutionsAreOwnedOnce
<1>2. /\ Len(executions') = Len(executions)
      /\ \A i \in 1 .. Len(executions) : /\ i # savedExecution[t] => executions'[i] = executions[i]
                                         /\ executions'[i].jobQueueId = executions[i].jobQueueId
  BY <1>1 DEF TypeOK, Execution
<1>3. \A u \in Threads : \A i : Owns(u, i)' <=> Owns(u, i)
  BY <1>1 DEF Owns, OneThread
<1>4. \A S : \A i \in 1 .. Len(executions) : Settled(i, S)' <=> Settled(i, S)
  <2> SUFFICES ASSUME NEW S, NEW i \in 1 .. Len(executions) PROVE Settled(i, S)' <=> Settled(i, S)
    OBVIOUS
  <2>1. CASE i = savedExecution[t]
    BY <1>1, <1>3, <2>1 DEF Settled, Owns
  <2>2. CASE i # savedExecution[t]
    BY <1>2, <1>3, <2>2 DEF Settled
  <2> QED
    BY <2>1, <2>2
<1>5. Len(executions) \in Nat
  BY <1>1 DEF TypeOK
<1>6. \A j \in Jobs : CountSettled(j, Completed)' = CountSettled(j, Completed)
  BY <1>1, <1>2, <1>4, <1>5, SameSettled
<1>7. \A j \in Jobs : CountSettled(j, Failed)' = CountSettled(j, Failed)
  BY <1>1, <1>2, <1>4, <1>5, SameSettled
<1>8. SameStatus
  BY DEF SameStatus
<1>9. \A u \in Threads : Fresh(u)'
  BY DEF OneThread, Fresh, Working, Claimed
<1> QED
  BY <1>6, <1>7, <1>8, <1>9, Stands DEF StepServes, SameOutcomes

(* A new execution is owned, not settled. *)
LEMMA StartServes ==
    ASSUME QueueInvariant, QueueInvariant', OneThread, NEW t \in Threads, Fresh(t), SaveStarted(t)
    PROVE  StepServes
<1>1. /\ TypeOK /\ TypeOK' /\ pc[t] = "start" /\ pc'[t] = "claim"
      /\ executions' = Append(executions, [jobQueueId |-> jobId[t], status |-> "STARTED"])
      /\ savedExecution'[t] = Len(executions) + 1
      /\ UNCHANGED <<jobQueue, jobId, job>>
  BY DEF SaveStarted, Goto, QueueInvariant, TypeOK
<1>2. /\ Len(executions) \in Nat /\ Len(executions') = Len(executions) + 1
      /\ \A i \in 1 .. Len(executions) : executions'[i] = executions[i]
  BY <1>1 DEF TypeOK
<1>3. \A u \in Threads : \A i : ~Owns(u, i) /\ (Owns(u, i)' <=> i = Len(executions) + 1)
  BY <1>1 DEF Owns, OneThread, Executing
<1>4. \A S : \A i \in 1 .. Len(executions) : Settled(i, S)' <=> Settled(i, S)
  BY <1>2, <1>3 DEF Settled
<1>5. \A S : \A i \in 1 .. Len(executions') : i > Len(executions) => ~Settled(i, S)'
  <2>1. \A i \in 1 .. Len(executions') : i > Len(executions) => i = Len(executions) + 1
    BY <1>2
  <2> QED
    BY <1>3, <2>1 DEF Settled
<1>6. \A j \in Jobs : CountSettled(j, Completed)' = CountSettled(j, Completed)
  BY <1>1, <1>2, <1>4, <1>5, SameSettled
<1>7. \A j \in Jobs : CountSettled(j, Failed)' = CountSettled(j, Failed)
  BY <1>1, <1>2, <1>4, <1>5, SameSettled
<1>8. SameStatus
  BY <1>1 DEF SameStatus
<1>9. \A u \in Threads : Fresh(u)'
  BY <1>1 DEF OneThread, Fresh, Working, Claimed
<1> QED
  BY <1>6, <1>7, <1>8, <1>9, Stands DEF StepServes, SameOutcomes

LEMMA RunServes ==
    ASSUME QueueInvariant, QueueInvariant', OneThread, NEW t \in Threads, Fresh(t), SaveRunning(t)
    PROVE  StepServes
<1>1. /\ TypeOK /\ TypeOK' /\ pc[t] = "claim" /\ pc'[t] = "run" /\ executions' = executions
      /\ UNCHANGED <<jobId, savedExecution>>
      /\ jobQueue' = [jobQueue EXCEPT ![jobId[t]] = [job[t] EXCEPT !.status = "RUNNING"]]
  BY DEF SaveRunning, SaveJob, Goto, QueueInvariant, TypeOK
<1>2. PICK j \in Jobs : j = jobId[t]
  BY <1>1 DEF TypeOK
<1>3. /\ jobQueue'[j].status = "RUNNING" /\ \A k \in Jobs : k # j => jobQueue'[k].status = jobQueue[k].status
  BY <1>1, <1>2 DEF TypeOK, JobRow
<1>4. jobQueue[j].status \in {"PENDING", "RETRYING"}
  BY <1>1, <1>2 DEF Fresh, Working, Processable
<1>5. SameOutcomes
  BY <1>1, SameOwners DEF OneThread, Executing
<1>6. \A u \in Threads : Fresh(u)'
  BY <1>1, <1>2, <1>3 DEF OneThread, Fresh, Working, Claimed
<1> QED
  BY <1>3, <1>4, <1>5, <1>6, Moves DEF StepServes

(* The one thread gives up the execution it owns. *)
LEMMA OwnerGone ==
    ASSUME QueueInvariant, OneThread, NEW t \in Threads, pc[t] \in Executing, pc'[t] \notin Executing,
           executions' = executions
    PROVE  \E k \in 1 .. Len(executions) :
             /\ k = savedExecution[t] /\ executions[k].jobQueueId = jobId[t]
             /\ \A S : ~Settled(k, S) /\ (executions[k].status \in S <=> Settled(k, S)')
             /\ \A S : \A i \in 1 .. Len(executions) : i # k => (Settled(i, S)' <=> Settled(i, S))
<1>1. PICK k \in 1 .. Len(executions) : k = savedExecution[t] /\ executions[k].jobQueueId = jobId[t]
  BY DEF QueueInvariant, ExecutionsAreOwnedOnce
<1>2. \A u \in Threads : \A i : ~Owns(u, i)' /\ (Owns(u, i) <=> i = k)
  BY <1>1 DEF OneThread, Owns
<1>3. \A S : ~Settled(k, S) /\ (executions[k].status \in S <=> Settled(k, S)')
  BY <1>2 DEF Settled
<1>4. \A S : \A i \in 1 .. Len(executions) : i # k => (Settled(i, S)' <=> Settled(i, S))
  BY <1>2 DEF Settled
<1> QED
  BY <1>1, <1>3, <1>4

(* Its outcome is saved: the execution settles as the row shows. *)
LEMMA OutcomeServes ==
    ASSUME QueueInvariant, QueueInvariant', OneThread, NEW t \in Threads, Fresh(t),
           SaveJobSuccess(t) \/ SaveJobFailure(t)
    PROVE  StepServes
<1>1. /\ TypeOK /\ TypeOK' /\ pc[t] \in {"succeeded", "failed"} /\ executions' = executions /\ Return(t)
      /\ Working(t)
  BY DEF SaveJobSuccess, SaveJobFailure, QueueInvariant, Working
<1>2. pc'[t] \notin Executing /\ Fresh(t)' /\ pc[t] \in Executing
  BY <1>1, ReturnFresh DEF Executing
<1>3. \A u \in Threads : Fresh(u)'
  BY <1>2 DEF OneThread
<1>4. PICK j \in Jobs : j = jobId[t]
  BY <1>1 DEF TypeOK, Working
<1>5. PICK k \in 1 .. Len(executions) :
        /\ k = savedExecution[t] /\ executions[k].jobQueueId = j
        /\ \A S : ~Settled(k, S) /\ (executions[k].status \in S <=> Settled(k, S)')
        /\ \A S : \A i \in 1 .. Len(executions) : i # k => (Settled(i, S)' <=> Settled(i, S))
  BY <1>1, <1>2, <1>4, OwnerGone
<1>6. jobQueue[j].status = "RUNNING"
  BY <1>1, <1>4 DEF Fresh, Claimed
<1>7. Len(executions) \in Nat
  BY <1>1 DEF TypeOK
<1>8. CASE SaveJobSuccess(t)
  <2>1. /\ jobQueue'[j].status \in {"PENDING", "COMPLETED"}
        /\ \A i \in Jobs : i # j => jobQueue'[i].status = jobQueue[i].status
    BY <1>1, <1>4, <1>8 DEF SaveJobSuccess, SaveJob, TypeOK, JobRow
  <2>2. executions[k].status = "COMPLETED"
    BY <1>5, <1>8 DEF SaveJobSuccess, QueueInvariant, EntitiesAgree, EntityAgrees
  <2>3. Settled(k, Completed)' /\ ~Settled(k, Completed) /\ ~Settled(k, Failed)' /\ ~Settled(k, Failed)
    BY <1>5, <2>2 DEF Completed, Failed
  <2>4. \A i \in Jobs : CountSettled(i, Completed)' =
          IF i = executions[k].jobQueueId THEN CountSettled(i, Completed) + 1 ELSE CountSettled(i, Completed)
    BY <1>1, <1>5, <2>3, OneMoreSettled
  <2>5. \A i \in 1 .. Len(executions) : Settled(i, Failed)' <=> Settled(i, Failed)
    BY <1>5, <2>3
  <2>6. \A i \in Jobs : CountSettled(i, Failed)' = CountSettled(i, Failed)
    BY <1>1, <1>7, <2>5, SameSettled
  <2>7. Serves
    BY <1>5, <1>6, <2>1, <2>4, <2>6, Ends
  <2> QED
    BY <1>3, <2>7 DEF StepServes
<1>9. CASE SaveJobFailure(t)
  <2>1. /\ jobQueue'[j].status \in {"RETRYING", "FAILED"}
        /\ \A i \in Jobs : i # j => jobQueue'[i].status = jobQueue[i].status
    BY <1>1, <1>4, <1>9 DEF SaveJobFailure, SaveJob, TypeOK, JobRow
  <2>2. executions[k].status \in {"FAILED", "TIMEOUT"}
    BY <1>5, <1>9 DEF SaveJobFailure, QueueInvariant, EntitiesAgree, EntityAgrees
  <2>3. Settled(k, Failed)' /\ ~Settled(k, Failed) /\ ~Settled(k, Completed)' /\ ~Settled(k, Completed)
    BY <1>5, <2>2 DEF Completed, Failed
  <2>4. \A i \in Jobs : CountSettled(i, Failed)' =
          IF i = executions[k].jobQueueId THEN CountSettled(i, Failed) + 1 ELSE CountSettled(i, Failed)
    BY <1>1, <1>5, <2>3, OneMoreSettled
  <2>5. \A i \in 1 .. Len(executions) : Settled(i, Completed)' <=> Settled(i, Completed)
    BY <1>5, <2>3
  <2>6. \A i \in Jobs : CountSettled(i, Completed)' = CountSettled(i, Completed)
    BY <1>1, <1>7, <2>5, SameSettled
  <2>7. Serves
    BY <1>5, <1>6, <2>1, <2>4, <2>6, Ends
  <2> QED
    BY <1>3, <2>7 DEF StepServes
<1> QED
  BY <1>8, <1>9

LEMMA ProcessServes ==
    ASSUME QueueInvariant, QueueInvariant', OneThread, NEW t \in Threads, Fresh(t), ProcessStep(t)
    PROVE  StepServes
<1>0. TypeOK
  BY DEF QueueInvariant
<1>1. CASE CheckDependencies(t)
  <2>1. pc[t] = "dependencies" /\ UNCHANGED table /\ jobQueue' = jobQueue
    BY <1>1 DEF CheckDependencies, table
  <2>2. CASE Return(t)
    BY <1>0, <2>1, <2>2, ReturnFresh, IdleServes DEF Executing
  <2>3. CASE Goto(t, "start") /\ UNCHANGED <<jobId, job, savedExecution>>
    <3>1. pc'[t] = "start" /\ jobId' = jobId /\ job' = job
      BY <1>0, <2>3 DEF Goto, TypeOK
    <3>2. Fresh(t)'
      BY <2>1, <3>1 DEF Fresh, Working, Claimed
    <3> QED
      BY <2>1, <3>1, <3>2, IdleServes DEF Executing
  <2> QED
    BY <1>1, <2>2, <2>3 DEF CheckDependencies
<1>2. CASE SaveExecutionSuccess(t) \/ SaveExecutionFailure(t)
  <2>1. PICK st \in ExecutionStatus : executions' = [executions EXCEPT ![savedExecution[t]].status = st]
    BY <1>2 DEF SaveExecutionSuccess, SaveExecutionFailure, ExecutionStatus
  <2>2. /\ UNCHANGED <<jobQueue, jobId, job, savedExecution>>
        /\ pc[t] \in Claimed /\ pc'[t] \in Claimed
    BY <1>0, <1>2 DEF SaveExecutionSuccess, SaveExecutionFailure, Goto, Claimed, TypeOK
  <2> QED
    BY <2>1, <2>2, WriteServes
<1>3. CASE ProcessorThrows(t)
  <2>1. /\ executions' = executions /\ UNCHANGED <<jobQueue, jobId, job, savedExecution>>
        /\ pc[t] \in Claimed /\ pc'[t] \in Claimed
    BY <1>0, <1>3 DEF ProcessorThrows, Goto, Claimed, TypeOK, table
  <2> QED
    BY <2>1, LabelServes
<1> QED
  BY <1>1, <1>2, <1>3, StartServes, RunServes, OutcomeServes DEF ProcessStep

LEMMA EveryStepServes ==
    ASSUME OwnerInvariant, OwnerInvariant', FreshInvariant, OneThread, [Next]_vars, NoFailure'
    PROVE  StepServes
<1>1. QueueInvariant /\ QueueInvariant' /\ TypeOK
  BY DEF OwnerInvariant, QueueInvariant
<1>2. NoFailure /\ (\A t \in Threads : ~DatabaseFault(t)) /\ \A s \in Servers : ~Crash(s)
  BY <1>1, FailuresCount DEF NoFailure
<1>3. Owned /\ \A t \in Threads : Fresh(t)
  BY <1>2 DEF OwnerInvariant, RunningIsOwned, Owned, NoFailure, FreshInvariant
<1>4. ASSUME NEW j \in Jobs, CreateJob(j) \/ TimePasses(j) PROVE StepServes
  BY <1>1, <1>3, <1>4, CreateServes, TimeServes
<1>5. ASSUME NEW t \in Requests, RequestStep(t) PROVE StepServes
  BY <1>1, <1>3, <1>5, RequestServes DEF Threads
<1>6. ASSUME NEW t \in Pendings \cup Retriers,
             ProcessPendingJobs(t) \/ ProcessRetryableJobs(t) \/ PassStep(t)
      PROVE  StepServes
  BY <1>1, <1>3, <1>6, PassServes DEF Threads
<1>7. ASSUME NEW t \in Threads, ProcessStep(t) PROVE StepServes
  BY <1>1, <1>3, <1>7, ProcessServes
<1>8. CASE UNCHANGED vars
  <2>1. /\ executions' = executions /\ UNCHANGED <<jobQueue, pc, jobId, job, savedExecution>>
    BY <1>8 DEF vars, table, local
  <2>2. SameOutcomes
    BY <1>1, <2>1, SameOwners DEF QueueInvariant
  <2>3. SameStatus
    BY <2>1 DEF SameStatus
  <2>4. \A t \in Threads : Fresh(t)'
    BY <1>1, <1>3, <2>1, FreshStays
  <2> QED
    BY <2>2, <2>3, <2>4, Stands DEF StepServes
<1> QED
  BY <1>2, <1>4, <1>5, <1>6, <1>7, <1>8 DEF Next

LEMMA StartsServing == Init => FreshInvariant /\ Lifecycle!Init
<1> SUFFICES ASSUME Init PROVE FreshInvariant /\ Lifecycle!Init
  OBVIOUS
<1>1. FreshInvariant
  BY DEF Init, FreshInvariant, Fresh, Working
<1>2. Len(executions) = 0
  BY DEF Init
<1>3. \A j, S : {i \in 1 .. Len(executions) : executions[i].jobQueueId = j /\ Settled(i, S)} = {}
  BY <1>2
<1>4. \A j, S : CountSettled(j, S) = 0
  BY <1>3, FS_EmptySet DEF CountSettled
<1>5. [j \in Jobs |-> jobQueue[j].status] = [j \in Jobs |-> "ABSENT"]
  BY DEF Init, NoRow
<1> QED
  BY <1>1, <1>4, <1>5 DEF Lifecycle!Init

(* When one thread at a time works on the queue, be it a request or a pass, in  *)
(* a run without failures or crashes, every step is a step of the lifecycle or  *)
(* changes nothing clients see: no status is skipped, every outcome is that of  *)
(* one execution, COMPLETED and CANCELLED are final.                            *)
THEOREM QueueServes ==
    ASSUME OneThread
    PROVE  Spec /\ []NoFailure => ImplementsLifecycle
<1>1. OwnerInvariant /\ OwnerInvariant' /\ FreshInvariant /\ [Next]_vars => FreshInvariant'
  BY EveryStepServes DEF FreshInvariant, StepServes
<1>2. OwnerInvariant /\ OwnerInvariant' /\ FreshInvariant /\ [Next]_vars /\ NoFailure'
      => [Lifecycle!Next]_(Lifecycle!vars)
  BY EveryStepServes DEF StepServes, Serves
<1> QED
  BY <1>1, <1>2, OwnerInit, OwnerStep, StartsServing, PTL DEF Spec, ImplementsLifecycle, Lifecycle!Spec
=============================================================================
