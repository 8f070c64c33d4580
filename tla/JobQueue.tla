------------------------------ MODULE JobQueue ------------------------------
(***************************************************************************)
(* The background job queue of src/src/jobs: the table admin.job_queues,   *)
(* the table admin.job_executions, and every thread of control that reads  *)
(* and writes them (the two cron passes of JobSchedulerService on every    *)
(* application server, and the HTTP requests served by JobController).     *)
(*                                                                         *)
(* One action is what runs between two awaits on the database.  A handler  *)
(* reads a row into a local entity, decides on it, and later saves the     *)
(* whole entity back: Repository.save is an overwrite of the row by the    *)
(* local copy, with no lock, version or transaction in between.            *)
(***************************************************************************)
EXTENDS Integers, Sequences, FiniteSets

CONSTANTS
    Jobs,              \* job ids the table can hold
    MissingIds,        \* ids that name no row, now or later
    NoJob,             \* "no job": what an idle thread works on
    Settings,          \* what a client may ask for in a create or update request
    RequestTimes,      \* what a client may ask for as scheduledAt
    NoProcessor,       \* jobs of a type that has no processor (CUSTOM, SYNC)
    DefaultMaxRetries, \* createDto.maxRetries || 3
    BatchSize,         \* dueJobs.slice(0, 10)
    Servers,           \* application processes
    Pendings,          \* threads that run processPendingJobs
    Retriers,          \* threads that run processRetryableJobs
    Requests,          \* threads that serve HTTP requests
    Host,              \* the server each thread runs on
    MaxExecutions,     \* bound: rows of job_executions
    MaxFaults,         \* bound: database calls that fail
    MaxCrashes         \* bound: crashes of a server

Threads == Pendings \cup Retriers \cup Requests
Ids == Jobs \cup MissingIds

(* A timestamp column: null, in the future, or reached. *)
Times == {"none", "later", "passed"}

SettingType ==
    [maxRetries: Nat, dependencies: SUBSET Ids, timeout: BOOLEAN,
     isRecurring: BOOLEAN, cron: BOOLEAN, priority: Nat]

ASSUME JobQueueAssumption ==
    /\ IsFiniteSet(Jobs) /\ NoJob \notin Jobs /\ MissingIds \cap Jobs = {}
    /\ Settings \subseteq SettingType
    /\ RequestTimes \subseteq Times
    /\ NoProcessor \subseteq Jobs
    /\ DefaultMaxRetries \in Nat \ {0}
    /\ BatchSize \in Nat \ {0}
    /\ Host \in [Threads -> Servers]
    /\ Pendings \cap Requests = {} /\ Retriers \cap Requests = {}
    /\ Pendings \cap Retriers = {}
    /\ MaxExecutions \in Nat /\ MaxFaults \in Nat /\ MaxCrashes \in Nat

JobStatus == {"ABSENT", "PENDING", "RUNNING", "COMPLETED", "FAILED",
              "CANCELLED", "RETRYING"}
ExecutionStatus == {"STARTED", "COMPLETED", "FAILED", "TIMEOUT"}
Processable == {"PENDING", "RETRYING"}

JobRow == [status: JobStatus, retryCount: Nat, scheduledAt: Times,
           nextExecutionAt: Times, set: SettingType]
Execution == [jobQueueId: Jobs, status: ExecutionStatus]

NoRow ==
    [status |-> "ABSENT", retryCount |-> 0, scheduledAt |-> "none",
     nextExecutionAt |-> "none",
     set |-> [maxRetries |-> 0, dependencies |-> {}, timeout |-> FALSE,
              isRecurring |-> FALSE, cron |-> FALSE, priority |-> 0]]

VARIABLES
    jobQueue,       \* the rows of job_queues
    executions,     \* the rows of job_executions, in the order of their ids
    isProcessing,   \* JobSchedulerService.isProcessing of each server
    jobsToProcess,  \* the list a cron pass still has to walk
    pc,             \* where a thread is in its handler
    jobId,          \* the job the thread's handler is about
    job,            \* the handler's local entity, possibly stale
    savedExecution, \* index of the execution row the handler created, or 0
    faults, crashes

table   == <<jobQueue, executions>>
local   == <<pc, jobId, job, savedExecution>>
vars    == <<table, isProcessing, jobsToProcess, local, faults, crashes>>

Existing == {j \in Jobs : jobQueue[j].status # "ABSENT"}

(* Ids a client can put in "dependencies": rows it was told of, or garbage. *)
KnownIds == Existing \cup MissingIds

Init ==
    /\ jobQueue = [j \in Jobs |-> NoRow]
    /\ executions = <<>>
    /\ isProcessing = [s \in Servers |-> FALSE]
    /\ jobsToProcess = [t \in Threads |-> <<>>]
    /\ pc = [t \in Threads |-> "idle"]
    /\ jobId = [t \in Threads |-> NoJob]
    /\ job = [t \in Threads |-> NoRow]
    /\ savedExecution = [t \in Threads |-> 0]
    /\ faults = 0
    /\ crashes = 0

-----------------------------------------------------------------------------
(* Steps shared by the handlers. *)

Goto(t, label) == pc' = [pc EXCEPT ![t] = label]

(* Repository.save of the thread's entity e: the row becomes the entity. *)
SaveJob(t, e) == jobQueue' = [jobQueue EXCEPT ![jobId[t]] = e]

(* The handler returns or throws.  A request is over; a cron pass swallows *)
(* the error and goes on with its list.                                    *)
Return(t) ==
    /\ Goto(t, IF t \in Requests THEN "idle" ELSE "next")
    /\ jobId' = [jobId EXCEPT ![t] = NoJob]
    /\ job' = [job EXCEPT ![t] = NoRow]
    /\ savedExecution' = [savedExecution EXCEPT ![t] = 0]

(* Mutant of BeginProcess: the status test is left to the callers. *)
BeginProcessUntested(t, j) ==
    /\ Goto(t, IF jobQueue[j].set.dependencies = {} THEN "start" ELSE "dependencies")
    /\ jobId' = [jobId EXCEPT ![t] = j]
    /\ job' = [job EXCEPT ![t] = jobQueue[j]]
    /\ UNCHANGED savedExecution

(* findById, then the status test of processJob. *)
BeginProcess(t, j) ==
    LET row == jobQueue[j] IN
    IF row.status \in Processable
    THEN /\ Goto(t, IF row.set.dependencies = {} THEN "start" ELSE "dependencies")
         /\ jobId' = [jobId EXCEPT ![t] = j]
         /\ job' = [job EXCEPT ![t] = row]
         /\ UNCHANGED savedExecution
    ELSE Return(t)

-----------------------------------------------------------------------------
(* JobService: requests that edit a row. *)

CreateJob(j) ==
    \E s \in Settings, at \in RequestTimes :
        /\ jobQueue[j].status = "ABSENT"
        /\ s.dependencies \subseteq KnownIds
        /\ jobQueue' = [jobQueue EXCEPT ![j] =
             [status |-> "PENDING", retryCount |-> 0, scheduledAt |-> at,
              nextExecutionAt |-> IF s.isRecurring /\ s.cron THEN "later" ELSE "none",
              set |-> [s EXCEPT !.maxRetries =
                         IF @ = 0 THEN DefaultMaxRetries ELSE @]]]
        /\ UNCHANGED <<executions, isProcessing, jobsToProcess, local, faults, crashes>>

(* A request has read row j and changed its copy to e: the save is still to come. *)
BeginEdit(t, j, e) ==
    /\ pc[t] = "idle"
    /\ Goto(t, "save")
    /\ jobId' = [jobId EXCEPT ![t] = j]
    /\ job' = [job EXCEPT ![t] = e]
    /\ UNCHANGED <<table, isProcessing, jobsToProcess, savedExecution, faults, crashes>>

(* Mutant of UpdateJob: a running job may be updated. *)
UpdateJobRunning(t, j) ==
    \E s \in Settings :
        /\ jobQueue[j].status # "ABSENT"
        /\ s.dependencies \subseteq KnownIds
        /\ BeginEdit(t, j, [jobQueue[j] EXCEPT !.set = s])

UpdateJob(t, j) ==
    \E s \in Settings, at \in RequestTimes \cup {jobQueue[j].scheduledAt} :
        /\ jobQueue[j].status \notin {"ABSENT", "RUNNING"}
        /\ s.dependencies \subseteq KnownIds
        /\ \E next \in {jobQueue[j].nextExecutionAt}
                         \cup (IF s.isRecurring THEN {"later"} ELSE {}) :
             BeginEdit(t, j, [jobQueue[j] EXCEPT !.set = s, !.scheduledAt = at,
                                                 !.nextExecutionAt = next])

(* Mutant of CancelJob: a completed job may be cancelled. *)
CancelJobCompleted(t, j) ==
    /\ jobQueue[j].status \notin {"ABSENT", "CANCELLED"}
    /\ BeginEdit(t, j, [jobQueue[j] EXCEPT !.status = "CANCELLED"])

CancelJob(t, j) ==
    /\ jobQueue[j].status \notin {"ABSENT", "COMPLETED", "CANCELLED"}
    /\ BeginEdit(t, j, [jobQueue[j] EXCEPT !.status = "CANCELLED"])

RetryJob(t, j) ==
    /\ jobQueue[j].status = "FAILED"
    /\ jobQueue[j].retryCount < jobQueue[j].set.maxRetries
    /\ BeginEdit(t, j, [jobQueue[j] EXCEPT !.status = "RETRYING",
                                           !.retryCount = @ + 1,
                                           !.scheduledAt = "later"])

SaveEdit(t) ==
    /\ pc[t] = "save"
    /\ SaveJob(t, job[t])
    /\ Return(t)
    /\ UNCHANGED <<executions, isProcessing, jobsToProcess, faults, crashes>>

ExecuteJob(t, j) ==
    /\ pc[t] = "idle"
    /\ jobQueue[j].status \in Processable
    /\ BeginProcess(t, j)
    /\ UNCHANGED <<table, isProcessing, jobsToProcess, faults, crashes>>

-----------------------------------------------------------------------------
(* JobProcessorService.processJob, after its first read. *)

(* Mutant of AllCompleted: a dependency that is over in any way will do. *)
AllOver(ids) ==
    \A d \in ids \cap Existing : jobQueue[d].status \in {"COMPLETED", "FAILED", "CANCELLED"}

AllCompleted(ids) ==
    \A d \in ids \cap Existing : jobQueue[d].status = "COMPLETED"

(* Mutant of CheckDependencies: the handler waits for them. *)
AwaitDependencies(t) ==
    /\ pc[t] = "dependencies"
    /\ AllCompleted(job[t].set.dependencies)
    /\ Goto(t, "start")
    /\ UNCHANGED <<table, isProcessing, jobsToProcess, jobId, job, savedExecution,
                   faults, crashes>>

CheckDependencies(t) ==
    /\ pc[t] = "dependencies"
    /\ IF AllCompleted(job[t].set.dependencies)
       THEN Goto(t, "start") /\ UNCHANGED <<jobId, job, savedExecution>>
       ELSE Return(t)
    /\ UNCHANGED <<table, isProcessing, jobsToProcess, faults, crashes>>

(* Mutants of SaveStarted: the last execution of the job is used again, while *)
(* it is STARTED or whatever it has become.                                    *)
ReuseExecution(t, statuses) ==
    LET last == Len(executions) IN
    /\ pc[t] = "start"
    /\ IF /\ last > 0
          /\ executions[last].jobQueueId = jobId[t]
          /\ executions[last].status \in statuses
       THEN /\ executions' = [executions EXCEPT ![last].status = "STARTED"]
            /\ savedExecution' = [savedExecution EXCEPT ![t] = last]
       ELSE /\ last < MaxExecutions
            /\ executions' = Append(executions,
                                    [jobQueueId |-> jobId[t], status |-> "STARTED"])
            /\ savedExecution' = [savedExecution EXCEPT ![t] = last + 1]
    /\ Goto(t, "claim")
    /\ UNCHANGED <<jobQueue, isProcessing, jobsToProcess, jobId, job, faults, crashes>>

SaveStartedShared(t) == ReuseExecution(t, {"STARTED"})
SaveStartedAgain(t) == ReuseExecution(t, {"FAILED", "TIMEOUT"})

(* Mutant of SaveStarted: the execution gets the status of the job. *)
SaveStartedAsJob(t) ==
    /\ pc[t] = "start"
    /\ Len(executions) < MaxExecutions
    /\ executions' = Append(executions, [jobQueueId |-> jobId[t], status |-> job[t].status])
    /\ savedExecution' = [savedExecution EXCEPT ![t] = Len(executions) + 1]
    /\ Goto(t, "claim")
    /\ UNCHANGED <<jobQueue, isProcessing, jobsToProcess, jobId, job, faults, crashes>>

SaveStarted(t) ==
    /\ pc[t] = "start"
    /\ Len(executions) < MaxExecutions
    /\ executions' = Append(executions, [jobQueueId |-> jobId[t], status |-> "STARTED"])
    /\ savedExecution' = [savedExecution EXCEPT ![t] = Len(executions) + 1]
    /\ Goto(t, "claim")
    /\ UNCHANGED <<jobQueue, isProcessing, jobsToProcess, jobId, job, faults, crashes>>

SaveRunning(t) ==
    LET running == [job[t] EXCEPT !.status = "RUNNING"] IN
    /\ pc[t] = "claim"
    /\ SaveJob(t, running)
    /\ job' = [job EXCEPT ![t] = running]
    /\ Goto(t, "run")
    /\ UNCHANGED <<executions, isProcessing, jobsToProcess, jobId, savedExecution,
                   faults, crashes>>

(* Mutant of SaveExecutionSuccess: the save is not there. *)
SaveExecutionSuccessForgotten(t) ==
    /\ pc[t] = "run"
    /\ jobId[t] \notin NoProcessor
    /\ Goto(t, "succeeded")
    /\ UNCHANGED <<table, isProcessing, jobsToProcess, jobId, job, savedExecution,
                   faults, crashes>>

(* The processor returns: the execution is saved as completed. *)
SaveExecutionSuccess(t) ==
    /\ pc[t] = "run"
    /\ jobId[t] \notin NoProcessor
    /\ executions' = [executions EXCEPT ![savedExecution[t]].status = "COMPLETED"]
    /\ Goto(t, "succeeded")
    /\ UNCHANGED <<jobQueue, isProcessing, jobsToProcess, jobId, job, savedExecution,
                   faults, crashes>>

SaveJobSuccess(t) ==
    /\ pc[t] = "succeeded"
    /\ SaveJob(t, IF job[t].set.isRecurring
                  THEN [job[t] EXCEPT !.status = "PENDING", !.nextExecutionAt = "later"]
                  ELSE [job[t] EXCEPT !.status = "COMPLETED"])
    /\ Return(t)
    /\ UNCHANGED <<executions, isProcessing, jobsToProcess, faults, crashes>>

(* The processor throws, or there is none. *)
ProcessorThrows(t) ==
    /\ pc[t] = "run"
    /\ Goto(t, "caught")
    /\ UNCHANGED <<table, isProcessing, jobsToProcess, jobId, job, savedExecution,
                   faults, crashes>>

SaveExecutionFailure(t) ==
    /\ pc[t] = "caught"
    /\ executions' = [executions EXCEPT ![savedExecution[t]].status =
                         IF job[t].set.timeout THEN "TIMEOUT" ELSE "FAILED"]
    /\ Goto(t, "failed")
    /\ UNCHANGED <<jobQueue, isProcessing, jobsToProcess, jobId, job, savedExecution,
                   faults, crashes>>

SaveJobFailure(t) ==
    /\ pc[t] = "failed"
    /\ SaveJob(t, IF job[t].retryCount < job[t].set.maxRetries
                  THEN [job[t] EXCEPT !.status = "RETRYING", !.retryCount = @ + 1,
                                      !.scheduledAt = "later"]
                  ELSE [job[t] EXCEPT !.status = "FAILED"])
    /\ Return(t)
    /\ UNCHANGED <<executions, isProcessing, jobsToProcess, faults, crashes>>

-----------------------------------------------------------------------------
(* JobSchedulerService: the cron passes. *)

DueJobs ==
    {j \in Jobs : jobQueue[j].status = "PENDING" /\ jobQueue[j].scheduledAt # "later"}

RetryableJobs ==
    {j \in Jobs : /\ jobQueue[j].status = "FAILED"
                  /\ jobQueue[j].retryCount < jobQueue[j].set.maxRetries}

Listings(S) == {q \in [1 .. Cardinality(S) -> S] : \A i, k \in DOMAIN q : q[i] = q[k] => i = k}

(* ORDER BY priority DESC, scheduledAt ASC, where null sorts last. *)
ComesFirst(a, b) ==
    \/ a.set.priority > b.set.priority
    \/ a.set.priority = b.set.priority /\ (a.scheduledAt = "none" => b.scheduledAt = "none")

ByPriority(S) ==
    {q \in Listings(S) : \A i, k \in DOMAIN q :
        i < k => ComesFirst(jobQueue[q[i]], jobQueue[q[k]])}

(* What a pass keeps of a listed row: its id and its scheduledAt. *)
Entries(q, n) ==
    [i \in 1 .. n |-> [id |-> q[i], scheduledAt |-> jobQueue[q[i]].scheduledAt]]

BeginPass(t, list) ==
    /\ pc[t] = "idle"
    /\ Goto(t, "next")
    /\ jobsToProcess' = [jobsToProcess EXCEPT ![t] = list]
    /\ UNCHANGED <<table, jobId, job, savedExecution, faults, crashes>>

(* Mutant of ProcessPendingJobs: isProcessing is not tested. *)
ProcessPendingJobsUnguarded(t) ==
    /\ isProcessing' = [isProcessing EXCEPT ![Host[t]] = TRUE]
    /\ \E q \in ByPriority(DueJobs) :
         BeginPass(t, Entries(q, IF Cardinality(DueJobs) < BatchSize
                                 THEN Cardinality(DueJobs) ELSE BatchSize))

ProcessPendingJobs(t) ==
    /\ ~isProcessing[Host[t]]
    /\ isProcessing' = [isProcessing EXCEPT ![Host[t]] = TRUE]
    /\ \E q \in ByPriority(DueJobs) :
         BeginPass(t, Entries(q, IF Cardinality(DueJobs) < BatchSize
                                 THEN Cardinality(DueJobs) ELSE BatchSize))

ProcessRetryableJobs(t) ==
    /\ \E q \in Listings(RetryableJobs) :
         BeginPass(t, Entries(q, Cardinality(RetryableJobs)))
    /\ UNCHANGED isProcessing

(* A retry pass leaves out a row whose listed scheduledAt is null or not reached. *)
NextJob(t) ==
    /\ pc[t] = "next"
    /\ jobsToProcess[t] # <<>>
    /\ LET e == Head(jobsToProcess[t]) IN
         \/ /\ t \in Retriers => e.scheduledAt # "none"
            /\ BeginProcess(t, e.id)
         \/ /\ t \in Retriers /\ e.scheduledAt # "passed"
            /\ UNCHANGED local
    /\ jobsToProcess' = [jobsToProcess EXCEPT ![t] = Tail(@)]
    /\ UNCHANGED <<table, isProcessing, faults, crashes>>

(* Mutant of FinishPass: isProcessing stays set. *)
FinishPassFlagged(t) ==
    /\ pc[t] = "next"
    /\ jobsToProcess[t] = <<>>
    /\ Goto(t, "idle")
    /\ UNCHANGED <<table, isProcessing, jobsToProcess, jobId, job, savedExecution,
                   faults, crashes>>

FinishPass(t) ==
    /\ pc[t] = "next"
    /\ jobsToProcess[t] = <<>>
    /\ Goto(t, "idle")
    /\ isProcessing' = IF t \in Pendings
                       THEN [isProcessing EXCEPT ![Host[t]] = FALSE] ELSE isProcessing
    /\ UNCHANGED <<table, jobsToProcess, jobId, job, savedExecution, faults, crashes>>

-----------------------------------------------------------------------------
(* The environment: clock, failing database calls, crashes. *)

TimePasses(j) ==
    /\ \/ /\ jobQueue[j].scheduledAt = "later"
          /\ jobQueue' = [jobQueue EXCEPT ![j].scheduledAt = "passed"]
       \/ /\ jobQueue[j].nextExecutionAt = "later"
          /\ jobQueue' = [jobQueue EXCEPT ![j].nextExecutionAt = "passed"]
    /\ UNCHANGED <<executions, isProcessing, jobsToProcess, local, faults, crashes>>

(* The await the thread stands at rejects, and nothing is written.  Inside  *)
(* the try block of processJob control goes to the catch clause; anywhere   *)
(* else the handler throws, and a pass goes on with its next job.           *)
DatabaseFault(t) ==
    /\ pc[t] # "idle" /\ (pc[t] = "next" => jobsToProcess[t] # <<>>)
    /\ faults < MaxFaults
    /\ faults' = faults + 1
    /\ IF pc[t] \in {"run", "succeeded"}
       THEN Goto(t, "caught") /\ UNCHANGED <<jobId, job, savedExecution>>
       ELSE Return(t)
    /\ jobsToProcess' = IF pc[t] = "next"
                        THEN [jobsToProcess EXCEPT ![t] = Tail(@)] ELSE jobsToProcess
    /\ UNCHANGED <<table, isProcessing, crashes>>

(* The process of server s dies and is started again: what its threads *)
(* held in memory is gone, what they had written stays.                *)
Crash(s) ==
    LET on == {t \in Threads : Host[t] = s} IN
    /\ crashes < MaxCrashes
    /\ crashes' = crashes + 1
    /\ isProcessing' = [isProcessing EXCEPT ![s] = FALSE]
    /\ jobsToProcess' = [t \in Threads |-> IF t \in on THEN <<>> ELSE jobsToProcess[t]]
    /\ pc' = [t \in Threads |-> IF t \in on THEN "idle" ELSE pc[t]]
    /\ jobId' = [t \in Threads |-> IF t \in on THEN NoJob ELSE jobId[t]]
    /\ job' = [t \in Threads |-> IF t \in on THEN NoRow ELSE job[t]]
    /\ savedExecution' = [t \in Threads |-> IF t \in on THEN 0 ELSE savedExecution[t]]
    /\ UNCHANGED <<table, faults>>

-----------------------------------------------------------------------------
ProcessStep(t) ==
    \/ CheckDependencies(t) \/ SaveStarted(t) \/ SaveRunning(t)
    \/ SaveExecutionSuccess(t) \/ SaveJobSuccess(t)
    \/ ProcessorThrows(t) \/ SaveExecutionFailure(t) \/ SaveJobFailure(t)

RequestStep(t) ==
    \/ \E j \in Jobs : \/ UpdateJob(t, j) \/ CancelJob(t, j)
                       \/ RetryJob(t, j) \/ ExecuteJob(t, j)
    \/ SaveEdit(t)

PassStep(t) == NextJob(t) \/ FinishPass(t)

Next ==
    \/ \E j \in Jobs : CreateJob(j) \/ TimePasses(j)
    \/ \E t \in Requests : RequestStep(t)
    \/ \E t \in Pendings : ProcessPendingJobs(t)
    \/ \E t \in Retriers : ProcessRetryableJobs(t)
    \/ \E t \in Pendings \cup Retriers : PassStep(t)
    \/ \E t \in Threads : ProcessStep(t) \/ DatabaseFault(t)
    \/ \E s \in Servers : Crash(s)

Spec == Init /\ [][Next]_vars

(* A live process runs its awaits and its crons to the end, and time goes on.  *)
(* Nothing obliges a client to send requests, or a processor to succeed.       *)
FairSpec ==
    /\ Spec
    /\ \A t \in Threads : WF_vars(ProcessStep(t)) /\ WF_vars(SaveEdit(t))
    /\ \A t \in Pendings \cup Retriers : WF_vars(PassStep(t))
    /\ \A t \in Pendings : WF_vars(ProcessPendingJobs(t))
    /\ \A t \in Retriers : WF_vars(ProcessRetryableJobs(t))
    /\ \A j \in Jobs : WF_vars(TimePasses(j))

-----------------------------------------------------------------------------
(* Type invariant. *)
Labels == {"idle", "next", "dependencies", "start", "claim", "run", "succeeded",
           "caught", "failed", "save"}

TypeOK ==
    /\ jobQueue \in [Jobs -> JobRow]
    /\ executions \in Seq(Execution)
    /\ isProcessing \in [Servers -> BOOLEAN]
    /\ jobsToProcess \in [Threads -> Seq([id: Jobs, scheduledAt: Times])]
    /\ pc \in [Threads -> Labels]
    /\ jobId \in [Threads -> Jobs \cup {NoJob}]
    /\ job \in [Threads -> JobRow]
    /\ savedExecution \in [Threads -> Nat]
    /\ faults \in Nat /\ crashes \in Nat
    /\ \A t \in Threads : jobId[t] = NoJob <=> pc[t] \in {"idle", "next"}

(* Labels at which a thread has an execution row it may still write. *)
Executing == {"claim", "run", "succeeded", "caught", "failed"}

(* Labels at which a thread has saved its job as RUNNING and not yet its outcome. *)
Claimed == {"run", "succeeded", "caught", "failed"}

Owns(t, i) == savedExecution[t] = i /\ pc[t] \in Executing

(* Execution i has ended with a status in S and no handler can write it again. *)
Settled(i, S) == executions[i].status \in S /\ \A t \in Threads : ~Owns(t, i)

HasSettled(j, S) ==
    \E i \in 1 .. Len(executions) : executions[i].jobQueueId = j /\ Settled(i, S)

(* What a status says of the executions of job j. *)
Backed(j, status) ==
    /\ status = "COMPLETED" => HasSettled(j, {"COMPLETED"})
    /\ status \in {"FAILED", "RETRYING"} => HasSettled(j, {"FAILED", "TIMEOUT"})

(* A job shown as COMPLETED has an execution that completed and can no longer   *)
(* be rewritten as a failure; a job shown as FAILED or RETRYING has one that    *)
(* failed.  The execution row is saved before the job row, and stale copies of  *)
(* the job row that other handlers save later were themselves read from the     *)
(* table.                                                                       *)
StatusIsBacked == \A j \in Jobs : Backed(j, jobQueue[j].status)

(* When a handler is past the dependency check, every job its own copy names as *)
(* a dependency, and that is in the table, has completed at least once,         *)
(* whatever its row has become since.                                           *)
DependenciesMet(t) ==
    pc[t] \in Executing \cup {"start"} =>
        \A d \in job[t].set.dependencies \cap Jobs : HasSettled(d, {"COMPLETED"})

DependenciesFirst == \A t \in Threads : DependenciesMet(t)

(* Without crashes and failing saves, a row says RUNNING only while a handler  *)
(* that will save an outcome is at work on it, however the handlers overlap,   *)
(* and an execution row says STARTED only while its handler is at work.        *)
RunningIsOwned ==
    faults = 0 /\ crashes = 0 =>
        /\ \A j \in Jobs : jobQueue[j].status = "RUNNING" =>
              \E t \in Threads : jobId[t] = j /\ pc[t] \in Claimed
        /\ \A i \in 1 .. Len(executions) : executions[i].status = "STARTED" =>
              \E t \in Threads : Owns(t, i)

(* Two handlers never write the same execution row, and a handler writes only   *)
(* an execution of its own job.                                                 *)
ExecutionsAreOwnedOnce ==
    \A t \in Threads : pc[t] \in Executing =>
        /\ savedExecution[t] \in 1 .. Len(executions)
        /\ executions[savedExecution[t]].jobQueueId = jobId[t]
        /\ \A u \in Threads \ {t} : ~Owns(u, savedExecution[t])

Working(t) == pc[t] \notin {"idle", "next"}

(* The invariant that carries the others: what a handler's local entity can say  *)
(* at each label, that it is backed like a row, that it names only dependencies  *)
(* that exist, and that the execution row agrees with the label.                 *)
EntityAgrees(t) ==
    /\ pc[t] \in {"dependencies", "start", "claim"} => job[t].status \in Processable
    /\ pc[t] \in Claimed => job[t].status = "RUNNING"
    /\ pc[t] = "save" => job[t].status \notin {"ABSENT", "RUNNING"}
    /\ pc[t] = "succeeded" => executions[savedExecution[t]].status = "COMPLETED"
    /\ pc[t] = "failed" => executions[savedExecution[t]].status \in {"FAILED", "TIMEOUT"}
    /\ Working(t) => /\ Backed(jobId[t], job[t].status)
                     /\ job[t].set.dependencies \subseteq KnownIds
                     /\ jobId[t] \in Existing

EntitiesAgree == \A t \in Threads : EntityAgrees(t)

RowsAgree ==
    \A j \in Jobs : jobQueue[j].set.dependencies \subseteq KnownIds

QueueInvariant ==
    /\ TypeOK /\ ExecutionsAreOwnedOnce /\ EntitiesAgree /\ RowsAgree
    /\ StatusIsBacked /\ DependenciesFirst

(* A settled execution is history: no step changes it, and none is deleted. *)
HistoryIsKept ==
    [][\A i \in 1 .. Len(executions) :
         /\ i <= Len(executions')
         /\ Settled(i, ExecutionStatus) => executions'[i] = executions[i]]_vars

(* The status of a cancelled job changes only by the save of a handler that had *)
(* read the row before the cancellation was saved.                              *)
OnlyStaleSavesUndoCancel ==
    [][\A j \in Jobs :
         jobQueue[j].status = "CANCELLED" /\ jobQueue'[j].status # "CANCELLED" =>
            \E t \in Threads : jobId[t] = j /\ job[t].status # "CANCELLED"]_vars

(* At most one pass over the pending jobs is open on a server. *)
OnePendingPass ==
    \A t, u \in Pendings :
        t # u /\ Host[t] = Host[u] => pc[t] = "idle" \/ pc[u] = "idle"

(* Every handler that began comes to its end, whatever throws in it. *)
HandlersReturn == \A t \in Threads : pc[t] # "idle" ~> pc[t] = "idle"

Ready(j) == j \in DueJobs /\ AllCompleted(jobQueue[j].set.dependencies)

(* Due jobs that come before j and are due again after every pass: they wait for a *)
(* dependency, or they recur.                                                      *)
InTheWay(j) ==
    {k \in DueJobs \ {j} :
        /\ ComesFirst(jobQueue[k], jobQueue[j])
        /\ \/ ~AllCompleted(jobQueue[k].set.dependencies)
           \/ jobQueue[k].set.isRecurring}

(* A pending job that is due and whose dependencies have completed is taken up,  *)
(* however few jobs a pass takes and whatever fails, unless as many as a pass    *)
(* takes stand in its way: nothing in the code passes over those, and then it    *)
(* may wait for ever.                                                            *)
ReadyJobsAreTakenUp ==
    \A j \in Jobs :
        Ready(j) ~> \/ jobQueue[j].status # "PENDING"
                   \/ Cardinality(InTheWay(j)) >= BatchSize
=============================================================================
