--------------------------- MODULE JobQueueProofs ---------------------------
(* Theorems about JobQueue for any jobs, threads, servers, settings and bounds. *)
EXTENDS JobQueue, FiniteSetTheorems, TLAPS

Entry == [id: Jobs, scheduledAt: Times]

(* The local variables of the threads are well typed. *)
LocalOK ==
    /\ pc \in [Threads -> Labels]
    /\ jobId \in [Threads -> Jobs \cup {NoJob}]
    /\ job \in [Threads -> JobRow]
    /\ savedExecution \in [Threads -> Nat]
    /\ \A t \in Threads : jobId[t] = NoJob <=> pc[t] \in {"idle", "next"}

LEMMA NoRowType == NoRow \in JobRow
BY DEF NoRow, JobRow, JobStatus, Times, SettingType

LEMMA ReturnType ==
    ASSUME NEW t \in Threads, LocalOK, Return(t)
    PROVE  LocalOK'
BY NoRowType DEF LocalOK, Return, Goto, Labels

LEMMA BeginProcessType ==
    ASSUME NEW t \in Threads, NEW j \in Jobs, TypeOK, BeginProcess(t, j)
    PROVE  LocalOK'
<1>1. LocalOK /\ jobQueue[j] \in JobRow
  BY DEF TypeOK, LocalOK
<1>2. CASE jobQueue[j].status \in Processable
  BY <1>1, <1>2, JobQueueAssumption DEF BeginProcess, LocalOK, Goto, Labels
<1>3. CASE jobQueue[j].status \notin Processable
  BY <1>1, <1>3, ReturnType DEF BeginProcess
<1> QED
  BY <1>2, <1>3

LEMMA BeginEditType ==
    ASSUME NEW t \in Threads, NEW j \in Jobs, NEW e \in JobRow, TypeOK, BeginEdit(t, j, e)
    PROVE  TypeOK'
BY JobQueueAssumption DEF TypeOK, BeginEdit, Goto, Labels, table

(* A save puts a well-typed entity into the table. *)
LEMMA SaveJobType ==
    ASSUME NEW t \in Threads, NEW e \in JobRow, jobQueue \in [Jobs -> JobRow], SaveJob(t, e)
    PROVE  jobQueue' \in [Jobs -> JobRow]
BY DEF SaveJob

(* An execution row that gets another status is still an execution row. *)
LEMMA SetStatusType ==
    ASSUME NEW es \in Seq(Execution), NEW i \in Nat, NEW st \in ExecutionStatus
    PROVE  [es EXCEPT ![i].status = st] \in Seq(Execution)
<1>1. es \in [1 .. Len(es) -> Execution] /\ Len(es) \in Nat
  OBVIOUS
<1>2. [es EXCEPT ![i].status = st] \in [1 .. Len(es) -> Execution]
  BY <1>1 DEF Execution
<1> QED
  BY <1>1, <1>2

LEMMA ListType ==
    ASSUME NEW S \in SUBSET Jobs, NEW q \in Listings(S),
           jobQueue \in [Jobs -> JobRow]
    PROVE  /\ Cardinality(S) \in Nat
           /\ \A n \in 0 .. Cardinality(S) : Entries(q, n) \in Seq(Entry)
<1>1. Cardinality(S) \in Nat
  BY JobQueueAssumption, FS_Subset, FS_CardinalityType
<1>2. ASSUME NEW n \in 0 .. Cardinality(S)
      PROVE  Entries(q, n) \in Seq(Entry)
  <2>1. n \in Nat
    BY <1>1, <1>2
  <2>2. ASSUME NEW i \in 1 .. n PROVE [id |-> q[i], scheduledAt |-> jobQueue[q[i]].scheduledAt] \in Entry
    <3>1. i \in 1 .. Cardinality(S)
      BY <1>1, <1>2, <2>1, <2>2
    <3>2. q[i] \in Jobs
      BY <3>1 DEF Listings
    <3> QED
      BY <3>2 DEF Entry, JobRow
  <2>3. Entries(q, n) \in [1 .. n -> Entry]
    BY <2>2 DEF Entries
  <2> QED
    BY <2>1, <2>3
<1> QED
  BY <1>1, <1>2

LEMMA BeginPassType ==
    ASSUME NEW t \in Threads, NEW list \in Seq(Entry), TypeOK, BeginPass(t, list),
           isProcessing' \in [Servers -> BOOLEAN]
    PROVE  TypeOK'
BY DEF TypeOK, BeginPass, Goto, Labels, table, Entry

(* Every step keeps the type invariant. *)
LEMMA TypeStep == TypeOK /\ [Next]_vars => TypeOK'
<1> SUFFICES ASSUME TypeOK, [Next]_vars PROVE TypeOK'
  OBVIOUS
<1>L. LocalOK
  BY DEF TypeOK, LocalOK
<1>1. ASSUME NEW j \in Jobs, CreateJob(j) PROVE TypeOK'
  <2>1. PICK s \in Settings, at \in RequestTimes :
          jobQueue' = [jobQueue EXCEPT ![j] =
             [status |-> "PENDING", retryCount |-> 0, scheduledAt |-> at,
              nextExecutionAt |-> IF s.isRecurring /\ s.cron THEN "later" ELSE "none",
              set |-> [s EXCEPT !.maxRetries =
                         IF @ = 0 THEN DefaultMaxRetries ELSE @]]]
    BY <1>1 DEF CreateJob
  <2>2. s \in SettingType /\ at \in Times /\ DefaultMaxRetries \in Nat
    BY JobQueueAssumption
  <2>3. [s EXCEPT !.maxRetries = IF @ = 0 THEN DefaultMaxRetries ELSE @] \in SettingType
    BY <2>2 DEF SettingType
  <2>4. jobQueue' \in [Jobs -> JobRow]
    BY <2>1, <2>2, <2>3 DEF TypeOK, JobRow, JobStatus, Times
  <2>5. UNCHANGED <<executions, isProcessing, jobsToProcess, local, faults, crashes>>
    BY <1>1 DEF CreateJob
  <2> QED
    BY <2>4, <2>5 DEF TypeOK, local
<1>2. ASSUME NEW j \in Jobs, TimePasses(j) PROVE TypeOK'
  <2>1. jobQueue' \in [Jobs -> JobRow]
    <3>1. jobQueue[j] \in JobRow
      BY DEF TypeOK
    <3>2. /\ [jobQueue[j] EXCEPT !.scheduledAt = "passed"] \in JobRow
          /\ [jobQueue[j] EXCEPT !.nextExecutionAt = "passed"] \in JobRow
      BY <3>1 DEF JobRow, Times
    <3> QED
      BY <1>2, <3>2 DEF TimePasses, TypeOK
  <2> QED
    BY <1>2, <2>1 DEF TimePasses, TypeOK, local
<1>3. ASSUME NEW t \in Requests, RequestStep(t) PROVE TypeOK'
  <2>0. t \in Threads
    BY DEF Threads
  <2>1. ASSUME NEW j \in Jobs, UpdateJob(t, j) PROVE TypeOK'
    <3>0. PICK s \in Settings, at \in RequestTimes \cup {jobQueue[j].scheduledAt} :
            \E next \in {jobQueue[j].nextExecutionAt}
                          \cup (IF s.isRecurring THEN {"later"} ELSE {}) :
              BeginEdit(t, j, [jobQueue[j] EXCEPT !.set = s, !.scheduledAt = at,
                                                  !.nextExecutionAt = next])
      BY <2>1 DEF UpdateJob
    <3>1. PICK next \in {jobQueue[j].nextExecutionAt}
                          \cup (IF s.isRecurring THEN {"later"} ELSE {}) :
            BeginEdit(t, j, [jobQueue[j] EXCEPT !.set = s, !.scheduledAt = at,
                                                !.nextExecutionAt = next])
      BY <3>0
    <3>2. jobQueue[j] \in JobRow
      BY DEF TypeOK
    <3>3. s \in SettingType /\ at \in Times /\ next \in Times
      BY <3>2, JobQueueAssumption DEF JobRow, Times
    <3> DEFINE e == [jobQueue[j] EXCEPT !.set = s, !.scheduledAt = at,
                                        !.nextExecutionAt = next]
    <3>4. e \in JobRow
      BY <3>2, <3>3 DEF JobRow
    <3>5. BeginEdit(t, j, e)
      BY <3>1
    <3> HIDE DEF e
    <3> QED
      BY <2>0, <3>4, <3>5, BeginEditType
  <2>2. ASSUME NEW j \in Jobs, CancelJob(t, j) PROVE TypeOK'
    <3> DEFINE e == [jobQueue[j] EXCEPT !.status = "CANCELLED"]
    <3>1. e \in JobRow
      BY DEF TypeOK, JobRow, JobStatus
    <3>2. BeginEdit(t, j, e)
      BY <2>2 DEF CancelJob
    <3> HIDE DEF e
    <3> QED
      BY <2>0, <3>1, <3>2, BeginEditType
  <2>3. ASSUME NEW j \in Jobs, RetryJob(t, j) PROVE TypeOK'
    <3> DEFINE e == [jobQueue[j] EXCEPT !.status = "RETRYING", !.retryCount = @ + 1,
                                        !.scheduledAt = "later"]
    <3>1. e \in JobRow
      <4>1. jobQueue[j] \in JobRow /\ jobQueue[j].retryCount + 1 \in Nat
        BY DEF TypeOK, JobRow
      <4> QED
        BY <4>1 DEF JobRow, JobStatus, Times
    <3>2. BeginEdit(t, j, e)
      BY <2>3 DEF RetryJob
    <3> HIDE DEF e
    <3> QED
      BY <2>0, <3>1, <3>2, BeginEditType
  <2>4. ASSUME NEW j \in Jobs, ExecuteJob(t, j) PROVE TypeOK'
    <3>1. LocalOK'
      BY <2>0, <2>4, BeginProcessType DEF ExecuteJob
    <3> QED
      BY <2>4, <3>1 DEF ExecuteJob, TypeOK, LocalOK, table
  <2>5. CASE SaveEdit(t)
    <3>1. LocalOK'
      BY <2>0, <2>5, <1>L, ReturnType DEF SaveEdit
    <3>2. jobQueue' \in [Jobs -> JobRow]
      BY <2>0, <2>5, SaveJobType DEF SaveEdit, TypeOK
    <3> QED
      BY <2>5, <3>1, <3>2 DEF SaveEdit, TypeOK, LocalOK
  <2> QED
    BY <1>3, <2>1, <2>2, <2>3, <2>4, <2>5 DEF RequestStep
<1>4. ASSUME NEW t \in Pendings, ProcessPendingJobs(t) PROVE TypeOK'
  <2> DEFINE n == IF Cardinality(DueJobs) < BatchSize THEN Cardinality(DueJobs) ELSE BatchSize
  <2>1. PICK q \in ByPriority(DueJobs) : BeginPass(t, Entries(q, n))
    BY <1>4 DEF ProcessPendingJobs
  <2>2. DueJobs \in SUBSET Jobs /\ q \in Listings(DueJobs) /\ jobQueue \in [Jobs -> JobRow]
    BY <2>1 DEF DueJobs, ByPriority, TypeOK
  <2>3. Cardinality(DueJobs) \in Nat
    BY <2>2, ListType
  <2>4. n \in 0 .. Cardinality(DueJobs)
    BY <2>3, JobQueueAssumption
  <2>5. Entries(q, n) \in Seq(Entry)
    BY <2>2, <2>4, ListType
  <2>6. isProcessing' \in [Servers -> BOOLEAN]
    BY <1>4 DEF ProcessPendingJobs, TypeOK
  <2>7. t \in Threads
    BY DEF Threads
  <2> QED
    BY <2>1, <2>5, <2>6, <2>7, BeginPassType
<1>5. ASSUME NEW t \in Retriers, ProcessRetryableJobs(t) PROVE TypeOK'
  <2> DEFINE n == Cardinality(RetryableJobs)
  <2>1. PICK q \in Listings(RetryableJobs) : BeginPass(t, Entries(q, n))
    BY <1>5 DEF ProcessRetryableJobs
  <2>2. RetryableJobs \in SUBSET Jobs /\ jobQueue \in [Jobs -> JobRow]
    BY DEF RetryableJobs, TypeOK
  <2>3. n \in Nat
    BY <2>2, ListType
  <2>4. Entries(q, n) \in Seq(Entry)
    BY <2>2, <2>3, ListType
  <2>6. isProcessing' \in [Servers -> BOOLEAN]
    BY <1>5 DEF ProcessRetryableJobs, TypeOK
  <2>7. t \in Threads
    BY DEF Threads
  <2> QED
    BY <2>1, <2>4, <2>6, <2>7, BeginPassType
<1>6. ASSUME NEW t \in Pendings \cup Retriers, NextJob(t) PROVE TypeOK'
  <2>0. t \in Threads
    BY DEF Threads
  <2>1. jobsToProcess[t] \in Seq(Entry) /\ jobsToProcess[t] # <<>>
    BY <1>6, <2>0 DEF NextJob, TypeOK, Entry
  <2>2. Head(jobsToProcess[t]).id \in Jobs /\ Tail(jobsToProcess[t]) \in Seq(Entry)
    <3>1. Head(jobsToProcess[t]) \in Entry /\ Tail(jobsToProcess[t]) \in Seq(Entry)
      BY <2>1
    <3> QED
      BY <3>1 DEF Entry
  <2>3. LocalOK'
    <3>1. CASE BeginProcess(t, Head(jobsToProcess[t]).id)
      BY <2>0, <2>2, <3>1, BeginProcessType
    <3>2. CASE UNCHANGED local
      BY <1>L, <3>2 DEF LocalOK, local
    <3> QED
      BY <1>6, <3>1, <3>2 DEF NextJob
  <2>4. jobsToProcess' \in [Threads -> Seq([id: Jobs, scheduledAt: Times])]
    BY <1>6, <2>0, <2>2 DEF NextJob, TypeOK, Entry
  <2> QED
    BY <1>6, <2>3, <2>4 DEF NextJob, TypeOK, LocalOK, table
<1>7. ASSUME NEW t \in Pendings \cup Retriers, FinishPass(t) PROVE TypeOK'
  <2>1. isProcessing' \in [Servers -> BOOLEAN]
    BY <1>7 DEF FinishPass, TypeOK
  <2> QED
    BY <1>7, <2>1 DEF FinishPass, TypeOK, Goto, Labels, table
<1>8. ASSUME NEW t \in Threads, ProcessStep(t) PROVE TypeOK'
  <2>1. CASE CheckDependencies(t)
    <3>1. LocalOK'
      BY <1>L, <2>1, ReturnType DEF CheckDependencies, LocalOK, Goto, Labels
    <3> QED
      BY <2>1, <3>1 DEF CheckDependencies, TypeOK, LocalOK, table
  <2>2. CASE SaveStarted(t)
    <3>1. [jobQueueId |-> jobId[t], status |-> "STARTED"] \in Execution
      BY <1>L, <2>2 DEF SaveStarted, LocalOK, Execution, ExecutionStatus
    <3>2. executions' \in Seq(Execution) /\ Len(executions) + 1 \in Nat
      BY <2>2, <3>1 DEF SaveStarted, TypeOK
    <3> QED
      BY <2>2, <3>2 DEF SaveStarted, TypeOK, Goto, Labels
  <2>3. CASE SaveRunning(t)
    <3> DEFINE running == [job[t] EXCEPT !.status = "RUNNING"]
    <3>1. running \in JobRow
      BY DEF TypeOK, JobRow, JobStatus
    <3>2. jobQueue' \in [Jobs -> JobRow] /\ job' \in [Threads -> JobRow]
      BY <2>3, <3>1, SaveJobType DEF SaveRunning, TypeOK
    <3> QED
      BY <2>3, <3>2 DEF SaveRunning, TypeOK, Goto, Labels
  <2>4. CASE SaveExecutionSuccess(t)
    <3>1. executions' \in Seq(Execution)
      BY <2>4, SetStatusType DEF SaveExecutionSuccess, TypeOK, ExecutionStatus
    <3> QED
      BY <2>4, <3>1 DEF SaveExecutionSuccess, TypeOK, Goto, Labels
  <2>5. CASE SaveJobSuccess(t)
    <3>1. PICK e \in JobRow : SaveJob(t, e)
      BY <2>5 DEF SaveJobSuccess, TypeOK, JobRow, JobStatus, Times
    <3>2. jobQueue' \in [Jobs -> JobRow]
      BY <3>1, SaveJobType DEF TypeOK
    <3>3. LocalOK'
      BY <1>L, <2>5, ReturnType DEF SaveJobSuccess
    <3> QED
      BY <2>5, <3>2, <3>3 DEF SaveJobSuccess, TypeOK, LocalOK
  <2>6. CASE ProcessorThrows(t)
    BY <2>6 DEF ProcessorThrows, TypeOK, Goto, Labels, table
  <2>7. CASE SaveExecutionFailure(t)
    <3>1. executions' \in Seq(Execution)
      BY <2>7, SetStatusType DEF SaveExecutionFailure, TypeOK, ExecutionStatus
    <3> QED
      BY <2>7, <3>1 DEF SaveExecutionFailure, TypeOK, Goto, Labels
  <2>8. CASE SaveJobFailure(t)
    <3>1. PICK e \in JobRow : SaveJob(t, e)
      <4> DEFINE again == [job[t] EXCEPT !.status = "RETRYING", !.retryCount = @ + 1,
                                         !.scheduledAt = "later"]
                 over  == [job[t] EXCEPT !.status = "FAILED"]
      <4>1. again \in JobRow /\ over \in JobRow
        <5>1. job[t] \in JobRow /\ job[t].retryCount + 1 \in Nat
          BY DEF TypeOK, JobRow
        <5> QED
          BY <5>1 DEF JobRow, JobStatus, Times
      <4>2. SaveJob(t, again) \/ SaveJob(t, over)
        BY <2>8 DEF SaveJobFailure
      <4> HIDE DEF again, over
      <4> QED
        BY <4>1, <4>2
    <3>2. jobQueue' \in [Jobs -> JobRow]
      BY <3>1, SaveJobType DEF TypeOK
    <3>3. LocalOK'
      BY <1>L, <2>8, ReturnType DEF SaveJobFailure
    <3> QED
      BY <2>8, <3>2, <3>3 DEF SaveJobFailure, TypeOK, LocalOK
  <2> QED
    BY <1>8, <2>1, <2>2, <2>3, <2>4, <2>5, <2>6, <2>7, <2>8 DEF ProcessStep
<1>9. ASSUME NEW t \in Threads, DatabaseFault(t) PROVE TypeOK'
  <2>1. LocalOK'
    <3>1. CASE pc[t] \in {"run", "succeeded"}
      BY <1>L, <1>9, <3>1 DEF DatabaseFault, LocalOK, Goto, Labels
    <3>2. CASE pc[t] \notin {"run", "succeeded"}
      BY <1>L, <1>9, <3>2, ReturnType DEF DatabaseFault
    <3> QED
      BY <3>1, <3>2
  <2>2. jobsToProcess' \in [Threads -> Seq([id: Jobs, scheduledAt: Times])]
    <3>1. CASE pc[t] = "next"
      <4>1. jobsToProcess[t] \in Seq(Entry) /\ jobsToProcess[t] # <<>>
        BY <1>9, <3>1 DEF DatabaseFault, TypeOK, Entry
      <4>2. Tail(jobsToProcess[t]) \in Seq(Entry)
        BY <4>1
      <4> QED
        BY <1>9, <3>1, <4>2 DEF DatabaseFault, TypeOK, Entry
    <3>2. CASE pc[t] # "next"
      BY <1>9, <3>2 DEF DatabaseFault, TypeOK
    <3> QED
      BY <3>1, <3>2
  <2>3. faults + 1 \in Nat /\ faults' = faults + 1
        /\ UNCHANGED <<table, isProcessing, crashes>>
    BY <1>9 DEF DatabaseFault, TypeOK
  <2> QED
    BY <2>1, <2>2, <2>3 DEF TypeOK, LocalOK, table
<1>10. ASSUME NEW s \in Servers, Crash(s) PROVE TypeOK'
  <2>1. LocalOK'
    BY <1>L, <1>10, NoRowType DEF Crash, LocalOK, Labels
  <2>2. jobsToProcess' \in [Threads -> Seq(Entry)]
    <3>1. jobsToProcess \in [Threads -> Seq(Entry)] /\ <<>> \in Seq(Entry)
      <4>1. <<>> \in Seq(Entry)
        OBVIOUS
      <4> QED
        BY <4>1 DEF TypeOK, Entry
    <3> QED
      BY <1>10, <3>1 DEF Crash
  <2>4. isProcessing' \in [Servers -> BOOLEAN]
    BY <1>10 DEF Crash, TypeOK
  <2>3. crashes' \in Nat /\ UNCHANGED <<table, faults>>
    BY <1>10 DEF Crash, TypeOK
  <2> QED
    BY <2>1, <2>2, <2>3, <2>4 DEF TypeOK, LocalOK, table, Entry
<1>11. CASE UNCHANGED vars
  BY <1>11 DEF vars, table, local, TypeOK
<1> QED
  BY <1>1, <1>2, <1>3, <1>4, <1>5, <1>6, <1>7, <1>8, <1>9, <1>10, <1>11
  DEF Next, PassStep

(* In every reachable state the tables hold well-formed rows and every handler *)
(* that is at work is at work on a job.                                        *)
THEOREM TypeCorrect == Spec => []TypeOK
<1>1. Init => TypeOK
  BY NoRowType DEF Init, TypeOK, Labels
<1> QED
  BY <1>1, TypeStep, PTL DEF Spec

-----------------------------------------------------------------------------
(* The flag isProcessing keeps the passes over the pending jobs of a server *)
(* apart.                                                                   *)

(* An open pass over the pending jobs has its server's flag set. *)
FlagIsSet == \A t \in Pendings : pc[t] # "idle" => isProcessing[Host[t]]

PassInvariant == TypeOK /\ FlagIsSet /\ OnePendingPass

(* A step that opens no pass over the pending jobs and leaves the flags alone. *)
OpensNoPass ==
    /\ UNCHANGED isProcessing
    /\ \A t \in Pendings : pc[t] = "idle" => pc'[t] = "idle"

LEMMA PassThreads == Pendings \subseteq Threads /\ Requests \subseteq Threads /\ Retriers \subseteq Threads
BY DEF Threads

LEMMA QuietKeepsPasses ==
    ASSUME PassInvariant, TypeOK', OpensNoPass
    PROVE  PassInvariant'
BY DEF PassInvariant, FlagIsSet, OnePendingPass, OpensNoPass

(* A handler that is under way, or is no such pass, opens none. *)
LEMMA MoveOpensNoPass ==
    ASSUME TypeOK, NEW t \in Threads, NEW l, pc' = [pc EXCEPT ![t] = l],
           pc[t] # "idle" \/ t \notin Pendings, UNCHANGED isProcessing
    PROVE  OpensNoPass
BY PassThreads DEF TypeOK, OpensNoPass

LEMMA BeginEditOpensNoPass ==
    ASSUME TypeOK, NEW t \in Requests, NEW j, NEW e, BeginEdit(t, j, e)
    PROVE  OpensNoPass
BY MoveOpensNoPass, PassThreads, JobQueueAssumption DEF BeginEdit, Goto

LEMMA BeginProcessMoves ==
    ASSUME NEW t, NEW j, BeginProcess(t, j)
    PROVE  \E l : pc' = [pc EXCEPT ![t] = l]
BY DEF BeginProcess, Return, Goto

LEMMA RequestOpensNoPass ==
    ASSUME TypeOK, NEW t \in Requests, RequestStep(t)
    PROVE  OpensNoPass
<1>0. t \in Threads /\ t \notin Pendings
  BY PassThreads, JobQueueAssumption
<1>1. ASSUME NEW j \in Jobs, UpdateJob(t, j) \/ CancelJob(t, j) \/ RetryJob(t, j) PROVE OpensNoPass
  <2>1. PICK e : BeginEdit(t, j, e)
    BY <1>1, Zenon DEF UpdateJob, CancelJob, RetryJob
  <2> QED
    BY <2>1, BeginEditOpensNoPass
<1>2. ASSUME NEW j \in Jobs, ExecuteJob(t, j) PROVE OpensNoPass
  <2>1. PICK l : pc' = [pc EXCEPT ![t] = l]
    BY <1>2, BeginProcessMoves DEF ExecuteJob
  <2> QED
    BY <1>0, <1>2, <2>1, MoveOpensNoPass DEF ExecuteJob
<1>3. CASE SaveEdit(t)
  BY <1>0, <1>3, MoveOpensNoPass DEF SaveEdit, Return, Goto
<1> QED
  BY <1>1, <1>2, <1>3 DEF RequestStep

LEMMA ProcessOpensNoPass ==
    ASSUME TypeOK, NEW t \in Threads, ProcessStep(t)
    PROVE  OpensNoPass
<1>1. UNCHANGED isProcessing /\ pc[t] # "idle"
  BY DEF ProcessStep, CheckDependencies, SaveStarted, SaveRunning, SaveExecutionSuccess,
         SaveJobSuccess, ProcessorThrows, SaveExecutionFailure, SaveJobFailure
<1>2. PICK l : pc' = [pc EXCEPT ![t] = l]
  BY DEF ProcessStep, CheckDependencies, SaveStarted, SaveRunning, SaveExecutionSuccess,
         SaveJobSuccess, ProcessorThrows, SaveExecutionFailure, SaveJobFailure, Return, Goto
<1> QED
  BY <1>1, <1>2, MoveOpensNoPass

LEMMA FaultOpensNoPass ==
    ASSUME TypeOK, NEW t \in Threads, DatabaseFault(t)
    PROVE  OpensNoPass
<1>1. PICK l : pc' = [pc EXCEPT ![t] = l]
  BY DEF DatabaseFault, Return, Goto
<1> QED
  BY <1>1, MoveOpensNoPass DEF DatabaseFault

LEMMA NextJobOpensNoPass ==
    ASSUME TypeOK, NEW t \in Threads, NextJob(t)
    PROVE  OpensNoPass
<1>1. (\E l : pc' = [pc EXCEPT ![t] = l]) \/ UNCHANGED pc
  BY BeginProcessMoves DEF NextJob, local
<1>2. UNCHANGED isProcessing /\ pc[t] # "idle"
  BY DEF NextJob
<1> QED
  BY <1>1, <1>2, MoveOpensNoPass DEF OpensNoPass

-----------------------------------------------------------------------------
(* The steps that set or clear a flag. *)

LEMMA PendingPassBegins ==
    ASSUME PassInvariant, TypeOK', NEW t \in Pendings, ProcessPendingJobs(t)
    PROVE  PassInvariant'
<1>1. /\ ~isProcessing[Host[t]] /\ isProcessing' = [isProcessing EXCEPT ![Host[t]] = TRUE]
      /\ pc' = [pc EXCEPT ![t] = "next"]
  BY DEF ProcessPendingJobs, BeginPass, Goto
<1>2. \A u \in Pendings : u \in Threads /\ Host[u] \in Servers
  BY PassThreads, JobQueueAssumption
<1>3. \A u \in Pendings : Host[u] = Host[t] => pc[u] = "idle"
  BY <1>1 DEF PassInvariant, FlagIsSet
<1>4. FlagIsSet'
  BY <1>1, <1>2 DEF PassInvariant, FlagIsSet, TypeOK
<1>5. OnePendingPass'
  BY <1>1, <1>2, <1>3 DEF PassInvariant, OnePendingPass, TypeOK
<1> QED
  BY <1>4, <1>5 DEF PassInvariant

LEMMA PassEnds ==
    ASSUME PassInvariant, TypeOK', NEW t \in Pendings \cup Retriers, FinishPass(t)
    PROVE  PassInvariant'
<1>1. pc[t] = "next" /\ pc' = [pc EXCEPT ![t] = "idle"] /\ t \in Threads
  BY PassThreads DEF FinishPass, Goto
<1>2. CASE t \notin Pendings
  BY <1>1, <1>2, MoveOpensNoPass, QuietKeepsPasses DEF FinishPass, PassInvariant
<1>3. CASE t \in Pendings
  <2>1. isProcessing' = [isProcessing EXCEPT ![Host[t]] = FALSE]
    BY <1>3 DEF FinishPass
  <2>2. \A u \in Pendings : u \in Threads /\ Host[u] \in Servers
    BY PassThreads, JobQueueAssumption
  <2>3. \A u \in Pendings : u # t /\ Host[u] = Host[t] => pc[u] = "idle"
    BY <1>1, <1>3 DEF PassInvariant, OnePendingPass
  <2>4. FlagIsSet'
    BY <1>1, <2>1, <2>2, <2>3 DEF PassInvariant, FlagIsSet, TypeOK
  <2>5. OnePendingPass'
    BY <1>1, <2>2 DEF PassInvariant, OnePendingPass, TypeOK
  <2> QED
    BY <2>4, <2>5 DEF PassInvariant
<1> QED
  BY <1>2, <1>3

LEMMA CrashClears ==
    ASSUME PassInvariant, TypeOK', NEW s \in Servers, Crash(s)
    PROVE  PassInvariant'
<1>1. /\ isProcessing' = [isProcessing EXCEPT ![s] = FALSE]
      /\ pc' = [t \in Threads |-> IF t \in {u \in Threads : Host[u] = s} THEN "idle" ELSE pc[t]]
  BY DEF Crash
<1>2. \A u \in Pendings : u \in Threads /\ Host[u] \in Servers
  BY PassThreads, JobQueueAssumption
<1>3. FlagIsSet'
  BY <1>1, <1>2 DEF PassInvariant, FlagIsSet, TypeOK
<1>4. OnePendingPass'
  BY <1>1, <1>2 DEF PassInvariant, OnePendingPass, TypeOK
<1> QED
  BY <1>3, <1>4 DEF PassInvariant

LEMMA PassStepKeeps == PassInvariant /\ [Next]_vars => PassInvariant'
<1> SUFFICES ASSUME PassInvariant, [Next]_vars PROVE PassInvariant'
  OBVIOUS
<1>1. TypeOK /\ TypeOK'
  BY TypeStep DEF PassInvariant
<1>2. ASSUME NEW j \in Jobs, CreateJob(j) \/ TimePasses(j) PROVE OpensNoPass
  BY <1>2 DEF CreateJob, TimePasses, local, OpensNoPass
<1>3. ASSUME NEW t \in Requests, RequestStep(t) PROVE OpensNoPass
  BY <1>1, <1>3, RequestOpensNoPass
<1>4. ASSUME NEW t \in Retriers, ProcessRetryableJobs(t) PROVE OpensNoPass
  BY <1>1, <1>4, MoveOpensNoPass, PassThreads, JobQueueAssumption DEF ProcessRetryableJobs, BeginPass, Goto
<1>5. ASSUME NEW t \in Threads, ProcessStep(t) \/ DatabaseFault(t) \/ NextJob(t) PROVE OpensNoPass
  BY <1>1, <1>5, ProcessOpensNoPass, FaultOpensNoPass, NextJobOpensNoPass
<1>6. CASE UNCHANGED vars
  BY <1>6 DEF vars, local, OpensNoPass, PassInvariant, FlagIsSet, OnePendingPass, TypeOK, table
<1> QED
  BY <1>1, <1>2, <1>3, <1>4, <1>5, <1>6, QuietKeepsPasses, PendingPassBegins, PassEnds, CrashClears,
     PassThreads DEF Next, PassStep

(* Whatever jobs throw, whichever database calls fail and however often the  *)
(* servers crash, two crons of one server never walk the pending jobs at a   *)
(* time: processPendingJobs tests and sets isProcessing between two awaits.  *)
THEOREM PassesExclude == Spec => []OnePendingPass
<1>1. Init => PassInvariant
  <2>1. Init => TypeOK
    BY NoRowType DEF Init, TypeOK, Labels
  <2>2. Init => FlagIsSet /\ OnePendingPass
    BY PassThreads DEF Init, FlagIsSet, OnePendingPass
  <2> QED
    BY <2>1, <2>2 DEF PassInvariant
<1>2. PassInvariant => OnePendingPass
  BY DEF PassInvariant
<1> QED
  BY <1>1, <1>2, PassStepKeeps, PTL DEF Spec
=============================================================================
