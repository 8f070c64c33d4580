------------------------- MODULE JobQueueLifecycle --------------------------
(* JobQueue seen through the promises of JobLifecycle.                       *)
EXTENDS JobQueue

CountSettled(j, S) ==
    Cardinality({i \in 1 .. Len(executions) :
                    executions[i].jobQueueId = j /\ Settled(i, S)})

Lifecycle == INSTANCE JobLifecycle WITH
    status      <- [j \in Jobs |-> jobQueue[j].status],
    completions <- [j \in Jobs |-> CountSettled(j, {"COMPLETED"})],
    failures    <- [j \in Jobs |-> CountSettled(j, {"FAILED", "TIMEOUT"})]

(* When one request at a time is served and no cron runs beside it, the queue   *)
(* implements the lifecycle: no status is skipped, no outcome lacks its         *)
(* execution, COMPLETED and CANCELLED are final.                                *)
ImplementsLifecycle == Lifecycle!Spec
=============================================================================
