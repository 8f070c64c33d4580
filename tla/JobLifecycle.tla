---------------------------- MODULE JobLifecycle ----------------------------
(* What the job queue promises of one job: the life it goes through, and that *)
(* every outcome it shows was earned by one execution.                        *)
EXTENDS Naturals

CONSTANT Jobs

VARIABLES
    status,       \* the job's status as clients see it
    completions,  \* executions of the job that ended well
    failures      \* executions of the job that ended badly

vars == <<status, completions, failures>>

Init ==
    /\ status = [j \in Jobs |-> "ABSENT"]
    /\ completions = [j \in Jobs |-> 0]
    /\ failures = [j \in Jobs |-> 0]

Move(j, from, to) ==
    status[j] \in from /\ status' = [status EXCEPT ![j] = to]

Submit(j) == Move(j, {"ABSENT"}, "PENDING") /\ UNCHANGED <<completions, failures>>

Start(j) == Move(j, {"PENDING", "RETRYING"}, "RUNNING") /\ UNCHANGED <<completions, failures>>

(* A recurring job that ran is pending again, any other is completed. *)
Succeed(j) ==
    /\ Move(j, {"RUNNING"}, "COMPLETED") \/ Move(j, {"RUNNING"}, "PENDING")
    /\ completions' = [completions EXCEPT ![j] = @ + 1]
    /\ UNCHANGED failures

Fail(j) ==
    /\ Move(j, {"RUNNING"}, "RETRYING") \/ Move(j, {"RUNNING"}, "FAILED")
    /\ failures' = [failures EXCEPT ![j] = @ + 1]
    /\ UNCHANGED completions

Retry(j) == Move(j, {"FAILED"}, "RETRYING") /\ UNCHANGED <<completions, failures>>

(* COMPLETED and CANCELLED are final, and a cancelled job no longer runs. *)
Cancel(j) ==
    /\ Move(j, {"PENDING", "RETRYING", "FAILED"}, "CANCELLED")
    /\ UNCHANGED <<completions, failures>>

Next ==
    \E j \in Jobs : \/ Submit(j) \/ Start(j) \/ Succeed(j) \/ Fail(j)
                    \/ Retry(j) \/ Cancel(j)

Spec == Init /\ [][Next]_vars
=============================================================================
