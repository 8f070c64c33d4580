----------------------------- MODULE MCJobQueue -----------------------------
(* Small instances of JobQueue and JobQueueLifecycle for TLC. *)
EXTENDS JobQueueLifecycle

CONSTANTS j1, j2, j3, gone, s1, p1, p2, r1, q1

plain ==
    [maxRetries |-> 1, dependencies |-> {}, timeout |-> FALSE,
     isRecurring |-> FALSE, cron |-> FALSE, priority |-> 0]
afterFirst == [plain EXCEPT !.dependencies = {j1}]
recurring  == [plain EXCEPT !.isRecurring = TRUE, !.cron = TRUE]

MixedSettings  == {plain, [afterFirst EXCEPT !.timeout = TRUE, !.maxRetries = 0], recurring}
RaceSettings   == {plain, [plain EXCEPT !.dependencies = {j1, gone}, !.maxRetries = 0]}
UrgentSettings == {plain, [afterFirst EXCEPT !.priority = 3]}

(* Every thread on one server. *)
OneHost == [t \in Threads |-> s1]
=============================================================================
