--------------------------- MODULE TaskDependencies ---------------------------
(***************************************************************************)
(* Tasks and what they wait for (src/src/tasks/services/task.service.ts):  *)
(* a hard dependency on a task that is not completed is to keep a task     *)
(* BLOCKED.  Nothing is locked: every handler that writes a task or a      *)
(* dependency afterwards looks again and repairs the status, a query, a    *)
(* read and a save later.  Parents, assignees and dates are left out.      *)
(***************************************************************************)
EXTENDS Integers, FiniteSets, Sequences

CONSTANTS
    MaxTasks,        \* bound: tasks ever made
    Planners,        \* requests under way at a time
    MaxTaskFaults    \* bound: database calls that fail, requests cut short by a crash

TaskIds == 1 .. MaxTasks
\* IN_PROGRESS, IN_REVIEW and CANCELLED are treated like TODO by all of this
TaskStatus == {"TODO", "BLOCKED", "COMPLETED"}
TaskDependency == [dependent : TaskIds, dependsOn : TaskIds, isHard : BOOLEAN]

ASSUME TaskAssumption == MaxTasks \in Nat /\ MaxTaskFaults \in Nat

VARIABLES
    tasks,          \* rows of tasks: a status, or "NONE" before and "DELETED" after
    dependencies,   \* rows of task_dependencies
    tpc,            \* planner -> the await it stands at
    plan,           \* planner -> the request it carries out
    lapsed,         \* history: dependencies whose task nobody looked at since they came to bind
    taskFaults

taskVars == <<tasks, dependencies, tpc, plan, lapsed, taskFaults>>

NoPlan == [id |-> 0, status |-> "TODO", blocked |-> FALSE,
           wanted |-> {}, adding |-> {}, recurring |-> FALSE]
Plan(i, s) == [NoPlan EXCEPT !.id = i, !.status = s]
Live == {i \in TaskIds : tasks[i] \in TaskStatus}
Needs(i) == {d \in dependencies : d.dependent = i}
NeededBy(i) == {d \in dependencies : d.dependsOn = i}
Unmet(d) == d.isHard /\ tasks[d.dependsOn] # "COMPLETED"
Pair(d, e) == d.dependent = e.dependent /\ d.dependsOn = e.dependsOn

TaskInit ==
    /\ tasks = [i \in TaskIds |-> "NONE"]
    /\ dependencies = {}
    /\ tpc = [p \in Planners |-> "idle"]
    /\ plan = [p \in Planners |-> NoPlan]
    /\ lapsed = {}
    /\ taskFaults = 0

TaskAt(p, label, work) ==
    /\ tpc' = [tpc EXCEPT ![p] = label]
    /\ plan' = [plan EXCEPT ![p] = work]
TaskDone(p) == TaskAt(p, "idle", NoPlan)
TablesStay == UNCHANGED <<tasks, dependencies, lapsed, taskFaults>>
BeginTask(p, label, work) == tpc[p] = "idle" /\ TaskAt(p, label, work) /\ TablesStay

\* TypeORM's save of a whole task: a row that was deleted meanwhile is inserted again
SaveTask(i, status) ==
    /\ tasks' = [tasks EXCEPT ![i] = status]
    /\ lapsed' = lapsed \cup IF tasks[i] = "COMPLETED" /\ status # "COMPLETED" THEN NeededBy(i) ELSE {}

(* Where a request goes on after a check: its next dependency, the date of a  *)
(* recurring task's next occurrence, or its answer.                           *)
GoOn(p, work) ==
    IF work.wanted # {} THEN TaskAt(p, "find dependency", work)
    ELSE IF work.recurring THEN TaskAt(p, "save occurrence", work)
    ELSE TaskDone(p)

-----------------------------------------------------------------------------
(* createTask saves the task before it asks for its dependencies.  With a parent *)
(* it always refuses, since the parent is found in the tree below itself.        *)
(* createFromTemplate is the case without dependencies.                          *)
CreateTask(p) ==
    \E i \in TaskIds, status \in TaskStatus, recurring, isHard \in BOOLEAN, targets \in SUBSET Live :
        /\ tpc[p] = "idle"
        /\ tasks[i] = "NONE" /\ \A j \in TaskIds : j < i => tasks[j] # "NONE"
        /\ tasks' = [tasks EXCEPT ![i] = status]
        /\ GoOn(p, [Plan(i, IF recurring THEN status ELSE "TODO") EXCEPT
               !.recurring = recurring,
               !.wanted = {[dependent |-> i, dependsOn |-> j, isHard |-> isHard] : j \in targets}])
        /\ UNCHANGED <<dependencies, lapsed, taskFaults>>

UpdateTask(p) ==
    \E i \in Live, status \in TaskStatus : BeginTask(p, "save", Plan(i, status))

(* Mutant: nobody looks at the dependencies after the save. *)
SaveUpdateUnchecked(p) ==
    /\ tpc[p] = "save"
    /\ SaveTask(plan[p].id, plan[p].status)
    /\ TaskDone(p)
    /\ UNCHANGED <<dependencies, taskFaults>>

SaveUpdate(p) ==
    /\ tpc[p] = "save"
    /\ SaveTask(plan[p].id, plan[p].status)
    /\ TaskAt(p, "find blocking", Plan(plan[p].id, "TODO"))
    /\ UNCHANGED <<dependencies, taskFaults>>

AddDependency(p) ==
    \E i, j \in Live, isHard \in BOOLEAN :
        BeginTask(p, "find dependency",
                  [Plan(i, "TODO") EXCEPT !.wanted = {[dependent |-> i, dependsOn |-> j, isHard |-> isHard]}])

(* Both tasks exist, differ, and neither depends on the other directly; longer *)
(* circles are not looked for.                                                 *)
Acceptable(d) ==
    /\ d.dependent # d.dependsOn
    /\ {d.dependent, d.dependsOn} \subseteq Live
    /\ ~\E e \in dependencies : Pair(d, e)
    /\ ~\E e \in dependencies : e.dependent = d.dependsOn /\ e.dependsOn = d.dependent

FindDependency(p) ==
    /\ tpc[p] = "find dependency"
    /\ \E d \in plan[p].wanted :
         IF Acceptable(d) THEN TaskAt(p, "insert dependency", [plan[p] EXCEPT !.wanted = @ \ {d}, !.adding = {d}])
         ELSE TaskDone(p)
    /\ TablesStay

\* the unique and the foreign keys refuse what another request made impossible meanwhile
InsertDependency(p) ==
    /\ tpc[p] = "insert dependency"
    /\ \E d \in plan[p].adding :
         IF {d.dependent, d.dependsOn} \subseteq Live /\ ~\E e \in dependencies : Pair(d, e)
         THEN /\ dependencies' = dependencies \cup {d}
              /\ lapsed' = lapsed \cup
                   IF \E q \in Planners \ {p} : plan[q].id = d.dependent /\ tpc[q] \in {"read", "save status"}
                   THEN {d} ELSE {}
              /\ TaskAt(p, "find blocking", [plan[p] EXCEPT !.adding = {}])
         ELSE TaskDone(p) /\ UNCHANGED <<dependencies, lapsed>>
    /\ UNCHANGED <<tasks, taskFaults>>

RemoveDependency(p) ==
    \E d \in dependencies :
        /\ tpc[p] = "idle"
        /\ dependencies' = dependencies \ {d}
        /\ lapsed' = lapsed \ {d}
        /\ TaskAt(p, "find blocking", Plan(d.dependent, "TODO"))
        /\ UNCHANGED <<tasks, taskFaults>>

\* checkBlockingDependencies: three awaits
FindBlocking(p) ==
    /\ tpc[p] = "find blocking"
    /\ TaskAt(p, "read", [plan[p] EXCEPT !.blocked = \E d \in Needs(plan[p].id) : Unmet(d)])
    /\ TablesStay

ReadTask(p) ==
    LET status == tasks[plan[p].id] IN
    /\ tpc[p] = "read"
    /\ IF /\ status \in TaskStatus
          /\ plan[p].blocked # (status = "BLOCKED")
       THEN TaskAt(p, "save status", plan[p])
       ELSE GoOn(p, [plan[p] EXCEPT !.blocked = FALSE])
    /\ TablesStay

SaveStatus(p) ==
    /\ tpc[p] = "save status"
    /\ SaveTask(plan[p].id, IF plan[p].blocked THEN "BLOCKED" ELSE "TODO")
    /\ GoOn(p, [plan[p] EXCEPT !.blocked = FALSE])
    /\ UNCHANGED <<dependencies, taskFaults>>

(* calculateNextOccurrence saves the task as createTask made it: the status that *)
(* its dependencies have given it since is overwritten.                          *)
SaveOccurrence(p) ==
    /\ tpc[p] = "save occurrence"
    /\ tasks' = [tasks EXCEPT ![plan[p].id] = plan[p].status]
    /\ lapsed' = lapsed \cup Needs(plan[p].id)
                 \cup IF tasks[plan[p].id] = "COMPLETED" THEN NeededBy(plan[p].id) ELSE {}
    /\ TaskDone(p)
    /\ UNCHANGED <<dependencies, taskFaults>>

\* the foreign keys take the task's dependencies with it
DeleteTask(p) ==
    \E i \in Live :
        /\ tpc[p] = "idle"
        /\ tasks' = [tasks EXCEPT ![i] = "DELETED"]
        /\ dependencies' = dependencies \ (Needs(i) \cup NeededBy(i))
        /\ lapsed' = lapsed \cap dependencies'
        /\ UNCHANGED <<tpc, plan, taskFaults>>

TaskFault(p) ==
    /\ tpc[p] # "idle"
    /\ taskFaults < MaxTaskFaults
    /\ taskFaults' = taskFaults + 1
    /\ lapsed' = lapsed \cup Needs(plan[p].id)
    /\ TaskDone(p)
    /\ UNCHANGED <<tasks, dependencies>>

TaskStep(p) ==
    \/ CreateTask(p) \/ UpdateTask(p) \/ SaveUpdate(p)
    \/ AddDependency(p) \/ FindDependency(p) \/ InsertDependency(p)
    \/ RemoveDependency(p) \/ FindBlocking(p) \/ ReadTask(p) \/ SaveStatus(p) \/ SaveOccurrence(p)
    \/ DeleteTask(p) \/ TaskFault(p)
TaskNext == \E p \in Planners : TaskStep(p)

TaskSpec == TaskInit /\ [][TaskNext]_taskVars

-----------------------------------------------------------------------------
TaskTypeOK ==
    /\ \A i \in TaskIds : tasks[i] \in TaskStatus \cup {"NONE", "DELETED"}
    /\ \A d \in dependencies : d \in TaskDependency
    /\ \A p \in Planners : plan[p].id \in 0 .. MaxTasks
    /\ lapsed \subseteq dependencies
    /\ taskFaults \in 0 .. MaxTaskFaults

(* Once nobody is at work on a task, a hard dependency that is not met keeps it  *)
(* BLOCKED, whichever requests crossed each other - except where no check        *)
(* followed: the prerequisite was reopened, the request failed before its check, *)
(* a stale save of a recurring task or of an overtaken check came last.          *)
UnmetDependenciesBlock ==
    \A d \in dependencies \ lapsed :
        /\ Unmet(d)
        /\ \A p \in Planners : plan[p].id # d.dependent
        => tasks[d.dependent] = "BLOCKED"
===============================================================================
