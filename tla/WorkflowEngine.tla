--------------------------- MODULE WorkflowEngine ---------------------------
(***************************************************************************)
(* The workflow engine (src/src/workflows): instances of a definition, and *)
(* the trail of the moves that clients ask for.  Clients use the engine    *)
(* directly; the services that attach a workflow to their own rows         *)
(* (timesheets, leave, equipment) call it inside their handlers and        *)
(* swallow what it throws.                                                 *)
(*                                                                         *)
(* A handler saves the whole instance it has read some awaits before.      *)
(* wpc[t] names the await of the engine that handler t stands at; a call   *)
(* that a service makes ends in "returned" or "threw".                     *)
(*                                                                         *)
(* No row of workflow_approvals ever comes to be, for the reasons given at *)
(* CreateInitialApprovals and SaveMove: processApproval finds none.        *)
(***************************************************************************)
EXTENDS Integers, Sequences

CONSTANTS
    Entities,           \* rows of the services that workflows are attached to
    NoEntity,
    Clients,            \* requests to the engine's own endpoints
    Officers,           \* requests of the services that call the engine
    MaxInstances,       \* bound: instances ever started
    MaxMoves,           \* bound: moves ever logged for an instance
    MaxFaults,          \* bound: database calls that fail and crashes of the server
    States, NoState,
    Keys, StartState,   \* StartState[k]: the initial state of the definition k
    Moves,              \* its transitions, [from, name, to]
    Conditional,        \* those with conditions on the instance's data
    FinalStates,
    WithApprovals       \* those that ask for approvals

Handlers == Clients \cup Officers
Instances == 1 .. MaxInstances
Names == {m.name : m \in Moves}

WorkflowStatus == {"NONE", "ACTIVE", "COMPLETED", "CANCELLED"}
WorkflowInstance ==
    [entity: Entities \cup {NoEntity}, state: States \cup {NoState}, status: WorkflowStatus]

ASSUME WorkflowAssumption ==
    /\ NoEntity \notin Entities /\ NoState \notin States
    /\ Clients \cap Officers = {}
    /\ MaxInstances \in Nat /\ MaxMoves \in Nat /\ MaxFaults \in Nat
    /\ StartState \in [Keys -> States]
    /\ \A m \in Moves : m.from \in States /\ m.to \in States
    /\ Conditional \subseteq Moves
    /\ WithApprovals \subseteq States

VARIABLES
    instances,      \* rows of workflow_instances
    trail,          \* rows of workflow_transitions: the moves logged for an instance
    wpc,            \* the await of the engine a handler stands at
    call,           \* what a handler was asked for and the row it has read
    beside,         \* history: instances started beside another start for their entity
    faults

engineVars == <<instances, trail, wpc, call, beside, faults>>

NoInstance == [entity |-> NoEntity, state |-> NoState, status |-> "NONE"]

(* loaded: how many rows of the trail were read with the instance. *)
NoCall == [id |-> 0, row |-> NoInstance, loaded |-> 0, to |-> NoState]

EngineInit ==
    /\ instances = [i \in Instances |-> NoInstance]
    /\ trail = [i \in Instances |-> <<>>]
    /\ wpc = [t \in Handlers |-> "idle"]
    /\ call = [t \in Handlers |-> NoCall]
    /\ beside = {}
    /\ faults = 0

ActiveFor(e) == {i \in Instances : instances[i].entity = e /\ instances[i].status = "ACTIVE"}

Goto(t, label, c) ==
    /\ wpc' = [wpc EXCEPT ![t] = label]
    /\ call' = [call EXCEPT ![t] = c]

(* A client's request is over; the service that called goes on with its handler. *)
Finish(t, outcome) ==
    IF t \in Clients THEN Goto(t, "idle", NoCall)
    ELSE Goto(t, outcome, [NoCall EXCEPT !.id = call[t].id])

(* repository.save of the instance handler t holds, changed to row. *)
SaveInstance(t, row) == instances' = [instances EXCEPT ![call[t].id] = row]

-----------------------------------------------------------------------------
(* startWorkflow *)

(* Mutant: no look at the workflows that exist. *)
FindByEntityUnchecked(t, e, k) ==
    /\ Goto(t, "insert", [NoCall EXCEPT !.row = [entity |-> e, state |-> StartState[k], status |-> "ACTIVE"]])
    /\ UNCHANGED <<instances, trail, beside, faults>>

(* The definition is read and never changes; then findByEntity. *)
FindByEntity(t, e, k) ==
    /\ IF ActiveFor(e) # {} THEN Finish(t, "threw")
       ELSE Goto(t, "insert", [NoCall EXCEPT
              !.row = [entity |-> e, state |-> StartState[k], status |-> "ACTIVE"]])
    /\ UNCHANGED <<instances, trail, beside, faults>>

(* A state with approvals asks the new instance for its definition, which was not *)
(* loaded with it: the call throws, and the instance stays.                        *)
CreateInitialApprovals(state) == IF state \in WithApprovals THEN "threw" ELSE "returned"

InsertInstance(t) ==
    \E i \in Instances :
        LET row == call[t].row IN
        /\ wpc[t] = "insert"
        /\ instances[i].status = "NONE" /\ \A j \in Instances : j < i => instances[j].status # "NONE"
        /\ instances' = [instances EXCEPT ![i] = row]
        /\ beside' = IF \E u \in Handlers \ {t} : wpc[u] = "insert" /\ call[u].row.entity = row.entity
                     THEN beside \cup {i} ELSE beside
        /\ IF t \in Clients THEN Goto(t, "idle", NoCall)
           ELSE Goto(t, CreateInitialApprovals(row.state), [NoCall EXCEPT !.id = i])
        /\ UNCHANGED <<trail, faults>>

-----------------------------------------------------------------------------
(* transitionWorkflow *)

Leading(i, name) == {m \in Moves : m.from = instances[i].state /\ m.name = name}

FindForTransition(t, i, name) ==
    /\ \/ /\ \/ instances[i].status # "ACTIVE"
             \/ Leading(i, name) = {}
             \/ Leading(i, name) \cap Conditional # {}
          /\ Finish(t, "threw")
       \/ /\ instances[i].status = "ACTIVE"
          /\ \E m \in Leading(i, name) :
               Goto(t, "record", [id |-> i, row |-> instances[i], loaded |-> Len(trail[i]), to |-> m.to])
    /\ UNCHANGED <<instances, trail, beside, faults>>

(* Mutant: the record is forgotten. *)
RecordTransitionForgotten(t) ==
    /\ wpc[t] = "record"
    /\ Goto(t, "saveMove", call[t])
    /\ UNCHANGED <<instances, trail, beside, faults>>

RecordTransition(t) ==
    LET c == call[t] IN
    /\ wpc[t] = "record"
    /\ Len(trail[c.id]) < MaxMoves
    /\ trail' = [trail EXCEPT ![c.id] = Append(@, <<c.row.state, c.to>>)]
    /\ Goto(t, "saveMove", c)
    /\ UNCHANGED <<instances, beside, faults>>

(* The instance was read with its trail, so its save takes a row of the trail that *)
(* is not among those read for removed, and sets its workflow_instance_id to null:  *)
(* the column refuses it, and the save throws.  The handler has just logged such a  *)
(* row itself; what comes after the save is never reached.                          *)
SaveMove(t) ==
    LET c == call[t]
        row == [c.row EXCEPT !.state = c.to,
                             !.status = IF c.to \in FinalStates THEN "COMPLETED" ELSE @]
    IN /\ wpc[t] = "saveMove"
       /\ IF Len(trail[c.id]) = c.loaded
          THEN SaveInstance(t, row) /\ Finish(t, "returned")
          ELSE UNCHANGED instances /\ Finish(t, "threw")
       /\ UNCHANGED <<trail, beside, faults>>

-----------------------------------------------------------------------------
(* cancelWorkflowInstance *)

FindForCancel(t, i) ==
    /\ IF instances[i].status # "ACTIVE" THEN Finish(t, "threw")
       ELSE Goto(t, "saveCancel", [NoCall EXCEPT !.id = i, !.row = instances[i]])
    /\ UNCHANGED <<instances, trail, beside, faults>>

(* Mutant: a status the enumeration does not have. *)
SaveCancelMisspelled(t) ==
    /\ wpc[t] = "saveCancel"
    /\ SaveInstance(t, [call[t].row EXCEPT !.status = "CANCELED"])
    /\ Finish(t, "returned")
    /\ UNCHANGED <<trail, beside, faults>>

SaveCancel(t) ==
    /\ wpc[t] = "saveCancel"
    /\ SaveInstance(t, [call[t].row EXCEPT !.status = "CANCELLED"])
    /\ Finish(t, "returned")
    /\ UNCHANGED <<trail, beside, faults>>

-----------------------------------------------------------------------------
EngineStep(t) ==
    InsertInstance(t) \/ RecordTransition(t) \/ SaveMove(t) \/ SaveCancel(t)

Request(t) ==
    /\ wpc[t] = "idle"
    /\ \/ \E e \in Entities, k \in Keys : FindByEntity(t, e, k)
       \/ \E i \in Instances, name \in Names : FindForTransition(t, i, name)
       \/ \E i \in Instances : FindForCancel(t, i)

(* An await of the engine rejects. *)
EngineFault(t) ==
    /\ wpc[t] \notin {"idle", "returned", "threw"}
    /\ faults < MaxFaults
    /\ faults' = faults + 1
    /\ Finish(t, "threw")
    /\ UNCHANGED <<instances, trail, beside>>

(* A service goes on when its call of the engine is over, whatever came of it. *)
Resume(t) ==
    /\ wpc[t] \in {"idle", "returned", "threw"}
    /\ Goto(t, "idle", NoCall)
    /\ UNCHANGED <<instances, trail, beside, faults>>

(* Or an await of its own rejects, and its handler ends. *)
ServiceFault(t) ==
    /\ wpc[t] \in {"idle", "returned", "threw"}
    /\ faults < MaxFaults
    /\ faults' = faults + 1
    /\ Goto(t, "idle", NoCall)
    /\ UNCHANGED <<instances, trail, beside>>

(* The server stops: all handlers are gone, the rows stay. *)
EngineCrash ==
    /\ faults < MaxFaults
    /\ faults' = faults + 1
    /\ wpc' = [t \in Handlers |-> "idle"]
    /\ call' = [t \in Handlers |-> NoCall]
    /\ UNCHANGED <<instances, trail, beside>>

EngineNext ==
    \/ \E t \in Clients : Request(t) \/ EngineStep(t) \/ EngineFault(t)
    \/ EngineCrash

EngineSpec == EngineInit /\ [][EngineNext]_engineVars

-----------------------------------------------------------------------------
(* Properties. *)

EngineLabels ==
    {"idle", "returned", "threw", "insert", "record", "saveMove", "saveCancel"}
Call ==
    [id: 0 .. MaxInstances, row: WorkflowInstance, loaded: Nat, to: States \cup {NoState}]

(* The tables and the handlers' local entities keep the shape of their columns. *)
EngineTypeOK ==
    /\ instances \in [Instances -> WorkflowInstance]
    /\ trail \in [Instances -> Seq(States \X States)]
    /\ wpc \in [Handlers -> EngineLabels]
    /\ call \in [Handlers -> Call]
    /\ beside \subseteq Instances
    /\ faults \in 0 .. MaxFaults

(* An entity has two active workflows only when two starts overlapped; crashes,  *)
(* failures, lost errors and stale saves do not bring it about.                  *)
OneActivePerEntity ==
    \A i, j \in Instances :
        i # j /\ instances[i].status = "ACTIVE" /\ instances[j].status = "ACTIVE"
              /\ instances[i].entity = instances[j].entity
        => {i, j} \cap beside # {}

Logged(i) == {trail[i][n] : n \in DOMAIN trail[i]}

(* The trail accounts for the state an instance is in: it is a state in which a *)
(* workflow starts, or one that a logged move leads to.                         *)
TrailLeadsToState ==
    \A i \in Instances :
        instances[i].status # "NONE" =>
            instances[i].state \in {StartState[k] : k \in Keys} \cup {m[2] : m \in Logged(i)}

(* What may become of an instance in one step. *)
Follows(i, old, new) ==
    \/ new = old
    \/ old.status = "NONE" /\ new.status = "ACTIVE" /\ \E k \in Keys : new.state = StartState[k]
    \/ /\ old.status = "ACTIVE"
       /\ \/ new = [old EXCEPT !.status = "CANCELLED"]
          \/ \E m \in Moves :
               /\ m.from = old.state /\ <<m.from, m.to>> \in Logged(i)
               /\ new = [old EXCEPT !.state = m.to,
                                    !.status = IF m.to \in FinalStates THEN "COMPLETED" ELSE @]

(* An instance starts where its definition says, moves only while it is active and *)
(* along a transition that the trail has logged by then, and is completed by        *)
(* reaching a final state; completed or cancelled it neither moves nor comes back,  *)
(* whatever handlers with older readings of it save.                                *)
InstancesFollowDefinition == \A i \in Instances : Follows(i, instances[i], instances'[i])

(* workflow-transition.entity.ts:25-26: the trail tracks the state changes.  Without *)
(* a failure, and with no handler under way, an instance stands where the last move  *)
(* of its trail led.                                                                 *)
TrailTracksMoves ==
    faults = 0 /\ (\A t \in Handlers : wpc[t] = "idle") =>
        \A i \in Instances :
            trail[i] # <<>> => instances[i].state = trail[i][Len(trail[i])][2]
=============================================================================
