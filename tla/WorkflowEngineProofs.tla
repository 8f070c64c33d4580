------------------------ MODULE WorkflowEngineProofs ------------------------
(***************************************************************************)
(* The workflow engine, for any set of definitions, handlers and bounds:   *)
(* its type invariant, OneActivePerEntity, TrailLeadsToState,              *)
(* InstancesFollowDefinition, and that no move is ever stored.             *)
(*                                                                         *)
(* The lemmas about the actions are stated for any handler, so that the    *)
(* services that call the engine can use them too.                         *)
(***************************************************************************)
EXTENDS WorkflowEngine, TLAPS

InitialStates == {StartState[k] : k \in Keys}

RestLabels == {"idle", "returned", "threw"}
HoldingLabels == {"record", "saveMove", "saveCancel"}
MovingLabels == {"record", "saveMove"}

(* What is left of an instance once it has started: its cancellation. *)
StaysOrIsCancelled(old, new) == new = old \/ new = [old EXCEPT !.status = "CANCELLED"]

(* A handler about to insert for an entity: whatever became active for it since *)
(* the look is marked.                                                          *)
InsertOK(t) ==
    wpc[t] = "insert" =>
        /\ call[t].row.entity \in Entities
        /\ call[t].row.state \in InitialStates
        /\ call[t].row.status = "ACTIVE"
        /\ \A i \in Instances :
             instances[i].status = "ACTIVE" /\ instances[i].entity = call[t].row.entity
                => i \in beside

(* A handler holds an instance that was active when it was read, and that has at *)
(* most been cancelled since.                                                    *)
HoldOK(t) ==
    LET c == call[t] IN
    wpc[t] \in HoldingLabels =>
        /\ c.id \in Instances
        /\ c.row.status = "ACTIVE" /\ c.row.state \in InitialStates
        /\ StaysOrIsCancelled(c.row, instances[c.id])

(* A handler that moves it has read no more of the trail than there is, and less *)
(* when it comes to the save: its own record is new.                             *)
MoveOK(t) ==
    LET c == call[t] IN
    /\ wpc[t] \in MovingLabels => c.to \in States /\ c.loaded <= Len(trail[c.id])
    /\ wpc[t] = "saveMove" => c.loaded < Len(trail[c.id])

HandlerOK(t) == InsertOK(t) /\ HoldOK(t) /\ MoveOK(t)

(* No instance has left the state it started in. *)
AtStart ==
    \A i \in Instances :
        instances[i].status # "NONE" =>
            instances[i].state \in InitialStates /\ instances[i].status \in {"ACTIVE", "CANCELLED"}

EngineInv ==
    /\ EngineTypeOK
    /\ \A t \in Handlers : HandlerOK(t)
    /\ OneActivePerEntity
    /\ AtStart

-----------------------------------------------------------------------------
(* What a step leaves alone. *)

OthersStand(t) == \A u \in Handlers \ {t} : wpc'[u] = wpc[u] /\ call'[u] = call[u]

(* The trail and the marks grow, and an instance is at most cancelled. *)
TablesGrow ==
    /\ \A i \in Instances : Len(trail[i]) <= Len(trail'[i])
    /\ beside \subseteq beside'
    /\ \A i \in Instances :
         instances[i].status # "NONE" => StaysOrIsCancelled(instances[i], instances'[i])

(* No unmarked instance becomes active. *)
NoNewActive ==
    \A i \in Instances \ beside' :
        instances'[i].status = "ACTIVE" =>
            instances[i].status = "ACTIVE" /\ instances'[i].entity = instances[i].entity

HandlersTyped == wpc' \in [Handlers -> EngineLabels] /\ call' \in [Handlers -> Call]

-----------------------------------------------------------------------------
(* The helpers of the actions. *)

LEMMA GotoFacts ==
    ASSUME NEW t \in Handlers, NEW label \in EngineLabels, NEW c \in Call,
           EngineTypeOK, Goto(t, label, c)
    PROVE  HandlersTyped /\ wpc'[t] = label /\ call'[t] = c /\ OthersStand(t)
BY DEF EngineTypeOK, Goto, HandlersTyped, OthersStand

LEMMA NoCallTyped == NoCall \in Call /\ NoInstance \in WorkflowInstance
<1>1. NoInstance \in WorkflowInstance
  BY DEF NoInstance, WorkflowInstance, WorkflowStatus
<1>2. 0 \in 0 .. MaxInstances /\ 0 \in Nat
  BY WorkflowAssumption
<1>3. QED
  BY <1>1, <1>2 DEF NoCall, Call

LEMMA FinishFacts ==
    ASSUME NEW t \in Handlers, NEW outcome \in {"returned", "threw"},
           EngineTypeOK, Finish(t, outcome)
    PROVE  HandlersTyped /\ wpc'[t] \in RestLabels /\ OthersStand(t)
<1>1. call[t] \in Call
  BY DEF EngineTypeOK
<1>2. [NoCall EXCEPT !.id = call[t].id] \in Call
  BY <1>1, NoCallTyped DEF Call
<1>3. "idle" \in EngineLabels /\ outcome \in EngineLabels
  BY DEF EngineLabels
<1>4. CASE t \in Clients
  BY <1>3, <1>4, NoCallTyped, GotoFacts DEF Finish, RestLabels
<1>5. CASE t \notin Clients
  BY <1>2, <1>3, <1>5, GotoFacts DEF Finish, RestLabels
<1>6. QED
  BY <1>4, <1>5

(* A handler whose call of the engine is over promises nothing. *)
LEMMA RestingHandlerOK ==
    ASSUME NEW t \in Handlers, wpc'[t] \in RestLabels
    PROVE  HandlerOK(t)'
BY DEF HandlerOK, InsertOK, HoldOK, MoveOK, RestLabels, HoldingLabels, MovingLabels

LEMMA TrailLengths ==
    ASSUME EngineTypeOK, NEW i \in Instances
    PROVE  Len(trail[i]) \in Nat /\ trail[i] \in Seq(States \X States)
BY DEF EngineTypeOK

LEMMA RowsTyped ==
    ASSUME EngineTypeOK
    PROVE  /\ \A i \in Instances : instances[i] \in WorkflowInstance
           /\ \A t \in Handlers : call[t] \in Call /\ call[t].row \in WorkflowInstance
                                  /\ call[t].loaded \in Nat
BY DEF EngineTypeOK, Call

-----------------------------------------------------------------------------
(* A handler that stands keeps its promises. *)

LEMMA HoldKept ==
    ASSUME NEW u \in Handlers, wpc'[u] = wpc[u], call'[u] = call[u],
           EngineTypeOK, HoldOK(u), TablesGrow
    PROVE  HoldOK(u)'
<1> DEFINE c == call[u]
<1> SUFFICES ASSUME wpc[u] \in HoldingLabels
             PROVE  HoldOK(u)'
  BY DEF HoldOK
<1>1. /\ c.id \in Instances /\ c.row.status = "ACTIVE" /\ c.row.state \in InitialStates
      /\ StaysOrIsCancelled(c.row, instances[c.id])
  BY DEF HoldOK
<1>2. c.row \in WorkflowInstance
  BY RowsTyped
<1>3. instances[c.id].status # "NONE"
  BY <1>1, <1>2 DEF StaysOrIsCancelled, WorkflowInstance
<1>4. StaysOrIsCancelled(instances[c.id], instances'[c.id])
  BY <1>1, <1>3 DEF TablesGrow
<1>5. StaysOrIsCancelled(c.row, instances'[c.id])
  BY <1>1, <1>2, <1>4 DEF StaysOrIsCancelled, WorkflowInstance
<1>6. QED
  BY <1>1, <1>5 DEF HoldOK, InitialStates, StaysOrIsCancelled

LEMMA MoveKept ==
    ASSUME NEW u \in Handlers, wpc'[u] = wpc[u], call'[u] = call[u],
           EngineTypeOK, EngineTypeOK', HoldOK(u), MoveOK(u), TablesGrow
    PROVE  MoveOK(u)'
<1> DEFINE c == call[u]
<1>1. CASE wpc[u] \in MovingLabels
  <2>1. c.id \in Instances /\ c.loaded \in Nat
    BY <1>1, RowsTyped DEF HoldOK, HoldingLabels, MovingLabels
  <2>2. Len(trail[c.id]) \in Nat /\ Len(trail'[c.id]) \in Nat
    BY <2>1 DEF EngineTypeOK
  <2>3. Len(trail[c.id]) <= Len(trail'[c.id])
    BY <2>1 DEF TablesGrow
  <2>4. QED
    BY <2>1, <2>2, <2>3 DEF MoveOK
<1>2. CASE wpc[u] \notin MovingLabels
  BY <1>2 DEF MoveOK, MovingLabels
<1>3. QED
  BY <1>1, <1>2

LEMMA InsertKept ==
    ASSUME NEW u \in Handlers, wpc'[u] = wpc[u], call'[u] = call[u],
           InsertOK(u), TablesGrow, NoNewActive
    PROVE  InsertOK(u)'
BY DEF InsertOK, TablesGrow, NoNewActive, InitialStates

LEMMA OneActiveKept ==
    ASSUME OneActivePerEntity, TablesGrow, NoNewActive
    PROVE  OneActivePerEntity'
BY DEF OneActivePerEntity, TablesGrow, NoNewActive

(* A step of handler t that no other handler takes part in. *)
LEMMA HandlerStep ==
    ASSUME NEW t \in Handlers, EngineInv,
           EngineTypeOK', OthersStand(t), TablesGrow, NoNewActive, HandlerOK(t)', AtStart'
    PROVE  EngineInv'
<1>1. ASSUME NEW u \in Handlers PROVE HandlerOK(u)'
  <2>1. CASE u = t
    BY <2>1
  <2>2. CASE u # t
    <3>1. wpc'[u] = wpc[u] /\ call'[u] = call[u]
      BY <2>2 DEF OthersStand
    <3>2. HandlerOK(u) /\ EngineTypeOK
      BY DEF EngineInv
    <3>3. QED
      BY <3>1, <3>2, HoldKept, MoveKept, InsertKept DEF HandlerOK
  <2>3. QED
    BY <2>1, <2>2
<1>2. OneActivePerEntity'
  BY OneActiveKept DEF EngineInv
<1>3. QED
  BY <1>1, <1>2 DEF EngineInv

(* A step of handler t that writes no table. *)
LEMMA NoTableStep ==
    ASSUME NEW t \in Handlers, EngineInv,
           UNCHANGED <<instances, trail, beside>>, faults' \in 0 .. MaxFaults,
           HandlersTyped, OthersStand(t), HandlerOK(t)'
    PROVE  EngineInv'
<1>1. EngineTypeOK'
  BY DEF EngineInv, EngineTypeOK, HandlersTyped
<1>2. \A i \in Instances : Len(trail[i]) \in Nat
  BY TrailLengths DEF EngineInv
<1>3. TablesGrow /\ NoNewActive
  BY <1>2 DEF TablesGrow, NoNewActive, StaysOrIsCancelled
<1>4. AtStart'
  BY DEF EngineInv, AtStart, InitialStates
<1>5. QED
  BY <1>1, <1>3, <1>4, HandlerStep

(* A step that writes no table and lets go of the engine. *)
LEMMA LetGoStep ==
    ASSUME NEW t \in Handlers, EngineInv,
           UNCHANGED <<instances, trail, beside>>, faults' \in 0 .. MaxFaults,
           \/ \E outcome \in {"returned", "threw"} : Finish(t, outcome)
           \/ Goto(t, "idle", NoCall)
    PROVE  EngineInv'
<1>1. EngineTypeOK
  BY DEF EngineInv
<1>2. HandlersTyped /\ wpc'[t] \in RestLabels /\ OthersStand(t)
  BY <1>1, FinishFacts, GotoFacts, NoCallTyped DEF EngineLabels, RestLabels
<1>3. QED
  BY <1>2, RestingHandlerOK, NoTableStep

-----------------------------------------------------------------------------
(* The requests and the faults. *)

LEMMA FindByEntityStep ==
    ASSUME NEW t \in Handlers, NEW e \in Entities, NEW k \in Keys, EngineInv, FindByEntity(t, e, k)
    PROVE  EngineInv'
<1> DEFINE c == [NoCall EXCEPT !.row = [entity |-> e, state |-> StartState[k], status |-> "ACTIVE"]]
<1>1. EngineTypeOK /\ faults' \in 0 .. MaxFaults
      /\ UNCHANGED <<instances, trail, beside>>
  BY DEF EngineInv, EngineTypeOK, FindByEntity
<1>2. CASE ActiveFor(e) # {}
  <2>1. Finish(t, "threw")
    BY <1>2 DEF FindByEntity
  <2>2. QED
    BY <1>1, <2>1, LetGoStep
<1>3. CASE ActiveFor(e) = {}
  <2>1. Goto(t, "insert", c)
    BY <1>3 DEF FindByEntity
  <2>2. c.row = [entity |-> e, state |-> StartState[k], status |-> "ACTIVE"] /\ c \in Call
    BY NoCallTyped, WorkflowAssumption DEF Call, WorkflowInstance, WorkflowStatus
  <2>3. "insert" \in EngineLabels
    BY DEF EngineLabels
  <2> HIDE DEF c
  <2>4. HandlersTyped /\ OthersStand(t) /\ wpc'[t] = "insert" /\ call'[t] = c
    BY <1>1, <2>1, <2>2, <2>3, GotoFacts
  <2>5. InsertOK(t)'
    BY <1>1, <1>3, <2>2, <2>4 DEF InsertOK, ActiveFor, InitialStates
  <2>6. HoldOK(t)' /\ MoveOK(t)'
    BY <2>4 DEF HoldOK, MoveOK, HoldingLabels, MovingLabels
  <2>7. QED
    BY <1>1, <2>4, <2>5, <2>6, NoTableStep DEF HandlerOK
<1>4. QED
  BY <1>2, <1>3

(* A handler that has just read the active instance i. *)
LEMMA ReadInstance ==
    ASSUME NEW t \in Handlers, NEW i \in Instances, EngineInv, instances[i].status = "ACTIVE",
           NEW label \in HoldingLabels \ {"saveMove"}, NEW c \in Call,
           c.id = i, c.row = instances[i],
           label = "record" => c.to \in States /\ c.loaded = Len(trail[i]),
           Goto(t, label, c), UNCHANGED <<instances, trail, beside, faults>>
    PROVE  EngineInv'
<1>1. EngineTypeOK /\ faults' \in 0 .. MaxFaults /\ AtStart
  BY DEF EngineInv, EngineTypeOK
<1>2. label \in EngineLabels
  BY DEF HoldingLabels, EngineLabels
<1>3. HandlersTyped /\ OthersStand(t) /\ wpc'[t] = label /\ call'[t] = c
  BY <1>1, <1>2, GotoFacts
<1>4. InsertOK(t)'
  BY <1>3 DEF InsertOK, HoldingLabels
<1>5. HoldOK(t)'
  BY <1>1, <1>3 DEF HoldOK, AtStart, InitialStates, StaysOrIsCancelled
<1>6. MoveOK(t)'
  <2>1. CASE label = "record"
    <3>1. Len(trail[i]) \in Nat
      BY <1>1, TrailLengths
    <3>2. QED
      BY <1>3, <2>1, <3>1 DEF MoveOK, MovingLabels
  <2>2. CASE label # "record"
    BY <1>3, <2>2 DEF MoveOK, MovingLabels, HoldingLabels
  <2>3. QED
    BY <2>1, <2>2
<1>7. QED
  BY <1>1, <1>3, <1>4, <1>5, <1>6, NoTableStep DEF HandlerOK

LEMMA FindForTransitionStep ==
    ASSUME NEW t \in Handlers, NEW i \in Instances, NEW name, EngineInv,
           FindForTransition(t, i, name)
    PROVE  EngineInv'
<1>1. EngineTypeOK /\ faults' \in 0 .. MaxFaults
      /\ UNCHANGED <<instances, trail, beside, faults>>
  BY DEF EngineInv, EngineTypeOK, FindForTransition
<1>2. CASE Finish(t, "threw")
  BY <1>1, <1>2, LetGoStep
<1>3. ASSUME instances[i].status = "ACTIVE", NEW m \in Leading(i, name),
             Goto(t, "record", [id |-> i, row |-> instances[i], loaded |-> Len(trail[i]), to |-> m.to])
      PROVE  EngineInv'
  <2>1. m.to \in States
    BY WorkflowAssumption DEF Leading
  <2>2. Len(trail[i]) \in Nat
    BY <1>1, TrailLengths
  <2>3. "record" \in HoldingLabels \ {"saveMove"}
    BY DEF HoldingLabels
  <2> DEFINE c == [id |-> i, row |-> instances[i], loaded |-> Len(trail[i]), to |-> m.to]
  <2>4. c \in Call /\ c.id = i /\ c.row = instances[i] /\ c.to = m.to /\ c.loaded = Len(trail[i])
    BY <1>1, <2>1, <2>2, WorkflowAssumption DEF Call, EngineTypeOK, Instances
  <2>5. Goto(t, "record", c)
    BY <1>3
  <2> HIDE DEF c
  <2>6. QED
    BY <1>1, <1>3, <2>1, <2>3, <2>4, <2>5, ReadInstance
<1>4. QED
  BY <1>2, <1>3 DEF FindForTransition

LEMMA FindForCancelStep ==
    ASSUME NEW t \in Handlers, NEW i \in Instances, EngineInv, FindForCancel(t, i)
    PROVE  EngineInv'
<1>1. EngineTypeOK /\ faults' \in 0 .. MaxFaults
      /\ UNCHANGED <<instances, trail, beside, faults>>
  BY DEF EngineInv, EngineTypeOK, FindForCancel
<1>2. CASE instances[i].status # "ACTIVE"
  BY <1>1, <1>2, LetGoStep DEF FindForCancel
<1>3. CASE instances[i].status = "ACTIVE"
  <2> DEFINE c == [NoCall EXCEPT !.id = i, !.row = instances[i]]
  <2>1. Goto(t, "saveCancel", c)
    BY <1>3 DEF FindForCancel
  <2>2. i \in 0 .. MaxInstances /\ instances[i] \in WorkflowInstance
    BY <1>1, RowsTyped, WorkflowAssumption DEF Instances
  <2>3. c \in Call /\ c.id = i /\ c.row = instances[i]
    BY <2>2, NoCallTyped DEF Call
  <2>4. "saveCancel" \in HoldingLabels \ {"saveMove"}
    BY DEF HoldingLabels
  <2> HIDE DEF c
  <2>5. QED
    BY <1>1, <1>3, <2>1, <2>3, <2>4, ReadInstance
<1>4. QED
  BY <1>2, <1>3

LEMMA EngineFaultStep ==
    ASSUME NEW t \in Handlers, EngineInv, EngineFault(t)
    PROVE  EngineInv'
BY LetGoStep, WorkflowAssumption DEF EngineFault, EngineInv, EngineTypeOK

LEMMA ResumeStep ==
    ASSUME NEW t \in Handlers, EngineInv, Resume(t)
    PROVE  EngineInv'
BY LetGoStep DEF Resume, EngineInv, EngineTypeOK

LEMMA ServiceFaultStep ==
    ASSUME NEW t \in Handlers, EngineInv, ServiceFault(t)
    PROVE  EngineInv'
BY LetGoStep, WorkflowAssumption DEF ServiceFault, EngineInv, EngineTypeOK

LEMMA EngineCrashStep ==
    ASSUME EngineInv, EngineCrash
    PROVE  EngineInv'
<1>1. EngineTypeOK'
  BY NoCallTyped, WorkflowAssumption DEF EngineInv, EngineTypeOK, EngineCrash, EngineLabels
<1>2. ASSUME NEW t \in Handlers PROVE HandlerOK(t)'
  BY RestingHandlerOK DEF EngineCrash, RestLabels
<1>3. OneActivePerEntity' /\ AtStart'
  BY DEF EngineCrash, EngineInv, OneActivePerEntity, AtStart, InitialStates
<1>4. QED
  BY <1>1, <1>2, <1>3 DEF EngineInv

-----------------------------------------------------------------------------
(* The steps inside a call of the engine. *)

(* The row inserted was free; of two starts for one entity the first to insert is *)
(* marked, and the second finds only marked instances beside its own.             *)
LEMMA InsertInstanceStep ==
    ASSUME NEW t \in Handlers, EngineInv, InsertInstance(t)
    PROVE  EngineInv' /\ OthersStand(t) /\ TablesGrow /\ InstancesFollowDefinition
<1> DEFINE row == call[t].row
           outcome == CreateInitialApprovals(row.state)
<1>1. PICK i \in Instances :
        /\ wpc[t] = "insert" /\ instances[i].status = "NONE"
        /\ instances' = [instances EXCEPT ![i] = row]
        /\ beside' = IF \E u \in Handlers \ {t} : wpc[u] = "insert" /\ call[u].row.entity = row.entity
                     THEN beside \cup {i} ELSE beside
        /\ IF t \in Clients THEN Goto(t, "idle", NoCall)
           ELSE Goto(t, outcome, [NoCall EXCEPT !.id = i])
        /\ UNCHANGED <<trail, faults>>
  BY DEF InsertInstance
<1>2. EngineTypeOK /\ InsertOK(t)
  BY DEF EngineInv, HandlerOK
<1>3. row.entity \in Entities /\ row.state \in InitialStates /\ row.status = "ACTIVE"
      /\ row \in WorkflowInstance
  BY <1>1, <1>2 DEF InsertOK, EngineTypeOK, Call
<1>4. HandlersTyped /\ wpc'[t] \in RestLabels /\ OthersStand(t)
  <2>1. [NoCall EXCEPT !.id = i] \in Call
    BY NoCallTyped, WorkflowAssumption DEF Call, Instances
  <2>2. outcome \in RestLabels /\ "idle" \in RestLabels /\ RestLabels \subseteq EngineLabels
    BY DEF RestLabels, EngineLabels, CreateInitialApprovals
  <2> HIDE DEF outcome
  <2>3. QED
    BY <1>1, <1>2, <2>1, <2>2, NoCallTyped, GotoFacts
<1>5. /\ instances'[i] = row
      /\ \A j \in Instances \ {i} : instances'[j] = instances[j]
      /\ instances' \in [Instances -> WorkflowInstance]
  BY <1>1, <1>2, <1>3 DEF EngineTypeOK
<1> HIDE DEF row, outcome
<1>6. EngineTypeOK'
  BY <1>1, <1>2, <1>4, <1>5 DEF EngineTypeOK, HandlersTyped
<1>7. TablesGrow
  <2>1. \A j \in Instances : Len(trail[j]) \in Nat /\ trail'[j] = trail[j]
    BY <1>1, <1>2, TrailLengths
  <2>2. QED
    BY <1>1, <1>5, <2>1 DEF TablesGrow, StaysOrIsCancelled
<1>8. AtStart'
  BY <1>3, <1>5 DEF EngineInv, AtStart, InitialStates
<1>9. ASSUME NEW u \in Handlers PROVE HandlerOK(u)'
  <2>1. CASE u = t
    BY <1>4, <2>1, RestingHandlerOK
  <2>2. CASE u # t
    <3>1. wpc'[u] = wpc[u] /\ call'[u] = call[u] /\ HandlerOK(u)
      BY <1>4, <2>2 DEF OthersStand, EngineInv
    <3>2. HoldOK(u)' /\ MoveOK(u)'
      BY <1>2, <1>6, <1>7, <3>1, HoldKept, MoveKept DEF HandlerOK
    <3>3. ASSUME wpc[u] = "insert", NEW j \in Instances, instances'[j].status = "ACTIVE",
                 instances'[j].entity = call[u].row.entity
          PROVE  j \in beside'
      <4>1. CASE j = i
        BY <1>1, <1>5, <2>2, <3>3, <4>1 DEF row
      <4>2. CASE j # i
        BY <1>1, <1>5, <3>1, <3>3, <4>2 DEF HandlerOK, InsertOK
      <4>3. QED
        BY <4>1, <4>2
    <3>4. InsertOK(u)'
      BY <3>1, <3>3 DEF HandlerOK, InsertOK, InitialStates
    <3>5. QED
      BY <3>2, <3>4 DEF HandlerOK
  <2>3. QED
    BY <2>1, <2>2
<1>10. OneActivePerEntity'
  <2>1. SUFFICES ASSUME NEW j \in Instances, NEW k \in Instances, j # k,
                        instances'[j].status = "ACTIVE", instances'[k].status = "ACTIVE",
                        instances'[j].entity = instances'[k].entity
                 PROVE  {j, k} \cap beside' # {}
    BY DEF OneActivePerEntity
  <2>2. CASE j # i /\ k # i
    BY <1>1, <1>5, <2>1, <2>2 DEF EngineInv, OneActivePerEntity
  <2>3. CASE j = i
    <3>1. k \in beside
      BY <1>1, <1>2, <1>5, <2>1, <2>3 DEF InsertOK, row
    <3>2. QED
      BY <1>1, <3>1
  <2>4. CASE k = i
    <3>1. j \in beside
      BY <1>1, <1>2, <1>5, <2>1, <2>4 DEF InsertOK, row
    <3>2. QED
      BY <1>1, <3>1
  <2>5. QED
    BY <2>2, <2>3, <2>4
<1>11. InstancesFollowDefinition
  <2>1. \E k \in Keys : row.state = StartState[k]
    BY <1>3 DEF InitialStates
  <2>2. Follows(i, instances[i], instances'[i])
    BY <1>1, <1>3, <1>5, <2>1 DEF Follows
  <2>3. \A j \in Instances \ {i} : Follows(j, instances[j], instances'[j])
    BY <1>5 DEF Follows
  <2>4. QED
    BY <2>2, <2>3 DEF InstancesFollowDefinition
<1>12. QED
  BY <1>4, <1>6, <1>7, <1>8, <1>9, <1>10, <1>11 DEF EngineInv

LEMMA InstancesStand == UNCHANGED instances => InstancesFollowDefinition
BY DEF InstancesFollowDefinition, Follows

(* Once the record is in, the trail is longer than what was read of it. *)
LEMMA RecordTransitionStep ==
    ASSUME NEW t \in Handlers, EngineInv, RecordTransition(t)
    PROVE  EngineInv' /\ OthersStand(t) /\ TablesGrow
<1> DEFINE c == call[t]
           record == <<c.row.state, c.to>>
<1>1. /\ wpc[t] = "record"
      /\ trail' = [trail EXCEPT ![c.id] = Append(@, record)]
      /\ Goto(t, "saveMove", c)
      /\ UNCHANGED <<instances, beside, faults>>
  BY DEF RecordTransition
<1>2. EngineTypeOK /\ HoldOK(t) /\ MoveOK(t) /\ AtStart
  BY DEF EngineInv, HandlerOK
<1>3. c \in Call /\ c.row \in WorkflowInstance /\ c.loaded \in Nat
  BY <1>2, RowsTyped
<1>4. /\ c.id \in Instances /\ c.row.state \in InitialStates /\ c.to \in States
      /\ c.loaded <= Len(trail[c.id])
  BY <1>1, <1>2 DEF HoldOK, MoveOK, HoldingLabels, MovingLabels
<1>5. record \in States \X States
  BY <1>4, WorkflowAssumption DEF InitialStates
<1>6. "saveMove" \in EngineLabels
  BY DEF EngineLabels
<1>7. HandlersTyped /\ OthersStand(t) /\ wpc'[t] = "saveMove" /\ call'[t] = c
  BY <1>1, <1>2, <1>3, <1>6, GotoFacts
<1>8. trail[c.id] \in Seq(States \X States) /\ Len(trail[c.id]) \in Nat
  BY <1>2, <1>4, TrailLengths
<1> HIDE DEF record
<1>9. Append(trail[c.id], record) \in Seq(States \X States)
      /\ Len(Append(trail[c.id], record)) = Len(trail[c.id]) + 1
  BY <1>5, <1>8
<1>10. /\ trail'[c.id] = Append(trail[c.id], record)
       /\ \A i \in Instances \ {c.id} : trail'[i] = trail[i]
  BY <1>1, <1>2, <1>4 DEF EngineTypeOK
<1>11. trail' \in [Instances -> Seq(States \X States)]
  BY <1>1, <1>2, <1>4, <1>9 DEF EngineTypeOK
<1>12. EngineTypeOK'
  BY <1>1, <1>2, <1>7, <1>11 DEF EngineTypeOK, HandlersTyped
<1>13. TablesGrow
  <2>1. \A i \in Instances : Len(trail[i]) <= Len(trail'[i])
    <3>1. TAKE i \in Instances
    <3>2. CASE i = c.id
      BY <1>8, <1>9, <1>10, <3>2
    <3>3. CASE i # c.id
      BY <1>2, <1>10, <3>3, TrailLengths
    <3>4. QED
      BY <3>2, <3>3
  <2>2. QED
    BY <1>1, <2>1 DEF TablesGrow, StaysOrIsCancelled
<1>14. NoNewActive
  BY <1>1 DEF NoNewActive
<1>15. AtStart'
  BY <1>1, <1>2 DEF AtStart, InitialStates
<1>16. HandlerOK(t)'
  <2>1. InsertOK(t)'
    BY <1>7 DEF InsertOK
  <2>2. HoldOK(t)'
    BY <1>1, <1>2, <1>7 DEF HoldOK, HoldingLabels, InitialStates, StaysOrIsCancelled
  <2>3. c.loaded < Len(trail'[c.id]) /\ c.loaded <= Len(trail'[c.id])
    BY <1>3, <1>4, <1>8, <1>9, <1>10
  <2>4. MoveOK(t)'
    BY <1>4, <1>7, <2>3 DEF MoveOK, MovingLabels
  <2>5. QED
    BY <2>1, <2>2, <2>4 DEF HandlerOK
<1>17. QED
  BY <1>7, <1>12, <1>13, <1>14, <1>15, <1>16, HandlerStep

(* The save of a move finds the handler's own record, and throws. *)
LEMMA SaveMoveThrows ==
    ASSUME NEW t \in Handlers, EngineInv, SaveMove(t)
    PROVE  UNCHANGED <<instances, trail, beside, faults>> /\ Finish(t, "threw")
<1>1. wpc[t] = "saveMove" /\ EngineTypeOK /\ HoldOK(t) /\ MoveOK(t)
  BY DEF SaveMove, EngineInv, HandlerOK
<1>2. call[t].id \in Instances /\ call[t].loaded < Len(trail[call[t].id])
  BY <1>1 DEF HoldOK, MoveOK, HoldingLabels
<1>3. call[t].loaded \in Nat /\ Len(trail[call[t].id]) \in Nat
  BY <1>1, <1>2, RowsTyped, TrailLengths
<1>4. Len(trail[call[t].id]) # call[t].loaded
  BY <1>2, <1>3
<1>5. QED
  BY <1>4 DEF SaveMove

LEMMA SaveMoveStep ==
    ASSUME NEW t \in Handlers, EngineInv, SaveMove(t)
    PROVE  EngineInv'
BY SaveMoveThrows, LetGoStep DEF EngineInv, EngineTypeOK

(* A cancellation finds the instance as it was read, or cancelled already. *)
LEMMA SaveCancelStep ==
    ASSUME NEW t \in Handlers, EngineInv, SaveCancel(t)
    PROVE  EngineInv' /\ OthersStand(t) /\ TablesGrow /\ InstancesFollowDefinition
<1> DEFINE c == call[t]
           i == c.id
           row == [c.row EXCEPT !.status = "CANCELLED"]
<1>1. /\ wpc[t] = "saveCancel" /\ instances' = [instances EXCEPT ![i] = row]
      /\ UNCHANGED <<trail, beside, faults>> /\ Finish(t, "returned")
  BY DEF SaveCancel, SaveInstance
<1>2. EngineTypeOK /\ HoldOK(t) /\ AtStart
  BY DEF EngineInv, HandlerOK
<1>3. /\ i \in Instances /\ c.row.state \in InitialStates /\ c.row.status = "ACTIVE"
      /\ StaysOrIsCancelled(c.row, instances[i])
  BY <1>1, <1>2 DEF HoldOK, HoldingLabels
<1>4. c.row \in WorkflowInstance /\ row \in WorkflowInstance
  BY <1>2, RowsTyped DEF WorkflowInstance, WorkflowStatus
<1>5. row = [instances[i] EXCEPT !.status = "CANCELLED"]
      /\ row.status = "CANCELLED" /\ row.state \in InitialStates
      /\ (instances[i].status = "ACTIVE" \/ row = instances[i])
  BY <1>3, <1>4 DEF StaysOrIsCancelled, WorkflowInstance
<1>6. HandlersTyped /\ OthersStand(t) /\ HandlerOK(t)'
  BY <1>1, <1>2, FinishFacts, RestingHandlerOK
<1> HIDE DEF row
<1>7. /\ instances'[i] = row
      /\ \A j \in Instances \ {i} : instances'[j] = instances[j]
      /\ instances' \in [Instances -> WorkflowInstance]
  BY <1>1, <1>2, <1>3, <1>4 DEF EngineTypeOK
<1> HIDE DEF i
<1>8. EngineTypeOK'
  BY <1>1, <1>2, <1>6, <1>7 DEF EngineTypeOK, HandlersTyped
<1>9. TablesGrow
  <2>1. \A j \in Instances : Len(trail[j]) \in Nat /\ trail'[j] = trail[j]
    BY <1>1, <1>2, TrailLengths
  <2>2. \A j \in Instances : StaysOrIsCancelled(instances[j], instances'[j])
    BY <1>5, <1>7 DEF StaysOrIsCancelled
  <2>3. QED
    BY <1>1, <2>1, <2>2 DEF TablesGrow
<1>10. NoNewActive
  BY <1>5, <1>7 DEF NoNewActive
<1>11. AtStart'
  BY <1>2, <1>5, <1>7 DEF AtStart, InitialStates
<1>12. InstancesFollowDefinition
  <2>1. ASSUME NEW j \in Instances PROVE Follows(j, instances[j], instances'[j])
    BY <1>5, <1>7 DEF Follows
  <2>2. QED
    BY <2>1 DEF InstancesFollowDefinition
<1>13. QED
  BY <1>6, <1>8, <1>9, <1>10, <1>11, <1>12, HandlerStep

-----------------------------------------------------------------------------
(* All of the engine's steps, of a client or of a service. *)

LEMMA EngineStepKeeps ==
    ASSUME NEW t \in Handlers, EngineInv, EngineStep(t)
    PROVE  EngineInv'
BY InsertInstanceStep, RecordTransitionStep, SaveMoveStep, SaveCancelStep DEF EngineStep

LEMMA RequestKeeps ==
    ASSUME NEW t \in Handlers, EngineInv, Request(t)
    PROVE  EngineInv'
BY FindByEntityStep, FindForTransitionStep, FindForCancelStep DEF Request

LEMMA EngineIdleKeeps ==
    ASSUME EngineInv, UNCHANGED engineVars
    PROVE  EngineInv'
<1>1. UNCHANGED <<instances, trail, wpc, call, beside, faults>>
  BY DEF engineVars
<1>2. EngineTypeOK' /\ OneActivePerEntity'
  BY <1>1 DEF EngineInv, EngineTypeOK, OneActivePerEntity
<1>3. AtStart'
  BY <1>1 DEF EngineInv, AtStart, InitialStates
<1>4. ASSUME NEW u \in Handlers PROVE HandlerOK(u)'
  <2>1. HandlerOK(u)
    BY DEF EngineInv
  <2>2. InsertOK(u)' /\ HoldOK(u)' /\ MoveOK(u)'
    BY <1>1, <2>1
       DEF HandlerOK, InsertOK, HoldOK, MoveOK, InitialStates, StaysOrIsCancelled
  <2>3. QED
    BY <2>2 DEF HandlerOK
<1>5. QED
  BY <1>2, <1>3, <1>4 DEF EngineInv

LEMMA EngineInitOK == EngineInit => EngineInv
<1> SUFFICES ASSUME EngineInit PROVE EngineInv
  OBVIOUS
<1>1. EngineTypeOK
  BY NoCallTyped, WorkflowAssumption DEF EngineInit, EngineTypeOK, EngineLabels
<1>2. ASSUME NEW t \in Handlers PROVE HandlerOK(t)
  BY DEF EngineInit, HandlerOK, InsertOK, HoldOK, MoveOK, HoldingLabels, MovingLabels
<1>3. OneActivePerEntity /\ AtStart
  BY DEF EngineInit, NoInstance, OneActivePerEntity, AtStart
<1>4. QED
  BY <1>1, <1>2, <1>3 DEF EngineInv

LEMMA EngineInvImplies ==
    EngineInv => EngineTypeOK /\ OneActivePerEntity /\ TrailLeadsToState
BY DEF EngineInv, AtStart, TrailLeadsToState, InitialStates

LEMMA EngineInvHolds == EngineSpec => []EngineInv
<1>1. EngineInv /\ [EngineNext]_engineVars => EngineInv'
  BY EngineStepKeeps, RequestKeeps, EngineFaultStep, EngineCrashStep, EngineIdleKeeps
     DEF EngineNext, Handlers
<1>2. QED
  BY EngineInitOK, <1>1, PTL DEF EngineSpec

(* The tables and the handlers' entities keep the shape of their columns, for *)
(* any definition and any number of clients.                                  *)
THEOREM EngineTypes == EngineSpec => []EngineTypeOK
BY EngineInvHolds, EngineInvImplies, PTL

(* startWorkflow looks for an active workflow some awaits before it inserts: two *)
(* active workflows of an entity always have an overlapping start behind them.   *)
THEOREM OneActiveWorkflow == EngineSpec => []OneActivePerEntity
BY EngineInvHolds, EngineInvImplies, PTL

(* No failure between the two saves of transitionWorkflow and no other handler *)
(* leaves an instance in a state the trail does not explain.                   *)
THEOREM TrailExplainsState == EngineSpec => []TrailLeadsToState
BY EngineInvHolds, EngineInvImplies, PTL

-----------------------------------------------------------------------------
(* What a step does to an instance. *)

Exists(i) == i \in Instances /\ instances[i].status # "NONE"
Ended(i) == instances[i].status = "CANCELLED"

(* What a step of the engine means for the services: the other handlers stand, *)
(* and an instance is at most cancelled.                                       *)
EngineFrame(t) ==
    /\ OthersStand(t)
    /\ \A i \in Instances :
         instances[i].status # "NONE" => instances'[i].status \in {instances[i].status, "CANCELLED"}

LEMMA CallFrame ==
    ASSUME NEW t \in Handlers, UNCHANGED instances, OthersStand(t)
    PROVE  EngineFrame(t)
BY DEF EngineFrame

LEMMA GotoStands ==
    ASSUME NEW t \in Handlers, EngineTypeOK,
           \/ \E label, c : Goto(t, label, c)
           \/ \E outcome : Finish(t, outcome)
    PROVE  OthersStand(t)
BY DEF Goto, Finish, OthersStand, EngineTypeOK

LEMMA EngineStepFrame ==
    ASSUME NEW t \in Handlers, EngineInv, EngineStep(t)
    PROVE  EngineFrame(t)
<1>1. CASE SaveMove(t)
  BY <1>1, SaveMoveThrows, GotoStands, CallFrame DEF EngineInv
<1>2. CASE InsertInstance(t) \/ RecordTransition(t) \/ SaveCancel(t)
  <2>1. OthersStand(t) /\ TablesGrow
    BY <1>2, InsertInstanceStep, RecordTransitionStep, SaveCancelStep
  <2>2. \A i \in Instances : instances[i] \in WorkflowInstance
    BY RowsTyped DEF EngineInv
  <2>3. QED
    BY <2>1, <2>2 DEF EngineFrame, TablesGrow, StaysOrIsCancelled, WorkflowInstance
<1>3. QED
  BY <1>1, <1>2 DEF EngineStep

LEMMA RequestFrame ==
    ASSUME NEW t \in Handlers, EngineInv,
           \/ Request(t) \/ EngineFault(t) \/ Resume(t) \/ ServiceFault(t)
           \/ \E e, k : FindByEntity(t, e, k)
           \/ \E i, name : FindForTransition(t, i, name)
           \/ \E i : FindForCancel(t, i)
    PROVE  EngineFrame(t)
<1>1. EngineTypeOK
  BY DEF EngineInv
<1>2. OthersStand(t)
  BY <1>1, GotoStands
     DEF Request, EngineFault, Resume, ServiceFault, FindByEntity, FindForTransition, FindForCancel
<1>3. UNCHANGED instances
  BY DEF Request, EngineFault, Resume, ServiceFault, FindByEntity, FindForTransition, FindForCancel
<1>4. QED
  BY <1>2, <1>3, CallFrame

LEMMA EngineStepFollows ==
    ASSUME EngineInv, NEW t \in Handlers, EngineStep(t)
    PROVE  InstancesFollowDefinition
<1>1. CASE SaveMove(t) \/ RecordTransition(t)
  BY <1>1, SaveMoveThrows, InstancesStand DEF RecordTransition
<1>2. CASE InsertInstance(t) \/ SaveCancel(t)
  BY <1>2, InsertInstanceStep, SaveCancelStep
<1>3. QED
  BY <1>1, <1>2 DEF EngineStep

(* Instances start where their definition says, and what is cancelled neither *)
(* moves nor comes back, whatever handlers that read it before go on to save.  *)
THEOREM InstancesFollow == EngineSpec => [][InstancesFollowDefinition]_engineVars
<1>1. ASSUME EngineInv, EngineNext PROVE InstancesFollowDefinition
  <2>1. CASE \E t \in Clients : EngineStep(t)
    BY <1>1, <2>1, EngineStepFollows DEF Handlers
  <2>2. CASE \E t \in Clients : Request(t) \/ EngineFault(t)
    BY <2>2, InstancesStand DEF Request, FindByEntity, FindForTransition, FindForCancel, EngineFault
  <2>3. CASE EngineCrash
    BY <2>3, InstancesStand DEF EngineCrash
  <2>4. QED
    BY <1>1, <2>1, <2>2, <2>3 DEF EngineNext
<1>2. EngineInv /\ [EngineNext]_engineVars => [InstancesFollowDefinition]_engineVars
  BY <1>1
<1>3. QED
  BY <1>2, EngineInvHolds, PTL DEF EngineSpec

(* No instance ever leaves the state it started in, and none is completed: the   *)
(* record that transitionWorkflow inserts makes its own save of the instance     *)
(* throw, for every definition, trail and number of clients.                     *)
NoMoveIsStored ==
    \A i \in Instances :
        instances[i].status # "NONE" =>
            /\ instances[i].state \in {StartState[k] : k \in Keys}
            /\ instances[i].status # "COMPLETED"

THEOREM MovesAreLost == EngineSpec => []NoMoveIsStored
<1>1. EngineInv => NoMoveIsStored
  BY DEF EngineInv, AtStart, NoMoveIsStored, InitialStates
<1>2. QED
  BY <1>1, EngineInvHolds, PTL
=============================================================================
