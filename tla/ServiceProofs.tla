---------------------------- MODULE ServiceProofs ----------------------------
(***************************************************************************)
(* Theorems about the services of MCServices, each by itself and all of    *)
(* them in the composition that the runs check.  They hold for any number  *)
(* of requests, rows, failures and crashes.                                *)
(***************************************************************************)
EXTENDS MCServices, NotificationDeliveryProofs, FiniteSetTheorems, TLAPS

-----------------------------------------------------------------------------
(* Tenants.  While no clean-up has met another request, the key has one row *)
(* at most, and every request that holds a row holds that one.              *)

Holding == {"user", "admin", "organization", "fix", "remove"} \cup StatusSteps

(* Ids are given out in order, and only rows that were inserted have admins. *)
TenantRowsOK ==
    /\ tenant.id <= issued
    /\ \A o \in Operators : opTenant[o].id <= issued
    /\ \A i \in TenantIds : i > issued => admins[i] = "NONE"
    /\ \A o \in Operators : opc[o] \in Holding => opTenant[o].id # 0

OneTenantRow == ~trampled =>
    \A o \in Operators : opTenant[o].id # 0 => opTenant[o].id = tenant.id

(* The schema is there before the row is, and stays. *)
SchemaBeforeRow == ~trampled =>
    ((tenant.id # 0 \/ \E o \in Operators : opc[o] = "record") => {"schema", "tables"} \subseteq schema)

SomeoneAt(labels) == \E o \in Operators : opc[o] \in labels

(* What a creation has still to make has a request that will make it. *)
CreationGoesOn == tenant.id # 0 /\ ~trampled /\ ~stranded =>
    /\ SomeoneAt({"user"}) \/ "user" \in schema
    /\ SomeoneAt({"user", "admin"}) \/ admins[tenant.id] # "NONE"
    /\ SomeoneAt({"user", "admin", "organization"}) \/ "organization" \in schema

(* A schema without a row has a request that will give it one, or drop it. *)
SchemaIsClaimed == tenant.id = 0 /\ ~trampled /\ ~stranded =>
    schema = {} \/ SomeoneAt({"migrate", "record", "drop"})

(* One status change at a time, and none while a new admin is being recorded. *)
OneStatusChange == ~crossed /\ ~trampled =>
    \A o, p \in Operators :
        o # p /\ opc[o] \in StatusSteps => opc[p] \notin StatusSteps \cup {"user", "admin", "fix"}

(* Such a request finds the row as it read it. *)
StatusAsRead == ~crossed /\ ~trampled =>
    /\ \A o \in Operators : opc[o] \in {"user", "admin", "fix", "admins off", "off", "admins on"}
                              => tenant.isActive
    /\ \A o \in Operators : opc[o] \in {"validate", "on"} => ~tenant.isActive

(* The admins are what the row says, or a request has still to change one of both. *)
AdminsMatch == ~crossed /\ ~trampled /\ tenant.id # 0 =>
    admins[tenant.id] \in
        {"NONE", IF SomeoneAt({"off", "admins on"}) \/ ~tenant.isActive THEN "INACTIVE" ELSE "ACTIVE"}

TenantInv ==
    /\ TenantTypeOK /\ TenantRowsOK /\ OneTenantRow /\ SchemaBeforeRow
    /\ CreationGoesOn /\ SchemaIsClaimed
    /\ OneStatusChange /\ StatusAsRead /\ AdminsMatch


Moved(o) ==
    /\ opc' \in [Operators -> OperatorLabels]
    /\ opTenant' \in [Operators -> Tenant]
    /\ \A p \in Operators \ {o} : opc'[p] = opc[p] /\ opTenant'[p] = opTenant[p]

LEMMA LabelsAre == OperatorLabels =
    {"check", "create", "migrate", "record", "drop", "find", "remove",
     "admins off", "off", "validate", "on", "admins on", "save",
     "idle", "user", "admin", "organization", "fix"}
BY DEF OperatorLabels, Creating, StatusSteps

LEMMA NoTenantIsTenant == NoTenant \in Tenant /\ NoTenant.id = 0
BY TenantAssumption DEF NoTenant, Tenant

LEMMA OperatorMoves ==
    ASSUME TenantTypeOK, NEW o \in Operators, NEW label \in OperatorLabels, NEW row \in Tenant,
           OperatorAt(o, label, row)
    PROVE  Moved(o) /\ opc'[o] = label /\ opTenant'[o] = row
BY DEF TenantTypeOK, OperatorAt, Moved

LEMMA RowsMove ==
    ASSUME TenantTypeOK, TenantRowsOK, NEW o \in Operators, Moved(o), issued' \in Nat, issued <= issued',
           tenant'.id <= issued', opTenant'[o].id <= issued',
           \A i \in TenantIds : i > issued' => admins'[i] = "NONE",
           opc'[o] \in Holding => opTenant'[o].id # 0
    PROVE  TenantRowsOK'
<1>1. \A p \in Operators : opTenant'[p].id <= issued'
  <2> SUFFICES ASSUME NEW p \in Operators, p # o PROVE opTenant'[p].id <= issued'
    OBVIOUS
  <2>1. opTenant'[p] = opTenant[p] /\ opTenant[p].id \in Int /\ issued \in Int /\ opTenant[p].id <= issued
    BY TenantAssumption DEF Moved, TenantTypeOK, TenantRowsOK, Tenant
  <2> QED
    BY <2>1
<1>2. \A p \in Operators : opc'[p] \in Holding => opTenant'[p].id # 0
  BY DEF Moved, TenantRowsOK
<1> QED
  BY <1>1, <1>2 DEF TenantRowsOK

LEMMA OneRowMoves ==
    ASSUME OneTenantRow, NEW o \in Operators, Moved(o), trampled => trampled',
           trampled' \/ tenant'.id = tenant.id \/ tenant.id = 0,
           trampled' \/ opTenant'[o].id \in {0, tenant'.id}
    PROVE  OneTenantRow'
BY DEF OneTenantRow, Moved

LEMMA SchemaStaysBefore ==
    ASSUME SchemaBeforeRow, NEW o \in Operators, Moved(o), UNCHANGED <<schema, trampled>>,
           tenant'.id = tenant.id, opc'[o] # "record"
    PROVE  SchemaBeforeRow'
<1>1. \A p \in Operators : opc'[p] = "record" => opc[p] = "record"
  BY DEF Moved
<1> QED
  BY <1>1 DEF SchemaBeforeRow

LEMMA StatusChangeMoves ==
    ASSUME OneStatusChange, NEW o \in Operators, Moved(o), UNCHANGED <<crossed, trampled>>,
           opc[o] \in StatusSteps, opc'[o] \in StatusSteps \cup {"idle"}
    PROVE  OneStatusChange'
<1> SUFFICES ASSUME ~crossed, ~trampled, NEW p \in Operators, NEW q \in Operators, p # q, opc'[p] \in StatusSteps
             PROVE  opc'[q] \notin StatusSteps \cup {"user", "admin", "fix"}
  BY DEF OneStatusChange
<1>1. \A r \in Operators \ {o} : opc'[r] = opc[r] /\ opc'[r] \notin StatusSteps \cup {"user", "admin", "fix"}
  BY DEF OneStatusChange, Moved
<1>2. p = o /\ q # o
  BY <1>1
<1> QED
  BY <1>1, <1>2

LEMMA CreateTenantKeeps == ASSUME TenantInv, NEW o \in Operators, CreateTenant(o) PROVE TenantInv'
<1>0. /\ Moved(o)
      /\ opc'[o] = "check" /\ opTenant'[o] = NoTenant
  <2>1. opTenant[o] \in Tenant /\ tenant \in Tenant
    BY DEF TenantInv, TenantTypeOK
  <2> QED
    BY <2>1, OperatorMoves, NoTenantIsTenant, LabelsAre DEF TenantInv, OperatorDone, CreateTenant
<1>1. TenantTypeOK'
  BY <1>0, TenantAssumption
     DEF TenantInv, TenantTypeOK, Moved, CreateTenant, histories, SchemaParts, Tenant, NoTenant,
         TenantIds
<1>2. TenantRowsOK'
  <2>1. issued' \in Nat /\ issued <= issued' /\ tenant'.id <= issued' /\ opTenant'[o].id <= issued'
    BY <1>0, NoTenantIsTenant, TenantAssumption
       DEF TenantInv, TenantTypeOK, TenantRowsOK, CreateTenant, histories, Tenant
  <2>2. \A i \in TenantIds : i > issued' => admins'[i] = "NONE"
    BY <1>0, <2>1, TenantAssumption
       DEF TenantInv, TenantTypeOK, TenantRowsOK, CreateTenant, histories, TenantIds, Tenant
  <2>3. opc'[o] \in Holding => opTenant'[o].id # 0
    BY <1>0 DEF TenantInv, TenantRowsOK, Holding, StatusSteps, CreateTenant, histories
  <2> QED
    BY <1>0, <2>1, <2>2, <2>3, RowsMove DEF TenantInv
<1>3. OneTenantRow'
  BY <1>0, OneRowMoves, NoTenantIsTenant DEF TenantInv, OneTenantRow, TenantRowsOK, CreateTenant, histories
<1>4. SchemaBeforeRow'
  BY <1>0 DEF TenantInv, SchemaBeforeRow, Moved, CreateTenant, histories
<1>5. CreationGoesOn'
  BY <1>0 DEF TenantInv, CreationGoesOn, SomeoneAt, Moved, CreateTenant, histories
<1>6. SchemaIsClaimed'
  BY <1>0 DEF TenantInv, SchemaIsClaimed, SomeoneAt, Moved, CreateTenant, histories
<1>7. OneStatusChange'
  BY <1>0 DEF TenantInv, OneStatusChange, StatusSteps, Moved, CreateTenant, histories
<1>8. StatusAsRead'
  BY <1>0 DEF TenantInv, StatusAsRead, Moved, CreateTenant, histories
<1>9. AdminsMatch'
  BY <1>0 DEF TenantInv, AdminsMatch, SomeoneAt, Moved, CreateTenant, histories
<1> QED
  BY <1>1, <1>2, <1>3, <1>4, <1>5, <1>6, <1>7, <1>8, <1>9 DEF TenantInv

LEMMA CheckSchemaKeeps == ASSUME TenantInv, NEW o \in Operators, CheckSchema(o) PROVE TenantInv'
<1>0. /\ Moved(o)
      /\ opc'[o] \in {"create", "idle"} /\ opTenant'[o] = NoTenant
  <2>1. opTenant[o] \in Tenant /\ tenant \in Tenant
    BY DEF TenantInv, TenantTypeOK
  <2> QED
    BY <2>1, OperatorMoves, NoTenantIsTenant, LabelsAre DEF TenantInv, OperatorDone, CheckSchema
<1>1. TenantTypeOK'
  BY <1>0, TenantAssumption
     DEF TenantInv, TenantTypeOK, Moved, CheckSchema, histories, SchemaParts, Tenant, NoTenant,
         TenantIds
<1>2. TenantRowsOK'
  <2>1. issued' \in Nat /\ issued <= issued' /\ tenant'.id <= issued' /\ opTenant'[o].id <= issued'
    BY <1>0, NoTenantIsTenant, TenantAssumption
       DEF TenantInv, TenantTypeOK, TenantRowsOK, CheckSchema, histories, Tenant
  <2>2. \A i \in TenantIds : i > issued' => admins'[i] = "NONE"
    BY <1>0, <2>1, TenantAssumption
       DEF TenantInv, TenantTypeOK, TenantRowsOK, CheckSchema, histories, TenantIds, Tenant
  <2>3. opc'[o] \in Holding => opTenant'[o].id # 0
    BY <1>0 DEF TenantInv, TenantRowsOK, Holding, StatusSteps, CheckSchema, histories
  <2> QED
    BY <1>0, <2>1, <2>2, <2>3, RowsMove DEF TenantInv
<1>3. OneTenantRow'
  BY <1>0, OneRowMoves, NoTenantIsTenant DEF TenantInv, OneTenantRow, TenantRowsOK, CheckSchema, histories
<1>4. SchemaBeforeRow'
  BY <1>0 DEF TenantInv, SchemaBeforeRow, Moved, CheckSchema, histories
<1>5. CreationGoesOn'
  BY <1>0 DEF TenantInv, CreationGoesOn, SomeoneAt, Moved, CheckSchema, histories
<1>6. SchemaIsClaimed'
  BY <1>0 DEF TenantInv, SchemaIsClaimed, SomeoneAt, Moved, CheckSchema, histories
<1>7. OneStatusChange'
  BY <1>0 DEF TenantInv, OneStatusChange, StatusSteps, Moved, CheckSchema, histories
<1>8. StatusAsRead'
  BY <1>0 DEF TenantInv, StatusAsRead, Moved, CheckSchema, histories
<1>9. AdminsMatch'
  BY <1>0 DEF TenantInv, AdminsMatch, SomeoneAt, Moved, CheckSchema, histories
<1> QED
  BY <1>1, <1>2, <1>3, <1>4, <1>5, <1>6, <1>7, <1>8, <1>9 DEF TenantInv

LEMMA CreateTenantSchemaKeeps == ASSUME TenantInv, NEW o \in Operators, CreateTenantSchema(o) PROVE TenantInv'
<1>0. /\ Moved(o)
      /\ opc'[o] = "migrate" /\ opTenant'[o] = NoTenant
  <2>1. opTenant[o] \in Tenant /\ tenant \in Tenant
    BY DEF TenantInv, TenantTypeOK
  <2> QED
    BY <2>1, OperatorMoves, NoTenantIsTenant, LabelsAre DEF TenantInv, OperatorDone, CreateTenantSchema
<1>1. TenantTypeOK'
  BY <1>0, TenantAssumption
     DEF TenantInv, TenantTypeOK, Moved, CreateTenantSchema, histories, SchemaParts, Tenant,
         NoTenant, TenantIds
<1>2. TenantRowsOK'
  <2>1. issued' \in Nat /\ issued <= issued' /\ tenant'.id <= issued' /\ opTenant'[o].id <= issued'
    BY <1>0, NoTenantIsTenant, TenantAssumption
       DEF TenantInv, TenantTypeOK, TenantRowsOK, CreateTenantSchema, histories, Tenant
  <2>2. \A i \in TenantIds : i > issued' => admins'[i] = "NONE"
    BY <1>0, <2>1, TenantAssumption
       DEF TenantInv, TenantTypeOK, TenantRowsOK, CreateTenantSchema, histories, TenantIds, Tenant
  <2>3. opc'[o] \in Holding => opTenant'[o].id # 0
    BY <1>0 DEF TenantInv, TenantRowsOK, Holding, StatusSteps, CreateTenantSchema, histories
  <2> QED
    BY <1>0, <2>1, <2>2, <2>3, RowsMove DEF TenantInv
<1>3. OneTenantRow'
  BY <1>0, OneRowMoves, NoTenantIsTenant
     DEF TenantInv, OneTenantRow, TenantRowsOK, CreateTenantSchema, histories
<1>4. SchemaBeforeRow'
  BY <1>0 DEF TenantInv, SchemaBeforeRow, Moved, CreateTenantSchema, histories
<1>5. CreationGoesOn'
  BY <1>0 DEF TenantInv, CreationGoesOn, SomeoneAt, Moved, CreateTenantSchema, histories
<1>6. SchemaIsClaimed'
  BY <1>0 DEF TenantInv, SchemaIsClaimed, SomeoneAt, Moved, CreateTenantSchema, histories
<1>7. OneStatusChange'
  BY <1>0 DEF TenantInv, OneStatusChange, StatusSteps, Moved, CreateTenantSchema, histories
<1>8. StatusAsRead'
  BY <1>0 DEF TenantInv, StatusAsRead, Moved, CreateTenantSchema, histories
<1>9. AdminsMatch'
  BY <1>0 DEF TenantInv, AdminsMatch, SomeoneAt, Moved, CreateTenantSchema, histories
<1> QED
  BY <1>1, <1>2, <1>3, <1>4, <1>5, <1>6, <1>7, <1>8, <1>9 DEF TenantInv

LEMMA RunTenantMigrationsKeeps == ASSUME TenantInv, NEW o \in Operators, RunTenantMigrations(o) PROVE TenantInv'
<1>0. /\ Moved(o)
      /\ opc'[o] = (IF "schema" \in schema THEN "record" ELSE "drop") /\ opTenant'[o] = NoTenant
  <2>1. opTenant[o] \in Tenant /\ tenant \in Tenant
    BY DEF TenantInv, TenantTypeOK
  <2> QED
    BY <2>1, OperatorMoves, NoTenantIsTenant, LabelsAre DEF TenantInv, OperatorDone, RunTenantMigrations
<1>1. TenantTypeOK'
  BY <1>0, TenantAssumption
     DEF TenantInv, TenantTypeOK, Moved, RunTenantMigrations, histories, SchemaParts, Tenant,
         NoTenant, TenantIds
<1>2. TenantRowsOK'
  <2>1. issued' \in Nat /\ issued <= issued' /\ tenant'.id <= issued' /\ opTenant'[o].id <= issued'
    BY <1>0, NoTenantIsTenant, TenantAssumption
       DEF TenantInv, TenantTypeOK, TenantRowsOK, RunTenantMigrations, histories, Tenant
  <2>2. \A i \in TenantIds : i > issued' => admins'[i] = "NONE"
    BY <1>0, <2>1, TenantAssumption
       DEF TenantInv, TenantTypeOK, TenantRowsOK, RunTenantMigrations, histories, TenantIds, Tenant
  <2>3. opc'[o] \in Holding => opTenant'[o].id # 0
    BY <1>0 DEF TenantInv, TenantRowsOK, Holding, StatusSteps, RunTenantMigrations, histories
  <2> QED
    BY <1>0, <2>1, <2>2, <2>3, RowsMove DEF TenantInv
<1>3. OneTenantRow'
  BY <1>0, OneRowMoves, NoTenantIsTenant
     DEF TenantInv, OneTenantRow, TenantRowsOK, RunTenantMigrations, histories
<1>4. SchemaBeforeRow'
  BY <1>0 DEF TenantInv, SchemaBeforeRow, Moved, RunTenantMigrations, histories
<1>5. CreationGoesOn'
  BY <1>0 DEF TenantInv, CreationGoesOn, SomeoneAt, Moved, RunTenantMigrations, histories
<1>6. SchemaIsClaimed'
  BY <1>0 DEF TenantInv, SchemaIsClaimed, SomeoneAt, Moved, RunTenantMigrations, histories
<1>7. OneStatusChange'
  BY <1>0 DEF TenantInv, OneStatusChange, StatusSteps, Moved, RunTenantMigrations, histories
<1>8. StatusAsRead'
  BY <1>0 DEF TenantInv, StatusAsRead, Moved, RunTenantMigrations, histories
<1>9. AdminsMatch'
  BY <1>0 DEF TenantInv, AdminsMatch, SomeoneAt, Moved, RunTenantMigrations, histories
<1> QED
  BY <1>1, <1>2, <1>3, <1>4, <1>5, <1>6, <1>7, <1>8, <1>9 DEF TenantInv

LEMMA CreateTenantRecordKeeps == ASSUME TenantInv, NEW o \in Operators, CreateTenantRecord(o) PROVE TenantInv'
<1>0. /\ Moved(o)
      /\ \/ /\ tenant.id # 0 /\ opc'[o] = "drop" /\ opTenant'[o] = NoTenant
            /\ UNCHANGED <<tenant, issued>>
         \/ /\ tenant.id = 0 /\ opc'[o] = "user" /\ opTenant'[o] = tenant' /\ issued' = issued + 1
            /\ tenant' = [id |-> issued + 1, isActive |-> TRUE] /\ tenant' \in Tenant /\ tenant'.id # 0
            /\ issued + 1 \in TenantIds
  <2>1. CASE tenant.id # 0
    BY <2>1, OperatorMoves, NoTenantIsTenant, LabelsAre DEF TenantInv, CreateTenantRecord
  <2>2. CASE tenant.id = 0
    <3>1. issued \in Nat /\ issued < MaxTenants
      BY <2>2, TenantAssumption DEF CreateTenantRecord, TenantInv, TenantTypeOK
    <3>2. /\ issued' = issued + 1 /\ tenant' = [id |-> issued + 1, isActive |-> TRUE]
          /\ OperatorAt(o, "user", [id |-> issued + 1, isActive |-> TRUE])
      BY <2>2 DEF CreateTenantRecord
    <3>3. [id |-> issued + 1, isActive |-> TRUE] \in Tenant /\ issued + 1 \in TenantIds /\ issued + 1 # 0
      BY <3>1, TenantAssumption DEF Tenant, TenantIds
    <3>4. Moved(o) /\ opc'[o] = "user" /\ opTenant'[o] = [id |-> issued + 1, isActive |-> TRUE]
      BY <3>2, <3>3, OperatorMoves, LabelsAre DEF TenantInv
    <3> QED
      BY <2>2, <3>2, <3>3, <3>4
  <2> QED
    BY <2>1, <2>2
<1>a. ~trampled /\ tenant.id = 0 => \A p \in Operators : opc[p] \notin Holding
  BY DEF TenantInv, TenantRowsOK, OneTenantRow
<1>b. tenant.id = 0 => admins[issued + 1] = "NONE"
  BY <1>0, TenantAssumption DEF TenantInv, TenantRowsOK, TenantTypeOK
<1>1. TenantTypeOK'
  BY <1>0, TenantAssumption
     DEF TenantInv, TenantTypeOK, Moved, CreateTenantRecord, histories, SchemaParts, Tenant,
         NoTenant, TenantIds
<1>2. TenantRowsOK'
  <2>1. issued' \in Nat /\ issued <= issued' /\ tenant'.id <= issued' /\ opTenant'[o].id <= issued'
    BY <1>0, NoTenantIsTenant, TenantAssumption
       DEF TenantInv, TenantTypeOK, TenantRowsOK, CreateTenantRecord, histories, Tenant
  <2>2. \A i \in TenantIds : i > issued' => admins'[i] = "NONE"
    BY <1>0, <2>1, TenantAssumption
       DEF TenantInv, TenantTypeOK, TenantRowsOK, CreateTenantRecord, histories, TenantIds, Tenant
  <2>3. opc'[o] \in Holding => opTenant'[o].id # 0
    BY <1>0 DEF TenantInv, TenantRowsOK, Holding, StatusSteps, CreateTenantRecord, histories
  <2> QED
    BY <1>0, <2>1, <2>2, <2>3, RowsMove DEF TenantInv
<1>3. OneTenantRow'
  BY <1>0, OneRowMoves, NoTenantIsTenant
     DEF TenantInv, OneTenantRow, TenantRowsOK, CreateTenantRecord, histories
<1>4. SchemaBeforeRow'
  BY <1>0 DEF TenantInv, SchemaBeforeRow, Moved, CreateTenantRecord, histories
<1>5. CreationGoesOn'
  BY <1>0 DEF TenantInv, CreationGoesOn, SomeoneAt, Moved, CreateTenantRecord, histories
<1>6. SchemaIsClaimed'
  BY <1>0 DEF TenantInv, SchemaIsClaimed, SomeoneAt, Moved, CreateTenantRecord, histories
<1>7. OneStatusChange'
  BY <1>0, <1>a DEF TenantInv, OneStatusChange, Moved, CreateTenantRecord, histories, Holding, StatusSteps
<1>8. StatusAsRead'
  <2>1. CASE tenant.id # 0
    BY <1>0, <2>1 DEF TenantInv, StatusAsRead, Moved, CreateTenantRecord, histories
  <2>2. CASE tenant.id = 0
    <3>1. opc'[o] = "user" /\ tenant'.isActive /\ trampled' = trampled
      BY <1>0, <2>2 DEF CreateTenantRecord, histories
    <3>2. ~trampled => \A p \in Operators \ {o} : opc'[p] \notin Holding
      BY <1>0, <1>a, <2>2 DEF Moved
    <3> QED
      BY <3>1, <3>2 DEF StatusAsRead, Holding, StatusSteps
  <2> QED
    BY <2>1, <2>2
<1>9. AdminsMatch'
  <2>1. CASE tenant.id # 0
    BY <1>0, <2>1 DEF TenantInv, AdminsMatch, SomeoneAt, Moved, CreateTenantRecord, histories
  <2>2. CASE tenant.id = 0
    <3>1. tenant'.id = issued + 1 /\ admins' = admins
      BY <1>0, <2>2 DEF CreateTenantRecord
    <3> QED
      BY <1>b, <2>2, <3>1 DEF AdminsMatch
  <2> QED
    BY <2>1, <2>2
<1> QED
  BY <1>1, <1>2, <1>3, <1>4, <1>5, <1>6, <1>7, <1>8, <1>9 DEF TenantInv

LEMMA DropSchemaKeeps == ASSUME TenantInv, NEW o \in Operators, DropSchema(o) PROVE TenantInv'
<1>0. /\ Moved(o)
      /\ opc'[o] = "find" /\ opTenant'[o] = NoTenant
  <2>1. opTenant[o] \in Tenant /\ tenant \in Tenant
    BY DEF TenantInv, TenantTypeOK
  <2> QED
    BY <2>1, OperatorMoves, NoTenantIsTenant, LabelsAre DEF TenantInv, OperatorDone, DropSchema
<1>1. TenantTypeOK'
  BY <1>0, TenantAssumption
     DEF TenantInv, TenantTypeOK, Moved, DropSchema, histories, SchemaParts, Tenant, NoTenant,
         TenantIds
<1>2. TenantRowsOK'
  <2>1. issued' \in Nat /\ issued <= issued' /\ tenant'.id <= issued' /\ opTenant'[o].id <= issued'
    BY <1>0, NoTenantIsTenant, TenantAssumption
       DEF TenantInv, TenantTypeOK, TenantRowsOK, DropSchema, histories, Tenant
  <2>2. \A i \in TenantIds : i > issued' => admins'[i] = "NONE"
    BY <1>0, <2>1, TenantAssumption
       DEF TenantInv, TenantTypeOK, TenantRowsOK, DropSchema, histories, TenantIds, Tenant
  <2>3. opc'[o] \in Holding => opTenant'[o].id # 0
    BY <1>0 DEF TenantInv, TenantRowsOK, Holding, StatusSteps, DropSchema, histories
  <2> QED
    BY <1>0, <2>1, <2>2, <2>3, RowsMove DEF TenantInv
<1>3. OneTenantRow'
  BY <1>0, OneRowMoves, NoTenantIsTenant DEF TenantInv, OneTenantRow, TenantRowsOK, DropSchema, histories
<1>4. SchemaBeforeRow'
  BY <1>0 DEF TenantInv, SchemaBeforeRow, Moved, DropSchema, histories, OthersAt, Creating
<1>5. CreationGoesOn'
  BY <1>0 DEF TenantInv, CreationGoesOn, SomeoneAt, Moved, DropSchema, histories
<1>6. SchemaIsClaimed'
  BY <1>0 DEF TenantInv, SchemaIsClaimed, SomeoneAt, Moved, DropSchema, histories
<1>7. OneStatusChange'
  BY <1>0 DEF TenantInv, OneStatusChange, StatusSteps, Moved, DropSchema, histories
<1>8. StatusAsRead'
  BY <1>0 DEF TenantInv, StatusAsRead, Moved, DropSchema, histories
<1>9. AdminsMatch'
  BY <1>0 DEF TenantInv, AdminsMatch, SomeoneAt, Moved, DropSchema, histories
<1> QED
  BY <1>1, <1>2, <1>3, <1>4, <1>5, <1>6, <1>7, <1>8, <1>9 DEF TenantInv

LEMMA FindRecordKeeps == ASSUME TenantInv, NEW o \in Operators, FindRecord(o) PROVE TenantInv'
<1>0. /\ Moved(o)
      /\ opc'[o] = (IF tenant.id = 0 THEN "idle" ELSE "remove") /\ opTenant'[o] = (IF tenant.id = 0 THEN NoTenant ELSE tenant)
  <2>1. opTenant[o] \in Tenant /\ tenant \in Tenant
    BY DEF TenantInv, TenantTypeOK
  <2> QED
    BY <2>1, OperatorMoves, NoTenantIsTenant, LabelsAre DEF TenantInv, OperatorDone, FindRecord
<1>1. TenantTypeOK'
  BY <1>0, TenantAssumption
     DEF TenantInv, TenantTypeOK, Moved, FindRecord, histories, SchemaParts, Tenant, NoTenant,
         TenantIds
<1>2. TenantRowsOK'
  <2>1. issued' \in Nat /\ issued <= issued' /\ tenant'.id <= issued' /\ opTenant'[o].id <= issued'
    BY <1>0, NoTenantIsTenant, TenantAssumption
       DEF TenantInv, TenantTypeOK, TenantRowsOK, FindRecord, histories, Tenant
  <2>2. \A i \in TenantIds : i > issued' => admins'[i] = "NONE"
    BY <1>0, <2>1, TenantAssumption
       DEF TenantInv, TenantTypeOK, TenantRowsOK, FindRecord, histories, TenantIds, Tenant
  <2>3. opc'[o] \in Holding => opTenant'[o].id # 0
    BY <1>0 DEF TenantInv, TenantRowsOK, Holding, StatusSteps, FindRecord, histories
  <2> QED
    BY <1>0, <2>1, <2>2, <2>3, RowsMove DEF TenantInv
<1>3. OneTenantRow'
  BY <1>0, OneRowMoves, NoTenantIsTenant DEF TenantInv, OneTenantRow, TenantRowsOK, FindRecord, histories
<1>4. SchemaBeforeRow'
  BY <1>0 DEF TenantInv, SchemaBeforeRow, Moved, FindRecord, histories
<1>5. CreationGoesOn'
  BY <1>0 DEF TenantInv, CreationGoesOn, SomeoneAt, Moved, FindRecord, histories
<1>6. SchemaIsClaimed'
  BY <1>0 DEF TenantInv, SchemaIsClaimed, SomeoneAt, Moved, FindRecord, histories
<1>7. OneStatusChange'
  BY <1>0 DEF TenantInv, OneStatusChange, StatusSteps, Moved, FindRecord, histories
<1>8. StatusAsRead'
  BY <1>0 DEF TenantInv, StatusAsRead, Moved, FindRecord, histories
<1>9. AdminsMatch'
  BY <1>0 DEF TenantInv, AdminsMatch, SomeoneAt, Moved, FindRecord, histories
<1> QED
  BY <1>1, <1>2, <1>3, <1>4, <1>5, <1>6, <1>7, <1>8, <1>9 DEF TenantInv

LEMMA RemoveRecordKeeps == ASSUME TenantInv, NEW o \in Operators, RemoveRecord(o) PROVE TenantInv'
<1>0. /\ Moved(o)
      /\ opc'[o] = "idle" /\ opTenant'[o] = NoTenant
  <2>1. opTenant[o] \in Tenant /\ tenant \in Tenant
    BY DEF TenantInv, TenantTypeOK
  <2> QED
    BY <2>1, OperatorMoves, NoTenantIsTenant, LabelsAre DEF TenantInv, OperatorDone, RemoveRecord
<1>1. TenantTypeOK'
  BY <1>0, NoTenantIsTenant, TenantAssumption DEF TenantInv, TenantTypeOK, Moved, RemoveRecord
<1>2. TenantRowsOK'
  <2>1. issued' \in Nat /\ issued <= issued' /\ tenant'.id <= issued' /\ opTenant'[o].id <= issued'
    BY <1>0, NoTenantIsTenant, TenantAssumption
       DEF TenantInv, TenantTypeOK, TenantRowsOK, RemoveRecord, histories, Tenant
  <2>2. \A i \in TenantIds : i > issued' => admins'[i] = "NONE"
    BY <1>0, <2>1, TenantAssumption
       DEF TenantInv, TenantTypeOK, TenantRowsOK, RemoveRecord, histories, TenantIds, Tenant
  <2>3. opc'[o] \in Holding => opTenant'[o].id # 0
    BY <1>0 DEF TenantInv, TenantRowsOK, Holding, StatusSteps, RemoveRecord, histories
  <2> QED
    BY <1>0, <2>1, <2>2, <2>3, RowsMove DEF TenantInv
<1>3. OneTenantRow'
  BY <1>0, OneRowMoves, NoTenantIsTenant DEF TenantInv, OneTenantRow, TenantRowsOK, RemoveRecord, histories
<1>4. SchemaBeforeRow'
  BY <1>0 DEF TenantInv, SchemaBeforeRow, Moved, RemoveRecord, histories
<1>5. CreationGoesOn'
  BY <1>0 DEF TenantInv, CreationGoesOn, SomeoneAt, Moved, RemoveRecord, histories
<1>6. SchemaIsClaimed'
  BY <1>0 DEF TenantInv, SchemaIsClaimed, SomeoneAt, Moved, RemoveRecord, histories
<1>7. OneStatusChange'
  BY <1>0 DEF TenantInv, OneStatusChange, StatusSteps, Moved, RemoveRecord, histories
<1>8. StatusAsRead'
  BY <1>0 DEF TenantInv, StatusAsRead, Moved, RemoveRecord, histories
<1>9. AdminsMatch'
  BY <1>0 DEF TenantInv, AdminsMatch, SomeoneAt, Moved, RemoveRecord, histories
<1> QED
  BY <1>1, <1>2, <1>3, <1>4, <1>5, <1>6, <1>7, <1>8, <1>9 DEF TenantInv

LEMMA CreateTenantAdminUserKeeps == ASSUME TenantInv, NEW o \in Operators, CreateTenantAdminUser(o) PROVE TenantInv'
<1>0. /\ Moved(o)
      /\ \/ opc'[o] = "admin" /\ opTenant'[o] = opTenant[o] /\ "user" \in schema'
         \/ opc'[o] = "idle" /\ opTenant'[o] = NoTenant /\ stranded'
  <2>1. opTenant[o] \in Tenant
    BY DEF TenantInv, TenantTypeOK
  <2>2. CASE "tables" \in schema
    <3>1. schema' = schema \cup {"user"} /\ OperatorAt(o, "admin", opTenant[o])
      BY <2>2 DEF CreateTenantAdminUser, Initialize
    <3> QED
      BY <2>1, <3>1, OperatorMoves, LabelsAre DEF TenantInv
  <2>3. CASE "tables" \notin schema
    BY <2>3, OperatorMoves, NoTenantIsTenant, LabelsAre
       DEF TenantInv, CreateTenantAdminUser, Initialize, OperatorDone
  <2> QED
    BY <2>2, <2>3
<1>1. TenantTypeOK'
  BY <1>0, TenantAssumption
     DEF TenantInv, TenantTypeOK, Moved, CreateTenantAdminUser, Initialize, histories, SchemaParts,
         Tenant, NoTenant, TenantIds
<1>2. TenantRowsOK'
  <2>1. issued' \in Nat /\ issued <= issued' /\ tenant'.id <= issued' /\ opTenant'[o].id <= issued'
    BY <1>0, NoTenantIsTenant, TenantAssumption
       DEF TenantInv, TenantTypeOK, TenantRowsOK, CreateTenantAdminUser, Initialize, histories,
           Tenant
  <2>2. \A i \in TenantIds : i > issued' => admins'[i] = "NONE"
    BY <1>0, <2>1, TenantAssumption
       DEF TenantInv, TenantTypeOK, TenantRowsOK, CreateTenantAdminUser, Initialize, histories,
           TenantIds, Tenant
  <2>3. opc'[o] \in Holding => opTenant'[o].id # 0
    BY <1>0 DEF TenantInv, TenantRowsOK, Holding, StatusSteps, CreateTenantAdminUser, Initialize, histories
  <2> QED
    BY <1>0, <2>1, <2>2, <2>3, RowsMove DEF TenantInv
<1>3. OneTenantRow'
  BY <1>0, OneRowMoves, NoTenantIsTenant
     DEF TenantInv, OneTenantRow, TenantRowsOK, CreateTenantAdminUser, Initialize, histories
<1>4. SchemaBeforeRow'
  BY <1>0 DEF TenantInv, SchemaBeforeRow, Moved, CreateTenantAdminUser, Initialize, histories
<1>5. CreationGoesOn'
  BY <1>0 DEF TenantInv, CreationGoesOn, SomeoneAt, Moved, CreateTenantAdminUser, Initialize, histories
<1>6. SchemaIsClaimed'
  BY <1>0 DEF TenantInv, SchemaIsClaimed, SomeoneAt, Moved, CreateTenantAdminUser, Initialize, histories
<1>7. OneStatusChange'
  BY <1>0 DEF TenantInv, OneStatusChange, StatusSteps, Moved, CreateTenantAdminUser, Initialize, histories
<1>8. StatusAsRead'
  BY <1>0 DEF TenantInv, StatusAsRead, Moved, CreateTenantAdminUser, Initialize, histories
<1>9. AdminsMatch'
  BY <1>0 DEF TenantInv, AdminsMatch, SomeoneAt, Moved, CreateTenantAdminUser, Initialize, histories
<1> QED
  BY <1>1, <1>2, <1>3, <1>4, <1>5, <1>6, <1>7, <1>8, <1>9 DEF TenantInv

LEMMA CreateTenantAdminRecordKeeps == ASSUME TenantInv, NEW o \in Operators, CreateTenantAdminRecord(o) PROVE TenantInv'
<1>0. /\ Moved(o)
      /\ \/ /\ opc'[o] = "organization" /\ opTenant'[o] = opTenant[o]
            /\ admins'[opTenant[o].id] = "ACTIVE" /\ opTenant[o].id \in TenantIds
         \/ opc'[o] = "idle" /\ opTenant'[o] = NoTenant /\ stranded'
  <2> DEFINE i == opTenant[o].id
             done == (admins[i] = "ACTIVE" /\ tenant = [id |-> i, isActive |-> TRUE]) \/ AdminFits(i)
  <2>1. opTenant[o] \in Tenant /\ i \in TenantIds
    BY TenantAssumption
       DEF TenantInv, TenantTypeOK, TenantRowsOK, Holding, Tenant, TenantIds,
           CreateTenantAdminRecord
  <2>2. CASE done
    <3>1. OperatorAt(o, "organization", opTenant[o])
      BY <2>2 DEF CreateTenantAdminRecord
    <3>2. admins'[i] = "ACTIVE"
      BY <2>1, <2>2 DEF CreateTenantAdminRecord, InsertAdmin, AdminFits, TenantInv, TenantTypeOK
    <3> QED
      BY <2>1, <3>1, <3>2, OperatorMoves, LabelsAre DEF TenantInv
  <2>3. CASE ~done
    <3>1. OperatorAt(o, "idle", NoTenant) /\ stranded'
      BY <2>3 DEF CreateTenantAdminRecord
    <3> QED
      BY <3>1, OperatorMoves, NoTenantIsTenant, LabelsAre DEF TenantInv
  <2> QED
    BY <2>2, <2>3
<1>a. \/ UNCHANGED admins
      \/ /\ opTenant[o].id = tenant.id
         /\ \A i \in TenantIds : admins'[i] = IF i = tenant.id THEN "ACTIVE" ELSE admins[i]
  BY DEF TenantInv, TenantTypeOK, CreateTenantAdminRecord, InsertAdmin, AdminFits
<1>1. TenantTypeOK'
  BY <1>0, TenantAssumption
     DEF TenantInv, TenantTypeOK, Moved, CreateTenantAdminRecord, InsertAdmin, AdminFits, histories,
         SchemaParts, Tenant, NoTenant, TenantIds
<1>2. TenantRowsOK'
  <2>1. issued' \in Nat /\ issued <= issued' /\ tenant'.id <= issued' /\ opTenant'[o].id <= issued'
    BY <1>0, NoTenantIsTenant, TenantAssumption
       DEF TenantInv, TenantTypeOK, TenantRowsOK, CreateTenantAdminRecord, InsertAdmin, AdminFits,
           histories, Tenant
  <2>2. \A i \in TenantIds : i > issued' => admins'[i] = "NONE"
    BY <1>0, <2>1, TenantAssumption
       DEF TenantInv, TenantTypeOK, TenantRowsOK, CreateTenantAdminRecord, InsertAdmin, AdminFits,
           histories, TenantIds, Tenant
  <2>3. opc'[o] \in Holding => opTenant'[o].id # 0
    BY <1>0
       DEF TenantInv, TenantRowsOK, Holding, StatusSteps, CreateTenantAdminRecord, InsertAdmin,
           AdminFits, histories
  <2> QED
    BY <1>0, <2>1, <2>2, <2>3, RowsMove DEF TenantInv
<1>3. OneTenantRow'
  BY <1>0, OneRowMoves, NoTenantIsTenant
     DEF TenantInv, OneTenantRow, TenantRowsOK, CreateTenantAdminRecord, InsertAdmin, AdminFits,
         histories
<1>4. SchemaBeforeRow'
  BY <1>0 DEF TenantInv, SchemaBeforeRow, Moved, CreateTenantAdminRecord, InsertAdmin, AdminFits, histories
<1>5. CreationGoesOn'
  <2> SUFFICES ASSUME tenant.id # 0, ~trampled, ~stranded' PROVE CreationGoesOn'
    BY DEF CreationGoesOn, CreateTenantAdminRecord
  <2>1. ~stranded
    BY DEF CreateTenantAdminRecord
  <2>2. opc'[o] = "organization" /\ admins'[opTenant[o].id] = "ACTIVE" /\ opTenant[o].id # 0
    BY <1>0 DEF TenantIds
  <2>3. opTenant[o].id = tenant.id
    BY <2>2 DEF TenantInv, OneTenantRow
  <2> QED
    BY <1>0, <2>1, <2>2, <2>3 DEF TenantInv, CreationGoesOn, SomeoneAt, Moved, CreateTenantAdminRecord
<1>6. SchemaIsClaimed'
  BY <1>0
     DEF TenantInv, SchemaIsClaimed, SomeoneAt, Moved, CreateTenantAdminRecord, InsertAdmin,
         AdminFits, histories
<1>7. OneStatusChange'
  BY <1>0
     DEF TenantInv, OneStatusChange, StatusSteps, Moved, CreateTenantAdminRecord, InsertAdmin,
         AdminFits, histories
<1>8. StatusAsRead'
  BY <1>0 DEF TenantInv, StatusAsRead, Moved, CreateTenantAdminRecord, InsertAdmin, AdminFits, histories
<1>9. AdminsMatch'
  <2>1. CASE UNCHANGED admins
    BY <1>0, <2>1 DEF TenantInv, AdminsMatch, SomeoneAt, Moved, CreateTenantAdminRecord, histories
  <2>2. CASE ~UNCHANGED admins
    <3> SUFFICES ASSUME ~crossed, ~trampled, tenant.id # 0 PROVE AdminsMatch'
      BY DEF AdminsMatch, CreateTenantAdminRecord, histories
    <3>1. tenant.isActive /\ ~SomeoneAt({"off", "admins on"})
      BY DEF TenantInv, StatusAsRead, OneStatusChange, StatusSteps, SomeoneAt, CreateTenantAdminRecord
    <3>2. ~SomeoneAt({"off", "admins on"})'
      BY <1>0, <3>1 DEF SomeoneAt, Moved
    <3>3. admins'[tenant.id] = "ACTIVE" /\ tenant' = tenant
      BY <1>a, <2>2, TenantAssumption
         DEF TenantInv, TenantTypeOK, Tenant, TenantIds, CreateTenantAdminRecord
    <3> QED
      BY <3>1, <3>2, <3>3 DEF AdminsMatch
  <2> QED
    BY <2>1, <2>2
<1> QED
  BY <1>1, <1>2, <1>3, <1>4, <1>5, <1>6, <1>7, <1>8, <1>9 DEF TenantInv

LEMMA CreateDefaultOrganizationKeeps == ASSUME TenantInv, NEW o \in Operators, CreateDefaultOrganization(o) PROVE TenantInv'
<1>0. /\ Moved(o)
      /\ opc'[o] = "idle" /\ opTenant'[o] = NoTenant
  <2>1. opTenant[o] \in Tenant /\ tenant \in Tenant
    BY DEF TenantInv, TenantTypeOK
  <2> QED
    BY <2>1, OperatorMoves, NoTenantIsTenant, LabelsAre
       DEF TenantInv, OperatorDone, CreateDefaultOrganization, Initialize
<1>1. TenantTypeOK'
  BY <1>0, TenantAssumption
     DEF TenantInv, TenantTypeOK, Moved, CreateDefaultOrganization, Initialize, histories,
         SchemaParts, Tenant, NoTenant, TenantIds
<1>2. TenantRowsOK'
  <2>1. issued' \in Nat /\ issued <= issued' /\ tenant'.id <= issued' /\ opTenant'[o].id <= issued'
    BY <1>0, NoTenantIsTenant, TenantAssumption
       DEF TenantInv, TenantTypeOK, TenantRowsOK, CreateDefaultOrganization, Initialize, histories,
           Tenant
  <2>2. \A i \in TenantIds : i > issued' => admins'[i] = "NONE"
    BY <1>0, <2>1, TenantAssumption
       DEF TenantInv, TenantTypeOK, TenantRowsOK, CreateDefaultOrganization, Initialize, histories,
           TenantIds, Tenant
  <2>3. opc'[o] \in Holding => opTenant'[o].id # 0
    BY <1>0
       DEF TenantInv, TenantRowsOK, Holding, StatusSteps, CreateDefaultOrganization, Initialize,
           histories
  <2> QED
    BY <1>0, <2>1, <2>2, <2>3, RowsMove DEF TenantInv
<1>3. OneTenantRow'
  BY <1>0, OneRowMoves, NoTenantIsTenant
     DEF TenantInv, OneTenantRow, TenantRowsOK, CreateDefaultOrganization, Initialize, histories
<1>4. SchemaBeforeRow'
  BY <1>0 DEF TenantInv, SchemaBeforeRow, Moved, CreateDefaultOrganization, Initialize, histories
<1>5. CreationGoesOn'
  BY <1>0 DEF TenantInv, CreationGoesOn, SomeoneAt, Moved, CreateDefaultOrganization, Initialize, histories
<1>6. SchemaIsClaimed'
  BY <1>0 DEF TenantInv, SchemaIsClaimed, SomeoneAt, Moved, CreateDefaultOrganization, Initialize, histories
<1>7. OneStatusChange'
  BY <1>0
     DEF TenantInv, OneStatusChange, StatusSteps, Moved, CreateDefaultOrganization, Initialize,
         histories
<1>8. StatusAsRead'
  BY <1>0 DEF TenantInv, StatusAsRead, Moved, CreateDefaultOrganization, Initialize, histories
<1>9. AdminsMatch'
  BY <1>0 DEF TenantInv, AdminsMatch, SomeoneAt, Moved, CreateDefaultOrganization, Initialize, histories
<1> QED
  BY <1>1, <1>2, <1>3, <1>4, <1>5, <1>6, <1>7, <1>8, <1>9 DEF TenantInv

LEMMA FixTenantAdminKeeps == ASSUME TenantInv, NEW o \in Operators, FixTenantAdmin(o) PROVE TenantInv'
<1>0. /\ Moved(o)
      /\ opc'[o] = "fix" /\ opTenant'[o] = tenant
  <2>1. opTenant[o] \in Tenant /\ tenant \in Tenant
    BY DEF TenantInv, TenantTypeOK
  <2> QED
    BY <2>1, OperatorMoves, NoTenantIsTenant, LabelsAre DEF TenantInv, OperatorDone, FixTenantAdmin
<1>1. TenantTypeOK'
  BY <1>0, TenantAssumption
     DEF TenantInv, TenantTypeOK, Moved, FixTenantAdmin, histories, SchemaParts, Tenant, NoTenant,
         TenantIds
<1>2. TenantRowsOK'
  <2>1. issued' \in Nat /\ issued <= issued' /\ tenant'.id <= issued' /\ opTenant'[o].id <= issued'
    BY <1>0, NoTenantIsTenant, TenantAssumption
       DEF TenantInv, TenantTypeOK, TenantRowsOK, FixTenantAdmin, histories, Tenant
  <2>2. \A i \in TenantIds : i > issued' => admins'[i] = "NONE"
    BY <1>0, <2>1, TenantAssumption
       DEF TenantInv, TenantTypeOK, TenantRowsOK, FixTenantAdmin, histories, TenantIds, Tenant
  <2>3. opc'[o] \in Holding => opTenant'[o].id # 0
    BY <1>0 DEF TenantInv, TenantRowsOK, Holding, StatusSteps, FixTenantAdmin, histories
  <2> QED
    BY <1>0, <2>1, <2>2, <2>3, RowsMove DEF TenantInv
<1>3. OneTenantRow'
  BY <1>0, OneRowMoves, NoTenantIsTenant
     DEF TenantInv, OneTenantRow, TenantRowsOK, FixTenantAdmin, histories
<1>4. SchemaBeforeRow'
  BY <1>0 DEF TenantInv, SchemaBeforeRow, Moved, FixTenantAdmin, histories
<1>5. CreationGoesOn'
  BY <1>0 DEF TenantInv, CreationGoesOn, SomeoneAt, Moved, FixTenantAdmin, histories
<1>6. SchemaIsClaimed'
  BY <1>0 DEF TenantInv, SchemaIsClaimed, SomeoneAt, Moved, FixTenantAdmin, histories
<1>7. OneStatusChange'
  BY <1>0 DEF TenantInv, OneStatusChange, OthersAt, StatusSteps, Moved, FixTenantAdmin
<1>8. StatusAsRead'
  BY <1>0 DEF TenantInv, StatusAsRead, Moved, FixTenantAdmin, histories
<1>9. AdminsMatch'
  BY <1>0 DEF TenantInv, AdminsMatch, SomeoneAt, Moved, FixTenantAdmin, histories
<1> QED
  BY <1>1, <1>2, <1>3, <1>4, <1>5, <1>6, <1>7, <1>8, <1>9 DEF TenantInv

LEMMA FixRecordKeeps == ASSUME TenantInv, NEW o \in Operators, FixRecord(o) PROVE TenantInv'
<1>0. /\ Moved(o)
      /\ opc'[o] = "idle" /\ opTenant'[o] = NoTenant
  BY OperatorMoves, NoTenantIsTenant, LabelsAre DEF TenantInv, OperatorDone, FixRecord
<1>a. \/ UNCHANGED admins
      \/ /\ opTenant[o].id = tenant.id
         /\ \A i \in TenantIds : admins'[i] = IF i = tenant.id THEN "ACTIVE" ELSE admins[i]
  BY DEF TenantInv, TenantTypeOK, FixRecord, InsertAdmin, AdminFits
<1>1. TenantTypeOK'
  BY <1>0, TenantAssumption
     DEF TenantInv, TenantTypeOK, Moved, FixRecord, InsertAdmin, AdminFits, histories, SchemaParts,
         Tenant, NoTenant, TenantIds
<1>2. TenantRowsOK'
  <2>1. issued' \in Nat /\ issued <= issued' /\ tenant'.id <= issued' /\ opTenant'[o].id <= issued'
    BY <1>0, NoTenantIsTenant, TenantAssumption
       DEF TenantInv, TenantTypeOK, TenantRowsOK, FixRecord, InsertAdmin, AdminFits, histories,
           Tenant
  <2>2. \A i \in TenantIds : i > issued' => admins'[i] = "NONE"
    BY <1>0, <2>1, TenantAssumption
       DEF TenantInv, TenantTypeOK, TenantRowsOK, FixRecord, InsertAdmin, AdminFits, histories,
           TenantIds, Tenant
  <2>3. opc'[o] \in Holding => opTenant'[o].id # 0
    BY <1>0 DEF TenantInv, TenantRowsOK, Holding, StatusSteps, FixRecord, InsertAdmin, AdminFits, histories
  <2> QED
    BY <1>0, <2>1, <2>2, <2>3, RowsMove DEF TenantInv
<1>3. OneTenantRow'
  BY <1>0, OneRowMoves, NoTenantIsTenant
     DEF TenantInv, OneTenantRow, TenantRowsOK, FixRecord, InsertAdmin, AdminFits, histories
<1>4. SchemaBeforeRow'
  BY <1>0 DEF TenantInv, SchemaBeforeRow, Moved, FixRecord, InsertAdmin, AdminFits, histories
<1>5. CreationGoesOn'
  BY <1>0 DEF TenantInv, CreationGoesOn, SomeoneAt, Moved, FixRecord, InsertAdmin, AdminFits, histories
<1>6. SchemaIsClaimed'
  BY <1>0 DEF TenantInv, SchemaIsClaimed, SomeoneAt, Moved, FixRecord, InsertAdmin, AdminFits, histories
<1>7. OneStatusChange'
  BY <1>0 DEF TenantInv, OneStatusChange, StatusSteps, Moved, FixRecord, InsertAdmin, AdminFits, histories
<1>8. StatusAsRead'
  BY <1>0 DEF TenantInv, StatusAsRead, Moved, FixRecord, InsertAdmin, AdminFits, histories
<1>9. AdminsMatch'
  <2>1. CASE UNCHANGED admins
    BY <1>0, <2>1 DEF TenantInv, AdminsMatch, SomeoneAt, Moved, FixRecord, histories
  <2>2. CASE ~UNCHANGED admins
    <3> SUFFICES ASSUME ~crossed, ~trampled, tenant.id # 0 PROVE AdminsMatch'
      BY DEF AdminsMatch, FixRecord, histories
    <3>1. tenant.isActive /\ ~SomeoneAt({"off", "admins on"})
      BY DEF TenantInv, StatusAsRead, OneStatusChange, StatusSteps, SomeoneAt, FixRecord
    <3>2. ~SomeoneAt({"off", "admins on"})'
      BY <1>0, <3>1 DEF SomeoneAt, Moved
    <3>3. admins'[tenant.id] = "ACTIVE" /\ tenant' = tenant
      BY <1>a, <2>2, TenantAssumption DEF TenantInv, TenantTypeOK, Tenant, TenantIds, FixRecord
    <3> QED
      BY <3>1, <3>2, <3>3 DEF AdminsMatch
  <2> QED
    BY <2>1, <2>2
<1> QED
  BY <1>1, <1>2, <1>3, <1>4, <1>5, <1>6, <1>7, <1>8, <1>9 DEF TenantInv

LEMMA UpdateTenantKeeps == ASSUME TenantInv, NEW o \in Operators, UpdateTenant(o) PROVE TenantInv'
<1>0. /\ Moved(o)
      /\ opc[o] = "idle" /\ opc'[o] = "save" /\ opTenant'[o].id = tenant.id /\ tenant.id # 0
      /\ UNCHANGED <<tenant, admins, schema, issued, tenantFaults, trampled, stranded>>
      /\ crossed' = (crossed \/ OthersAt(o, StatusSteps \cup {"user", "admin", "fix"}))
  <2>1. PICK b \in BOOLEAN : ReadTenant(o, "save", [tenant EXCEPT !.isActive = b])
    BY DEF UpdateTenant
  <2>2. [tenant EXCEPT !.isActive = b] \in Tenant /\ [tenant EXCEPT !.isActive = b].id = tenant.id
    BY DEF TenantInv, TenantTypeOK, Tenant
  <2> QED
    BY <2>1, <2>2, OperatorMoves, LabelsAre DEF TenantInv, ReadTenant
<1>1. TenantTypeOK'
  BY <1>0, TenantAssumption DEF TenantInv, TenantTypeOK, Moved, SchemaParts, Tenant, NoTenant, TenantIds
<1>2. TenantRowsOK'
  <2>0. issued \in Nat /\ tenant.id <= issued /\ opTenant[o].id <= issued
    BY TenantAssumption DEF TenantInv, TenantTypeOK, TenantRowsOK
  <2>a. issued' = issued /\ tenant'.id = tenant.id /\ opTenant'[o].id \in {0, tenant.id, opTenant[o].id}
    BY <1>0, NoTenantIsTenant
  <2>1. issued' \in Nat /\ issued <= issued' /\ tenant'.id <= issued' /\ opTenant'[o].id <= issued'
    BY <2>0, <2>a
  <2>2. \A i \in TenantIds : i > issued' => admins'[i] = "NONE"
    BY <1>0, <2>1, TenantAssumption DEF TenantInv, TenantTypeOK, TenantRowsOK, TenantIds, Tenant
  <2>3. opc'[o] \in Holding => opTenant'[o].id # 0
    BY <1>0 DEF TenantInv, TenantRowsOK, Holding, StatusSteps
  <2> QED
    BY <1>0, <2>1, <2>2, <2>3, RowsMove DEF TenantInv
<1>3. OneTenantRow'
  BY <1>0, OneRowMoves, NoTenantIsTenant DEF TenantInv, OneTenantRow, TenantRowsOK
<1>4. SchemaBeforeRow'
  BY <1>0 DEF TenantInv, SchemaBeforeRow, Moved
<1>5. CreationGoesOn'
  BY <1>0 DEF TenantInv, CreationGoesOn, SomeoneAt, Moved
<1>6. SchemaIsClaimed'
  BY <1>0 DEF TenantInv, SchemaIsClaimed, SomeoneAt, Moved
<1>7. OneStatusChange'
  BY <1>0 DEF TenantInv, OneStatusChange, OthersAt, StatusSteps, Moved
<1>8. StatusAsRead'
  BY <1>0 DEF TenantInv, StatusAsRead, Moved
<1>9. AdminsMatch'
  BY <1>0 DEF TenantInv, AdminsMatch, SomeoneAt, Moved
<1> QED
  BY <1>1, <1>2, <1>3, <1>4, <1>5, <1>6, <1>7, <1>8, <1>9 DEF TenantInv

LEMMA SaveTenantKeeps == ASSUME TenantInv, NEW o \in Operators, SaveTenant(o) PROVE TenantInv'
<1>0. /\ Moved(o)
      /\ opc'[o] = "idle" /\ opTenant'[o] = NoTenant
      /\ tenant' \in {tenant, opTenant[o]} /\ (tenant'.id = tenant.id \/ trampled)
  <2>1. Moved(o) /\ opc'[o] = "idle" /\ opTenant'[o] = NoTenant
    BY OperatorMoves, NoTenantIsTenant, LabelsAre DEF TenantInv, OperatorDone, SaveTenant
  <2>2. opTenant[o].id # 0 /\ (opTenant[o].id = tenant.id \/ trampled)
    BY DEF TenantInv, TenantRowsOK, OneTenantRow, Holding, StatusSteps, SaveTenant
  <2> QED
    BY <2>1, <2>2 DEF SaveTenant
<1>1. TenantTypeOK'
  BY <1>0, TenantAssumption
     DEF TenantInv, TenantTypeOK, Moved, SaveTenant, histories, SchemaParts, Tenant, NoTenant,
         TenantIds
<1>2. TenantRowsOK'
  <2>1. issued' \in Nat /\ issued <= issued' /\ tenant'.id <= issued' /\ opTenant'[o].id <= issued'
    BY <1>0, NoTenantIsTenant, TenantAssumption
       DEF TenantInv, TenantTypeOK, TenantRowsOK, SaveTenant, histories, Tenant
  <2>2. \A i \in TenantIds : i > issued' => admins'[i] = "NONE"
    BY <1>0, <2>1, TenantAssumption
       DEF TenantInv, TenantTypeOK, TenantRowsOK, SaveTenant, histories, TenantIds, Tenant
  <2>3. opc'[o] \in Holding => opTenant'[o].id # 0
    BY <1>0 DEF TenantInv, TenantRowsOK, Holding, StatusSteps, SaveTenant, histories
  <2> QED
    BY <1>0, <2>1, <2>2, <2>3, RowsMove DEF TenantInv
<1>3. OneTenantRow'
  BY <1>0, OneRowMoves, NoTenantIsTenant DEF TenantInv, OneTenantRow, TenantRowsOK, SaveTenant, histories
<1>4. SchemaBeforeRow'
  BY <1>0 DEF TenantInv, SchemaBeforeRow, Moved, SaveTenant, histories
<1>5. CreationGoesOn'
  BY <1>0 DEF TenantInv, CreationGoesOn, SomeoneAt, Moved, SaveTenant, histories
<1>6. SchemaIsClaimed'
  BY <1>0 DEF TenantInv, SchemaIsClaimed, SomeoneAt, Moved, SaveTenant, histories
<1>7. OneStatusChange'
  BY <1>0 DEF TenantInv, OneStatusChange, StatusSteps, Moved, SaveTenant, histories
<1>8. StatusAsRead'
  BY <1>0 DEF TenantInv, StatusAsRead, Moved, SaveTenant, histories
<1>9. AdminsMatch'
  BY <1>0 DEF TenantInv, AdminsMatch, SomeoneAt, Moved, SaveTenant, histories
<1> QED
  BY <1>1, <1>2, <1>3, <1>4, <1>5, <1>6, <1>7, <1>8, <1>9 DEF TenantInv

LEMMA DeactivateTenantKeeps == ASSUME TenantInv, NEW o \in Operators, DeactivateTenant(o) PROVE TenantInv'
<1>0. /\ Moved(o)
      /\ opc[o] = "idle" /\ opc'[o] = "admins off" /\ opTenant'[o] = tenant /\ tenant.id # 0 /\ tenant.isActive
      /\ UNCHANGED <<tenant, admins, schema, issued, tenantFaults, trampled, stranded>>
      /\ crossed' = (crossed \/ OthersAt(o, StatusSteps \cup {"user", "admin", "fix"}))
  BY OperatorMoves, LabelsAre DEF TenantInv, TenantTypeOK, DeactivateTenant, ReadTenant
<1>1. TenantTypeOK'
  BY <1>0, TenantAssumption DEF TenantInv, TenantTypeOK, Moved, SchemaParts, Tenant, NoTenant, TenantIds
<1>2. TenantRowsOK'
  <2>0. issued \in Nat /\ tenant.id <= issued /\ opTenant[o].id <= issued
    BY TenantAssumption DEF TenantInv, TenantTypeOK, TenantRowsOK
  <2>a. issued' = issued /\ tenant'.id = tenant.id /\ opTenant'[o].id \in {0, tenant.id, opTenant[o].id}
    BY <1>0, NoTenantIsTenant
  <2>1. issued' \in Nat /\ issued <= issued' /\ tenant'.id <= issued' /\ opTenant'[o].id <= issued'
    BY <2>0, <2>a
  <2>2. \A i \in TenantIds : i > issued' => admins'[i] = "NONE"
    BY <1>0, <2>1, TenantAssumption DEF TenantInv, TenantTypeOK, TenantRowsOK, TenantIds, Tenant
  <2>3. opc'[o] \in Holding => opTenant'[o].id # 0
    BY <1>0 DEF TenantInv, TenantRowsOK, Holding, StatusSteps
  <2> QED
    BY <1>0, <2>1, <2>2, <2>3, RowsMove DEF TenantInv
<1>3. OneTenantRow'
  BY <1>0, OneRowMoves, NoTenantIsTenant DEF TenantInv, OneTenantRow, TenantRowsOK
<1>4. SchemaBeforeRow'
  BY <1>0 DEF TenantInv, SchemaBeforeRow, Moved
<1>5. CreationGoesOn'
  BY <1>0 DEF TenantInv, CreationGoesOn, SomeoneAt, Moved
<1>6. SchemaIsClaimed'
  BY <1>0 DEF TenantInv, SchemaIsClaimed, SomeoneAt, Moved
<1>7. OneStatusChange'
  BY <1>0 DEF TenantInv, OneStatusChange, OthersAt, StatusSteps, Moved
<1>8. StatusAsRead'
  BY <1>0 DEF TenantInv, StatusAsRead, Moved
<1>9. AdminsMatch'
  BY <1>0 DEF TenantInv, AdminsMatch, SomeoneAt, Moved
<1> QED
  BY <1>1, <1>2, <1>3, <1>4, <1>5, <1>6, <1>7, <1>8, <1>9 DEF TenantInv

LEMMA DeactivateTenantAdminsKeeps == ASSUME TenantInv, NEW o \in Operators, DeactivateTenantAdmins(o) PROVE TenantInv'
<1>0. /\ Moved(o)
      /\ opc[o] = "admins off" /\ opc'[o] = "off" /\ opTenant'[o] = opTenant[o]
      /\ \A i \in TenantIds : admins'[i] = IF i = opTenant[o].id /\ admins[i] = "ACTIVE" THEN "INACTIVE" ELSE admins[i]
      /\ admins' \in [TenantIds -> {"NONE", "ACTIVE", "INACTIVE"}]
      /\ UNCHANGED <<tenant, schema, issued, tenantFaults, trampled, stranded, crossed>>
  <2>1. opTenant[o] \in Tenant
    BY DEF TenantInv, TenantTypeOK
  <2>2. admins' = [admins EXCEPT ![opTenant[o].id] =
                      IF @ = "ACTIVE" THEN "INACTIVE" ELSE @]
    BY DEF DeactivateTenantAdmins, SetAdmins
  <2>3. /\ \A i \in TenantIds : admins'[i] = IF i = opTenant[o].id /\ admins[i] = "ACTIVE"
                                           THEN "INACTIVE" ELSE admins[i]
        /\ admins' \in [TenantIds -> {"NONE", "ACTIVE", "INACTIVE"}]
    BY <2>2 DEF TenantInv, TenantTypeOK
  <2> QED
    BY <2>1, <2>3, OperatorMoves, NoTenantIsTenant, LabelsAre
       DEF TenantInv, TenantTypeOK, DeactivateTenantAdmins, SetAdmins, histories
<1>a. ~trampled => tenant.id = opTenant[o].id
  BY <1>0 DEF TenantInv, TenantRowsOK, OneTenantRow, Holding, StatusSteps
<1>b. tenant.id # 0 => tenant.id \in TenantIds
  BY TenantAssumption DEF TenantInv, TenantTypeOK, Tenant, TenantIds
<1>1. TenantTypeOK'
  BY <1>0, TenantAssumption DEF TenantInv, TenantTypeOK, Moved, SchemaParts, Tenant, NoTenant, TenantIds
<1>2. TenantRowsOK'
  <2>0. issued \in Nat /\ tenant.id <= issued /\ opTenant[o].id <= issued
    BY TenantAssumption DEF TenantInv, TenantTypeOK, TenantRowsOK
  <2>a. issued' = issued /\ tenant'.id = tenant.id /\ opTenant'[o].id \in {0, tenant.id, opTenant[o].id}
    BY <1>0, NoTenantIsTenant
  <2>1. issued' \in Nat /\ issued <= issued' /\ tenant'.id <= issued' /\ opTenant'[o].id <= issued'
    BY <2>0, <2>a
  <2>2. \A i \in TenantIds : i > issued' => admins'[i] = "NONE"
    BY <1>0, <2>1, TenantAssumption DEF TenantInv, TenantTypeOK, TenantRowsOK, TenantIds, Tenant
  <2>3. opc'[o] \in Holding => opTenant'[o].id # 0
    BY <1>0 DEF TenantInv, TenantRowsOK, Holding, StatusSteps
  <2> QED
    BY <1>0, <2>1, <2>2, <2>3, RowsMove DEF TenantInv
<1>3. OneTenantRow'
  BY <1>0, OneRowMoves, NoTenantIsTenant DEF TenantInv, OneTenantRow, TenantRowsOK
<1>4. SchemaBeforeRow'
  BY <1>0, SchemaStaysBefore DEF TenantInv
<1>5. CreationGoesOn'
  <2>1. tenant.id # 0 => (admins[tenant.id] = "NONE" <=> admins'[tenant.id] = "NONE")
    BY <1>0, <1>b
  <2> QED
    BY <1>0, <2>1 DEF TenantInv, CreationGoesOn, SomeoneAt, Moved
<1>6. SchemaIsClaimed'
  BY <1>0 DEF TenantInv, SchemaIsClaimed, SomeoneAt, Moved
<1>7. OneStatusChange'
  <2>1. opc[o] \in StatusSteps /\ opc'[o] \in StatusSteps \cup {"idle"}
    BY <1>0 DEF StatusSteps
  <2> QED
    BY <1>0, <2>1, StatusChangeMoves DEF TenantInv
<1>8. StatusAsRead'
  BY <1>0 DEF TenantInv, StatusAsRead, Moved
<1>9. AdminsMatch'
  <2> SUFFICES ASSUME ~crossed, ~trampled, tenant.id # 0 PROVE AdminsMatch'
    BY <1>0 DEF AdminsMatch
  <2>1. tenant.isActive /\ \A p \in Operators \ {o} : opc[p] \notin StatusSteps
    <3>1. tenant.isActive
      BY <1>0 DEF TenantInv, StatusAsRead
    <3>2. opc[o] \in StatusSteps
      BY <1>0 DEF StatusSteps
    <3>3. \A p \in Operators \ {o} : opc[p] \notin StatusSteps
      BY <3>2 DEF TenantInv, OneStatusChange
    <3> QED
      BY <3>1, <3>3
  <2>2. \A p \in Operators \ {o} : opc[p] \notin {"off", "admins on"} /\ opc'[p] \notin {"off", "admins on"}
    <3>1. \A p \in Operators \ {o} : opc'[p] = opc[p]
      BY <1>0 DEF Moved
    <3> QED
      BY <2>1, <3>1 DEF StatusSteps
  <2>3. ~SomeoneAt({"off", "admins on"})
    BY <1>0, <2>2 DEF SomeoneAt
  <2>4. admins[tenant.id] \in {"NONE", "ACTIVE"}
    BY <2>1, <2>3 DEF TenantInv, AdminsMatch
  <2>5. admins'[tenant.id] \in {"NONE", "INACTIVE"}
    BY <1>0, <1>a, <1>b, <2>4
  <2>6. SomeoneAt({"off", "admins on"})'
    BY <1>0 DEF SomeoneAt
  <2> QED
    BY <1>0, <2>5, <2>6 DEF AdminsMatch
<1> QED
  BY <1>1, <1>2, <1>3, <1>4, <1>5, <1>6, <1>7, <1>8, <1>9 DEF TenantInv

LEMMA DeactivateRowKeeps == ASSUME TenantInv, NEW o \in Operators, DeactivateRow(o) PROVE TenantInv'
<1>0. /\ Moved(o)
      /\ opc[o] = "off" /\ opc'[o] = "idle" /\ opTenant'[o] = NoTenant
      /\ tenant' \in Tenant /\ tenant'.id = tenant.id /\ (~trampled => ~tenant'.isActive)
      /\ UNCHANGED <<admins, schema, issued, tenantFaults, trampled, stranded, crossed>>
  <2>1. opTenant[o] \in Tenant /\ tenant \in Tenant
    BY DEF TenantInv, TenantTypeOK
  <2>2. ~trampled => tenant.id = opTenant[o].id
    BY DEF TenantInv, TenantRowsOK, OneTenantRow, Holding, StatusSteps, DeactivateRow, SetActive
  <2>3. tenant' \in Tenant /\ tenant'.id = tenant.id /\ (~trampled => ~tenant'.isActive)
    BY <2>1, <2>2 DEF DeactivateRow, SetActive, Tenant
  <2> QED
    BY <2>1, <2>3, OperatorMoves, NoTenantIsTenant, LabelsAre
       DEF TenantInv, DeactivateRow, SetActive, histories
<1>1. TenantTypeOK'
  BY <1>0, TenantAssumption DEF TenantInv, TenantTypeOK, Moved, SchemaParts, Tenant, NoTenant, TenantIds
<1>2. TenantRowsOK'
  <2>0. issued \in Nat /\ tenant.id <= issued /\ opTenant[o].id <= issued
    BY TenantAssumption DEF TenantInv, TenantTypeOK, TenantRowsOK
  <2>a. issued' = issued /\ tenant'.id = tenant.id /\ opTenant'[o].id \in {0, tenant.id, opTenant[o].id}
    BY <1>0, NoTenantIsTenant
  <2>1. issued' \in Nat /\ issued <= issued' /\ tenant'.id <= issued' /\ opTenant'[o].id <= issued'
    BY <2>0, <2>a
  <2>2. \A i \in TenantIds : i > issued' => admins'[i] = "NONE"
    BY <1>0, <2>1, TenantAssumption DEF TenantInv, TenantTypeOK, TenantRowsOK, TenantIds, Tenant
  <2>3. opc'[o] \in Holding => opTenant'[o].id # 0
    BY <1>0 DEF TenantInv, TenantRowsOK, Holding, StatusSteps
  <2> QED
    BY <1>0, <2>1, <2>2, <2>3, RowsMove DEF TenantInv
<1>3. OneTenantRow'
  BY <1>0, OneRowMoves, NoTenantIsTenant DEF TenantInv, OneTenantRow, TenantRowsOK
<1>4. SchemaBeforeRow'
  BY <1>0, SchemaStaysBefore DEF TenantInv
<1>5. CreationGoesOn'
  BY <1>0 DEF TenantInv, CreationGoesOn, SomeoneAt, Moved
<1>6. SchemaIsClaimed'
  BY <1>0 DEF TenantInv, SchemaIsClaimed, SomeoneAt, Moved
<1>7. OneStatusChange'
  <2>1. opc[o] \in StatusSteps /\ opc'[o] \in StatusSteps \cup {"idle"}
    BY <1>0 DEF StatusSteps
  <2> QED
    BY <1>0, <2>1, StatusChangeMoves DEF TenantInv
<1>8. StatusAsRead'
  <2> SUFFICES ASSUME ~crossed, ~trampled PROVE StatusAsRead'
    BY <1>0 DEF StatusAsRead
  <2>1. \A p \in Operators \ {o} : opc'[p] \notin StatusSteps \cup {"user", "admin", "fix"}
    BY <1>0 DEF TenantInv, OneStatusChange, StatusSteps, Moved
  <2> QED
    BY <1>0, <2>1 DEF StatusAsRead, StatusSteps
<1>9. AdminsMatch'
  <2> SUFFICES ASSUME ~crossed, ~trampled, tenant.id # 0 PROVE AdminsMatch'
    BY <1>0 DEF AdminsMatch
  <2>1. \A p \in Operators \ {o} : opc[p] \notin StatusSteps
    BY <1>0 DEF TenantInv, OneStatusChange, StatusSteps
  <2>2. \A p \in Operators \ {o} : opc'[p] \notin {"off", "admins on"}
    BY <1>0, <2>1 DEF Moved, StatusSteps
  <2>3. ~SomeoneAt({"off", "admins on"})'
    BY <1>0, <2>2 DEF SomeoneAt
  <2>4. admins[tenant.id] \in {"NONE", "INACTIVE"}
    BY <1>0 DEF TenantInv, AdminsMatch, StatusAsRead, SomeoneAt
  <2> QED
    BY <1>0, <2>3, <2>4 DEF AdminsMatch
<1> QED
  BY <1>1, <1>2, <1>3, <1>4, <1>5, <1>6, <1>7, <1>8, <1>9 DEF TenantInv

LEMMA ReactivateTenantKeeps == ASSUME TenantInv, NEW o \in Operators, ReactivateTenant(o) PROVE TenantInv'
<1>0. /\ Moved(o)
      /\ opc[o] = "idle" /\ opc'[o] = "validate" /\ opTenant'[o] = tenant /\ tenant.id # 0 /\ ~tenant.isActive
      /\ UNCHANGED <<tenant, admins, schema, issued, tenantFaults, trampled, stranded>>
      /\ crossed' = (crossed \/ OthersAt(o, StatusSteps \cup {"user", "admin", "fix"}))
  BY OperatorMoves, LabelsAre DEF TenantInv, TenantTypeOK, ReactivateTenant, ReadTenant
<1>1. TenantTypeOK'
  BY <1>0, TenantAssumption DEF TenantInv, TenantTypeOK, Moved, SchemaParts, Tenant, NoTenant, TenantIds
<1>2. TenantRowsOK'
  <2>0. issued \in Nat /\ tenant.id <= issued /\ opTenant[o].id <= issued
    BY TenantAssumption DEF TenantInv, TenantTypeOK, TenantRowsOK
  <2>a. issued' = issued /\ tenant'.id = tenant.id /\ opTenant'[o].id \in {0, tenant.id, opTenant[o].id}
    BY <1>0, NoTenantIsTenant
  <2>1. issued' \in Nat /\ issued <= issued' /\ tenant'.id <= issued' /\ opTenant'[o].id <= issued'
    BY <2>0, <2>a
  <2>2. \A i \in TenantIds : i > issued' => admins'[i] = "NONE"
    BY <1>0, <2>1, TenantAssumption DEF TenantInv, TenantTypeOK, TenantRowsOK, TenantIds, Tenant
  <2>3. opc'[o] \in Holding => opTenant'[o].id # 0
    BY <1>0 DEF TenantInv, TenantRowsOK, Holding, StatusSteps
  <2> QED
    BY <1>0, <2>1, <2>2, <2>3, RowsMove DEF TenantInv
<1>3. OneTenantRow'
  BY <1>0, OneRowMoves, NoTenantIsTenant DEF TenantInv, OneTenantRow, TenantRowsOK
<1>4. SchemaBeforeRow'
  BY <1>0 DEF TenantInv, SchemaBeforeRow, Moved
<1>5. CreationGoesOn'
  BY <1>0 DEF TenantInv, CreationGoesOn, SomeoneAt, Moved
<1>6. SchemaIsClaimed'
  BY <1>0 DEF TenantInv, SchemaIsClaimed, SomeoneAt, Moved
<1>7. OneStatusChange'
  BY <1>0 DEF TenantInv, OneStatusChange, OthersAt, StatusSteps, Moved
<1>8. StatusAsRead'
  BY <1>0 DEF TenantInv, StatusAsRead, Moved
<1>9. AdminsMatch'
  BY <1>0 DEF TenantInv, AdminsMatch, SomeoneAt, Moved
<1> QED
  BY <1>1, <1>2, <1>3, <1>4, <1>5, <1>6, <1>7, <1>8, <1>9 DEF TenantInv

LEMMA ValidateReactivationKeeps == ASSUME TenantInv, NEW o \in Operators, ValidateReactivation(o) PROVE TenantInv'
<1>0. /\ Moved(o)
      /\ \/ opc'[o] = "idle" /\ opTenant'[o] = NoTenant
         \/ opc'[o] = "on" /\ opTenant'[o] = opTenant[o]
  <2>1. opTenant[o] \in Tenant /\ tenant \in Tenant
    BY DEF TenantInv, TenantTypeOK
  <2> QED
    BY <2>1, OperatorMoves, NoTenantIsTenant, LabelsAre DEF TenantInv, OperatorDone, ValidateReactivation
<1>1. TenantTypeOK'
  BY <1>0, TenantAssumption
     DEF TenantInv, TenantTypeOK, Moved, ValidateReactivation, histories, SchemaParts, Tenant,
         NoTenant, TenantIds
<1>2. TenantRowsOK'
  <2>1. issued' \in Nat /\ issued <= issued' /\ tenant'.id <= issued' /\ opTenant'[o].id <= issued'
    BY <1>0, NoTenantIsTenant, TenantAssumption
       DEF TenantInv, TenantTypeOK, TenantRowsOK, ValidateReactivation, histories, Tenant
  <2>2. \A i \in TenantIds : i > issued' => admins'[i] = "NONE"
    BY <1>0, <2>1, TenantAssumption
       DEF TenantInv, TenantTypeOK, TenantRowsOK, ValidateReactivation, histories, TenantIds, Tenant
  <2>3. opc'[o] \in Holding => opTenant'[o].id # 0
    BY <1>0 DEF TenantInv, TenantRowsOK, Holding, StatusSteps, ValidateReactivation, histories
  <2> QED
    BY <1>0, <2>1, <2>2, <2>3, RowsMove DEF TenantInv
<1>3. OneTenantRow'
  BY <1>0, OneRowMoves, NoTenantIsTenant
     DEF TenantInv, OneTenantRow, TenantRowsOK, ValidateReactivation, histories
<1>4. SchemaBeforeRow'
  BY <1>0 DEF TenantInv, SchemaBeforeRow, Moved, ValidateReactivation, histories
<1>5. CreationGoesOn'
  BY <1>0 DEF TenantInv, CreationGoesOn, SomeoneAt, Moved, ValidateReactivation, histories
<1>6. SchemaIsClaimed'
  BY <1>0 DEF TenantInv, SchemaIsClaimed, SomeoneAt, Moved, ValidateReactivation, histories
<1>7. OneStatusChange'
  BY <1>0 DEF TenantInv, OneStatusChange, StatusSteps, Moved, ValidateReactivation, histories
<1>8. StatusAsRead'
  BY <1>0 DEF TenantInv, StatusAsRead, Moved, ValidateReactivation, histories
<1>9. AdminsMatch'
  BY <1>0 DEF TenantInv, AdminsMatch, SomeoneAt, Moved, ValidateReactivation, histories
<1> QED
  BY <1>1, <1>2, <1>3, <1>4, <1>5, <1>6, <1>7, <1>8, <1>9 DEF TenantInv

LEMMA ActivateRowKeeps == ASSUME TenantInv, NEW o \in Operators, ActivateRow(o) PROVE TenantInv'
<1>0. /\ Moved(o)
      /\ opc[o] = "on" /\ opc'[o] = "admins on" /\ opTenant'[o] = opTenant[o]
      /\ tenant' \in Tenant /\ tenant'.id = tenant.id /\ (~trampled => tenant'.isActive)
      /\ UNCHANGED <<admins, schema, issued, tenantFaults, trampled, stranded, crossed>>
  <2>1. opTenant[o] \in Tenant /\ tenant \in Tenant
    BY DEF TenantInv, TenantTypeOK
  <2>2. ~trampled => tenant.id = opTenant[o].id
    BY DEF TenantInv, TenantRowsOK, OneTenantRow, Holding, StatusSteps, ActivateRow, SetActive
  <2>3. tenant' \in Tenant /\ tenant'.id = tenant.id /\ (~trampled => tenant'.isActive)
    BY <2>1, <2>2 DEF ActivateRow, SetActive, Tenant
  <2> QED
    BY <2>1, <2>3, OperatorMoves, NoTenantIsTenant, LabelsAre
       DEF TenantInv, ActivateRow, SetActive, histories
<1>1. TenantTypeOK'
  BY <1>0, TenantAssumption DEF TenantInv, TenantTypeOK, Moved, SchemaParts, Tenant, NoTenant, TenantIds
<1>2. TenantRowsOK'
  <2>0. issued \in Nat /\ tenant.id <= issued /\ opTenant[o].id <= issued
    BY TenantAssumption DEF TenantInv, TenantTypeOK, TenantRowsOK
  <2>a. issued' = issued /\ tenant'.id = tenant.id /\ opTenant'[o].id \in {0, tenant.id, opTenant[o].id}
    BY <1>0, NoTenantIsTenant
  <2>1. issued' \in Nat /\ issued <= issued' /\ tenant'.id <= issued' /\ opTenant'[o].id <= issued'
    BY <2>0, <2>a
  <2>2. \A i \in TenantIds : i > issued' => admins'[i] = "NONE"
    BY <1>0, <2>1, TenantAssumption DEF TenantInv, TenantTypeOK, TenantRowsOK, TenantIds, Tenant
  <2>3. opc'[o] \in Holding => opTenant'[o].id # 0
    BY <1>0 DEF TenantInv, TenantRowsOK, Holding, StatusSteps
  <2> QED
    BY <1>0, <2>1, <2>2, <2>3, RowsMove DEF TenantInv
<1>3. OneTenantRow'
  BY <1>0, OneRowMoves, NoTenantIsTenant DEF TenantInv, OneTenantRow, TenantRowsOK
<1>4. SchemaBeforeRow'
  BY <1>0, SchemaStaysBefore DEF TenantInv
<1>5. CreationGoesOn'
  BY <1>0 DEF TenantInv, CreationGoesOn, SomeoneAt, Moved
<1>6. SchemaIsClaimed'
  BY <1>0 DEF TenantInv, SchemaIsClaimed, SomeoneAt, Moved
<1>7. OneStatusChange'
  <2>1. opc[o] \in StatusSteps /\ opc'[o] \in StatusSteps \cup {"idle"}
    BY <1>0 DEF StatusSteps
  <2> QED
    BY <1>0, <2>1, StatusChangeMoves DEF TenantInv
<1>8. StatusAsRead'
  <2> SUFFICES ASSUME ~crossed, ~trampled PROVE StatusAsRead'
    BY <1>0 DEF StatusAsRead
  <2>1. \A p \in Operators \ {o} : opc'[p] \notin StatusSteps \cup {"user", "admin", "fix"}
    BY <1>0 DEF TenantInv, OneStatusChange, StatusSteps, Moved
  <2> QED
    BY <1>0, <2>1 DEF StatusAsRead, StatusSteps
<1>9. AdminsMatch'
  <2> SUFFICES ASSUME ~crossed, ~trampled, tenant.id # 0 PROVE AdminsMatch'
    BY <1>0 DEF AdminsMatch
  <2>1. \A p \in Operators \ {o} : opc[p] \notin StatusSteps
    BY <1>0 DEF TenantInv, OneStatusChange, StatusSteps
  <2>2. \A p \in Operators \ {o} : opc'[p] \notin {"off", "admins on"}
    BY <1>0, <2>1 DEF Moved, StatusSteps
  <2>3. SomeoneAt({"off", "admins on"})'
    BY <1>0, <2>2 DEF SomeoneAt
  <2>4. admins[tenant.id] \in {"NONE", "INACTIVE"}
    BY <1>0 DEF TenantInv, AdminsMatch, StatusAsRead, SomeoneAt
  <2> QED
    BY <1>0, <2>3, <2>4 DEF AdminsMatch
<1> QED
  BY <1>1, <1>2, <1>3, <1>4, <1>5, <1>6, <1>7, <1>8, <1>9 DEF TenantInv

LEMMA ReactivateTenantAdminsKeeps == ASSUME TenantInv, NEW o \in Operators, ReactivateTenantAdmins(o) PROVE TenantInv'
<1>0. /\ Moved(o)
      /\ opc[o] = "admins on" /\ opc'[o] = "idle" /\ opTenant'[o] = NoTenant
      /\ \A i \in TenantIds : admins'[i] = IF i = opTenant[o].id /\ admins[i] = "INACTIVE" THEN "ACTIVE" ELSE admins[i]
      /\ admins' \in [TenantIds -> {"NONE", "ACTIVE", "INACTIVE"}]
      /\ UNCHANGED <<tenant, schema, issued, tenantFaults, trampled, stranded, crossed>>
  <2>1. opTenant[o] \in Tenant
    BY DEF TenantInv, TenantTypeOK
  <2>2. admins' = [admins EXCEPT ![opTenant[o].id] =
                      IF @ = "INACTIVE" THEN "ACTIVE" ELSE @]
    BY DEF ReactivateTenantAdmins, SetAdmins
  <2>3. /\ \A i \in TenantIds : admins'[i] = IF i = opTenant[o].id /\ admins[i] = "INACTIVE"
                                           THEN "ACTIVE" ELSE admins[i]
        /\ admins' \in [TenantIds -> {"NONE", "ACTIVE", "INACTIVE"}]
    BY <2>2 DEF TenantInv, TenantTypeOK
  <2> QED
    BY <2>1, <2>3, OperatorMoves, NoTenantIsTenant, LabelsAre
       DEF TenantInv, TenantTypeOK, ReactivateTenantAdmins, SetAdmins, histories
<1>a. ~trampled => tenant.id = opTenant[o].id
  BY <1>0 DEF TenantInv, TenantRowsOK, OneTenantRow, Holding, StatusSteps
<1>b. tenant.id # 0 => tenant.id \in TenantIds
  BY TenantAssumption DEF TenantInv, TenantTypeOK, Tenant, TenantIds
<1>1. TenantTypeOK'
  BY <1>0, TenantAssumption DEF TenantInv, TenantTypeOK, Moved, SchemaParts, Tenant, NoTenant, TenantIds
<1>2. TenantRowsOK'
  <2>0. issued \in Nat /\ tenant.id <= issued /\ opTenant[o].id <= issued
    BY TenantAssumption DEF TenantInv, TenantTypeOK, TenantRowsOK
  <2>a. issued' = issued /\ tenant'.id = tenant.id /\ opTenant'[o].id \in {0, tenant.id, opTenant[o].id}
    BY <1>0, NoTenantIsTenant
  <2>1. issued' \in Nat /\ issued <= issued' /\ tenant'.id <= issued' /\ opTenant'[o].id <= issued'
    BY <2>0, <2>a
  <2>2. \A i \in TenantIds : i > issued' => admins'[i] = "NONE"
    BY <1>0, <2>1, TenantAssumption DEF TenantInv, TenantTypeOK, TenantRowsOK, TenantIds, Tenant
  <2>3. opc'[o] \in Holding => opTenant'[o].id # 0
    BY <1>0 DEF TenantInv, TenantRowsOK, Holding, StatusSteps
  <2> QED
    BY <1>0, <2>1, <2>2, <2>3, RowsMove DEF TenantInv
<1>3. OneTenantRow'
  BY <1>0, OneRowMoves, NoTenantIsTenant DEF TenantInv, OneTenantRow, TenantRowsOK
<1>4. SchemaBeforeRow'
  BY <1>0, SchemaStaysBefore DEF TenantInv
<1>5. CreationGoesOn'
  <2>1. tenant.id # 0 => (admins[tenant.id] = "NONE" <=> admins'[tenant.id] = "NONE")
    BY <1>0, <1>b
  <2> QED
    BY <1>0, <2>1 DEF TenantInv, CreationGoesOn, SomeoneAt, Moved
<1>6. SchemaIsClaimed'
  BY <1>0 DEF TenantInv, SchemaIsClaimed, SomeoneAt, Moved
<1>7. OneStatusChange'
  <2>1. opc[o] \in StatusSteps /\ opc'[o] \in StatusSteps \cup {"idle"}
    BY <1>0 DEF StatusSteps
  <2> QED
    BY <1>0, <2>1, StatusChangeMoves DEF TenantInv
<1>8. StatusAsRead'
  BY <1>0 DEF TenantInv, StatusAsRead, Moved
<1>9. AdminsMatch'
  <2> SUFFICES ASSUME ~crossed, ~trampled, tenant.id # 0 PROVE AdminsMatch'
    BY <1>0 DEF AdminsMatch
  <2>1. tenant.isActive /\ \A p \in Operators \ {o} : opc[p] \notin StatusSteps
    <3>1. tenant.isActive
      BY <1>0 DEF TenantInv, StatusAsRead
    <3>2. opc[o] \in StatusSteps
      BY <1>0 DEF StatusSteps
    <3>3. \A p \in Operators \ {o} : opc[p] \notin StatusSteps
      BY <3>2 DEF TenantInv, OneStatusChange
    <3> QED
      BY <3>1, <3>3
  <2>2. \A p \in Operators \ {o} : opc[p] \notin {"off", "admins on"} /\ opc'[p] \notin {"off", "admins on"}
    <3>1. \A p \in Operators \ {o} : opc'[p] = opc[p]
      BY <1>0 DEF Moved
    <3> QED
      BY <2>1, <3>1 DEF StatusSteps
  <2>3. SomeoneAt({"off", "admins on"}) /\ ~SomeoneAt({"off", "admins on"})'
    BY <1>0, <2>2 DEF SomeoneAt
  <2>4. admins[tenant.id] \in {"NONE", "INACTIVE"}
    BY <2>3 DEF TenantInv, AdminsMatch
  <2>5. admins'[tenant.id] \in {"NONE", "ACTIVE"}
    BY <1>0, <1>a, <1>b, <2>4
  <2> QED
    BY <1>0, <2>1, <2>3, <2>5 DEF AdminsMatch
<1> QED
  BY <1>1, <1>2, <1>3, <1>4, <1>5, <1>6, <1>7, <1>8, <1>9 DEF TenantInv

LEMMA TenantFaultKeeps == ASSUME TenantInv, NEW o \in Operators, TenantFault(o) PROVE TenantInv'
<1>0. /\ Moved(o)
      /\ opc'[o] \in {"create", "drop", "find", "idle"} /\ opTenant'[o] = NoTenant
      /\ (opc[o] \in {"migrate", "record"} => opc'[o] = "drop")
      /\ (opc[o] = "drop" => stranded') /\ (opc[o] \in StatusSteps => crossed')
      /\ (opc[o] \in {"user", "admin", "organization"} => stranded')
      /\ (crossed => crossed') /\ (stranded => stranded')
      /\ UNCHANGED <<tenant, admins, schema, issued, trampled>>
  <2>1. AfterTenantFault(opc[o]) \in {"create", "drop", "find", "idle"}
        /\ (opc[o] \in {"migrate", "record"} => AfterTenantFault(opc[o]) = "drop")
    BY DEF AfterTenantFault
  <2> QED
    BY <2>1, OperatorMoves, NoTenantIsTenant, LabelsAre DEF TenantInv, TenantFault
<1>1. TenantTypeOK'
  BY <1>0, TenantAssumption DEF TenantInv, TenantTypeOK, Moved, SchemaParts, Tenant, NoTenant, TenantIds
<1>2. TenantRowsOK'
  <2>0. issued \in Nat /\ tenant.id <= issued /\ opTenant[o].id <= issued
    BY TenantAssumption DEF TenantInv, TenantTypeOK, TenantRowsOK
  <2>a. issued' = issued /\ tenant'.id = tenant.id /\ opTenant'[o].id \in {0, tenant.id, opTenant[o].id}
    BY <1>0, NoTenantIsTenant
  <2>1. issued' \in Nat /\ issued <= issued' /\ tenant'.id <= issued' /\ opTenant'[o].id <= issued'
    BY <2>0, <2>a
  <2>2. \A i \in TenantIds : i > issued' => admins'[i] = "NONE"
    BY <1>0, <2>1, TenantAssumption DEF TenantInv, TenantTypeOK, TenantRowsOK, TenantIds, Tenant
  <2>3. opc'[o] \in Holding => opTenant'[o].id # 0
    BY <1>0 DEF TenantInv, TenantRowsOK, Holding, StatusSteps
  <2> QED
    BY <1>0, <2>1, <2>2, <2>3, RowsMove DEF TenantInv
<1>3. OneTenantRow'
  BY <1>0, OneRowMoves, NoTenantIsTenant DEF TenantInv, OneTenantRow, TenantRowsOK
<1>4. SchemaBeforeRow'
  BY <1>0 DEF TenantInv, SchemaBeforeRow, Moved
<1>5. CreationGoesOn'
  BY <1>0 DEF TenantInv, CreationGoesOn, SomeoneAt, Moved
<1>6. SchemaIsClaimed'
  BY <1>0 DEF TenantInv, SchemaIsClaimed, SomeoneAt, Moved
<1>7. OneStatusChange'
  BY <1>0 DEF TenantInv, OneStatusChange, StatusSteps, Moved
<1>8. StatusAsRead'
  BY <1>0 DEF TenantInv, StatusAsRead, Moved
<1>9. AdminsMatch'
  <2> SUFFICES ASSUME ~crossed', ~trampled, tenant.id # 0 PROVE AdminsMatch'
    BY <1>0 DEF AdminsMatch
  <2>1. ~crossed /\ opc[o] \notin {"off", "admins on"} /\ opc'[o] \notin {"off", "admins on"}
    BY <1>0 DEF StatusSteps
  <2>2. SomeoneAt({"off", "admins on"})' <=> SomeoneAt({"off", "admins on"})
    BY <1>0, <2>1 DEF SomeoneAt, Moved
  <2> QED
    BY <1>0, <2>1, <2>2 DEF TenantInv, AdminsMatch
<1> QED
  BY <1>1, <1>2, <1>3, <1>4, <1>5, <1>6, <1>7, <1>8, <1>9 DEF TenantInv

LEMMA TenantCrashKeeps == ASSUME TenantInv, TenantCrash PROVE TenantInv'
<1>0. /\ opc' \in [Operators -> OperatorLabels] /\ opTenant' \in [Operators -> Tenant]
      /\ \A p \in Operators : opc'[p] = "idle" /\ opTenant'[p] = NoTenant
  BY NoTenantIsTenant, LabelsAre DEF TenantCrash
<1>1. /\ UNCHANGED <<tenant, admins, schema, issued, trampled>>
      /\ (crossed => crossed') /\ (stranded => stranded')
      /\ ~crossed' => ~SomeoneAt(StatusSteps)
      /\ ~stranded' => ~SomeoneAt({"user", "admin", "organization", "migrate", "record", "drop"})
  BY DEF TenantCrash, SomeoneAt, StatusSteps
<1>2. TenantTypeOK'
  BY <1>0, <1>1 DEF TenantInv, TenantTypeOK
<1>3. TenantRowsOK'
  <2>1. tenant.id <= issued /\ issued \in Nat
    BY TenantAssumption DEF TenantInv, TenantTypeOK, TenantRowsOK
  <2>2. \A o \in Operators : opTenant'[o].id = 0 /\ opc'[o] \notin Holding
    BY <1>0, NoTenantIsTenant DEF Holding, StatusSteps
  <2>3. \A i \in TenantIds : i > issued' => admins'[i] = "NONE"
    BY <1>1 DEF TenantInv, TenantRowsOK
  <2> QED
    BY <1>1, <2>1, <2>2, <2>3 DEF TenantRowsOK
<1>4. OneTenantRow' /\ SchemaBeforeRow'
  BY <1>0, <1>1, NoTenantIsTenant DEF TenantInv, OneTenantRow, SchemaBeforeRow
<1>5. CreationGoesOn' /\ SchemaIsClaimed'
  BY <1>0, <1>1 DEF TenantInv, CreationGoesOn, SchemaIsClaimed, SomeoneAt
<1>6. OneStatusChange' /\ StatusAsRead'
  BY <1>0, <1>1 DEF OneStatusChange, StatusAsRead, StatusSteps
<1>7. AdminsMatch'
  <2> SUFFICES ASSUME ~crossed', ~trampled, tenant.id # 0 PROVE AdminsMatch'
    BY <1>1 DEF AdminsMatch
  <2>1. ~SomeoneAt({"off", "admins on"})
    BY <1>1 DEF SomeoneAt, StatusSteps
  <2>2. ~SomeoneAt({"off", "admins on"})'
    BY <1>0 DEF SomeoneAt
  <2> QED
    BY <1>1, <2>1, <2>2 DEF TenantInv, AdminsMatch
<1> QED
  BY <1>2, <1>3, <1>4, <1>5, <1>6, <1>7 DEF TenantInv

LEMMA TenantInvHolds == TenantSpec => []TenantInv
<1>1. TenantInit => TenantInv
  <2> SUFFICES ASSUME TenantInit PROVE TenantInv
    OBVIOUS
  <2>1. TenantTypeOK
    <3>1. opc \in [Operators -> OperatorLabels] /\ opTenant \in [Operators -> Tenant]
      BY NoTenantIsTenant, LabelsAre DEF TenantInit
    <3>2. issued \in 0 .. MaxTenants /\ schema \subseteq SchemaParts /\ tenant \in Tenant
      BY NoTenantIsTenant, TenantAssumption DEF TenantInit
    <3>3. admins \in [TenantIds -> {"NONE", "ACTIVE", "INACTIVE"}]
      BY DEF TenantInit
    <3> QED
      BY <3>1, <3>2, <3>3 DEF TenantTypeOK
  <2>2. TenantRowsOK
    BY NoTenantIsTenant, TenantAssumption DEF TenantInit, TenantRowsOK, Holding, StatusSteps
  <2>3. OneTenantRow /\ SchemaBeforeRow /\ CreationGoesOn /\ SchemaIsClaimed /\ AdminsMatch
    BY NoTenantIsTenant
       DEF TenantInit, OneTenantRow, SchemaBeforeRow, CreationGoesOn, SchemaIsClaimed, AdminsMatch
  <2>4. OneStatusChange /\ StatusAsRead
    BY DEF TenantInit, OneStatusChange, StatusAsRead, StatusSteps
  <2> QED
    BY <2>1, <2>2, <2>3, <2>4 DEF TenantInv
<1>2. TenantInv /\ [TenantNext]_tenantVars => TenantInv'
  <2> SUFFICES ASSUME TenantInv, [TenantNext]_tenantVars PROVE TenantInv'
    OBVIOUS
  <2>1. CASE \E o \in Operators : OperatorStep(o)
    BY <2>1, CreateTenantKeeps, CheckSchemaKeeps, CreateTenantSchemaKeeps, RunTenantMigrationsKeeps,
       CreateTenantRecordKeeps, DropSchemaKeeps, FindRecordKeeps, RemoveRecordKeeps,
       CreateTenantAdminUserKeeps, CreateTenantAdminRecordKeeps, CreateDefaultOrganizationKeeps,
       FixTenantAdminKeeps, FixRecordKeeps, UpdateTenantKeeps, SaveTenantKeeps, DeactivateTenantKeeps,
       DeactivateTenantAdminsKeeps, DeactivateRowKeeps, ReactivateTenantKeeps, ValidateReactivationKeeps,
       ActivateRowKeeps, ReactivateTenantAdminsKeeps, TenantFaultKeeps DEF OperatorStep
  <2>2. CASE TenantCrash
    BY <2>2, TenantCrashKeeps
  <2>3. CASE UNCHANGED tenantVars
    BY <2>3
       DEF tenantVars, TenantInv, TenantTypeOK, TenantRowsOK, OneTenantRow, SchemaBeforeRow,
           CreationGoesOn,
       SchemaIsClaimed, OneStatusChange, StatusAsRead, AdminsMatch, SomeoneAt
  <2> QED
    BY <2>1, <2>2, <2>3 DEF TenantNext
<1> QED
  BY <1>1, <1>2, PTL DEF TenantSpec

(* Type correctness of the tenants' tables and of what their requests hold. *)
THEOREM TenantTypes == TenantSpec => []TenantTypeOK
BY TenantInvHolds, PTL DEF TenantInv

(* createTenant, its clean-up, the repair, and the changes of status: whatever     *)
(* interleaves or fails, a listed tenant has its schema, a failed creation leaves  *)
(* none, and admins follow the tenant - but for what the three histories name.     *)
THEOREM TenanciesAreKept == TenantSpec => []TenanciesHold
<1>1. TenantInv => TenanciesHold
  <2> SUFFICES ASSUME TenantInv PROVE TenanciesHold
    OBVIOUS
  <2>1. ASSUME tenant.id # 0, ~trampled PROVE {"schema", "tables"} \subseteq schema
    BY <2>1 DEF TenantInv, SchemaBeforeRow
  <2>2. Quiet => \A labels \in {{"user"}, {"user", "admin"}, {"user", "admin", "organization"},
                               {"migrate", "record", "drop"}, {"off", "admins on"}} : ~SomeoneAt(labels)
    BY DEF Quiet, SomeoneAt
  <2>3. ASSUME tenant.id # 0, ~trampled, ~stranded, Quiet
        PROVE  schema = SchemaParts /\ admins[tenant.id] # "NONE"
    BY <2>1, <2>2, <2>3 DEF TenantInv, CreationGoesOn, TenantTypeOK, SchemaParts
  <2>4. FailuresLeaveNothing
    BY <2>2 DEF TenantInv, SchemaIsClaimed, FailuresLeaveNothing
  <2>5. AdminsFollowTheTenant
    BY <2>2 DEF TenantInv, AdminsMatch, AdminsFollowTheTenant
  <2> QED
    BY <2>1, <2>3, <2>4, <2>5 DEF TenanciesHold, TenantsAreWhole
<1> QED
  BY <1>1, TenantInvHolds, PTL


-----------------------------------------------------------------------------
(* Organizations.  While no two requests overlapped, at most one is under way. *)

OrgsAlone == ~overlapped =>
    \A c, d \in OrgClients : gpc[c] # "idle" /\ gpc[d] # "idle" => c = d

OneDefault == ~overlapped => \A i, j \in Orgs : orgs[i].isDefault /\ orgs[j].isDefault => i = j

(* What will be saved as the default has no other left beside it. *)
DefaultReady == ~overlapped => \A c \in OrgClients :
    /\ gpc[c] = "insert" /\ org[c].row.isDefault => \A i \in Orgs : ~orgs[i].isDefault
    /\ gpc[c] = "save" /\ org[c].row.isDefault => \A i \in Orgs : orgs[i].isDefault => i = org[c].id
    /\ gpc[c] = "unset default" => \A h \in flagged[c] :
         ~h.row.isDefault /\ \A i \in Orgs : orgs[i].isDefault => i = h.id

PrimaryMembers == \A i \in Orgs : memberships[i].isPrimary => memberships[i].status = "MEMBER"

(* The new primary membership is saved before the others are unset. *)
OnePrimary == ~overlapped => \A i, j \in Orgs :
    memberships[i].isPrimary /\ memberships[j].isPrimary /\ i # j =>
        \E c \in OrgClients : gpc[c] \in {"find added", "unset added"} /\ org[c].id \in {i, j}

(* Every other primary membership has been found. *)
PrimariesFound == ~overlapped => \A c \in OrgClients :
    /\ gpc[c] \in {"unset added", "unset primary"} =>
         \A i \in Orgs : memberships[i].isPrimary => i = org[c].id \/ \E h \in flagged[c] : h.id = i
    /\ gpc[c] = "role" /\ org[c].isPrimary => memberships[org[c].id].isPrimary

OrgInv ==
    /\ OrgTypeOK /\ OrgsAlone /\ OneDefault /\ DefaultReady
    /\ PrimaryMembers /\ OnePrimary /\ PrimariesFound

OrgLabels == {"idle", "find default", "unset default", "insert", "save",
              "add", "find added", "find primary", "unset added", "unset primary", "leave", "role"}
OrgWork == [id: 0 .. MaxOrganizations, row: Organization, isPrimary: BOOLEAN]

LEMMA OrgLabelsAre == {"idle", "find default", "unset default", "insert", "save",
                       "add", "find added", "find primary"} \cup Saving = OrgLabels
BY DEF OrgLabels, Saving

FoundRows == [id: Orgs, row: Organization]

OrgMoved(c) ==
    /\ gpc' \in [OrgClients -> OrgLabels]
    /\ org' \in [OrgClients -> OrgWork]
    /\ flagged' \in [OrgClients -> SUBSET FoundRows]
    /\ \A d \in OrgClients \ {c} : gpc'[d] = gpc[d] /\ org'[d] = org[d] /\ flagged'[d] = flagged[d]

LEMMA OrgMoves ==
    ASSUME OrgTypeOK, NEW c \in OrgClients, NEW label \in OrgLabels, NEW work \in OrgWork,
           NEW found, found \subseteq FoundRows, OrgAt(c, label, work, found)
    PROVE  OrgMoved(c) /\ gpc'[c] = label /\ org'[c] = work /\ flagged'[c] = found
BY OrgLabelsAre DEF OrgTypeOK, OrgAt, OrgMoved, OrgWork, FoundRows

LEMMA FlaggedTyped == ASSUME OrgTypeOK, NEW c \in OrgClients PROVE flagged[c] \in SUBSET FoundRows
BY DEF OrgTypeOK, FoundRows

LEMMA OrgMovesOn ==
    ASSUME OrgTypeOK, NEW c \in OrgClients, NEW label \in OrgLabels, NEW work \in OrgWork,
           OrgAt(c, label, work, {})
    PROVE  OrgMoved(c) /\ gpc'[c] = label /\ org'[c] = work /\ flagged'[c] = {}
BY OrgLabelsAre DEF OrgTypeOK, OrgAt, OrgMoved, OrgWork, FoundRows

LEMMA FoundTyped == \A i \in Orgs, row \in Organization :
    Found(i, row) \in FoundRows /\ Found(i, row).id = i /\ Found(i, row).row = row
BY DEF Found, FoundRows

LEMMA NoWorkTyped ==
    /\ NoOrganization \in Organization /\ NoWork \in OrgWork /\ ~NoOrganization.isDefault
    /\ \A i \in Orgs, row \in Organization : Work(i, row) \in OrgWork /\ Work(i, row).id = i /\ Work(i, row).row = row
    /\ \A row \in Organization : Work(0, row) \in OrgWork /\ Work(0, row).id = 0 /\ Work(0, row).row = row
    /\ \A i \in Orgs, p \in BOOLEAN : /\ [NoWork EXCEPT !.id = i, !.isPrimary = p] \in OrgWork
                                      /\ [NoWork EXCEPT !.id = i, !.isPrimary = p].id = i
                                      /\ [NoWork EXCEPT !.id = i, !.isPrimary = p].isPrimary = p
<1>1. NoOrganization \in Organization /\ ~NoOrganization.isDefault
  BY OrganizationAssumption DEF NoOrganization, Organization, OrganizationStatus
<1>2. NoWork \in OrgWork
  BY <1>1, OrganizationAssumption DEF NoWork, OrgWork
<1>3. Orgs \subseteq 0 .. MaxOrganizations /\ 0 \in 0 .. MaxOrganizations
  BY OrganizationAssumption DEF Orgs
<1> QED
  BY <1>1, <1>2, <1>3 DEF Work, NoWork, OrgWork

LEMMA OrgDoneMoves ==
    ASSUME OrgTypeOK, NEW c \in OrgClients, OrgDone(c)
    PROVE  OrgMoved(c) /\ gpc'[c] = "idle"
<1>1. "idle" \in OrgLabels /\ OrgAt(c, "idle", NoWork, {})
  BY DEF OrgDone, OrgLabels
<1> QED
  BY <1>1, OrgMovesOn, NoWorkTyped

(* A request goes on alone, or the histories say so. *)
LEMMA OrgStaysAlone ==
    ASSUME OrgInv, NEW c \in OrgClients, OrgMoved(c), gpc[c] # "idle", overlapped' = overlapped
    PROVE  OrgsAlone' /\ (~overlapped => \A d \in OrgClients \ {c} : gpc[d] = "idle" /\ gpc'[d] = "idle")
BY DEF OrgInv, OrgsAlone, OrgMoved

LEMMA OrgTypesMove ==
    ASSUME NEW c \in OrgClients, OrgMoved(c), orgs' \in [Orgs -> Organization], memberships' \in [Orgs -> Membership]
    PROVE  OrgTypeOK'
BY OrgLabelsAre DEF OrgTypeOK, OrgMoved, OrgWork, FoundRows

LEMMA BeginOrgKeeps ==
    ASSUME OrgInv, NEW c \in OrgClients, NEW work \in OrgWork,
           NEW label \in {"find default", "insert", "save", "add", "find primary", "leave", "role"},
           BeginOrg(c, label, work),
           label = "insert" => ~work.row.isDefault,
           ~overlapped /\ label = "save" /\ work.row.isDefault => \A i \in Orgs : orgs[i].isDefault => i = work.id,
           label = "role" /\ work.isPrimary => memberships[work.id].isPrimary
    PROVE  OrgInv'
<1>0. /\ OrgMoved(c) /\ gpc'[c] = label /\ org'[c] = work /\ flagged'[c] = {}
      /\ UNCHANGED <<orgs, memberships>>
      /\ ~overlapped' => ~overlapped /\ \A d \in OrgClients : gpc[d] = "idle"
  <2>1. label \in OrgLabels /\ OrgAt(c, label, work, {})
    BY DEF BeginOrg, OrgLabels
  <2>2. OrgMoved(c) /\ gpc'[c] = label /\ org'[c] = work /\ flagged'[c] = {}
    BY <2>1, OrgMovesOn DEF OrgInv
  <2> QED
    BY <2>2 DEF BeginOrg
<1>1. OrgTypeOK'
  BY <1>0, OrgTypesMove DEF OrgInv, OrgTypeOK
<1>2. OrgsAlone'
  BY <1>0 DEF OrgsAlone, OrgMoved
<1>3. OneDefault' /\ PrimaryMembers'
  BY <1>0 DEF OrgInv, OneDefault, PrimaryMembers
<1>4. DefaultReady'
  BY <1>0 DEF DefaultReady, OrgMoved
<1>5. OnePrimary'
  BY <1>0 DEF OrgInv, OnePrimary
<1>6. PrimariesFound'
  BY <1>0 DEF PrimariesFound, OrgMoved
<1> QED
  BY <1>1, <1>2, <1>3, <1>4, <1>5, <1>6 DEF OrgInv

LEMMA OrgRowTyped ==
    ASSUME OrgTypeOK, NEW i \in Orgs
    PROVE  /\ orgs[i] \in Organization
           /\ [orgs[i] EXCEPT !.isDefault = TRUE] \in Organization
           /\ [orgs[i] EXCEPT !.isDefault = FALSE] \in Organization /\ ~[orgs[i] EXCEPT !.isDefault = FALSE].isDefault
           /\ [orgs[i] EXCEPT !.status = "ARCHIVED", !.isDefault = FALSE] \in Organization
           /\ ~[orgs[i] EXCEPT !.status = "ARCHIVED", !.isDefault = FALSE].isDefault
<1>1. PICK row \in Organization : row = orgs[i]
  BY DEF OrgTypeOK
<1>2. [row EXCEPT !.isDefault = TRUE] \in Organization
  BY DEF Organization
<1>3. [row EXCEPT !.isDefault = FALSE] \in Organization /\ ~[row EXCEPT !.isDefault = FALSE].isDefault
  BY DEF Organization
<1>4. /\ [row EXCEPT !.status = "ARCHIVED", !.isDefault = FALSE] \in Organization
      /\ ~[row EXCEPT !.status = "ARCHIVED", !.isDefault = FALSE].isDefault
  BY DEF Organization, OrganizationStatus
<1> QED
  BY <1>1, <1>2, <1>3, <1>4

LEMMA CreateOrganizationKeeps == ASSUME OrgInv, NEW c \in OrgClients, CreateOrganization(c) PROVE OrgInv'
<1>1. PICK parent \in 0 .. MaxOrganizations, isDefault \in BOOLEAN :
        BeginOrg(c, IF isDefault THEN "find default" ELSE "insert",
                 Work(0, [status |-> "ACTIVE", parent |-> parent, isDefault |-> isDefault]))
  BY DEF CreateOrganization
<1> DEFINE row == [status |-> "ACTIVE", parent |-> parent, isDefault |-> isDefault]
<1>2. row \in Organization /\ row.isDefault = isDefault
  BY DEF Organization, OrganizationStatus
<1>3. Work(0, row) \in OrgWork /\ Work(0, row).row.isDefault = isDefault
  BY <1>2, NoWorkTyped
<1> QED
  BY <1>1, <1>3, BeginOrgKeeps

LEMMA UpdateOrganizationKeeps == ASSUME OrgInv, NEW c \in OrgClients, UpdateOrganization(c) PROVE OrgInv'
<1>1. PICK i \in Orgs, status \in OrganizationStatus \ {"NONE"}, parent \in 0 .. MaxOrganizations, isDefault \in BOOLEAN :
        /\ orgs[i].status # "NONE"
        /\ parent = orgs[i].parent \/ ValidParent(i, parent)
        /\ \E saved \in IF orgs[i].parent = 0 THEN {parent} ELSE {parent, orgs[i].parent} :
             BeginOrg(c, IF isDefault /\ ~orgs[i].isDefault THEN "find default" ELSE "save",
                      Work(i, [status |-> status, parent |-> saved, isDefault |-> isDefault]))
  BY DEF UpdateOrganization
<1>2. PICK saved \in 0 .. MaxOrganizations :
        BeginOrg(c, IF isDefault /\ ~orgs[i].isDefault THEN "find default" ELSE "save",
                 Work(i, [status |-> status, parent |-> saved, isDefault |-> isDefault]))
  BY <1>1, OrgRowTyped DEF OrgInv, Organization
<1> DEFINE row == [status |-> status, parent |-> saved, isDefault |-> isDefault]
<1>3. row \in Organization /\ row.isDefault = isDefault
  BY DEF Organization
<1>4. Work(i, row) \in OrgWork /\ Work(i, row).row.isDefault = isDefault /\ Work(i, row).id = i
  <2> HIDE DEF row
  <2>1. Work(i, row) \in OrgWork /\ Work(i, row).row = row /\ Work(i, row).id = i
    BY <1>3, NoWorkTyped
  <2> QED
    BY <1>3, <2>1
<1>5. CASE isDefault /\ ~orgs[i].isDefault
  BY <1>2, <1>4, <1>5, BeginOrgKeeps
<1>6. CASE ~(isDefault /\ ~orgs[i].isDefault)
  <2>1. isDefault /\ ~overlapped => \A j \in Orgs : orgs[j].isDefault => j = i
    BY <1>6 DEF OrgInv, OneDefault
  <2> QED
    BY <1>2, <1>4, <1>6, <2>1, BeginOrgKeeps
<1> QED
  BY <1>5, <1>6

LEMMA DeleteOrganizationKeeps == ASSUME OrgInv, NEW c \in OrgClients, DeleteOrganization(c) PROVE OrgInv'
<1>1. PICK i \in Orgs : BeginOrg(c, "save", Work(i, [orgs[i] EXCEPT !.status = "ARCHIVED", !.isDefault = FALSE]))
  BY DEF DeleteOrganization
<1> DEFINE row == [orgs[i] EXCEPT !.status = "ARCHIVED", !.isDefault = FALSE]
<1>2. row \in Organization /\ ~row.isDefault
  BY OrgRowTyped DEF OrgInv
<1>3. Work(i, row) \in OrgWork /\ ~Work(i, row).row.isDefault
  BY <1>2, NoWorkTyped
<1> QED
  BY <1>1, <1>3, BeginOrgKeeps

LEMMA SetDefaultKeeps == ASSUME OrgInv, NEW c \in OrgClients, SetDefault(c) PROVE OrgInv'
<1>1. PICK i \in Orgs : BeginOrg(c, "find default", Work(i, [orgs[i] EXCEPT !.isDefault = TRUE]))
  BY DEF SetDefault
<1>2. Work(i, [orgs[i] EXCEPT !.isDefault = TRUE]) \in OrgWork
  BY OrgRowTyped, NoWorkTyped DEF OrgInv
<1> QED
  BY <1>1, <1>2, BeginOrgKeeps

LEMMA AddUserKeeps == ASSUME OrgInv, NEW c \in OrgClients, AddUserToOrganization(c) PROVE OrgInv'
<1>1. PICK i \in Orgs, isPrimary \in BOOLEAN : BeginOrg(c, "add", [NoWork EXCEPT !.id = i, !.isPrimary = isPrimary])
  BY DEF AddUserToOrganization
<1> QED
  BY <1>1, NoWorkTyped, BeginOrgKeeps

LEMMA ReadMembershipKeeps ==
    ASSUME OrgInv, NEW c \in OrgClients, NEW label \in {"find primary", "leave", "role"}, ReadMembership(c, label)
    PROVE  OrgInv'
<1>1. PICK i \in Orgs : BeginOrg(c, label, [NoWork EXCEPT !.id = i, !.isPrimary = memberships[i].isPrimary])
  BY DEF ReadMembership
<1> DEFINE work == [NoWork EXCEPT !.id = i, !.isPrimary = memberships[i].isPrimary]
<1>2. memberships[i].isPrimary \in BOOLEAN
  BY DEF OrgInv, OrgTypeOK, Membership
<1>3. work \in OrgWork /\ work.id = i /\ work.isPrimary = memberships[i].isPrimary
  BY <1>2, NoWorkTyped
<1> QED
  BY <1>1, <1>3, BeginOrgKeeps

LEMMA FindDefaultKeeps == ASSUME OrgInv, NEW c \in OrgClients, FindDefault(c) PROVE OrgInv'
<1>0. org[c] \in OrgWork /\ gpc[c] = "find default" /\ UNCHANGED <<orgs, memberships, overlapped>>
      /\ After(c) \in {"insert", "save"}
  BY DEF OrgInv, OrgTypeOK, FindDefault, OrgWork, After
<1>1. /\ OrgMoved(c) /\ org'[c] = org[c]
      /\ \/ gpc'[c] \in {"insert", "save"} /\ flagged'[c] = {} /\ \A i \in Orgs : ~orgs[i].isDefault
         \/ /\ gpc'[c] = "unset default"
            /\ \E i \in Orgs : orgs[i].isDefault /\ flagged'[c] = {Found(i, [orgs[i] EXCEPT !.isDefault = FALSE])}
  <2>1. CASE {i \in Orgs : orgs[i].isDefault} = {} /\ OrgAt(c, After(c), org[c], {})
    <3>1. After(c) \in OrgLabels
      BY <1>0 DEF OrgLabels
    <3>2. OrgMoved(c) /\ org'[c] = org[c] /\ gpc'[c] = After(c) /\ flagged'[c] = {}
      BY <1>0, <2>1, <3>1, OrgMovesOn DEF OrgInv
    <3> QED
      BY <1>0, <2>1, <3>2
  <2>2. ASSUME NEW i \in Orgs, orgs[i].isDefault,
               OrgAt(c, "unset default", org[c], {Found(i, [orgs[i] EXCEPT !.isDefault = FALSE])})
        PROVE  /\ OrgMoved(c) /\ org'[c] = org[c] /\ gpc'[c] = "unset default"
               /\ flagged'[c] = {Found(i, [orgs[i] EXCEPT !.isDefault = FALSE])}
    <3>1. {Found(i, [orgs[i] EXCEPT !.isDefault = FALSE])} \subseteq FoundRows
      <4>1. [orgs[i] EXCEPT !.isDefault = FALSE] \in Organization
        BY OrgRowTyped DEF OrgInv
      <4>2. \A row \in Organization : {Found(i, row)} \subseteq FoundRows
        BY FoundTyped
      <4> QED
        BY <4>1, <4>2
    <3>2. "unset default" \in OrgLabels
      BY DEF OrgLabels
    <3> QED
      BY <1>0, <2>2, <3>1, <3>2, OrgMoves DEF OrgInv
  <2> QED
    BY <2>1, <2>2 DEF FindDefault
<1>2. OrgTypeOK'
  BY <1>0, <1>1, OrgTypesMove DEF OrgInv, OrgTypeOK
<1>3. OrgsAlone' /\ (~overlapped => \A d \in OrgClients \ {c} : gpc[d] = "idle" /\ gpc'[d] = "idle")
  BY <1>0, <1>1, OrgStaysAlone
<1>4. OneDefault' /\ PrimaryMembers'
  BY <1>0 DEF OrgInv, OneDefault, PrimaryMembers
<1>5. DefaultReady'
  <2> SUFFICES ASSUME ~overlapped PROVE DefaultReady'
    BY <1>0 DEF DefaultReady
  <2>1. CASE gpc'[c] \in {"insert", "save"}
    BY <1>0, <1>1, <1>3, <2>1 DEF DefaultReady
  <2>2. CASE gpc'[c] = "unset default"
    <3>1. PICK i \in Orgs : orgs[i].isDefault /\ flagged'[c] = {Found(i, [orgs[i] EXCEPT !.isDefault = FALSE])}
      BY <1>1, <2>2
    <3>2. \A h \in flagged'[c] : h.id = i /\ ~h.row.isDefault
      <4> DEFINE row == [orgs[i] EXCEPT !.isDefault = FALSE]
      <4>1. row \in Organization /\ ~row.isDefault /\ flagged'[c] = {Found(i, row)}
        BY <3>1, OrgRowTyped DEF OrgInv
      <4> HIDE DEF row
      <4> QED
        BY <4>1, FoundTyped
    <3>3. \A j \in Orgs : orgs[j].isDefault => j = i
      BY <3>1 DEF OrgInv, OneDefault
    <3> QED
      BY <1>0, <1>3, <2>2, <3>2, <3>3 DEF DefaultReady
  <2> QED
    BY <1>1, <2>1, <2>2
<1>6. OnePrimary' /\ PrimariesFound'
  BY <1>0, <1>1, <1>3 DEF OrgInv, OnePrimary, PrimariesFound
<1> QED
  BY <1>2, <1>3, <1>4, <1>5, <1>6 DEF OrgInv

LEMMA UnsetDefaultKeeps == ASSUME OrgInv, NEW c \in OrgClients, UnsetDefault(c) PROVE OrgInv'
<1>0. org[c] \in OrgWork /\ gpc[c] = "unset default" /\ UNCHANGED <<memberships, overlapped>>
      /\ After(c) \in {"insert", "save"} /\ OrgAt(c, After(c), org[c], {})
  BY DEF OrgInv, OrgTypeOK, UnsetDefault, OrgWork, After
<1>1. OrgMoved(c) /\ org'[c] = org[c] /\ gpc'[c] \in {"insert", "save"} /\ flagged'[c] = {}
  <2>1. After(c) \in OrgLabels
    BY <1>0 DEF OrgLabels
  <2>2. OrgMoved(c) /\ org'[c] = org[c] /\ gpc'[c] = After(c) /\ flagged'[c] = {}
    BY <1>0, <2>1, OrgMovesOn DEF OrgInv
  <2> QED
    BY <1>0, <2>2
<1>2. PICK h \in flagged[c] : orgs' = [orgs EXCEPT ![h.id] = h.row]
  BY DEF UnsetDefault
<1>3. h.id \in Orgs /\ h.row \in Organization
  BY FlaggedTyped DEF OrgInv, FoundRows
<1>4. orgs' \in [Orgs -> Organization] /\ \A i \in Orgs : orgs'[i] = IF i = h.id THEN h.row ELSE orgs[i]
  BY <1>2, <1>3 DEF OrgInv, OrgTypeOK
<1>5. OrgTypeOK'
  BY <1>0, <1>1, <1>4, OrgTypesMove DEF OrgInv, OrgTypeOK
<1>6. OrgsAlone' /\ (~overlapped => \A d \in OrgClients \ {c} : gpc[d] = "idle" /\ gpc'[d] = "idle")
  BY <1>0, <1>1, OrgStaysAlone
<1>7. ~overlapped => \A i \in Orgs : ~orgs'[i].isDefault
  BY <1>0, <1>4 DEF OrgInv, DefaultReady
<1>8. OneDefault' /\ DefaultReady'
  BY <1>0, <1>1, <1>6, <1>7 DEF OneDefault, DefaultReady
<1>9. PrimaryMembers' /\ OnePrimary' /\ PrimariesFound'
  BY <1>0, <1>1, <1>6 DEF OrgInv, PrimaryMembers, OnePrimary, PrimariesFound
<1> QED
  BY <1>5, <1>6, <1>8, <1>9 DEF OrgInv

(* The end of a request, which has saved the organization i or a membership. *)
LEMMA OrgEnds ==
    ASSUME OrgInv, NEW c \in OrgClients, gpc[c] # "idle", OrgDone(c), overlapped' = overlapped
    PROVE  /\ OrgMoved(c) /\ gpc'[c] = "idle" /\ OrgsAlone'
           /\ ~overlapped => (\A d \in OrgClients \ {c} : gpc[d] = "idle") /\ (\A d \in OrgClients : gpc'[d] = "idle")
           /\ DefaultReady' /\ PrimariesFound'
<1>1. OrgMoved(c) /\ gpc'[c] = "idle"
  BY OrgDoneMoves DEF OrgInv
<1>2. OrgsAlone' /\ (~overlapped => \A d \in OrgClients \ {c} : gpc[d] = "idle" /\ gpc'[d] = "idle")
  BY <1>1, OrgStaysAlone
<1>3. DefaultReady' /\ PrimariesFound'
  BY <1>1, <1>2 DEF DefaultReady, PrimariesFound
<1> QED
  BY <1>1, <1>2, <1>3

LEMMA InsertOrganizationKeeps == ASSUME OrgInv, NEW c \in OrgClients, InsertOrganization(c) PROVE OrgInv'
<1>0. gpc[c] = "insert" /\ OrgDone(c) /\ UNCHANGED <<memberships, overlapped>> /\ org[c].row \in Organization
  BY DEF OrgInv, OrgTypeOK, InsertOrganization
<1>1. /\ OrgMoved(c) /\ gpc'[c] = "idle" /\ OrgsAlone' /\ DefaultReady' /\ PrimariesFound'
      /\ ~overlapped => (\A d \in OrgClients \ {c} : gpc[d] = "idle") /\ (\A d \in OrgClients : gpc'[d] = "idle")
  BY <1>0, OrgEnds
<1>2. PICK i \in Orgs : orgs' = [orgs EXCEPT ![i] = org[c].row]
  BY DEF InsertOrganization
<1>3. orgs' \in [Orgs -> Organization] /\ \A j \in Orgs : orgs'[j] = IF j = i THEN org[c].row ELSE orgs[j]
  BY <1>0, <1>2 DEF OrgInv, OrgTypeOK
<1>4. OrgTypeOK'
  BY <1>0, <1>1, <1>3, OrgTypesMove DEF OrgInv, OrgTypeOK
<1>5. OneDefault'
  BY <1>0, <1>3 DEF OrgInv, OneDefault, DefaultReady
<1>6. PrimaryMembers' /\ OnePrimary'
  BY <1>0, <1>1 DEF OrgInv, PrimaryMembers, OnePrimary
<1> QED
  BY <1>1, <1>4, <1>5, <1>6 DEF OrgInv

LEMMA SaveOrganizationKeeps == ASSUME OrgInv, NEW c \in OrgClients, SaveOrganization(c) PROVE OrgInv'
<1>0. gpc[c] = "save" /\ OrgDone(c) /\ UNCHANGED <<memberships, overlapped>> /\ org[c].row \in Organization
  BY DEF OrgInv, OrgTypeOK, SaveOrganization
<1>1. /\ OrgMoved(c) /\ gpc'[c] = "idle" /\ OrgsAlone' /\ DefaultReady' /\ PrimariesFound'
      /\ ~overlapped => (\A d \in OrgClients \ {c} : gpc[d] = "idle") /\ (\A d \in OrgClients : gpc'[d] = "idle")
  BY <1>0, OrgEnds
<1>3. orgs' \in [Orgs -> Organization] /\ \A j \in Orgs : orgs'[j] = IF j = org[c].id THEN org[c].row ELSE orgs[j]
  BY <1>0 DEF OrgInv, OrgTypeOK, SaveOrganization
<1>4. OrgTypeOK'
  BY <1>0, <1>1, <1>3, OrgTypesMove DEF OrgInv, OrgTypeOK
<1>5. OneDefault'
  BY <1>0, <1>3 DEF OrgInv, OneDefault, DefaultReady
<1>6. PrimaryMembers' /\ OnePrimary'
  BY <1>0, <1>1 DEF OrgInv, PrimaryMembers, OnePrimary
<1> QED
  BY <1>1, <1>4, <1>5, <1>6 DEF OrgInv

LEMMA MemberTyped ==
    \A p \in BOOLEAN : Member(p) \in Membership /\ Member(p).isPrimary = p /\ Member(p).status = "MEMBER"
BY DEF Member, Membership

LEMMA SaveAddedKeeps == ASSUME OrgInv, NEW c \in OrgClients, SaveAdded(c) PROVE OrgInv'
<1>0. gpc[c] = "add" /\ UNCHANGED <<orgs, overlapped>> /\ org[c] \in OrgWork /\ org[c].isPrimary \in BOOLEAN
  BY DEF OrgInv, OrgTypeOK, SaveAdded, OrgWork
<1>1. /\ memberships' \in [Orgs -> Membership]
      /\ \A i \in Orgs : memberships'[i] = IF i = org[c].id THEN Member(org[c].isPrimary) ELSE memberships[i]
  BY <1>0, MemberTyped DEF OrgInv, OrgTypeOK, SaveAdded
<1>2. OrgMoved(c) /\ (IF org[c].isPrimary THEN gpc'[c] = "find added" /\ org'[c] = org[c] ELSE gpc'[c] = "idle")
  <2>1. CASE org[c].isPrimary
    <3>1. OrgAt(c, "find added", org[c], {}) /\ "find added" \in OrgLabels
      BY <2>1 DEF SaveAdded, OrgLabels
    <3> QED
      BY <1>0, <2>1, <3>1, OrgMovesOn DEF OrgInv
  <2>2. CASE ~org[c].isPrimary
    BY <2>2, OrgDoneMoves DEF SaveAdded, OrgInv
  <2> QED
    BY <2>1, <2>2
<1>3. OrgsAlone' /\ (~overlapped => \A d \in OrgClients \ {c} : gpc[d] = "idle" /\ gpc'[d] = "idle")
  BY <1>0, <1>2, OrgStaysAlone
<1>4. OrgTypeOK'
  BY <1>0, <1>1, <1>2, OrgTypesMove DEF OrgInv, OrgTypeOK
<1>5. OneDefault' /\ DefaultReady' /\ PrimariesFound'
  BY <1>0, <1>2, <1>3 DEF OrgInv, OneDefault, DefaultReady, PrimariesFound
<1>6. PrimaryMembers'
  BY <1>0, <1>1, MemberTyped DEF OrgInv, PrimaryMembers
<1>7. OnePrimary'
  <2> SUFFICES ASSUME ~overlapped, NEW i \in Orgs, NEW j \in Orgs, i # j,
                      memberships'[i].isPrimary, memberships'[j].isPrimary
               PROVE  gpc'[c] = "find added" /\ org'[c].id \in {i, j}
    BY <1>0 DEF OnePrimary
  <2>1. ~(memberships[i].isPrimary /\ memberships[j].isPrimary)
    BY <1>0, <1>3 DEF OrgInv, OnePrimary
  <2>2. org[c].isPrimary /\ org[c].id \in {i, j}
    BY <1>0, <1>1, <2>1, MemberTyped
  <2> QED
    BY <1>2, <2>2
<1> QED
  BY <1>3, <1>4, <1>5, <1>6, <1>7 DEF OrgInv

LEMMA FindPrimariesKeeps == ASSUME OrgInv, NEW c \in OrgClients, FindPrimaries(c) PROVE OrgInv'
<1> DEFINE others == {i \in Orgs \ {org[c].id} : memberships[i].status = "MEMBER" /\ memberships[i].isPrimary}
           found == {Found(i, NoOrganization) : i \in others}
           label == IF gpc[c] = "find added" THEN "unset added" ELSE "unset primary"
<1>0. gpc[c] \in {"find added", "find primary"} /\ UNCHANGED <<orgs, memberships, overlapped>>
      /\ org[c] \in OrgWork /\ OrgAt(c, label, org[c], found)
  BY DEF OrgInv, OrgTypeOK, FindPrimaries, OrgWork
<1>1. found \subseteq FoundRows /\ label \in OrgLabels
  <2>1. \A i \in others : Found(i, NoOrganization) \in FoundRows
    BY NoWorkTyped, FoundTyped
  <2>2. label \in OrgLabels
    BY DEF OrgLabels
  <2> QED
    BY <2>1, <2>2
<1>2. OrgMoved(c) /\ gpc'[c] = label /\ org'[c] = org[c] /\ flagged'[c] = found
  <2> HIDE DEF found
  <2> QED
    BY <1>0, <1>1, OrgMoves DEF OrgInv
<1>3. OrgsAlone' /\ (~overlapped => \A d \in OrgClients \ {c} : gpc[d] = "idle" /\ gpc'[d] = "idle")
  BY <1>0, <1>2, OrgStaysAlone
<1>4. OrgTypeOK'
  BY <1>0, <1>2, OrgTypesMove DEF OrgInv, OrgTypeOK
<1>5. OneDefault' /\ DefaultReady' /\ PrimaryMembers'
  BY <1>0, <1>2, <1>3 DEF OrgInv, OneDefault, DefaultReady, PrimaryMembers
<1>6. \A i \in Orgs : memberships[i].isPrimary => i = org[c].id \/ \E h \in found : h.id = i
  <2> SUFFICES ASSUME NEW i \in Orgs, memberships[i].isPrimary, i # org[c].id PROVE \E h \in found : h.id = i
    OBVIOUS
  <2>1. i \in others
    BY DEF OrgInv, PrimaryMembers
  <2>2. Found(i, NoOrganization) \in found /\ Found(i, NoOrganization).id = i
    BY <2>1 DEF Found
  <2> QED
    BY <2>2
<1>7. OnePrimary'
  <2> HIDE DEF found
  <2> SUFFICES ASSUME ~overlapped, NEW i \in Orgs, NEW j \in Orgs, i # j,
                      memberships[i].isPrimary, memberships[j].isPrimary
               PROVE  gpc'[c] = "unset added" /\ org'[c].id \in {i, j}
    BY <1>0 DEF OnePrimary
  <2>1. PICK d \in OrgClients : gpc[d] \in {"find added", "unset added"} /\ org[d].id \in {i, j}
    BY DEF OrgInv, OnePrimary
  <2>2. d = c
    <3> SUFFICES ASSUME d # c PROVE FALSE
      OBVIOUS
    <3>1. gpc[d] = "idle"
      BY <1>3
    <3> QED
      BY <2>1, <3>1
  <2> QED
    BY <1>0, <1>2, <2>1, <2>2
<1>8. PrimariesFound'
  <2> HIDE DEF found
  <2> QED
    BY <1>0, <1>2, <1>3, <1>6 DEF PrimariesFound
<1> QED
  BY <1>3, <1>4, <1>5, <1>7, <1>8 DEF OrgInv

LEMMA UnsetPrimaryKeeps == ASSUME OrgInv, NEW c \in OrgClients, UnsetPrimary(c) PROVE OrgInv'
<1>1. PICK h \in flagged[c] :
        memberships' = [memberships EXCEPT ![h.id] = Member(FALSE)] /\ OrgAt(c, gpc[c], org[c], flagged[c] \ {h})
  BY DEF UnsetPrimary
<1>0. gpc[c] \in {"unset added", "unset primary"} /\ UNCHANGED <<orgs, overlapped>>
      /\ org[c] \in OrgWork /\ gpc[c] \in OrgLabels
  BY DEF OrgInv, OrgTypeOK, UnsetPrimary, OrgWork, OrgLabels
<1>a. h.id \in Orgs /\ flagged[c] \ {h} \subseteq FoundRows
  BY FlaggedTyped DEF OrgInv, FoundRows
<1>2. OrgMoved(c) /\ gpc'[c] = gpc[c] /\ org'[c] = org[c] /\ flagged'[c] = flagged[c] \ {h}
  BY <1>0, <1>1, <1>a, OrgMoves DEF OrgInv
<1>3. OrgsAlone' /\ (~overlapped => \A d \in OrgClients \ {c} : gpc[d] = "idle" /\ gpc'[d] = "idle")
  BY <1>0, <1>2, OrgStaysAlone
<1>4. /\ memberships' \in [Orgs -> Membership]
      /\ \A i \in Orgs : memberships'[i] = IF i = h.id THEN Member(FALSE) ELSE memberships[i]
  BY <1>a, <1>1, MemberTyped DEF OrgInv, OrgTypeOK
<1>5. OrgTypeOK'
  BY <1>0, <1>2, <1>4, OrgTypesMove DEF OrgInv, OrgTypeOK
<1>6. OneDefault' /\ DefaultReady'
  BY <1>0, <1>2, <1>3 DEF OrgInv, OneDefault, DefaultReady
<1>7. PrimaryMembers' /\ (\A i \in Orgs : memberships'[i].isPrimary => i # h.id /\ memberships[i].isPrimary)
  BY <1>4, MemberTyped DEF OrgInv, PrimaryMembers
<1>8. OnePrimary'
  <2> SUFFICES ASSUME ~overlapped, NEW i \in Orgs, NEW j \in Orgs, i # j,
                      memberships'[i].isPrimary, memberships'[j].isPrimary
               PROVE  \E d \in OrgClients : gpc'[d] \in {"find added", "unset added"} /\ org'[d].id \in {i, j}
    BY <1>0 DEF OnePrimary
  <2>1. PICK d \in OrgClients : gpc[d] \in {"find added", "unset added"} /\ org[d].id \in {i, j}
    BY <1>7 DEF OrgInv, OnePrimary
  <2>2. ASSUME d # c PROVE FALSE
    <3>1. gpc[d] = "idle"
      BY <1>3, <2>2
    <3> QED
      BY <2>1, <3>1
  <2> QED
    BY <1>2, <2>1, <2>2
<1>9. PrimariesFound'
  <2> SUFFICES ASSUME ~overlapped, NEW i \in Orgs, memberships'[i].isPrimary, i # org[c].id
               PROVE  \E g \in flagged'[c] : g.id = i
    <3>1. ASSUME ~overlapped, NEW d \in OrgClients, d # c PROVE gpc'[d] = "idle"
      BY <1>3, <3>1
    <3> QED
      BY <1>0, <1>2, <3>1 DEF PrimariesFound
  <2>1. PICK g \in flagged[c] : g.id = i
    BY <1>0, <1>7 DEF OrgInv, PrimariesFound
  <2> QED
    BY <1>2, <1>7, <2>1
<1> QED
  BY <1>3, <1>5, <1>6, <1>7, <1>8, <1>9 DEF OrgInv

LEMMA SaveMembershipKeeps == ASSUME OrgInv, NEW c \in OrgClients, SaveMembership(c) PROVE OrgInv'
<1>0. gpc[c] \in Saving /\ gpc[c] # "idle" /\ flagged[c] = {} /\ UNCHANGED <<orgs, overlapped>> /\ OrgDone(c)
      /\ org[c].isPrimary \in BOOLEAN
      /\ memberships' = [memberships EXCEPT ![org[c].id] = MembershipSaved(c)]
  BY DEF OrgInv, OrgTypeOK, SaveMembership, Saving
<1>1. /\ OrgMoved(c) /\ gpc'[c] = "idle" /\ OrgsAlone' /\ DefaultReady' /\ PrimariesFound'
      /\ ~overlapped => (\A d \in OrgClients \ {c} : gpc[d] = "idle") /\ (\A d \in OrgClients : gpc'[d] = "idle")
  BY <1>0, OrgEnds
<1>2. org[c].id \in Orgs => /\ MembershipSaved(c) \in Membership
                            /\ MembershipSaved(c).isPrimary => MembershipSaved(c).status = "MEMBER"
  <2>1. CASE gpc[c] \in {"unset primary", "role"}
    BY <1>0, <2>1, MemberTyped DEF MembershipSaved
  <2>2. CASE gpc[c] = "leave"
    BY <2>2 DEF MembershipSaved, Membership
  <2>3. CASE gpc[c] = "unset added"
    BY <2>3 DEF MembershipSaved, OrgInv, OrgTypeOK, PrimaryMembers
  <2> QED
    BY <1>0, <2>1, <2>2, <2>3 DEF Saving
<1>3. /\ memberships' \in [Orgs -> Membership]
      /\ \A i \in Orgs : memberships'[i] = IF i = org[c].id THEN MembershipSaved(c) ELSE memberships[i]
  BY <1>0, <1>2 DEF OrgInv, OrgTypeOK
<1>4. OrgTypeOK'
  BY <1>0, <1>1, <1>3, OrgTypesMove DEF OrgInv, OrgTypeOK
<1>5. OneDefault' /\ PrimaryMembers'
  BY <1>0, <1>2, <1>3 DEF OrgInv, OneDefault, PrimaryMembers
<1>6. OnePrimary'
  <2> SUFFICES ASSUME ~overlapped, NEW i \in Orgs, NEW j \in Orgs, i # j,
                      memberships'[i].isPrimary, memberships'[j].isPrimary
               PROVE  FALSE
    BY <1>0 DEF OnePrimary
  <2>1. CASE gpc[c] \in {"unset added", "unset primary"}
    BY <1>0, <1>3, <2>1 DEF OrgInv, PrimariesFound
  <2>2. CASE gpc[c] \in {"leave", "role"}
    <3>1. org[c].id \in Orgs /\ MembershipSaved(c).isPrimary => memberships[org[c].id].isPrimary
      BY <1>0, <2>2, MemberTyped DEF OrgInv, PrimariesFound, MembershipSaved
    <3>2. memberships[i].isPrimary /\ memberships[j].isPrimary
      BY <1>3, <3>1
    <3> QED
      BY <1>1, <2>2, <3>2 DEF OrgInv, OnePrimary
  <2> QED
    BY <1>0, <2>1, <2>2 DEF Saving
<1> QED
  BY <1>1, <1>4, <1>5, <1>6 DEF OrgInv

LEMMA OrgFaultKeeps == ASSUME OrgInv, NEW c \in OrgClients, OrgFault(c) PROVE OrgInv'
<1>1. OrgMoved(c) /\ overlapped' /\ UNCHANGED <<orgs, memberships>>
  BY OrgDoneMoves DEF OrgFault, OrgInv
<1>2. OrgTypeOK' /\ PrimaryMembers'
  BY <1>1, OrgTypesMove DEF OrgInv, OrgTypeOK, PrimaryMembers
<1> QED
  BY <1>1, <1>2 DEF OrgInv, OrgsAlone, OneDefault, DefaultReady, OnePrimary, PrimariesFound

LEMMA OrgInvHolds == OrgSpec => []OrgInv
<1>1. OrgInit => OrgInv
  <2> SUFFICES ASSUME OrgInit PROVE OrgInv
    OBVIOUS
  <2>1. OrgTypeOK
    <3>1. NoMembership \in Membership
      BY DEF NoMembership, Membership
    <3> QED
      BY <3>1, NoWorkTyped DEF OrgInit, OrgTypeOK, OrgWork
  <2>2. (\A i \in Orgs : ~orgs[i].isDefault /\ ~memberships[i].isPrimary) /\ \A c \in OrgClients : gpc[c] = "idle"
    BY NoWorkTyped DEF OrgInit, NoMembership
  <2> QED
    BY <2>1, <2>2
       DEF OrgInv, OrgsAlone, OneDefault, DefaultReady, PrimaryMembers, OnePrimary, PrimariesFound
<1>2. OrgInv /\ [OrgNext]_orgVars => OrgInv'
  <2> SUFFICES ASSUME OrgInv, [OrgNext]_orgVars PROVE OrgInv'
    OBVIOUS
  <2>1. ASSUME NEW c \in OrgClients, OrgStep(c) PROVE OrgInv'
    BY <2>1, CreateOrganizationKeeps, UpdateOrganizationKeeps, DeleteOrganizationKeeps, SetDefaultKeeps,
       FindDefaultKeeps, UnsetDefaultKeeps, InsertOrganizationKeeps, SaveOrganizationKeeps DEF OrgStep
  <2>2. ASSUME NEW c \in OrgClients, MembershipStep(c) PROVE OrgInv'
    BY <2>2, AddUserKeeps, SaveAddedKeeps, ReadMembershipKeeps, FindPrimariesKeeps, UnsetPrimaryKeeps,
       SaveMembershipKeeps
       DEF MembershipStep, SetPrimaryOrganization, RemoveUserFromOrganization, UpdateOrganizationRole
  <2>3. CASE UNCHANGED orgVars
    <3>1. OrgTypeOK' /\ OrgsAlone' /\ OneDefault'
      BY <2>3 DEF orgVars, OrgInv, OrgTypeOK, OrgsAlone, OneDefault
    <3>2. DefaultReady' /\ PrimaryMembers'
      BY <2>3 DEF orgVars, OrgInv, DefaultReady, PrimaryMembers
    <3>3. OnePrimary' /\ PrimariesFound'
      BY <2>3 DEF orgVars, OrgInv, OnePrimary, PrimariesFound
    <3> QED
      BY <3>1, <3>2, <3>3 DEF OrgInv
  <2> QED
    BY <2>1, <2>2, <2>3, OrgFaultKeeps DEF OrgNext
<1> QED
  BY <1>1, <1>2, PTL DEF OrgSpec

LEMMA AtMostOneCounted ==
    ASSUME NEW S, \A x, y \in S : x = y
    PROVE  Cardinality(S) <= 1
<1>1. CASE S = {}
  BY <1>1, FS_EmptySet
<1>2. CASE S # {}
  <2>1. PICK x \in S : TRUE
    BY <1>2
  <2>2. S = {x}
    BY <2>1
  <2> QED
    BY <2>2, FS_Singleton
<1> QED
  BY <1>1, <1>2

(* Type correctness of the organizations' tables and of what the requests hold. *)
THEOREM OrganizationTypes == OrgSpec => []OrgTypeOK
BY OrgInvHolds, PTL DEF OrgInv

(* setDefault, addUserToOrganization and the others unset the flags of other rows *)
(* before or after they save their own: as long as requests do not overlap and    *)
(* none is cut short, there is one default and one primary membership at most.    *)
THEOREM OneDefaultOnePrimary == OrgSpec => []OneDefaultAndOnePrimary
<1>1. OrgInv => OneDefaultAndOnePrimary
  <2> SUFFICES ASSUME OrgInv, ~overlapped
               PROVE  /\ Cardinality({i \in Orgs : orgs[i].isDefault}) <= 1
                      /\ Cardinality({i \in Orgs : memberships[i].isPrimary /\ Idle(i)}) <= 1
    BY DEF OneDefaultAndOnePrimary
  <2>1. \A x, y \in {i \in Orgs : orgs[i].isDefault} : x = y
    BY DEF OrgInv, OneDefault
  <2>2. \A x, y \in {i \in Orgs : memberships[i].isPrimary /\ Idle(i)} : x = y
    <3> SUFFICES ASSUME NEW x \in Orgs, NEW y \in Orgs, memberships[x].isPrimary, memberships[y].isPrimary,
                        Idle(x), Idle(y), x # y
                 PROVE  FALSE
      OBVIOUS
    <3>1. PICK c \in OrgClients : gpc[c] \in {"find added", "unset added"} /\ org[c].id \in {x, y}
      BY DEF OrgInv, OnePrimary
    <3> QED
      BY <3>1 DEF Idle
  <2> QED
    BY <2>1, <2>2, AtMostOneCounted
<1> QED
  BY <1>1, OrgInvHolds, PTL

-----------------------------------------------------------------------------
(* Recurring invoices.  A row that a pass holds was read some time ago; it     *)
(* says less than the table, but nothing that was not so.                      *)

BillerLabels == {"idle", "next", "insert", "track", "save", "complete"}
DueRows == [id: Schedules, row: Schedule]
HandRows == [id: Schedules \cup {"none"}, row: Schedule]
Busy(b) == vpc[b] \in {"insert", "track", "save", "complete"}
InTurn(b, s) == vpc[b] \in {"track", "save"} /\ inHand[b].id = s

BillerHandsOK ==
    /\ due \in [Billers -> SUBSET DueRows]
    /\ inHand \in [Billers -> HandRows]
    /\ number \in [Billers -> 0 .. MaxInvoices + 1]
    /\ \A b \in Billers : number[b] <= lastNumber + 1 /\ (Busy(b) => inHand[b].id \in Schedules)

(* The dates before the next one are invoiced; the settings are the schedule's. *)
RowFits(s, row) ==
    /\ \A d \in Days : d < row.next => invoiced[s][d] > 0
    /\ row.recurrenceCount = schedules[s].recurrenceCount
    /\ row.total <= lastNumber

TablesFit ==
    /\ \A s \in Schedules : RowFits(s, schedules[s])
    /\ \A s \in Schedules, d \in Days : invoiced[s][d] <= lastNumber

ListsFit == \A b \in Billers : \A h \in due[b] :
    RowFits(h.id, h.row) /\ h.row.isActive /\ h.row.next \in Days

HandsFit == \A b \in Billers :
    /\ Busy(b) => RowFits(inHand[b].id, inHand[b].row)
    /\ vpc[b] \in {"insert", "track"} => inHand[b].row.next \in Days
    /\ vpc[b] = "insert" =>
         /\ inHand[b].row.isActive
         /\ inHand[b].row.recurrenceCount # 0 => inHand[b].row.total < inHand[b].row.recurrenceCount
    /\ vpc[b] = "track" => invoiced[inHand[b].id][inHand[b].row.next] > 0
    /\ vpc[b] = "complete" => ~inHand[b].row.isActive

(* Nothing is invoiced from the schedule's next date on, and its count is right. *)
Fresh(s, row) == row.total = row.next - 1 /\ \A d \in Days : d >= row.next => invoiced[s][d] = 0
JustInvoiced(s, row) == row.total = row.next /\ \A d \in Days : d > row.next => invoiced[s][d] = 0

(* The turn of a schedule that no pass overtook goes from the invoice to the *)
(* last save, and is one pass's.                                             *)
TurnOK(s) ==
    /\ \A b, o \in Billers : InTurn(b, s) /\ InTurn(o, s) => b = o
    /\ \A b \in Billers : InTurn(b, s) /\ vpc[b] = "track" => JustInvoiced(s, inHand[b].row)
    /\ \A b \in Billers : InTurn(b, s) /\ vpc[b] = "save" => Fresh(s, inHand[b].row)
    /\ schedules[s].isActive /\ (\A b \in Billers : ~InTurn(b, s)) => Fresh(s, schedules[s])
    /\ \A d \in Days : invoiced[s][d] <= 1
    /\ schedules[s].recurrenceCount # 0 => \A d \in Invoices(s) : d <= schedules[s].recurrenceCount

TurnsOK == \A s \in Schedules \ repeats : TurnOK(s)

InvoiceInv == RecurringTypeOK /\ BillerHandsOK /\ TablesFit /\ ListsFit /\ HandsFit /\ TurnsOK

(* What a step of one biller leaves of the others. *)
BillerMoved(b) ==
    /\ vpc' \in [Billers -> BillerLabels]
    /\ due' \in [Billers -> SUBSET DueRows]
    /\ inHand' \in [Billers -> HandRows]
    /\ number' \in [Billers -> 0 .. MaxInvoices + 1]
    /\ \A o \in Billers \ {b} : /\ vpc'[o] = vpc[o] /\ due'[o] = due[o]
                                /\ inHand'[o] = inHand[o] /\ number'[o] = number[o]

LEMMA BillerMoves ==
    ASSUME RecurringTypeOK, BillerHandsOK, NEW b \in Billers, NEW label \in BillerLabels,
           NEW rest, rest \subseteq DueRows, NEW h \in HandRows, NEW n \in 0 .. MaxInvoices + 1,
           BillerAt(b, label, rest, h, n)
    PROVE  BillerMoved(b) /\ vpc'[b] = label /\ due'[b] = rest /\ inHand'[b] = h /\ number'[b] = n
<1>1. vpc' \in [Billers -> BillerLabels] /\ vpc'[b] = label /\ \A o \in Billers \ {b} : vpc'[o] = vpc[o]
  BY DEF RecurringTypeOK, BillerAt, BillerLabels
<1>2. due' \in [Billers -> SUBSET DueRows] /\ due'[b] = rest /\ \A o \in Billers \ {b} : due'[o] = due[o]
  BY DEF BillerHandsOK, BillerAt
<1>3. inHand' \in [Billers -> HandRows] /\ inHand'[b] = h /\ \A o \in Billers \ {b} : inHand'[o] = inHand[o]
  BY DEF BillerHandsOK, BillerAt
<1>4. /\ number' \in [Billers -> 0 .. MaxInvoices + 1] /\ number'[b] = n
      /\ \A o \in Billers \ {b} : number'[o] = number[o]
  BY DEF BillerHandsOK, BillerAt
<1> QED
  BY <1>1, <1>2, <1>3, <1>4 DEF BillerMoved

LEMMA NothingTyped ==
    NoSchedule \in Schedule /\ NothingInHand \in HandRows /\ 0 \in 0 .. MaxInvoices + 1
<1>1. NoSchedule \in Schedule /\ 0 \in 0 .. MaxInvoices + 1
  BY RecurringAssumption DEF NoSchedule, Schedule
<1> QED
  BY <1>1 DEF NothingInHand, Listed, HandRows

LEMMA OnwardMoves ==
    ASSUME RecurringTypeOK, BillerHandsOK, NEW b \in Billers, Onward(b)
    PROVE  BillerMoved(b) /\ vpc'[b] \in {"idle", "next"} /\ due'[b] = due[b] /\ number'[b] = 0
<1> DEFINE label == IF due[b] = {} THEN "idle" ELSE "next"
<1>1. label \in BillerLabels /\ label \in {"idle", "next"}
  BY DEF BillerLabels
<1>2. due[b] \subseteq DueRows
  BY DEF BillerHandsOK
<1>3. BillerAt(b, label, due[b], NothingInHand, 0)
  BY DEF Onward
<1> HIDE DEF label
<1> QED
  BY <1>1, <1>2, <1>3, BillerMoves, NothingTyped

LEMMA StopMoves ==
    ASSUME RecurringTypeOK, BillerHandsOK, NEW b \in Billers, BillerAt(b, "idle", {}, NothingInHand, 0)
    PROVE  BillerMoved(b) /\ vpc'[b] \in {"idle", "next"} /\ due'[b] = {} /\ number'[b] = 0
<1>1. vpc' \in [Billers -> BillerLabels] /\ vpc'[b] = "idle" /\ \A o \in Billers \ {b} : vpc'[o] = vpc[o]
  BY DEF RecurringTypeOK, BillerAt, BillerLabels
<1>2. due' \in [Billers -> SUBSET DueRows] /\ due'[b] = {} /\ \A o \in Billers \ {b} : due'[o] = due[o]
  BY DEF BillerHandsOK, BillerAt
<1>3. inHand' \in [Billers -> HandRows] /\ \A o \in Billers \ {b} : inHand'[o] = inHand[o]
  BY NothingTyped DEF BillerHandsOK, BillerAt
<1>4. /\ number' \in [Billers -> 0 .. MaxInvoices + 1] /\ number'[b] = 0
      /\ \A o \in Billers \ {b} : number'[o] = number[o]
  BY NothingTyped DEF BillerHandsOK, BillerAt
<1> QED
  BY <1>1, <1>2, <1>3, <1>4 DEF BillerMoved

LEMMA InvoiceTypesMove ==
    ASSUME RecurringTypeOK, NEW b \in Billers, BillerMoved(b), schedules' \in [Schedules -> Schedule],
           invoiced' = invoiced, lastNumber' = lastNumber
    PROVE  RecurringTypeOK'
BY DEF RecurringTypeOK, BillerMoved, BillerLabels

(* The hands of a step that makes no invoice. *)
LEMMA HandsMove ==
    ASSUME BillerHandsOK, NEW b \in Billers, BillerMoved(b), lastNumber' = lastNumber,
           number'[b] <= lastNumber + 1, Busy(b)' => inHand'[b].id \in Schedules
    PROVE  BillerHandsOK'
BY DEF BillerHandsOK, BillerMoved, Busy

(* A step of a pass that is in nobody's turn, before or after. *)
LEMMA TurnsStay ==
    ASSUME InvoiceInv, NEW b \in Billers, BillerMoved(b), UNCHANGED tables, repeats \subseteq repeats',
           vpc'[b] \notin {"track", "save"}, NEW s \in Schedules, s \notin repeats', ~InTurn(b, s)
    PROVE  TurnOK(s)'
<1>1. \A o \in Billers : InTurn(o, s)' <=> InTurn(o, s)
  BY DEF BillerMoved, InTurn
<1>2. \A o \in Billers : InTurn(o, s) => o # b /\ vpc'[o] = vpc[o] /\ inHand'[o] = inHand[o]
  BY DEF BillerMoved
<1>3. TurnOK(s)
  BY DEF InvoiceInv, TurnsOK
<1>4. schedules' = schedules /\ invoiced' = invoiced
  BY DEF tables
<1>5. \A row : Fresh(s, row)' <=> Fresh(s, row)
  BY <1>4 DEF Fresh
<1> QED
  BY <1>1, <1>2, <1>3, <1>4 DEF TurnOK, InTurn, Fresh, JustInvoiced, Invoices

LEMMA SchedulesStay == ASSUME InvoiceInv, UNCHANGED tables PROVE TablesFit'
<1>1. schedules' = schedules /\ invoiced' = invoiced /\ lastNumber' = lastNumber
  BY DEF tables
<1>2. \A s, row : RowFits(s, row)' <=> RowFits(s, row)
  BY <1>1 DEF RowFits
<1> QED
  BY <1>1, <1>2 DEF InvoiceInv, TablesFit

(* A pass leaves its schedule, or its list. *)
LEMMA BillerRests ==
    ASSUME InvoiceInv, NEW b \in Billers, BillerMoved(b), vpc'[b] \in {"idle", "next"},
           due'[b] \subseteq due[b], number'[b] = 0, UNCHANGED tables, repeats \subseteq repeats',
           \A s \in Schedules : InTurn(b, s) => s \in repeats'
    PROVE  InvoiceInv'
<1>1. RecurringTypeOK'
  BY InvoiceTypesMove DEF InvoiceInv, RecurringTypeOK, tables
<1>2. BillerHandsOK'
  <2>1. 0 <= lastNumber + 1
    BY DEF InvoiceInv, RecurringTypeOK
  <2> QED
    BY <2>1, HandsMove DEF InvoiceInv, tables, Busy
<1>3. TablesFit'
  BY SchedulesStay
<1>4. ListsFit'
  BY DEF InvoiceInv, ListsFit, BillerMoved, tables, RowFits
<1>5. HandsFit'
  BY DEF InvoiceInv, HandsFit, BillerMoved, tables, RowFits, Busy
<1>6. TurnsOK'
  BY TurnsStay DEF TurnsOK
<1> QED
  BY <1>1, <1>2, <1>3, <1>4, <1>5, <1>6 DEF InvoiceInv

LEMMA RecurringInitKeeps == ASSUME RecurringInit PROVE InvoiceInv
<1>1. /\ schedules \in [Schedules -> Schedule]
      /\ \A s \in Schedules : schedules[s].next = 1 /\ schedules[s].total = 0
  <2>1. \A t \in Terms : t[1] \in 0 .. LastDay /\ t[2] \in 0 .. LastDay
    BY RecurringAssumption
  <2>2. \A t \in Terms : [isActive |-> TRUE, next |-> 1, total |-> 0,
                          recurrenceCount |-> t[1], endDate |-> t[2]] \in Schedule
    BY <2>1, RecurringAssumption DEF Schedule
  <2>3. schedules \in [Schedules -> {[isActive |-> TRUE, next |-> 1, total |-> 0,
                                     recurrenceCount |-> t[1], endDate |-> t[2]] : t \in Terms}]
    BY DEF RecurringInit
  <2> QED
    BY <2>2, <2>3
<1>2. /\ invoiced \in [Schedules -> [Days -> 0 .. MaxInvoices]] /\ lastNumber = 0 /\ 0 \in 0 .. MaxInvoices
      /\ \A s \in Schedules, d \in Days : invoiced[s][d] = 0
  BY RecurringAssumption DEF RecurringInit
<1>3. /\ \A b \in Billers : vpc[b] = "idle" /\ due[b] = {} /\ number[b] = 0
      /\ vpc \in [Billers -> {"idle"}]
  BY DEF RecurringInit
<1>4. RecurringTypeOK
  BY <1>1, <1>2, <1>3 DEF RecurringTypeOK
<1>5. BillerHandsOK
  <2>1. due \in [Billers -> SUBSET DueRows]
    BY DEF RecurringInit
  <2>2. inHand \in [Billers -> HandRows]
    BY NothingTyped DEF RecurringInit
  <2>3. number \in [Billers -> 0 .. MaxInvoices + 1]
    BY NothingTyped DEF RecurringInit
  <2> QED
    BY <1>2, <1>3, <2>1, <2>2, <2>3 DEF BillerHandsOK, Busy
<1>6. TablesFit /\ \A s \in Schedules : Fresh(s, schedules[s])
  BY <1>1, <1>2 DEF TablesFit, RowFits, Days, Fresh
<1>7. ListsFit /\ HandsFit
  BY <1>3 DEF ListsFit, HandsFit, Busy
<1>8. TurnsOK
  BY <1>2, <1>3, <1>6 DEF TurnsOK, TurnOK, InTurn, Invoices
<1> QED
  BY <1>4, <1>5, <1>6, <1>7, <1>8 DEF InvoiceInv

LEMMA NewDayKeeps == ASSUME InvoiceInv, NewDay PROVE InvoiceInv'
<1>1. UNCHANGED <<tables, vpc, due, inHand, number, repeats>>
  BY DEF NewDay
<1>2. RecurringTypeOK' /\ BillerHandsOK' /\ TablesFit'
  BY <1>1 DEF InvoiceInv, tables, RecurringTypeOK, BillerHandsOK, Busy, TablesFit, RowFits
<1>3. ListsFit' /\ HandsFit'
  BY <1>1 DEF InvoiceInv, tables, ListsFit, HandsFit, Busy, RowFits
<1>4. TurnsOK'
  BY <1>1 DEF InvoiceInv, tables, TurnsOK, TurnOK, InTurn, Fresh, JustInvoiced, Invoices
<1> QED
  BY <1>2, <1>3, <1>4 DEF InvoiceInv

LEMMA GenerateKeeps == ASSUME InvoiceInv, NEW b \in Billers, GenerateRecurringInvoices(b) PROVE InvoiceInv'
<1>1. PICK date \in Days : BillerAt(b, "next",
        {Listed(s, schedules[s]) : s \in {t \in Schedules : schedules[t].isActive /\ schedules[t].next <= date}},
        NothingInHand, 0)
  BY DEF GenerateRecurringInvoices
<1> DEFINE list == {Listed(s, schedules[s]) : s \in {t \in Schedules : schedules[t].isActive /\ schedules[t].next <= date}}
<1>2. \A s \in Schedules : schedules[s].isActive /\ schedules[s].next <= date => schedules[s].next \in Days
  BY RecurringAssumption DEF InvoiceInv, RecurringTypeOK, Schedule, Days
<1>3. /\ list \subseteq DueRows
      /\ \A h \in list : h.id \in Schedules /\ h.row = schedules[h.id] /\ h.row.isActive /\ h.row.next \in Days
  BY <1>2 DEF InvoiceInv, RecurringTypeOK, Listed, DueRows
<1>4. BillerAt(b, "next", list, NothingInHand, 0)
  BY <1>1
<1> HIDE DEF list
<1>0. /\ BillerMoved(b) /\ vpc'[b] = "next" /\ due'[b] = list /\ number'[b] = 0
      /\ UNCHANGED <<tables, repeats>>
  <2>1. "next" \in BillerLabels
    BY DEF BillerLabels
  <2> QED
    BY <2>1, <1>3, <1>4, BillerMoves, NothingTyped DEF InvoiceInv, GenerateRecurringInvoices
<1>5. RecurringTypeOK'
  BY <1>0, InvoiceTypesMove DEF InvoiceInv, RecurringTypeOK, tables
<1>6. BillerHandsOK'
  <2>1. 0 <= lastNumber + 1
    BY DEF InvoiceInv, RecurringTypeOK
  <2> QED
    BY <1>0, <2>1, HandsMove DEF InvoiceInv, tables, Busy
<1>7. TablesFit'
  BY <1>0, SchedulesStay
<1>8. ListsFit'
  BY <1>0, <1>3 DEF InvoiceInv, ListsFit, TablesFit, BillerMoved, tables, RowFits
<1>9. HandsFit'
  BY <1>0 DEF InvoiceInv, HandsFit, BillerMoved, tables, RowFits, Busy
<1>10. TurnsOK'
  <2>1. \A s \in Schedules : ~InTurn(b, s)
    BY DEF GenerateRecurringInvoices, InTurn
  <2> QED
    BY <1>0, <2>1, TurnsStay DEF TurnsOK
<1> QED
  BY <1>5, <1>6, <1>7, <1>8, <1>9, <1>10 DEF InvoiceInv

LEMMA NextScheduleKeeps == ASSUME InvoiceInv, NEW b \in Billers, NextSchedule(b) PROVE InvoiceInv'
<1>1. PICK h \in due[b] :
        IF IsComplete(h.row)
        THEN BillerAt(b, "complete", due[b] \ {h}, [h EXCEPT !.row.isActive = FALSE], 0)
        ELSE BillerAt(b, "insert", due[b] \ {h}, h, lastNumber + 1)
  BY DEF NextSchedule
<1>2. h \in DueRows /\ RowFits(h.id, h.row) /\ h.row.isActive /\ h.row.next \in Days
  BY DEF InvoiceInv, BillerHandsOK, ListsFit
<1> DEFINE ended == [h EXCEPT !.row.isActive = FALSE]
<1>3. /\ h \in HandRows /\ h.id \in Schedules /\ ended \in HandRows /\ ended.id = h.id
      /\ ~ended.row.isActive /\ ended.row.next = h.row.next
      /\ ended.row.recurrenceCount = h.row.recurrenceCount /\ ended.row.total = h.row.total
  BY <1>2 DEF DueRows, HandRows, Schedule
<1>4. \E label \in {"insert", "complete"}, row \in {h, ended}, n \in {0, lastNumber + 1} :
        /\ BillerAt(b, label, due[b] \ {h}, row, n)
        /\ label = "complete" => row = ended
        /\ label = "insert" => row = h /\ ~IsComplete(h.row)
  BY <1>1
<1> HIDE DEF ended
<1>5. PICK label \in {"insert", "complete"}, row \in {h, ended}, n \in {0, lastNumber + 1} :
        /\ BillerAt(b, label, due[b] \ {h}, row, n)
        /\ label = "complete" => row = ended
        /\ label = "insert" => row = h /\ ~IsComplete(h.row)
  BY <1>4
<1>6. n \in 0 .. MaxInvoices + 1 /\ n <= lastNumber + 1
  BY RecurringAssumption DEF InvoiceInv, RecurringTypeOK
<1>0. /\ BillerMoved(b) /\ vpc'[b] = label /\ due'[b] = due[b] \ {h} /\ inHand'[b] = row /\ number'[b] = n
      /\ UNCHANGED <<tables, repeats>>
  <2>1. label \in BillerLabels
    BY DEF BillerLabels
  <2>2. due[b] \ {h} \subseteq DueRows /\ row \in HandRows
    BY <1>3 DEF InvoiceInv, BillerHandsOK
  <2> QED
    BY <2>1, <2>2, <1>5, <1>6, BillerMoves DEF InvoiceInv, NextSchedule
<1>7. /\ row.id = h.id /\ row.row.next = h.row.next
      /\ row.row.recurrenceCount = h.row.recurrenceCount /\ row.row.total = h.row.total
  BY <1>3
<1>8. RecurringTypeOK'
  BY <1>0, InvoiceTypesMove DEF InvoiceInv, RecurringTypeOK, tables
<1>9. BillerHandsOK'
  BY <1>0, <1>3, <1>6, <1>7, HandsMove DEF InvoiceInv, tables
<1>10. TablesFit'
  BY <1>0, SchedulesStay
<1>11. ListsFit'
  BY <1>0 DEF InvoiceInv, ListsFit, BillerMoved, tables, RowFits
<1>12. HandsFit'
  <2>1. RowFits(row.id, row.row)'
    BY <1>0, <1>2, <1>7 DEF RowFits, tables
  <2>2. label = "insert" /\ row.row.recurrenceCount # 0 => row.row.total < row.row.recurrenceCount
    <3>1. row.row.recurrenceCount \in Nat /\ row.row.total \in Nat
      BY <1>2, <1>7 DEF DueRows, Schedule
    <3> QED
      BY <1>5, <3>1 DEF IsComplete
  <2> DEFINE Fits(o) ==
        /\ Busy(o)' => RowFits(inHand[o].id, inHand[o].row)'
        /\ vpc'[o] \in {"insert", "track"} => inHand'[o].row.next \in Days
        /\ vpc'[o] = "insert" =>
             /\ inHand'[o].row.isActive
             /\ inHand'[o].row.recurrenceCount # 0 => inHand'[o].row.total < inHand'[o].row.recurrenceCount
        /\ vpc'[o] = "track" => invoiced'[inHand'[o].id][inHand'[o].row.next] > 0
        /\ vpc'[o] = "complete" => ~inHand'[o].row.isActive
  <2>3. Fits(b)
    BY <1>0, <1>2, <1>3, <1>5, <1>7, <2>1, <2>2
  <2>4. ASSUME NEW o \in Billers, o # b PROVE Fits(o)
    BY <1>0, <2>4 DEF InvoiceInv, HandsFit, BillerMoved, tables, RowFits, Busy
  <2> QED
    BY <2>3, <2>4 DEF HandsFit
<1>13. TurnsOK'
  <2>1. \A s \in Schedules : ~InTurn(b, s)
    BY DEF NextSchedule, InTurn
  <2> QED
    BY <1>0, <2>1, TurnsStay DEF TurnsOK
<1> QED
  BY <1>8, <1>9, <1>10, <1>11, <1>12, <1>13 DEF InvoiceInv

LEMMA InsertInvoiceKeeps == ASSUME InvoiceInv, NEW b \in Billers, InsertInvoice(b) PROVE InvoiceInv'
<1>0. PICK s \in Schedules, row \in Schedule : inHand[b].id = s /\ inHand[b].row = row
  BY DEF InvoiceInv, InsertInvoice, InsertNumbered, BillerHandsOK, HandRows, Busy
<1>1. /\ vpc[b] = "insert" /\ row.next \in Days /\ row.isActive
      /\ RowFits(s, row) /\ (row.recurrenceCount # 0 => row.total < row.recurrenceCount)
  BY <1>0 DEF InvoiceInv, InsertInvoice, InsertNumbered, HandsFit, Busy
<1> DEFINE counted == [inHand[b] EXCEPT !.row.total = @ + 1]
<1>2. CASE number[b] <= lastNumber
  <2>1. Onward(b) /\ UNCHANGED <<tables, repeats>>
    BY <1>2 DEF InsertInvoice, InsertNumbered, tables
  <2>2. BillerMoved(b) /\ vpc'[b] \in {"idle", "next"} /\ due'[b] = due[b] /\ number'[b] = 0
    BY <2>1, OnwardMoves DEF InvoiceInv
  <2>3. \A t \in Schedules : ~InTurn(b, t)
    BY <1>1 DEF InTurn
  <2> QED
    BY <2>1, <2>2, <2>3, BillerRests
<1>3. CASE ~(number[b] <= lastNumber)
  <2>1. /\ invoiced' = [invoiced EXCEPT ![s][row.next] = @ + 1]
        /\ lastNumber' = number[b] /\ lastNumber < MaxInvoices
        /\ repeats' = IF Overtaken(b, inHand[b]) THEN repeats \cup {s} ELSE repeats
        /\ BillerAt(b, "track", due[b], counted, 0)
        /\ schedules' = schedules
    BY <1>0, <1>3 DEF InsertInvoice, InsertNumbered
  <2>2. lastNumber' = lastNumber + 1 /\ lastNumber \in Nat /\ lastNumber' \in 0 .. MaxInvoices
    <3>1. lastNumber \in 0 .. MaxInvoices /\ number[b] \in 0 .. MaxInvoices + 1 /\ number[b] <= lastNumber + 1
      BY DEF InvoiceInv, RecurringTypeOK, BillerHandsOK
    <3> QED
      BY <1>3, <2>1, <3>1, RecurringAssumption
  <2>3. row.total \in Nat /\ row.total + 1 <= lastNumber' /\ row.total + 1 \in 0 .. MaxInvoices
    BY <1>1, <2>2, RecurringAssumption DEF Schedule, RowFits
  <2>4. /\ counted \in HandRows /\ counted.id = s /\ counted.row.next = row.next
        /\ counted.row.recurrenceCount = row.recurrenceCount /\ counted.row.total = row.total + 1
    BY <1>0, <2>3 DEF InvoiceInv, BillerHandsOK, HandRows, Schedule
  <2> HIDE DEF counted
  <2>0. /\ BillerMoved(b) /\ vpc'[b] = "track" /\ due'[b] = due[b] /\ number'[b] = 0
        /\ inHand'[b].id = s /\ inHand'[b].row.next = row.next
        /\ inHand'[b].row.recurrenceCount = row.recurrenceCount /\ inHand'[b].row.total = row.total + 1
    <3>1. "track" \in BillerLabels /\ due[b] \subseteq DueRows
      BY DEF BillerLabels, InvoiceInv, BillerHandsOK
    <3> QED
      BY <2>1, <2>4, <3>1, BillerMoves, NothingTyped DEF InvoiceInv
  <2>5. /\ invoiced \in [Schedules -> [Days -> 0 .. MaxInvoices]]
        /\ \A t \in Schedules, d \in Days : invoiced[t][d] \in Nat /\ invoiced[t][d] <= lastNumber
    BY DEF InvoiceInv, RecurringTypeOK, TablesFit
  <2>6. /\ DOMAIN invoiced' = Schedules /\ invoiced'[s] = [invoiced[s] EXCEPT ![row.next] = @ + 1]
        /\ \A t \in Schedules \ {s} : invoiced'[t] = invoiced[t]
    BY <1>1, <2>1, <2>5
  <2>7. /\ invoiced'[s][row.next] = invoiced[s][row.next] + 1
        /\ \A d \in Days \ {row.next} : invoiced'[s][d] = invoiced[s][d]
    BY <1>1, <2>5, <2>6
  <2>8. \A t \in Schedules, d \in Days : /\ invoiced'[t][d] >= invoiced[t][d]
                                         /\ invoiced'[t][d] \in Nat /\ invoiced'[t][d] <= lastNumber'
    BY <2>2, <2>5, <2>6, <2>7
  <2>9. RecurringTypeOK'
    <3>1. invoiced' \in [Schedules -> [Days -> 0 .. MaxInvoices]]
      <4>1. invoiced[s][row.next] + 1 \in 0 .. MaxInvoices
        BY <1>1, <2>2, <2>5, RecurringAssumption
      <4>2. [invoiced[s] EXCEPT ![row.next] = invoiced[s][row.next] + 1] \in [Days -> 0 .. MaxInvoices]
        BY <1>1, <2>5, <4>1
      <4> QED
        BY <1>1, <2>1, <2>5, <4>2
    <3> QED
      BY <2>0, <2>1, <2>2, <3>1 DEF InvoiceInv, RecurringTypeOK, BillerMoved, BillerLabels
  <2>10. BillerHandsOK'
    <3>1. \A o \in Billers : number'[o] <= lastNumber' + 1
      BY <2>0, <2>2 DEF InvoiceInv, BillerHandsOK, BillerMoved
    <3> QED
      BY <2>0, <3>1 DEF InvoiceInv, BillerHandsOK, BillerMoved, Busy
  <2>11. ASSUME NEW t \in Schedules, NEW r \in Schedule, RowFits(t, r) PROVE RowFits(t, r)'
    <3>1. r.total \in Nat
      BY DEF Schedule
    <3>2. \A d \in Days : d < r.next => invoiced'[t][d] > 0
      BY <2>5, <2>8, <2>11 DEF RowFits
    <3> QED
      BY <2>1, <2>2, <2>11, <3>1, <3>2 DEF RowFits
  <2>12. TablesFit'
    BY <2>1, <2>8, <2>11 DEF InvoiceInv, TablesFit, RecurringTypeOK
  <2>13. \A o \in Billers : \A h \in due[o] : h.id \in Schedules /\ h.row \in Schedule
    BY DEF InvoiceInv, BillerHandsOK, DueRows
  <2>14. ListsFit'
    <3>1. \A o \in Billers : due'[o] = due[o]
      BY <2>0 DEF BillerMoved
    <3> QED
      BY <2>11, <2>13, <3>1 DEF InvoiceInv, ListsFit
  <2>15. RowFits(inHand[b].id, inHand[b].row)'
    <3>1. /\ \A d \in Days : d < row.next => invoiced'[s][d] > 0
          /\ row.recurrenceCount = schedules'[s].recurrenceCount
      BY <1>1, <2>11 DEF RowFits
    <3> QED
      BY <2>0, <2>3, <3>1 DEF RowFits
  <2>16. HandsFit'
    <3> DEFINE Fits(o) ==
          /\ Busy(o)' => RowFits(inHand[o].id, inHand[o].row)'
          /\ vpc'[o] \in {"insert", "track"} => inHand'[o].row.next \in Days
          /\ vpc'[o] = "insert" =>
               /\ inHand'[o].row.isActive
               /\ inHand'[o].row.recurrenceCount # 0 => inHand'[o].row.total < inHand'[o].row.recurrenceCount
          /\ vpc'[o] = "track" => invoiced'[inHand'[o].id][inHand'[o].row.next] > 0
          /\ vpc'[o] = "complete" => ~inHand'[o].row.isActive
    <3>1. Fits(b)
      BY <1>1, <2>0, <2>5, <2>7, <2>15
    <3>2. ASSUME NEW o \in Billers, o # b PROVE Fits(o)
      <4>1. vpc'[o] = vpc[o] /\ inHand'[o] = inHand[o] /\ inHand[o].row \in Schedule
        BY <2>0, <3>2 DEF BillerMoved, InvoiceInv, BillerHandsOK, HandRows
      <4>2. Busy(o)' => Busy(o) /\ inHand[o].id \in Schedules /\ RowFits(inHand[o].id, inHand[o].row)
        BY <4>1 DEF InvoiceInv, BillerHandsOK, HandsFit, Busy
      <4>3. Busy(o)' => RowFits(inHand[o].id, inHand[o].row)'
        BY <2>11, <4>1, <4>2
      <4>4. vpc'[o] = "track" => invoiced'[inHand'[o].id][inHand'[o].row.next] > 0
        <5>1. vpc[o] = "track" => /\ inHand[o].id \in Schedules /\ inHand[o].row.next \in Days
                                  /\ invoiced[inHand[o].id][inHand[o].row.next] > 0
          BY DEF InvoiceInv, BillerHandsOK, HandsFit, Busy
        <5> QED
          BY <2>5, <2>8, <4>1, <5>1
      <4> QED
        BY <4>1, <4>3, <4>4 DEF InvoiceInv, HandsFit
    <3> QED
      BY <3>1, <3>2 DEF HandsFit
  <2>17. ASSUME NEW t \in Schedules \ repeats', t # s PROVE TurnOK(t)'
    <3>1. t \notin repeats /\ TurnOK(t)
      BY <2>1, <2>17 DEF InvoiceInv, TurnsOK
    <3>2. \A o \in Billers : InTurn(o, t)' <=> InTurn(o, t)
      BY <1>0, <1>1, <2>0, <2>17 DEF BillerMoved, InTurn
    <3>3. \A o \in Billers : InTurn(o, t) => o # b /\ vpc'[o] = vpc[o] /\ inHand'[o] = inHand[o]
      BY <1>1, <2>0 DEF BillerMoved, InTurn
    <3>4. invoiced'[t] = invoiced[t] /\ schedules' = schedules
      BY <2>1, <2>6, <2>17
    <3> QED
      BY <3>1, <3>2, <3>3, <3>4 DEF TurnOK, Fresh, JustInvoiced, Invoices
  <2>18. ASSUME s \notin repeats' PROVE TurnOK(s)'
    <3>1. /\ s \notin repeats /\ schedules[s] = row
          /\ \A o \in Billers \ {b} : ~InTurn(o, s)
      BY <1>0, <2>1, <2>18 DEF Overtaken, InTurn
    <3>2. TurnOK(s) /\ \A o \in Billers : ~InTurn(o, s)
      BY <1>1, <3>1 DEF InvoiceInv, TurnsOK, InTurn
    <3>3. Fresh(s, row)
      BY <1>1, <3>1, <3>2 DEF TurnOK
    <3>4. row.total = row.next - 1 /\ \A d \in Days : d >= row.next => invoiced[s][d] = 0
      BY <3>3 DEF Fresh
    <3>5. \A d \in Days : invoiced[s][d] <= 1
      BY <3>2 DEF TurnOK
    <3>6. /\ \A o \in Billers : InTurn(o, s)' <=> o = b
          /\ \A d \in Days : invoiced'[s][d] <= 1
          /\ \A d \in Days : d > row.next => invoiced'[s][d] = 0
      <4>1. \A o \in Billers : InTurn(o, s)' <=> o = b
        BY <2>0, <3>1 DEF BillerMoved, InTurn
      <4>2. /\ \A d \in Days : d \in Nat /\ invoiced[s][d] \in Nat
            /\ row.next \in Days /\ row.next \in Nat /\ row.next >= row.next
        BY <1>1, <2>5, RecurringAssumption DEF Days
      <4>3. \A d \in Days \ {row.next} : invoiced'[s][d] <= 1 /\ (d > row.next => invoiced'[s][d] = 0)
        <5>1. \A d \in Days : d > row.next => d >= row.next
          BY <4>2
        <5> QED
          BY <2>7, <3>4, <3>5, <5>1
      <4>4. invoiced'[s][row.next] = 1
        <5>1. invoiced[s][row.next] = 0
          BY <3>4, <4>2
        <5> QED
          BY <2>7, <4>2, <5>1
      <4> QED
        BY <4>1, <4>2, <4>3, <4>4
    <3>7. JustInvoiced(s, inHand[b].row)'
      <4>1. row.next \in Nat
        BY <1>1, RecurringAssumption DEF Days
      <4> QED
        BY <2>0, <3>4, <3>6, <4>1 DEF JustInvoiced
    <3>8. row.recurrenceCount # 0 => \A d \in Days : invoiced'[s][d] > 0 => d <= row.recurrenceCount
      <4>1. row.next \in Nat /\ row.recurrenceCount \in Nat /\ Days \subseteq Nat
        BY <1>1, RecurringAssumption DEF Days, Schedule
      <4>2. row.recurrenceCount # 0 => row.next <= row.recurrenceCount
        BY <1>1, <3>4, <4>1
      <4>3. \A d \in Days : d <= row.next \/ d > row.next
        BY <4>1
      <4>4. \A d \in Days : invoiced'[s][d] > 0 => ~(d > row.next)
        BY <3>6
      <4> QED
        BY <4>1, <4>2, <4>3, <4>4
    <3> QED
      BY <2>0, <2>1, <3>1, <3>6, <3>7, <3>8 DEF TurnOK, Invoices
  <2>19. TurnsOK'
    BY <2>17, <2>18 DEF TurnsOK
  <2> QED
    BY <2>9, <2>10, <2>12, <2>14, <2>16, <2>19 DEF InvoiceInv
<1> QED
  BY <1>2, <1>3

(* A step that saves a schedule from the row in hand. *)
LEMMA SavingKeeps ==
    ASSUME InvoiceInv, NEW b \in Billers, NEW s \in Schedules, NEW row \in Schedule, BillerMoved(b),
           schedules' = [schedules EXCEPT ![s] = row], invoiced' = invoiced, lastNumber' = lastNumber,
           RowFits(s, row), number'[b] = 0, due'[b] = due[b], Busy(b)' => inHand'[b].id = s
    PROVE  /\ RecurringTypeOK' /\ BillerHandsOK' /\ TablesFit' /\ ListsFit'
           /\ schedules'[s] = row /\ \A t \in Schedules \ {s} : schedules'[t] = schedules[t]
           /\ \A t \in Schedules : schedules'[t].recurrenceCount = schedules[t].recurrenceCount
<1>1. schedules \in [Schedules -> Schedule]
  BY DEF InvoiceInv, RecurringTypeOK
<1>2. /\ schedules' \in [Schedules -> Schedule]
      /\ schedules'[s] = row /\ \A t \in Schedules \ {s} : schedules'[t] = schedules[t]
  BY <1>1
<1>3. \A t \in Schedules : schedules'[t].recurrenceCount = schedules[t].recurrenceCount
  BY <1>2 DEF RowFits
<1>4. RecurringTypeOK'
  BY <1>2, InvoiceTypesMove DEF InvoiceInv
<1>5. BillerHandsOK'
  <2>1. 0 <= lastNumber + 1
    BY DEF InvoiceInv, RecurringTypeOK
  <2> QED
    BY <2>1, HandsMove DEF InvoiceInv
<1>6. \A t \in Schedules, r \in Schedule : RowFits(t, r) => RowFits(t, r)'
  BY <1>3 DEF RowFits
<1>7. TablesFit'
  <2>1. \A t \in Schedules : schedules'[t] \in Schedule /\ RowFits(t, schedules'[t])
    BY <1>2 DEF InvoiceInv, TablesFit
  <2>2. \A t \in Schedules : RowFits(t, schedules[t])'
    BY <2>1, <1>3 DEF RowFits
  <2> QED
    BY <2>2 DEF InvoiceInv, TablesFit
<1>8. ListsFit'
  <2>1. \A o \in Billers : due'[o] = due[o] /\ \A h \in due[o] : h.id \in Schedules
    BY DEF InvoiceInv, BillerHandsOK, BillerMoved, DueRows
  <2> QED
    BY <2>1, <1>3 DEF InvoiceInv, ListsFit, RowFits
<1> QED
  BY <1>2, <1>3, <1>4, <1>5, <1>7, <1>8

(* The hands of the others, when a schedule was saved. *)
LEMMA OtherHandsFit ==
    ASSUME InvoiceInv, NEW b \in Billers, BillerMoved(b), invoiced' = invoiced, lastNumber' = lastNumber,
           \A t \in Schedules : schedules'[t].recurrenceCount = schedules[t].recurrenceCount,
           vpc'[b] \in {"idle", "next", "save"},
           Busy(b)' => RowFits(inHand[b].id, inHand[b].row)'
    PROVE  HandsFit'
<1> SUFFICES ASSUME NEW o \in Billers
             PROVE  /\ Busy(o)' => RowFits(inHand[o].id, inHand[o].row)'
                    /\ vpc'[o] \in {"insert", "track"} => inHand'[o].row.next \in Days
                    /\ vpc'[o] = "insert" =>
                         /\ inHand'[o].row.isActive
                         /\ inHand'[o].row.recurrenceCount # 0 => inHand'[o].row.total < inHand'[o].row.recurrenceCount
                    /\ vpc'[o] = "track" => invoiced'[inHand'[o].id][inHand'[o].row.next] > 0
                    /\ vpc'[o] = "complete" => ~inHand'[o].row.isActive
  BY DEF HandsFit
<1>1. CASE o = b
  BY <1>1
<1>2. CASE o # b
  <2>1. vpc'[o] = vpc[o] /\ inHand'[o] = inHand[o]
    BY <1>2 DEF BillerMoved
  <2>2. Busy(o)' => inHand[o].id \in Schedules /\ RowFits(inHand[o].id, inHand[o].row)
    BY <2>1 DEF InvoiceInv, BillerHandsOK, HandsFit, Busy
  <2>3. Busy(o)' => RowFits(inHand[o].id, inHand[o].row)'
    BY <2>1, <2>2 DEF RowFits
  <2> QED
    BY <2>1, <2>3 DEF InvoiceInv, HandsFit
<1> QED
  BY <1>1, <1>2

LEMMA TrackInvoiceKeeps == ASSUME InvoiceInv, NEW b \in Billers, TrackInvoice(b) PROVE InvoiceInv'
<1>1. PICK s \in Schedules, row \in Schedule : inHand[b].id = s /\ inHand[b].row = row
  BY DEF InvoiceInv, TrackInvoice, BillerHandsOK, HandRows, Busy
<1>2. /\ vpc[b] = "track" /\ row.next \in Days /\ RowFits(s, row) /\ invoiced[s][row.next] > 0
      /\ schedules' = [schedules EXCEPT ![s] = row] /\ invoiced' = invoiced /\ lastNumber' = lastNumber
      /\ repeats' = repeats
  BY <1>1 DEF InvoiceInv, TrackInvoice, HandsFit, Busy
<1> DEFINE next == [inHand[b] EXCEPT !.row = Advanced(row)]
<1>3. row.next \in Nat /\ row.next + 1 \in 1 .. LastDay + 1
  BY <1>2, RecurringAssumption DEF Days
<1>4. /\ Advanced(row) \in Schedule /\ Advanced(row).next = row.next + 1 /\ Advanced(row).total = row.total
      /\ Advanced(row).recurrenceCount = row.recurrenceCount
  BY <1>3 DEF Advanced, Schedule
<1>5. next \in HandRows /\ next.id = s /\ next.row = Advanced(row)
  BY <1>1, <1>4 DEF InvoiceInv, BillerHandsOK, HandRows
<1>6. BillerAt(b, "save", due[b], next, 0)
  BY <1>1 DEF TrackInvoice
<1> HIDE DEF next
<1>0. /\ BillerMoved(b) /\ vpc'[b] = "save" /\ due'[b] = due[b] /\ number'[b] = 0
      /\ inHand'[b].id = s /\ inHand'[b].row = Advanced(row)
  <2>1. "save" \in BillerLabels /\ due[b] \subseteq DueRows
    BY DEF BillerLabels, InvoiceInv, BillerHandsOK
  <2> QED
    BY <2>1, <1>5, <1>6, BillerMoves, NothingTyped DEF InvoiceInv
<1>7. /\ RecurringTypeOK' /\ BillerHandsOK' /\ TablesFit' /\ ListsFit'
      /\ schedules'[s] = row /\ \A t \in Schedules \ {s} : schedules'[t] = schedules[t]
      /\ \A t \in Schedules : schedules'[t].recurrenceCount = schedules[t].recurrenceCount
  BY <1>0, <1>2, SavingKeeps
<1>8. HandsFit'
  <2>1. \A d \in Days : d < row.next + 1 => d < row.next \/ d = row.next
    BY <1>3, RecurringAssumption DEF Days
  <2>2. RowFits(inHand[b].id, inHand[b].row)'
    BY <1>0, <1>2, <1>4, <1>7, <2>1 DEF RowFits
  <2> QED
    BY <1>0, <1>2, <1>7, <2>2, OtherHandsFit
<1>9. ASSUME NEW t \in Schedules \ repeats PROVE TurnOK(t)'
  <2>1. TurnOK(t)
    BY DEF InvoiceInv, TurnsOK
  <2>2. \A o \in Billers : InTurn(o, t)' <=> InTurn(o, t)
    BY <1>0, <1>1, <1>2 DEF BillerMoved, InTurn
  <2>3. CASE t # s
    <3>1. \A o \in Billers : InTurn(o, t) => o # b /\ vpc'[o] = vpc[o] /\ inHand'[o] = inHand[o]
      BY <1>0, <1>1, <2>3 DEF BillerMoved, InTurn
    <3>2. schedules'[t] = schedules[t]
      BY <1>7, <2>3
    <3> QED
      BY <1>2, <2>1, <2>2, <3>1, <3>2 DEF TurnOK, Fresh, JustInvoiced, Invoices
  <2>4. CASE t = s
    <3>1. InTurn(b, s) /\ \A o \in Billers : InTurn(o, s) => o = b
      BY <1>1, <1>2, <2>1, <2>4 DEF TurnOK, InTurn
    <3>2. JustInvoiced(s, row)
      BY <1>1, <1>2, <2>1, <2>4, <3>1 DEF TurnOK
    <3>3. Fresh(s, inHand[b].row)'
      <4>1. \A d \in Days : d >= row.next + 1 => d > row.next
        BY <1>3, RecurringAssumption DEF Days
      <4>2. row.total = row.next /\ \A d \in Days : d >= row.next + 1 => invoiced'[s][d] = 0
        BY <1>2, <3>2, <4>1 DEF JustInvoiced
      <4>3. inHand'[b].row.next = row.next + 1 /\ inHand'[b].row.total = row.total
        BY <1>0, <1>4
      <4>4. inHand'[b].row.total = inHand'[b].row.next - 1
        BY <1>3, <4>2, <4>3
      <4> QED
        BY <4>2, <4>3, <4>4 DEF Fresh
    <3>4. \A d \in Days : invoiced'[s][d] <= 1
      BY <1>2, <2>1, <2>4 DEF TurnOK
    <3>5. schedules'[s].recurrenceCount # 0 => \A d \in Invoices(s)' : d <= schedules'[s].recurrenceCount
      BY <1>2, <1>7, <2>1, <2>4 DEF TurnOK, Invoices
    <3>6. InTurn(b, s)' /\ \A o \in Billers : InTurn(o, s)' => o = b
      BY <2>2, <2>4, <3>1
    <3> QED
      BY <1>0, <2>4, <3>3, <3>4, <3>5, <3>6 DEF TurnOK
  <2> QED
    BY <2>3, <2>4
<1>10. TurnsOK'
  BY <1>2, <1>9 DEF TurnsOK
<1> QED
  BY <1>7, <1>8, <1>10 DEF InvoiceInv

LEMMA SaveScheduleKeeps == ASSUME InvoiceInv, NEW b \in Billers, SaveSchedule(b) PROVE InvoiceInv'
<1>1. PICK s \in Schedules, row \in Schedule : inHand[b].id = s /\ inHand[b].row = row
  BY DEF InvoiceInv, SaveSchedule, BillerHandsOK, HandRows, Busy
<1>2. /\ vpc[b] \in {"save", "complete"} /\ RowFits(s, row) /\ (vpc[b] = "complete" => ~row.isActive)
      /\ schedules' = [schedules EXCEPT ![s] = row] /\ invoiced' = invoiced /\ lastNumber' = lastNumber
      /\ repeats' = repeats /\ Onward(b)
  BY <1>1 DEF InvoiceInv, SaveSchedule, HandsFit, Busy
<1>0. BillerMoved(b) /\ vpc'[b] \in {"idle", "next"} /\ due'[b] = due[b] /\ number'[b] = 0
  BY <1>2, OnwardMoves DEF InvoiceInv
<1>3. ~Busy(b)'
  BY <1>0 DEF Busy
<1>4. /\ RecurringTypeOK' /\ BillerHandsOK' /\ TablesFit' /\ ListsFit'
      /\ schedules'[s] = row /\ \A t \in Schedules \ {s} : schedules'[t] = schedules[t]
      /\ \A t \in Schedules : schedules'[t].recurrenceCount = schedules[t].recurrenceCount
  BY <1>0, <1>2, <1>3, SavingKeeps
<1>5. HandsFit'
  BY <1>0, <1>2, <1>3, <1>4, OtherHandsFit
<1>6. ASSUME NEW t \in Schedules \ repeats PROVE TurnOK(t)'
  <2>1. TurnOK(t)
    BY DEF InvoiceInv, TurnsOK
  <2>2. \A o \in Billers : InTurn(o, t)' <=> o # b /\ InTurn(o, t)
    BY <1>0 DEF BillerMoved, InTurn
  <2>3. \A o \in Billers : o # b => vpc'[o] = vpc[o] /\ inHand'[o] = inHand[o]
    BY <1>0 DEF BillerMoved
  <2>4. \A o, p \in Billers : InTurn(o, t)' /\ InTurn(p, t)' => o = p
    BY <2>1, <2>2 DEF TurnOK
  <2>5. \A o \in Billers : InTurn(o, t)' /\ vpc'[o] = "track" => JustInvoiced(t, inHand[o].row)'
    BY <1>2, <2>1, <2>2, <2>3 DEF TurnOK, JustInvoiced
  <2>6. \A o \in Billers : InTurn(o, t)' /\ vpc'[o] = "save" => Fresh(t, inHand[o].row)'
    BY <1>2, <2>1, <2>2, <2>3 DEF TurnOK, Fresh
  <2>7. schedules'[t].isActive /\ (\A o \in Billers : ~InTurn(o, t)') => Fresh(t, schedules[t])'
    <3>1. CASE t # s
      <4>1. ~InTurn(b, t) /\ schedules'[t] = schedules[t]
        BY <1>1, <1>4, <3>1 DEF InTurn
      <4> QED
        BY <1>2, <2>1, <2>2, <4>1 DEF TurnOK, Fresh
    <3>2. CASE t = s /\ vpc[b] = "complete"
      BY <1>2, <1>4, <3>2
    <3>3. CASE t = s /\ vpc[b] = "save"
      <4>1. Fresh(s, row)
        BY <1>1, <2>1, <3>3 DEF TurnOK, InTurn
      <4> QED
        BY <1>2, <1>4, <3>3, <4>1 DEF Fresh
    <3> QED
      BY <1>2, <3>1, <3>2, <3>3
  <2>8. \A d \in Days : invoiced'[t][d] <= 1
    BY <1>2, <2>1 DEF TurnOK
  <2>9. schedules'[t].recurrenceCount # 0 => \A d \in Invoices(t)' : d <= schedules'[t].recurrenceCount
    BY <1>2, <1>4, <2>1 DEF TurnOK, Invoices
  <2> QED
    BY <2>4, <2>5, <2>6, <2>7, <2>8, <2>9 DEF TurnOK
<1>7. TurnsOK'
  BY <1>2, <1>6 DEF TurnsOK
<1> QED
  BY <1>4, <1>5, <1>7 DEF InvoiceInv

LEMMA InvoiceFaultKeeps == ASSUME InvoiceInv, NEW b \in Billers, InvoiceFault(b) PROVE InvoiceInv'
<1>1. /\ UNCHANGED tables /\ repeats \subseteq repeats'
      /\ \A s \in Schedules : InTurn(b, s) => s \in repeats'
  BY DEF InvoiceFault, InTurn
<1>2. BillerMoved(b) /\ vpc'[b] \in {"idle", "next"} /\ due'[b] \subseteq due[b] /\ number'[b] = 0
  <2>1. CASE Onward(b)
    BY <2>1, OnwardMoves DEF InvoiceInv
  <2>2. CASE BillerAt(b, "idle", {}, NothingInHand, 0)
    BY <2>2, StopMoves DEF InvoiceInv
  <2> QED
    BY <2>1, <2>2 DEF InvoiceFault
<1> QED
  BY <1>1, <1>2, BillerRests

LEMMA RecurringStepsKeep == InvoiceInv /\ [RecurringNext]_recurringVars => InvoiceInv'
<1> SUFFICES ASSUME InvoiceInv, [RecurringNext]_recurringVars PROVE InvoiceInv'
  OBVIOUS
<1>1. CASE NewDay
  BY <1>1, NewDayKeeps
<1>2. ASSUME NEW b \in Billers, \/ GenerateRecurringInvoices(b) \/ NextSchedule(b) \/ InsertInvoice(b)
                                \/ TrackInvoice(b) \/ SaveSchedule(b) \/ InvoiceFault(b)
      PROVE  InvoiceInv'
  BY <1>2, GenerateKeeps, NextScheduleKeeps, InsertInvoiceKeeps, TrackInvoiceKeeps, SaveScheduleKeeps, InvoiceFaultKeeps
<1>3. CASE UNCHANGED recurringVars
  <2>1. UNCHANGED <<tables, vpc, due, inHand, number, repeats>>
    BY <1>3 DEF recurringVars, tables
  <2>2. RecurringTypeOK' /\ BillerHandsOK' /\ TablesFit'
    BY <2>1 DEF InvoiceInv, tables, RecurringTypeOK, BillerHandsOK, Busy, TablesFit, RowFits
  <2>3. ListsFit' /\ HandsFit'
    BY <2>1 DEF InvoiceInv, tables, ListsFit, HandsFit, Busy, RowFits
  <2>4. TurnsOK'
    BY <2>1 DEF InvoiceInv, tables, TurnsOK, TurnOK, InTurn, Fresh, JustInvoiced, Invoices
  <2> QED
    BY <2>2, <2>3, <2>4 DEF InvoiceInv
<1> QED
  BY <1>1, <1>2, <1>3 DEF RecurringNext

LEMMA RecurringInvariant == RecurringSpec => []InvoiceInv
<1>1. RecurringInit => InvoiceInv
  BY RecurringInitKeeps
<1>2. InvoiceInv /\ [RecurringNext]_recurringVars => InvoiceInv'
  BY RecurringStepsKeep
<1> QED
  BY <1>1, <1>2, PTL DEF RecurringSpec

(* The rows of the schedules, their invoices and their numbers keep the shape of *)
(* their columns: a date never passes the one after the last, a count never      *)
(* passes the number of invoices.                                                *)
THEOREM RecurringTypes == RecurringSpec => []RecurringTypeOK
<1>1. InvoiceInv => RecurringTypeOK
  BY DEF InvoiceInv
<1> QED
  BY <1>1, RecurringInvariant, PTL

(* No date of a schedule is passed over, whatever fails and whoever saves last; *)
(* and a date is invoiced once, up to the count that was asked for, unless a    *)
(* pass saved over another's turn or was cut short between the invoice and the  *)
(* save of the next date.                                                       *)
THEOREM InvoicedOnceEach == RecurringSpec => []InvoicedOnce
<1>1. InvoiceInv => InvoicedOnce
  BY DEF InvoiceInv, TablesFit, RowFits, TurnsOK, TurnOK, InvoicedOnce
<1> QED
  BY <1>1, RecurringInvariant, PTL

-----------------------------------------------------------------------------
(* Tasks.  A dependency that binds has its task BLOCKED, or somebody is going  *)
(* to look at it again and is not going by a reading from before.              *)

TaskLabels == {"idle", "save", "find dependency", "insert dependency", "find blocking",
               "read", "save status", "save occurrence"}
TaskPlan == [id: 0 .. MaxTasks, status: TaskStatus, blocked: BOOLEAN,
             wanted: SUBSET TaskDependency, adding: SUBSET TaskDependency, recurring: BOOLEAN]

PlansOK ==
    /\ tasks \in [TaskIds -> TaskStatus \cup {"NONE", "DELETED"}]
    /\ tpc \in [Planners -> TaskLabels]
    /\ plan \in [Planners -> TaskPlan]
    /\ dependencies \subseteq TaskDependency /\ lapsed \subseteq dependencies
    /\ taskFaults \in 0 .. MaxTaskFaults
    /\ \A p \in Planners : \A d \in plan[p].wanted \cup plan[p].adding : d.dependent = plan[p].id

(* The foreign keys: a task that is deleted takes its dependencies with it. *)
DependenciesLive == \A d \in dependencies : {d.dependent, d.dependsOn} \subseteq Live

Looked(p, i) == plan[p].id = i /\ tpc[p] \in {"read", "save status"}
WillLook(p, i) == plan[p].id = i /\ tpc[p] \in {"save", "find blocking"}

SeenUnmet == \A d \in dependencies \ lapsed :
    Unmet(d) => \A p \in Planners : Looked(p, d.dependent) => plan[p].blocked

BlockedOrChecked == \A d \in dependencies \ lapsed :
    Unmet(d) => \/ tasks[d.dependent] = "BLOCKED"
                \/ \E p \in Planners : WillLook(p, d.dependent) \/ Looked(p, d.dependent)

TaskInv == PlansOK /\ DependenciesLive /\ SeenUnmet /\ BlockedOrChecked

(* What a step of one planner leaves of the others. *)
TaskMoved(p) ==
    /\ tpc' \in [Planners -> TaskLabels]
    /\ plan' \in [Planners -> TaskPlan]
    /\ \A q \in Planners \ {p} : tpc'[q] = tpc[q] /\ plan'[q] = plan[q]
    /\ \A d \in plan'[p].wanted \cup plan'[p].adding : d.dependent = plan'[p].id

OwnDependencies(work) == \A d \in work.wanted \cup work.adding : d.dependent = work.id

LEMMA TaskMoves ==
    ASSUME PlansOK, NEW p \in Planners, NEW label \in TaskLabels, NEW work \in TaskPlan,
           OwnDependencies(work), TaskAt(p, label, work)
    PROVE  TaskMoved(p) /\ tpc'[p] = label /\ plan'[p] = work
<1>1. tpc' \in [Planners -> TaskLabels] /\ tpc'[p] = label /\ \A q \in Planners \ {p} : tpc'[q] = tpc[q]
  BY DEF PlansOK, TaskAt
<1>2. plan' \in [Planners -> TaskPlan] /\ plan'[p] = work /\ \A q \in Planners \ {p} : plan'[q] = plan[q]
  BY DEF PlansOK, TaskAt
<1> QED
  BY <1>1, <1>2 DEF TaskMoved, OwnDependencies

LEMMA NoPlanTyped ==
    /\ NoPlan \in TaskPlan /\ OwnDependencies(NoPlan)
    /\ TaskIds \subseteq 0 .. MaxTasks
    /\ \A i \in 0 .. MaxTasks, s \in TaskStatus :
         Plan(i, s) \in TaskPlan /\ OwnDependencies(Plan(i, s)) /\ Plan(i, s).id = i /\ Plan(i, s).status = s
<1>1. 0 \in 0 .. MaxTasks /\ TaskIds \subseteq 0 .. MaxTasks /\ "TODO" \in TaskStatus
  BY TaskAssumption DEF TaskIds, TaskStatus
<1>2. NoPlan \in TaskPlan /\ OwnDependencies(NoPlan)
  BY <1>1 DEF NoPlan, TaskPlan, OwnDependencies
<1>3. ASSUME NEW i \in 0 .. MaxTasks, NEW s \in TaskStatus
      PROVE  Plan(i, s) \in TaskPlan /\ OwnDependencies(Plan(i, s)) /\ Plan(i, s).id = i /\ Plan(i, s).status = s
  BY <1>1 DEF Plan, NoPlan, TaskPlan, OwnDependencies
<1> QED
  BY <1>1, <1>2, <1>3

LEMMA TaskDoneMoves ==
    ASSUME PlansOK, NEW p \in Planners, TaskDone(p)
    PROVE  TaskMoved(p) /\ tpc'[p] = "idle"
<1>1. "idle" \in TaskLabels /\ TaskAt(p, "idle", NoPlan)
  BY DEF TaskDone, TaskLabels
<1> QED
  BY <1>1, TaskMoves, NoPlanTyped

LEMMA GoOnMoves ==
    ASSUME PlansOK, NEW p \in Planners, NEW work \in TaskPlan, OwnDependencies(work), GoOn(p, work)
    PROVE  TaskMoved(p) /\ tpc'[p] \in {"find dependency", "save occurrence", "idle"}
<1>1. {"find dependency", "save occurrence"} \subseteq TaskLabels
  BY DEF TaskLabels
<1>2. CASE TaskAt(p, "find dependency", work)
  BY <1>1, <1>2, TaskMoves
<1>3. CASE TaskAt(p, "save occurrence", work)
  BY <1>1, <1>3, TaskMoves
<1>4. CASE TaskDone(p)
  BY <1>4, TaskDoneMoves
<1> QED
  BY <1>2, <1>3, <1>4 DEF GoOn

LEMMA PlansMove ==
    ASSUME PlansOK, NEW p \in Planners, TaskMoved(p),
           tasks' \in [TaskIds -> TaskStatus \cup {"NONE", "DELETED"}],
           dependencies' \subseteq TaskDependency, lapsed' \subseteq dependencies', taskFaults' \in 0 .. MaxTaskFaults
    PROVE  PlansOK'
BY DEF PlansOK, TaskMoved

(* What a step has to show of the dependencies that still bind after it. *)
LEMMA DependenciesKeep ==
    ASSUME TaskInv, NEW p \in Planners, TaskMoved(p), PlansOK', DependenciesLive',
           \A d \in dependencies' \ lapsed' : Unmet(d)' =>
             /\ d \in dependencies \ lapsed /\ Unmet(d)
             /\ Looked(p, d.dependent)' => plan'[p].blocked
             /\ tasks[d.dependent] = "BLOCKED" \/ WillLook(p, d.dependent) \/ (Looked(p, d.dependent) /\ plan[p].blocked) =>
                  \/ tasks'[d.dependent] = "BLOCKED"
                  \/ WillLook(p, d.dependent)' \/ Looked(p, d.dependent)'
    PROVE  TaskInv'
<1>1. \A q \in Planners \ {p}, i \in TaskIds :
        /\ Looked(q, i)' <=> Looked(q, i)
        /\ WillLook(q, i)' <=> WillLook(q, i)
        /\ plan'[q] = plan[q]
  BY DEF TaskMoved, Looked, WillLook
<1>2. \A d \in dependencies' : d.dependent \in TaskIds
  BY DEF PlansOK, TaskDependency
<1>3. SeenUnmet'
  <2> SUFFICES ASSUME NEW d \in dependencies' \ lapsed', Unmet(d)', NEW q \in Planners, Looked(q, d.dependent)'
               PROVE  plan'[q].blocked
    BY DEF SeenUnmet
  <2>1. d \in dependencies \ lapsed /\ Unmet(d) /\ (q = p => plan'[q].blocked)
    OBVIOUS
  <2>2. q # p => Looked(q, d.dependent) /\ plan'[q] = plan[q]
    BY <1>1, <1>2
  <2> QED
    BY <2>1, <2>2 DEF TaskInv, SeenUnmet
<1>4. BlockedOrChecked'
  <2> SUFFICES ASSUME NEW d \in dependencies' \ lapsed', Unmet(d)'
               PROVE  \/ tasks'[d.dependent] = "BLOCKED"
                      \/ \E q \in Planners : WillLook(q, d.dependent)' \/ Looked(q, d.dependent)'
    BY DEF BlockedOrChecked
  <2>1. /\ d \in dependencies \ lapsed /\ Unmet(d)
        /\ tasks[d.dependent] = "BLOCKED" \/ WillLook(p, d.dependent) \/ (Looked(p, d.dependent) /\ plan[p].blocked) =>
             \/ tasks'[d.dependent] = "BLOCKED"
             \/ WillLook(p, d.dependent)' \/ Looked(p, d.dependent)'
    OBVIOUS
  <2>2. \/ tasks[d.dependent] = "BLOCKED"
        \/ \E q \in Planners : WillLook(q, d.dependent) \/ Looked(q, d.dependent)
    BY <2>1 DEF TaskInv, BlockedOrChecked
  <2>3. \A q \in Planners : Looked(q, d.dependent) => plan[q].blocked
    BY <2>1 DEF TaskInv, SeenUnmet
  <2> QED
    BY <1>1, <1>2, <2>1, <2>2, <2>3
<1> QED
  BY <1>3, <1>4 DEF TaskInv

(* A step that writes nothing but what its own request holds. *)
LEMMA TableStepKeeps ==
    ASSUME TaskInv, NEW p \in Planners, TaskMoved(p), UNCHANGED <<tasks, dependencies, lapsed>>,
           taskFaults' \in 0 .. MaxTaskFaults,
           \A d \in dependencies \ lapsed : Unmet(d) =>
             /\ Looked(p, d.dependent)' => plan'[p].blocked
             /\ WillLook(p, d.dependent) \/ (Looked(p, d.dependent) /\ plan[p].blocked) =>
                  \/ tasks[d.dependent] = "BLOCKED"
                  \/ WillLook(p, d.dependent)' \/ Looked(p, d.dependent)'
    PROVE  TaskInv'
<1>1. PlansOK'
  BY PlansMove DEF TaskInv, PlansOK
<1>2. DependenciesLive'
  BY DEF TaskInv, DependenciesLive, Live
<1>3. \A d : Unmet(d)' <=> Unmet(d)
  BY DEF Unmet
<1> QED
  BY <1>1, <1>2, <1>3, DependenciesKeep

LEMMA TaskInitKeeps == ASSUME TaskInit PROVE TaskInv
<1>1. dependencies = {} /\ lapsed = {}
  BY DEF TaskInit
<1>2. PlansOK
  <2>1. \A p \in Planners : plan[p] = NoPlan
    BY DEF TaskInit
  <2>2. tpc \in [Planners -> TaskLabels] /\ tasks \in [TaskIds -> TaskStatus \cup {"NONE", "DELETED"}]
    BY DEF TaskInit, TaskLabels
  <2>3. plan \in [Planners -> TaskPlan]
    BY NoPlanTyped DEF TaskInit
  <2>4. taskFaults \in 0 .. MaxTaskFaults
    BY TaskAssumption DEF TaskInit
  <2>5. \A p \in Planners : \A d \in plan[p].wanted \cup plan[p].adding : d.dependent = plan[p].id
    BY <2>1, NoPlanTyped DEF OwnDependencies
  <2> QED
    BY <1>1, <2>2, <2>3, <2>4, <2>5 DEF PlansOK
<1> QED
  BY <1>1, <1>2 DEF TaskInv, DependenciesLive, SeenUnmet, BlockedOrChecked

-----------------------------------------------------------------------------
(* One lemma per action. *)

LEMMA CreateTaskKeeps == ASSUME TaskInv, NEW p \in Planners, CreateTask(p) PROVE TaskInv'
<1>1. PICK i \in TaskIds, status \in TaskStatus, recurring \in BOOLEAN, isHard \in BOOLEAN, targets \in SUBSET Live :
        /\ tpc[p] = "idle"
        /\ tasks[i] = "NONE" /\ \A j \in TaskIds : j < i => tasks[j] # "NONE"
        /\ tasks' = [tasks EXCEPT ![i] = status]
        /\ GoOn(p, [Plan(i, IF recurring THEN status ELSE "TODO") EXCEPT
               !.recurring = recurring,
               !.wanted = {[dependent |-> i, dependsOn |-> j, isHard |-> isHard] : j \in targets}])
        /\ UNCHANGED <<dependencies, lapsed, taskFaults>>
  BY DEF CreateTask
<1> DEFINE from == Plan(i, IF recurring THEN status ELSE "TODO")
           wanted == {[dependent |-> i, dependsOn |-> j, isHard |-> isHard] : j \in targets}
           work == [from EXCEPT !.recurring = recurring, !.wanted = wanted]
<1>2. /\ wanted \in SUBSET TaskDependency /\ \A d \in wanted : d.dependent = i
  BY DEF Live, TaskDependency
<1>3. from \in TaskPlan /\ OwnDependencies(from) /\ from.id = i
  BY NoPlanTyped DEF TaskStatus
<1>4. work \in TaskPlan /\ work.id = i /\ work.wanted = wanted /\ work.adding = from.adding
  <2> HIDE DEF wanted, from
  <2> QED
    BY <1>2, <1>3 DEF TaskPlan
<1>5. OwnDependencies(work) /\ GoOn(p, work)
  <2>1. GoOn(p, work)
    BY <1>1
  <2> HIDE DEF wanted, from, work
  <2> QED
    BY <1>2, <1>3, <1>4, <2>1 DEF OwnDependencies
<1> HIDE DEF work
<1>6. TaskMoved(p)
  BY <1>4, <1>5, GoOnMoves DEF TaskInv
<1>7. /\ tasks' \in [TaskIds -> TaskStatus \cup {"NONE", "DELETED"}]
      /\ \A j \in TaskIds \ {i} : tasks'[j] = tasks[j]
      /\ tasks'[i] = status
  BY <1>1 DEF TaskInv, PlansOK
<1>8. PlansOK'
  BY <1>1, <1>6, <1>7, PlansMove DEF TaskInv, PlansOK
<1>9. \A d \in dependencies : d.dependent # i /\ d.dependsOn # i /\ {d.dependent, d.dependsOn} \subseteq TaskIds
  BY <1>1 DEF TaskInv, DependenciesLive, Live, TaskStatus
<1>10. DependenciesLive'
  BY <1>1, <1>7, <1>9 DEF TaskInv, DependenciesLive, Live
<1>11. \A d \in dependencies : /\ tasks'[d.dependent] = tasks[d.dependent]
                               /\ Unmet(d)' <=> Unmet(d)
  BY <1>7, <1>9 DEF Unmet
<1>12. \A d \in dependencies : ~Looked(p, d.dependent)' /\ ~WillLook(p, d.dependent) /\ ~Looked(p, d.dependent)
  <2>1. tpc'[p] \in {"find dependency", "save occurrence", "idle"}
    BY <1>4, <1>5, GoOnMoves DEF TaskInv
  <2> QED
    BY <1>1, <2>1 DEF Looked, WillLook
<1> QED
  BY <1>1, <1>6, <1>8, <1>10, <1>11, <1>12, DependenciesKeep

LEMMA UpdateTaskKeeps == ASSUME TaskInv, NEW p \in Planners, UpdateTask(p) PROVE TaskInv'
<1>1. PICK i \in Live, status \in TaskStatus : BeginTask(p, "save", Plan(i, status))
  BY DEF UpdateTask
<1>2. tpc[p] = "idle" /\ TaskAt(p, "save", Plan(i, status)) /\ TablesStay
  BY <1>1 DEF BeginTask
<1>3. TaskMoved(p) /\ tpc'[p] = "save"
  <2>1. i \in TaskIds /\ "save" \in TaskLabels
    BY DEF Live, TaskLabels
  <2> QED
    BY <1>2, <2>1, NoPlanTyped, TaskMoves DEF TaskInv
<1>4. \A j : ~Looked(p, j)' /\ ~WillLook(p, j) /\ ~Looked(p, j)
  BY <1>2, <1>3 DEF Looked, WillLook
<1> QED
  BY <1>2, <1>3, <1>4, TableStepKeeps DEF TaskInv, PlansOK, TablesStay

LEMMA AddDependencyKeeps == ASSUME TaskInv, NEW p \in Planners, AddDependency(p) PROVE TaskInv'
<1>1. PICK i \in Live, j \in Live, isHard \in BOOLEAN :
        BeginTask(p, "find dependency",
                  [Plan(i, "TODO") EXCEPT !.wanted = {[dependent |-> i, dependsOn |-> j, isHard |-> isHard]}])
  BY DEF AddDependency
<1> DEFINE from == Plan(i, "TODO")
           wanted == {[dependent |-> i, dependsOn |-> j, isHard |-> isHard]}
           work == [from EXCEPT !.wanted = wanted]
<1>2. tpc[p] = "idle" /\ TaskAt(p, "find dependency", work) /\ TablesStay
  BY <1>1 DEF BeginTask
<1>3. i \in TaskIds /\ wanted \in SUBSET TaskDependency /\ \A d \in wanted : d.dependent = i
  BY DEF Live, TaskDependency
<1>4. from \in TaskPlan /\ OwnDependencies(from) /\ from.id = i
  BY <1>3, NoPlanTyped DEF TaskStatus
<1>5. work \in TaskPlan /\ OwnDependencies(work)
  <2>1. work \in TaskPlan /\ work.id = i /\ work.wanted = wanted /\ work.adding = from.adding
    <3> HIDE DEF wanted, from
    <3> QED
      BY <1>3, <1>4 DEF TaskPlan
  <2> HIDE DEF wanted, from, work
  <2> QED
    BY <1>3, <1>4, <2>1 DEF OwnDependencies
<1> HIDE DEF work
<1>6. TaskMoved(p) /\ tpc'[p] = "find dependency"
  <2>1. "find dependency" \in TaskLabels
    BY DEF TaskLabels
  <2> QED
    BY <1>2, <1>5, <2>1, TaskMoves DEF TaskInv
<1>7. \A k : ~Looked(p, k)' /\ ~WillLook(p, k) /\ ~Looked(p, k)
  BY <1>2, <1>6 DEF Looked, WillLook
<1> QED
  BY <1>2, <1>6, <1>7, TableStepKeeps DEF TaskInv, PlansOK, TablesStay

LEMMA FindDependencyKeeps == ASSUME TaskInv, NEW p \in Planners, FindDependency(p) PROVE TaskInv'
<1>1. tpc[p] = "find dependency" /\ TablesStay
  BY DEF FindDependency
<1>2. TaskMoved(p) /\ tpc'[p] \in {"insert dependency", "idle"}
  <2>1. CASE TaskDone(p)
    BY <2>1, TaskDoneMoves DEF TaskInv
  <2>2. ASSUME NEW d \in plan[p].wanted,
               TaskAt(p, "insert dependency", [plan[p] EXCEPT !.wanted = @ \ {d}, !.adding = {d}])
        PROVE  TaskMoved(p) /\ tpc'[p] = "insert dependency"
    <3> DEFINE work == [plan[p] EXCEPT !.wanted = @ \ {d}, !.adding = {d}]
    <3>1. plan[p] \in TaskPlan /\ OwnDependencies(plan[p])
      BY DEF TaskInv, PlansOK, OwnDependencies
    <3>2. d \in TaskDependency
      BY <3>1 DEF TaskPlan
    <3>3. work \in TaskPlan /\ work.id = plan[p].id /\ work.wanted = plan[p].wanted \ {d} /\ work.adding = {d}
      BY <3>1, <3>2 DEF TaskPlan
    <3>4. TaskAt(p, "insert dependency", work)
      BY <2>2
    <3> HIDE DEF work
    <3>5. OwnDependencies(work) /\ "insert dependency" \in TaskLabels
      BY <3>1, <3>3 DEF OwnDependencies, TaskLabels
    <3> QED
      BY <3>3, <3>4, <3>5, TaskMoves DEF TaskInv
  <2> QED
    BY <2>1, <2>2 DEF FindDependency
<1>3. \A k : ~Looked(p, k)' /\ ~WillLook(p, k) /\ ~Looked(p, k)
  BY <1>1, <1>2 DEF Looked, WillLook
<1> QED
  BY <1>1, <1>2, <1>3, TableStepKeeps DEF TaskInv, PlansOK, TablesStay

(* A save of a whole task.  A dependency binds after it only if it did before. *)
LEMMA SavedTask ==
    ASSUME TaskInv, NEW i \in 0 .. MaxTasks, NEW status \in TaskStatus, dependencies' = dependencies,
           tasks' = [tasks EXCEPT ![i] = status],
           lapsed \subseteq lapsed', lapsed' \subseteq dependencies,
           i \in TaskIds /\ tasks[i] = "COMPLETED" /\ status # "COMPLETED" => NeededBy(i) \subseteq lapsed'
    PROVE  /\ tasks' \in [TaskIds -> TaskStatus \cup {"NONE", "DELETED"}]
           /\ \A j \in TaskIds : tasks'[j] = IF j = i THEN status ELSE tasks[j]
           /\ DependenciesLive'
           /\ \A d \in dependencies \ lapsed' : Unmet(d)' => Unmet(d)
<1>1. tasks \in [TaskIds -> TaskStatus \cup {"NONE", "DELETED"}]
  BY DEF TaskInv, PlansOK
<1>2. /\ tasks' \in [TaskIds -> TaskStatus \cup {"NONE", "DELETED"}]
      /\ \A j \in TaskIds : tasks'[j] = IF j = i THEN status ELSE tasks[j]
  BY <1>1
<1>3. DependenciesLive'
  BY <1>2 DEF TaskInv, DependenciesLive, Live
<1>4. ASSUME NEW d \in dependencies \ lapsed', Unmet(d)' PROVE Unmet(d)
  <2>1. d.dependsOn \in TaskIds
    BY DEF TaskInv, PlansOK, TaskDependency
  <2>2. CASE d.dependsOn # i
    BY <1>2, <1>4, <2>1, <2>2 DEF Unmet
  <2>3. CASE d.dependsOn = i
    <3>1. d \in NeededBy(i) /\ status # "COMPLETED"
      BY <1>2, <1>4, <2>1, <2>3 DEF Unmet, NeededBy
    <3>2. tasks[i] # "COMPLETED"
      BY <2>1, <2>3, <3>1
    <3> QED
      BY <1>4, <2>3, <3>2 DEF Unmet
  <2> QED
    BY <2>2, <2>3
<1> QED
  BY <1>2, <1>3, <1>4

LEMMA RequestTyped ==
    ASSUME PlansOK, NEW p \in Planners
    PROVE  /\ plan[p] \in TaskPlan /\ OwnDependencies(plan[p])
           /\ plan[p].id \in 0 .. MaxTasks /\ plan[p].status \in TaskStatus
BY DEF PlansOK, TaskPlan, OwnDependencies

LEMMA SaveUpdateKeeps == ASSUME TaskInv, NEW p \in Planners, SaveUpdate(p) PROVE TaskInv'
<1>1. PICK i \in 0 .. MaxTasks, status \in TaskStatus : i = plan[p].id /\ status = plan[p].status
  BY RequestTyped DEF TaskInv
<1>2. /\ tpc[p] = "save" /\ SaveTask(i, status) /\ UNCHANGED <<dependencies, taskFaults>>
      /\ TaskAt(p, "find blocking", Plan(i, "TODO"))
  BY <1>1 DEF SaveUpdate
<1>3. lapsed \subseteq lapsed' /\ lapsed' \subseteq dependencies
  BY <1>2 DEF SaveTask, NeededBy, TaskInv, PlansOK
<1>4. /\ tasks' \in [TaskIds -> TaskStatus \cup {"NONE", "DELETED"}]
      /\ \A j \in TaskIds : tasks'[j] = IF j = i THEN status ELSE tasks[j]
      /\ DependenciesLive'
      /\ \A d \in dependencies \ lapsed' : Unmet(d)' => Unmet(d)
  BY <1>2, <1>3, SavedTask DEF SaveTask
<1>5. TaskMoved(p) /\ tpc'[p] = "find blocking" /\ plan'[p].id = i
  <2>1. "find blocking" \in TaskLabels /\ "TODO" \in TaskStatus
    BY DEF TaskLabels, TaskStatus
  <2> QED
    <3>1. Plan(i, "TODO") \in TaskPlan /\ OwnDependencies(Plan(i, "TODO")) /\ Plan(i, "TODO").id = i
      BY <2>1, NoPlanTyped
    <3> QED
      BY <1>2, <2>1, <3>1, TaskMoves DEF TaskInv
<1>6. PlansOK'
  BY <1>2, <1>3, <1>4, <1>5, PlansMove DEF TaskInv, PlansOK
<1>7. ASSUME NEW d \in dependencies \ lapsed'
      PROVE  /\ d \in dependencies \ lapsed /\ d.dependent \in TaskIds
             /\ ~Looked(p, d.dependent)'
             /\ d.dependent = i => WillLook(p, d.dependent)'
             /\ d.dependent # i => /\ tasks'[d.dependent] = tasks[d.dependent]
                                   /\ ~WillLook(p, d.dependent) /\ ~Looked(p, d.dependent)
  <2>1. d \in dependencies \ lapsed /\ d.dependent \in TaskIds
    BY <1>3 DEF TaskInv, PlansOK, TaskDependency
  <2> QED
    BY <1>1, <1>4, <1>5, <2>1 DEF Looked, WillLook
<1> QED
  BY <1>2, <1>4, <1>5, <1>6, <1>7, DependenciesKeep

LEMMA InsertDependencyKeeps == ASSUME TaskInv, NEW p \in Planners, InsertDependency(p) PROVE TaskInv'
<1>0. tpc[p] = "insert dependency" /\ UNCHANGED <<tasks, taskFaults>>
  BY DEF InsertDependency
<1>1. PICK d \in plan[p].adding :
         IF {d.dependent, d.dependsOn} \subseteq Live /\ ~\E e \in dependencies : Pair(d, e)
         THEN /\ dependencies' = dependencies \cup {d}
              /\ lapsed' = lapsed \cup
                   IF \E q \in Planners \ {p} : plan[q].id = d.dependent /\ tpc[q] \in {"read", "save status"}
                   THEN {d} ELSE {}
              /\ TaskAt(p, "find blocking", [plan[p] EXCEPT !.adding = {}])
         ELSE TaskDone(p) /\ UNCHANGED <<dependencies, lapsed>>
  BY DEF InsertDependency
<1>2. d \in TaskDependency /\ d.dependent = plan[p].id
  BY RequestTyped DEF TaskInv, TaskPlan, OwnDependencies
<1>3. CASE TaskDone(p) /\ UNCHANGED <<dependencies, lapsed>>
  <2>1. TaskMoved(p) /\ tpc'[p] = "idle"
    BY <1>3, TaskDoneMoves DEF TaskInv
  <2>2. \A k : ~Looked(p, k)' /\ ~WillLook(p, k) /\ ~Looked(p, k)
    BY <1>0, <2>1 DEF Looked, WillLook
  <2> QED
    BY <1>0, <1>3, <2>1, <2>2, TableStepKeeps DEF TaskInv, PlansOK
<1>4. CASE /\ {d.dependent, d.dependsOn} \subseteq Live
           /\ dependencies' = dependencies \cup {d}
           /\ lapsed' = lapsed \cup
                IF \E q \in Planners \ {p} : plan[q].id = d.dependent /\ tpc[q] \in {"read", "save status"}
                THEN {d} ELSE {}
           /\ TaskAt(p, "find blocking", [plan[p] EXCEPT !.adding = {}])
  <2> DEFINE work == [plan[p] EXCEPT !.adding = {}]
  <2>1. /\ work \in TaskPlan /\ work.id = plan[p].id /\ work.wanted = plan[p].wanted /\ work.adding = {}
        /\ TaskAt(p, "find blocking", work)
    BY <1>4, RequestTyped DEF TaskInv, TaskPlan
  <2> HIDE DEF work
  <2>2. TaskMoved(p) /\ tpc'[p] = "find blocking" /\ plan'[p].id = d.dependent
    <3>1. "find blocking" \in TaskLabels /\ OwnDependencies(work)
      BY <2>1, RequestTyped DEF TaskLabels, OwnDependencies, TaskInv
    <3> QED
      BY <1>2, <2>1, <3>1, TaskMoves DEF TaskInv
  <2>3. lapsed \subseteq lapsed' /\ lapsed' \subseteq lapsed \cup {d} /\ lapsed \subseteq dependencies
    BY <1>4 DEF TaskInv, PlansOK
  <2>4. PlansOK'
    BY <1>0, <1>2, <1>4, <2>2, <2>3, PlansMove DEF TaskInv, PlansOK
  <2>5. DependenciesLive'
    BY <1>0, <1>4 DEF TaskInv, DependenciesLive, Live
  <2>6. \A e : Unmet(e)' <=> Unmet(e)
    BY <1>0 DEF Unmet
  <2>7. \A q \in Planners : /\ Looked(q, d.dependent)' => q # p /\ Looked(q, d.dependent)
                            /\ \A e \in dependencies : Looked(q, e.dependent)' => q # p /\ Looked(q, e.dependent) /\ plan'[q] = plan[q]
    BY <2>2 DEF Looked, TaskMoved
  <2>8. SeenUnmet'
    <3> SUFFICES ASSUME NEW e \in dependencies' \ lapsed', Unmet(e)', NEW q \in Planners, Looked(q, e.dependent)'
                 PROVE  plan'[q].blocked
      BY DEF SeenUnmet
    <3>1. CASE e \in dependencies
      <4>1. e \in dependencies \ lapsed /\ Unmet(e)
        BY <2>3, <2>6, <3>1
      <4> QED
        BY <2>7, <3>1, <4>1 DEF TaskInv, SeenUnmet
    <3>2. CASE e = d
      BY <1>4, <2>7, <3>2 DEF Looked
    <3> QED
      BY <1>4, <3>1, <3>2
  <2>9. BlockedOrChecked'
    <3> SUFFICES ASSUME NEW e \in dependencies' \ lapsed', Unmet(e)'
                 PROVE  \/ tasks'[e.dependent] = "BLOCKED"
                        \/ \E q \in Planners : WillLook(q, e.dependent)' \/ Looked(q, e.dependent)'
      BY DEF BlockedOrChecked
    <3>1. CASE e.dependent = d.dependent
      BY <2>2, <3>1 DEF WillLook
    <3>2. CASE e.dependent # d.dependent
      <4>1. e \in dependencies \ lapsed /\ Unmet(e)
        BY <1>4, <2>3, <2>6, <3>2
      <4>2. \A q \in Planners : WillLook(q, e.dependent) \/ Looked(q, e.dependent) =>
                                  WillLook(q, e.dependent)' \/ Looked(q, e.dependent)'
        BY <1>2, <2>2, <3>2 DEF WillLook, Looked, TaskMoved
      <4> QED
        BY <1>0, <4>1, <4>2 DEF TaskInv, BlockedOrChecked
    <3> QED
      BY <3>1, <3>2
  <2> QED
    BY <2>4, <2>5, <2>8, <2>9 DEF TaskInv
<1> QED
  BY <1>1, <1>3, <1>4

LEMMA RemoveDependencyKeeps == ASSUME TaskInv, NEW p \in Planners, RemoveDependency(p) PROVE TaskInv'
<1>1. PICK d \in dependencies :
        /\ tpc[p] = "idle"
        /\ dependencies' = dependencies \ {d}
        /\ lapsed' = lapsed \ {d}
        /\ TaskAt(p, "find blocking", Plan(d.dependent, "TODO"))
        /\ UNCHANGED <<tasks, taskFaults>>
  BY DEF RemoveDependency
<1>2. TaskMoved(p) /\ tpc'[p] = "find blocking"
  <2>1. "find blocking" \in TaskLabels /\ "TODO" \in TaskStatus /\ d.dependent \in 0 .. MaxTasks
    BY NoPlanTyped DEF TaskLabels, TaskStatus, TaskInv, PlansOK, TaskDependency
  <2> QED
    <3>1. Plan(d.dependent, "TODO") \in TaskPlan /\ OwnDependencies(Plan(d.dependent, "TODO"))
      BY <2>1, NoPlanTyped
    <3> QED
      BY <1>1, <2>1, <3>1, TaskMoves DEF TaskInv
<1>3. lapsed' \subseteq dependencies' /\ dependencies' \ lapsed' \subseteq dependencies \ lapsed
  BY <1>1 DEF TaskInv, PlansOK
<1>4. PlansOK'
  BY <1>1, <1>2, <1>3, PlansMove DEF TaskInv, PlansOK
<1>5. DependenciesLive'
  BY <1>1 DEF TaskInv, DependenciesLive, Live
<1>6. \A e : Unmet(e)' <=> Unmet(e)
  BY <1>1 DEF Unmet
<1>7. \A k : ~Looked(p, k)' /\ ~WillLook(p, k) /\ ~Looked(p, k)
  BY <1>1, <1>2 DEF Looked, WillLook
<1> QED
  BY <1>1, <1>2, <1>3, <1>4, <1>5, <1>6, <1>7, DependenciesKeep

LEMMA FindBlockingKeeps == ASSUME TaskInv, NEW p \in Planners, FindBlocking(p) PROVE TaskInv'
<1> DEFINE found == \E d \in Needs(plan[p].id) : Unmet(d)
           work == [plan[p] EXCEPT !.blocked = found]
<1>1. tpc[p] = "find blocking" /\ TaskAt(p, "read", work) /\ TablesStay
  BY DEF FindBlocking
<1>2. /\ work \in TaskPlan /\ work.id = plan[p].id /\ work.blocked = found
      /\ work.wanted = plan[p].wanted /\ work.adding = plan[p].adding
  <2>1. found \in BOOLEAN
    OBVIOUS
  <2> HIDE DEF found
  <2> QED
    BY <2>1, RequestTyped DEF TaskInv, TaskPlan
<1>3. \A d \in dependencies : Unmet(d) /\ d.dependent = plan[p].id => found
  BY DEF Needs
<1> HIDE DEF work, found
<1>4. TaskMoved(p) /\ tpc'[p] = "read" /\ plan'[p] = work
  <2>1. "read" \in TaskLabels /\ OwnDependencies(work)
    BY <1>2, RequestTyped DEF TaskLabels, OwnDependencies, TaskInv
  <2> QED
    BY <1>1, <1>2, <2>1, TaskMoves DEF TaskInv
<1>5. ASSUME NEW d \in dependencies \ lapsed, Unmet(d)
      PROVE  /\ Looked(p, d.dependent)' => plan'[p].blocked
             /\ WillLook(p, d.dependent) \/ (Looked(p, d.dependent) /\ plan[p].blocked) => Looked(p, d.dependent)'
  <2>1. Looked(p, d.dependent)' => plan'[p].blocked
    BY <1>2, <1>3, <1>4, <1>5 DEF Looked
  <2>2. WillLook(p, d.dependent) \/ Looked(p, d.dependent) => Looked(p, d.dependent)'
    BY <1>2, <1>4 DEF Looked, WillLook
  <2> QED
    BY <2>1, <2>2
<1> QED
  BY <1>1, <1>4, <1>5, TableStepKeeps DEF TaskInv, PlansOK, TablesStay

LEMMA ReadTaskKeeps == ASSUME TaskInv, NEW p \in Planners, ReadTask(p) PROVE TaskInv'
<1> DEFINE status == tasks[plan[p].id]
           seen == [plan[p] EXCEPT !.blocked = FALSE]
<1>0. tpc[p] = "read" /\ TablesStay
  BY DEF ReadTask
<1>1. CASE /\ status \in TaskStatus /\ plan[p].blocked # (status = "BLOCKED")
           /\ TaskAt(p, "save status", plan[p])
  <2>1. TaskMoved(p) /\ tpc'[p] = "save status" /\ plan'[p] = plan[p]
    <3>1. "save status" \in TaskLabels
      BY DEF TaskLabels
    <3> QED
      BY <1>1, <3>1, RequestTyped, TaskMoves DEF TaskInv
  <2>2. \A k : (Looked(p, k)' <=> Looked(p, k)) /\ ~WillLook(p, k)
    BY <1>0, <2>1 DEF Looked, WillLook
  <2>3. ASSUME NEW d \in dependencies \ lapsed, Unmet(d), Looked(p, d.dependent) PROVE plan'[p].blocked
    BY <2>1, <2>3 DEF TaskInv, SeenUnmet
  <2> QED
    BY <1>0, <2>1, <2>2, <2>3, TableStepKeeps DEF TaskInv, PlansOK, TablesStay
<1>2. CASE /\ ~(status \in TaskStatus /\ plan[p].blocked # (status = "BLOCKED"))
           /\ GoOn(p, seen)
  <2>1. /\ seen \in TaskPlan /\ seen.id = plan[p].id
        /\ seen.wanted = plan[p].wanted /\ seen.adding = plan[p].adding
    BY RequestTyped DEF TaskInv, TaskPlan
  <2>2. GoOn(p, seen)
    BY <1>2
  <2> HIDE DEF seen
  <2>3. TaskMoved(p) /\ tpc'[p] \in {"find dependency", "save occurrence", "idle"}
    <3>1. OwnDependencies(seen)
      BY <2>1, RequestTyped DEF OwnDependencies, TaskInv
    <3> QED
      BY <2>1, <2>2, <3>1, GoOnMoves DEF TaskInv
  <2>4. \A k : ~Looked(p, k)' /\ ~WillLook(p, k)
    BY <1>0, <2>3 DEF Looked, WillLook
  <2>5. ASSUME NEW d \in dependencies \ lapsed, Looked(p, d.dependent), plan[p].blocked
        PROVE  tasks[d.dependent] = "BLOCKED"
    BY <1>2, <2>5 DEF Looked, TaskInv, DependenciesLive, Live
  <2> QED
    BY <1>0, <2>3, <2>4, <2>5, TableStepKeeps DEF TaskInv, PlansOK, TablesStay
<1> QED
  BY <1>1, <1>2 DEF ReadTask

LEMMA SaveStatusKeeps == ASSUME TaskInv, NEW p \in Planners, SaveStatus(p) PROVE TaskInv'
<1> DEFINE seen == [plan[p] EXCEPT !.blocked = FALSE]
<1>1. PICK i \in 0 .. MaxTasks, status \in TaskStatus :
        i = plan[p].id /\ status = IF plan[p].blocked THEN "BLOCKED" ELSE "TODO"
  BY RequestTyped DEF TaskInv, TaskStatus
<1>2. /\ tpc[p] = "save status" /\ SaveTask(i, status) /\ UNCHANGED <<dependencies, taskFaults>>
      /\ GoOn(p, seen)
  BY <1>1 DEF SaveStatus
<1>3. lapsed \subseteq lapsed' /\ lapsed' \subseteq dependencies
  BY <1>2 DEF SaveTask, NeededBy, TaskInv, PlansOK
<1>4. /\ tasks' \in [TaskIds -> TaskStatus \cup {"NONE", "DELETED"}]
      /\ \A j \in TaskIds : tasks'[j] = IF j = i THEN status ELSE tasks[j]
      /\ DependenciesLive'
      /\ \A d \in dependencies \ lapsed' : Unmet(d)' => Unmet(d)
  BY <1>2, <1>3, SavedTask DEF SaveTask
<1>5. TaskMoved(p) /\ tpc'[p] \in {"find dependency", "save occurrence", "idle"}
  <2>1. /\ seen \in TaskPlan /\ seen.id = plan[p].id
        /\ seen.wanted = plan[p].wanted /\ seen.adding = plan[p].adding
    BY RequestTyped DEF TaskInv, TaskPlan
  <2>2. GoOn(p, seen)
    BY <1>2
  <2> HIDE DEF seen
  <2>3. OwnDependencies(seen)
    BY <2>1, RequestTyped DEF OwnDependencies, TaskInv
  <2> QED
    BY <2>1, <2>2, <2>3, GoOnMoves DEF TaskInv
<1>6. PlansOK'
  BY <1>2, <1>3, <1>4, <1>5, PlansMove DEF TaskInv, PlansOK
<1>7. ASSUME NEW d \in dependencies \ lapsed', Unmet(d)'
      PROVE  /\ d \in dependencies \ lapsed /\ Unmet(d)
             /\ ~Looked(p, d.dependent)' /\ ~WillLook(p, d.dependent)
             /\ Looked(p, d.dependent) => tasks'[d.dependent] = "BLOCKED"
             /\ ~Looked(p, d.dependent) => tasks'[d.dependent] = tasks[d.dependent]
  <2>1. d \in dependencies \ lapsed /\ Unmet(d) /\ d.dependent \in TaskIds
    BY <1>3, <1>4, <1>7 DEF TaskInv, PlansOK, TaskDependency
  <2>2. ~Looked(p, d.dependent)' /\ ~WillLook(p, d.dependent)
    BY <1>2, <1>5 DEF Looked, WillLook
  <2>3. Looked(p, d.dependent) <=> d.dependent = i
    BY <1>1, <1>2 DEF Looked
  <2>4. Looked(p, d.dependent) => plan[p].blocked
    BY <2>1 DEF TaskInv, SeenUnmet
  <2>5. Looked(p, d.dependent) => tasks'[d.dependent] = "BLOCKED"
    BY <1>1, <1>4, <2>1, <2>3, <2>4
  <2>6. ~Looked(p, d.dependent) => tasks'[d.dependent] = tasks[d.dependent]
    BY <1>4, <2>1, <2>3
  <2> QED
    BY <2>1, <2>2, <2>5, <2>6
<1> QED
  BY <1>2, <1>4, <1>5, <1>6, <1>7, DependenciesKeep

LEMMA SaveOccurrenceKeeps == ASSUME TaskInv, NEW p \in Planners, SaveOccurrence(p) PROVE TaskInv'
<1>1. PICK i \in 0 .. MaxTasks, status \in TaskStatus : i = plan[p].id /\ status = plan[p].status
  BY RequestTyped DEF TaskInv
<1>2. /\ tpc[p] = "save occurrence" /\ tasks' = [tasks EXCEPT ![i] = status]
      /\ lapsed' = lapsed \cup Needs(i) \cup IF tasks[i] = "COMPLETED" THEN NeededBy(i) ELSE {}
      /\ TaskDone(p) /\ UNCHANGED <<dependencies, taskFaults>>
  BY <1>1 DEF SaveOccurrence
<1>3. lapsed \subseteq lapsed' /\ lapsed' \subseteq dependencies /\ Needs(i) \subseteq lapsed'
  BY <1>2 DEF Needs, NeededBy, TaskInv, PlansOK
<1>4. /\ tasks' \in [TaskIds -> TaskStatus \cup {"NONE", "DELETED"}]
      /\ \A j \in TaskIds : tasks'[j] = IF j = i THEN status ELSE tasks[j]
      /\ DependenciesLive'
      /\ \A d \in dependencies \ lapsed' : Unmet(d)' => Unmet(d)
  BY <1>2, <1>3, SavedTask
<1>5. TaskMoved(p) /\ tpc'[p] = "idle"
  BY <1>2, TaskDoneMoves DEF TaskInv
<1>6. PlansOK'
  BY <1>2, <1>3, <1>4, <1>5, PlansMove DEF TaskInv, PlansOK
<1>7. ASSUME NEW d \in dependencies \ lapsed'
      PROVE  /\ d \in dependencies \ lapsed /\ tasks'[d.dependent] = tasks[d.dependent]
             /\ ~Looked(p, d.dependent)' /\ ~WillLook(p, d.dependent) /\ ~Looked(p, d.dependent)
  <2>1. d \in dependencies \ lapsed /\ d.dependent \in TaskIds /\ d.dependent # i
    BY <1>3 DEF TaskInv, PlansOK, TaskDependency, Needs
  <2> QED
    BY <1>2, <1>4, <1>5, <2>1 DEF Looked, WillLook
<1> QED
  BY <1>2, <1>4, <1>5, <1>6, <1>7, DependenciesKeep

LEMMA DeleteTaskKeeps == ASSUME TaskInv, NEW p \in Planners, DeleteTask(p) PROVE TaskInv'
<1>1. PICK i \in Live :
        /\ tpc[p] = "idle"
        /\ tasks' = [tasks EXCEPT ![i] = "DELETED"]
        /\ dependencies' = dependencies \ (Needs(i) \cup NeededBy(i))
        /\ lapsed' = lapsed \cap dependencies'
        /\ UNCHANGED <<tpc, plan, taskFaults>>
  BY DEF DeleteTask
<1>2. /\ tasks' \in [TaskIds -> TaskStatus \cup {"NONE", "DELETED"}]
      /\ \A j \in TaskIds \ {i} : tasks'[j] = tasks[j]
  BY <1>1 DEF TaskInv, PlansOK
<1>3. \A d \in dependencies' : /\ d \in dependencies /\ d.dependent # i /\ d.dependsOn # i
                               /\ {d.dependent, d.dependsOn} \subseteq TaskIds
  BY <1>1 DEF TaskInv, PlansOK, TaskDependency, Needs, NeededBy
<1>4. TaskMoved(p)
  BY <1>1 DEF TaskInv, PlansOK, TaskMoved
<1>5. lapsed' \subseteq dependencies' /\ dependencies' \ lapsed' \subseteq dependencies \ lapsed
  BY <1>1
<1>6. PlansOK'
  BY <1>1, <1>2, <1>4, <1>5, PlansMove DEF TaskInv, PlansOK
<1>7. DependenciesLive'
  BY <1>2, <1>3 DEF TaskInv, DependenciesLive, Live
<1>8. \A d \in dependencies' : tasks'[d.dependent] = tasks[d.dependent] /\ (Unmet(d)' <=> Unmet(d))
  BY <1>2, <1>3 DEF Unmet
<1>9. \A k : ~Looked(p, k)' /\ ~WillLook(p, k) /\ ~Looked(p, k)
  BY <1>1 DEF Looked, WillLook
<1> QED
  BY <1>4, <1>5, <1>6, <1>7, <1>8, <1>9, DependenciesKeep

LEMMA TaskFaultKeeps == ASSUME TaskInv, NEW p \in Planners, TaskFault(p) PROVE TaskInv'
<1>1. /\ UNCHANGED <<tasks, dependencies>> /\ TaskDone(p)
      /\ lapsed' = lapsed \cup Needs(plan[p].id) /\ lapsed' \subseteq dependencies
      /\ taskFaults' \in 0 .. MaxTaskFaults
  BY TaskAssumption DEF TaskFault, TaskInv, PlansOK, Needs
<1>2. TaskMoved(p) /\ tpc'[p] = "idle"
  BY <1>1, TaskDoneMoves DEF TaskInv
<1>3. PlansOK'
  BY <1>1, <1>2, PlansMove DEF TaskInv, PlansOK
<1>4. DependenciesLive' /\ \A d : Unmet(d)' <=> Unmet(d)
  BY <1>1 DEF TaskInv, DependenciesLive, Live, Unmet
<1>5. \A d \in dependencies \ lapsed' : /\ d \in dependencies \ lapsed
                                        /\ ~Looked(p, d.dependent)' /\ ~WillLook(p, d.dependent) /\ ~Looked(p, d.dependent)
  BY <1>1, <1>2 DEF Looked, WillLook, Needs
<1> QED
  BY <1>1, <1>2, <1>3, <1>4, <1>5, DependenciesKeep

LEMMA TaskStepsKeep == TaskInv /\ [TaskNext]_taskVars => TaskInv'
<1> SUFFICES ASSUME TaskInv, [TaskNext]_taskVars PROVE TaskInv'
  OBVIOUS
<1>1. ASSUME NEW p \in Planners, TaskStep(p) PROVE TaskInv'
  BY <1>1, CreateTaskKeeps, UpdateTaskKeeps, SaveUpdateKeeps, AddDependencyKeeps, FindDependencyKeeps,
     InsertDependencyKeeps, RemoveDependencyKeeps, FindBlockingKeeps, ReadTaskKeeps, SaveStatusKeeps,
     SaveOccurrenceKeeps, DeleteTaskKeeps, TaskFaultKeeps DEF TaskStep
<1>2. CASE UNCHANGED taskVars
  <2>1. PlansOK' /\ DependenciesLive'
    BY <1>2 DEF taskVars, TaskInv, PlansOK, DependenciesLive, Live
  <2>2. SeenUnmet' /\ BlockedOrChecked'
    BY <1>2 DEF taskVars, TaskInv, SeenUnmet, BlockedOrChecked, Unmet, Looked, WillLook
  <2> QED
    BY <2>1, <2>2 DEF TaskInv
<1> QED
  BY <1>1, <1>2 DEF TaskNext

LEMMA TaskInvariant == TaskSpec => []TaskInv
<1>1. TaskInit => TaskInv
  BY TaskInitKeeps
<1>2. TaskInv /\ [TaskNext]_taskVars => TaskInv'
  BY TaskStepsKeep
<1> QED
  BY <1>1, <1>2, PTL DEF TaskSpec

(* The rows of tasks and dependencies and the requests at work keep their shape. *)
THEOREM TaskTypes == TaskSpec => []TaskTypeOK
<1>1. TaskInv => TaskTypeOK
  BY DEF TaskInv, PlansOK, TaskTypeOK, TaskPlan
<1> QED
  BY <1>1, TaskInvariant, PTL

(* However requests cross each other: once nobody is at work on a task, a hard  *)
(* dependency that is not met has it BLOCKED, the lapses that nobody looks at   *)
(* excepted.                                                                    *)
THEOREM UnmetDependenciesAlwaysBlock == TaskSpec => []UnmetDependenciesBlock
<1>1. TaskInv => UnmetDependenciesBlock
  BY DEF TaskInv, BlockedOrChecked, UnmetDependenciesBlock, WillLook, Looked
<1> QED
  BY <1>1, TaskInvariant, PTL

-----------------------------------------------------------------------------
(* Import and export jobs: each record is counted once and under its own     *)
(* verdict, and cancelled jobs stay so.                                       *)

ImportLabels == {"parse", "record", "progress"}
ExportLabels == {"generate", "mail"}
WorkerLabels == {"idle", "begin", "cancel", "fail"} \cup ImportLabels \cup ExportLabels

RecordCounts == [processed: Nat, failed: Nat, skipped: Nat]
TransferRow == [kind: {"import", "export"}, status: ImportJobStatus, counts: RecordCounts,
                file: Files \cup {<<>>}, rollbackOnFailure: BOOLEAN, byMail: BOOLEAN]
WorkerTask == [id: Transfers \cup {"none"}, row: TransferRow, known: TransferRow]
WorkerCounts == [sum: RecordCounts, at: Nat]

TransferRowsOK ==
    /\ transfers \in [Transfers -> TransferRow]
    /\ wpc \in [Workers -> WorkerLabels]
    /\ task \in [Workers -> WorkerTask]
    /\ counts \in [Workers -> WorkerCounts]

Counted(s) == s.processed + s.failed + s.skipped

(* The first n records of a file, by verdict. *)
UpTo(file, n, verdict) == Cardinality({i \in 1 .. n : file[i] = verdict})
Tally(file, n) == [processed |-> UpTo(file, n, "ok"), failed |-> UpTo(file, n, "invalid"),
                   skipped |-> UpTo(file, n, "duplicate")]

(* What holds of a row whoever saved it, and what holds unless two saved over one another. *)
TransferFits(row) ==
    /\ row.kind = "export" => row.status # "PARTIALLY_COMPLETED"
    /\ row.counts.processed <= Len(row.file)
RowAddsUp(row) ==
    row.kind = "import" /\ row.status \in {"COMPLETED", "PARTIALLY_COMPLETED"} =>
        /\ row.counts = Tally(row.file, Len(row.file))
        /\ (row.status = "COMPLETED") = (row.counts.failed = 0)

(* A worker holds a job that was neither cancelled nor over when it was read; but *)
(* for a save that was refused it has counted what it has been through.           *)
WorkerFits(w) == wpc[w] # "idle" =>
    /\ task[w].id \in Transfers
    /\ TransferFits(task[w].row)
    /\ task[w].row.status \in {"PENDING", "PROCESSING", "COMPLETED"}
    /\ task[w].known.status \in {"PENDING", "PROCESSING", "COMPLETED"}
    /\ wpc[w] \in ImportLabels => task[w].row.kind = "import" /\ task[w].row.status = "PROCESSING"
    /\ wpc[w] \in ExportLabels => task[w].row.kind = "export"
    /\ counts[w].at <= Len(task[w].row.file) /\ counts[w].sum.processed <= counts[w].at
    /\ task[w].id \notin disturbed => /\ Counted(counts[w].sum) = counts[w].at
                                     /\ counts[w].sum = Tally(task[w].row.file, counts[w].at)

UndisturbedFit == \A j \in Transfers \ disturbed :
    /\ RowAddsUp(transfers[j])
    /\ j \in cancelled => transfers[j].status = "CANCELLED"

TransferInv ==
    /\ TransferRowsOK
    /\ transferFaults \in 0 .. MaxTransferFaults
    /\ \A j \in Transfers : TransferFits(transfers[j])
    /\ \A w \in Workers : WorkerFits(w)
    /\ UndisturbedFit

LEMMA NoTransferTyped ==
    /\ Nothing \in RecordCounts /\ NoTransfer \in TransferRow /\ NoTask \in WorkerTask /\ NoCounts \in WorkerCounts
    /\ NoTransfer.status = "NONE" /\ TransferFits(NoTransfer) /\ RowAddsUp(NoTransfer)
<1>1. Nothing \in RecordCounts /\ Nothing.processed = 0
  BY DEF Nothing, RecordCounts
<1>2. NoTransfer \in TransferRow
  BY <1>1 DEF NoTransfer, TransferRow, ImportJobStatus
<1>3. NoTask \in WorkerTask
  BY <1>2 DEF NoTask, WorkerTask
<1>4. NoCounts \in WorkerCounts
  BY <1>1 DEF NoCounts, WorkerCounts
<1>5. /\ NoTransfer.status = "NONE" /\ NoTransfer.kind = "import" /\ NoTransfer.file = <<>>
      /\ NoTransfer.counts.processed = 0
  BY <1>1 DEF NoTransfer
<1>6. Len(<<>>) = 0
  OBVIOUS
<1> QED
  BY <1>1, <1>2, <1>3, <1>4, <1>5, <1>6 DEF TransferFits, RowAddsUp

LEMMA FilesTyped == \A row \in TransferRow : row.file \in Seq(Verdicts) /\ Len(row.file) \in Nat
<1> SUFFICES ASSUME NEW row \in TransferRow PROVE row.file \in Seq(Verdicts) /\ Len(row.file) \in Nat
  OBVIOUS
<1>1. row.file \in Files \/ row.file = <<>>
  BY DEF TransferRow
<1>2. Files \subseteq Seq(Verdicts) /\ <<>> \in Seq(Verdicts)
  BY TransferAssumption
<1>3. row.file \in Seq(Verdicts)
  BY <1>1, <1>2
<1> QED
  BY <1>3

(* One record more adds one to its own verdict. *)
LEMMA TallyGrows ==
    ASSUME NEW file, NEW n \in Nat, NEW verdict
    PROVE  /\ UpTo(file, 0, verdict) = 0
           /\ UpTo(file, n, verdict) \in Nat
           /\ UpTo(file, n + 1, verdict) =
                IF file[n + 1] = verdict THEN UpTo(file, n, verdict) + 1 ELSE UpTo(file, n, verdict)
<1> DEFINE Hits(k) == {i \in 1 .. k : file[i] = verdict}
<1>1. Hits(0) = {}
  OBVIOUS
<1>2. IsFiniteSet(Hits(n)) /\ Cardinality(Hits(n)) \in Nat
  <2>1. IsFiniteSet(1 .. n) /\ Hits(n) \in SUBSET (1 .. n)
    BY FS_Interval
  <2> HIDE DEF Hits
  <2>2. IsFiniteSet(Hits(n))
    BY <2>1, FS_Subset
  <2> QED
    BY <2>2, FS_CardinalityType
<1>3. CASE file[n + 1] = verdict
  <2>1. Hits(n + 1) = Hits(n) \cup {n + 1} /\ n + 1 \notin Hits(n)
    BY <1>3
  <2> HIDE DEF Hits
  <2>2. Cardinality(Hits(n + 1)) = Cardinality(Hits(n)) + 1
    BY <1>2, <2>1, FS_AddElement
  <2> USE DEF Hits
  <2> QED
    BY <1>1, <1>2, <1>3, <2>2, FS_EmptySet DEF UpTo
<1>4. CASE file[n + 1] # verdict
  <2>1. Hits(n + 1) = Hits(n)
    BY <1>4
  <2> QED
    BY <1>1, <1>2, <1>4, <2>1, FS_EmptySet DEF UpTo
<1> QED
  BY <1>3, <1>4

LEMMA TransferInitKeeps == ASSUME TransferInit PROVE TransferInv
<1>1. TransferRowsOK
  <2>1. transfers \in [Transfers -> TransferRow] /\ task \in [Workers -> WorkerTask] /\ counts \in [Workers -> WorkerCounts]
    BY NoTransferTyped DEF TransferInit
  <2>2. wpc \in [Workers -> WorkerLabels]
    BY DEF TransferInit, WorkerLabels
  <2> QED
    BY <2>1, <2>2 DEF TransferRowsOK
<1>2. transferFaults \in 0 .. MaxTransferFaults
  BY TransferAssumption DEF TransferInit
<1>3. \A j \in Transfers : TransferFits(transfers[j]) /\ RowAddsUp(transfers[j]) /\ j \notin cancelled
  BY NoTransferTyped DEF TransferInit
<1>4. \A w \in Workers : WorkerFits(w)
  BY DEF TransferInit, WorkerFits
<1> QED
  BY <1>1, <1>2, <1>3, <1>4 DEF TransferInv, UndisturbedFit

LEMMA WorkerTyped ==
    ASSUME TransferInv, NEW w \in Workers
    PROVE  /\ task[w] \in WorkerTask /\ task[w].row \in TransferRow /\ task[w].known \in TransferRow
           /\ counts[w] \in WorkerCounts /\ counts[w].sum \in RecordCounts /\ counts[w].at \in Nat
BY DEF TransferInv, TransferRowsOK, WorkerTask, WorkerCounts

(* What a step of one worker leaves of the others. *)
WorkerMoved(w) ==
    /\ wpc' \in [Workers -> WorkerLabels] /\ task' \in [Workers -> WorkerTask] /\ counts' \in [Workers -> WorkerCounts]
    /\ \A v \in Workers \ {w} : wpc'[v] = wpc[v] /\ task'[v] = task[v] /\ counts'[v] = counts[v]

LEMMA WorkerMoves ==
    ASSUME TransferRowsOK, NEW w \in Workers, NEW label \in WorkerLabels, NEW t \in WorkerTask, NEW c \in WorkerCounts,
           WorkerAt(w, label, t, c)
    PROVE  WorkerMoved(w) /\ wpc'[w] = label /\ task'[w] = t /\ counts'[w] = c
<1>1. wpc' \in [Workers -> WorkerLabels] /\ wpc'[w] = label /\ \A v \in Workers \ {w} : wpc'[v] = wpc[v]
  BY DEF TransferRowsOK, WorkerAt
<1>2. task' \in [Workers -> WorkerTask] /\ task'[w] = t /\ \A v \in Workers \ {w} : task'[v] = task[v]
  BY DEF TransferRowsOK, WorkerAt
<1>3. counts' \in [Workers -> WorkerCounts] /\ counts'[w] = c /\ \A v \in Workers \ {w} : counts'[v] = counts[v]
  BY DEF TransferRowsOK, WorkerAt
<1> QED
  BY <1>1, <1>2, <1>3 DEF WorkerMoved

LEMMA WorkEndMoves ==
    ASSUME TransferRowsOK, NEW w \in Workers, WorkEnds(w)
    PROVE  WorkerMoved(w) /\ wpc'[w] = "idle"
<1>1. "idle" \in WorkerLabels /\ WorkerAt(w, "idle", NoTask, NoCounts)
  BY DEF WorkEnds, WorkerLabels
<1> QED
  BY <1>1, NoTransferTyped, WorkerMoves

(* The others' jobs fit as before when more jobs may count as disturbed. *)
LEMMA OthersFit ==
    ASSUME TransferInv, NEW w \in Workers, WorkerMoved(w), disturbed \subseteq disturbed', WorkerFits(w)'
    PROVE  \A v \in Workers : WorkerFits(v)'
<1> SUFFICES ASSUME NEW v \in Workers \ {w} PROVE WorkerFits(v)'
  OBVIOUS
<1>1. wpc'[v] = wpc[v] /\ task'[v] = task[v] /\ counts'[v] = counts[v]
  BY DEF WorkerMoved
<1>2. WorkerFits(v)
  BY DEF TransferInv
<1> QED
  BY <1>1, <1>2 DEF WorkerFits, TransferFits

(* A worker that goes on with what it has in hand, and saves nothing. *)
LEMMA LocalStep ==
    ASSUME TransferInv, NEW w \in Workers, WorkerMoved(w), UNCHANGED <<transfers, cancelled>>,
           disturbed \subseteq disturbed', transferFaults' \in 0 .. MaxTransferFaults, WorkerFits(w)'
    PROVE  TransferInv'
<1>1. TransferRowsOK'
  BY DEF TransferInv, TransferRowsOK, WorkerMoved
<1>2. \A v \in Workers : WorkerFits(v)'
  BY OthersFit
<1>3. UndisturbedFit' /\ \A j \in Transfers : TransferFits(transfers'[j])
  BY DEF TransferInv, UndisturbedFit
<1> QED
  BY <1>1, <1>2, <1>3 DEF TransferInv

(* A worker that saves its copy of the row. *)
LEMMA SavedStep ==
    ASSUME TransferInv, NEW w \in Workers, wpc[w] # "idle", NEW row \in TransferRow, NEW label \in WorkerLabels,
           SaveAs(w, row, label), TransferFits(row),
           task[w].id \notin disturbed => RowAddsUp(row),
           \/ cancelled' = cancelled
           \/ cancelled' = cancelled \cup {task[w].id} /\ row.status = "CANCELLED",
           label # "idle" =>
              /\ row.status \in {"PROCESSING", "COMPLETED"} /\ row.file = task[w].row.file
              /\ label \in ImportLabels => row.kind = "import" /\ row.status = "PROCESSING"
              /\ label \in ExportLabels => row.kind = "export"
    PROVE  TransferInv'
<1>0. PICK j \in Transfers : j = task[w].id
  BY DEF TransferInv, WorkerFits
<1>1. /\ transfers' = [transfers EXCEPT ![j] = row]
      /\ disturbed' = IF transfers[j] = task[w].known THEN disturbed ELSE disturbed \cup {j}
      /\ IF label = "idle" THEN WorkEnds(w)
         ELSE WorkerAt(w, label, [task[w] EXCEPT !.row = row, !.known = row], counts[w])
      /\ transferFaults' = transferFaults
  BY <1>0 DEF SaveAs
<1>2. disturbed \subseteq disturbed'
  BY <1>1
<1>3. /\ transfers' \in [Transfers -> TransferRow] /\ transfers'[j] = row
      /\ \A i \in Transfers \ {j} : transfers'[i] = transfers[i]
  BY <1>1 DEF TransferInv, TransferRowsOK
<1>4. WorkerMoved(w) /\ WorkerFits(w)'
  <2>1. CASE label = "idle"
    <3>1. WorkerMoved(w) /\ wpc'[w] = "idle"
      BY <1>1, <2>1, WorkEndMoves DEF TransferInv
    <3> QED
      BY <3>1 DEF WorkerFits
  <2>2. CASE label # "idle"
    <3> DEFINE t == [task[w] EXCEPT !.row = row, !.known = row]
    <3>1. t \in WorkerTask /\ t.id = j /\ t.row = row /\ t.known = row
      BY <1>0, WorkerTyped DEF WorkerTask
    <3>2. WorkerAt(w, label, t, counts[w])
      BY <1>1, <2>2
    <3> HIDE DEF t
    <3>3. WorkerMoved(w) /\ wpc'[w] = label /\ task'[w] = t /\ counts'[w] = counts[w]
      BY <3>1, <3>2, WorkerTyped, WorkerMoves DEF TransferInv
    <3>4. /\ counts[w].at <= Len(row.file) /\ counts[w].sum.processed <= counts[w].at
          /\ j \notin disturbed => /\ Counted(counts[w].sum) = counts[w].at
                                 /\ counts[w].sum = Tally(row.file, counts[w].at)
      BY <1>0, <2>2 DEF TransferInv, WorkerFits
    <3>5. row.status \in {"PENDING", "PROCESSING", "COMPLETED"}
      BY <2>2
    <3>6. /\ label \in ImportLabels => row.kind = "import" /\ row.status = "PROCESSING"
          /\ label \in ExportLabels => row.kind = "export"
      BY <2>2
    <3>7. WorkerFits(w)'
      BY <1>2, <3>1, <3>3, <3>4, <3>5, <3>6 DEF WorkerFits
    <3> QED
      BY <3>3, <3>7
  <2> QED
    BY <2>1, <2>2
<1>5. TransferRowsOK'
  BY <1>3, <1>4 DEF TransferRowsOK, WorkerMoved
<1>6. \A v \in Workers : WorkerFits(v)'
  BY <1>2, <1>4, OthersFit
<1>7. \A i \in Transfers : TransferFits(transfers'[i])
  BY <1>3 DEF TransferInv
<1>8. ASSUME NEW i \in Transfers, i \notin disturbed'
      PROVE  RowAddsUp(transfers'[i]) /\ (i \in cancelled' => transfers'[i].status = "CANCELLED")
  <2>1. i \notin disturbed /\ RowAddsUp(transfers[i]) /\ (i \in cancelled => transfers[i].status = "CANCELLED")
    BY <1>2, <1>8 DEF TransferInv, UndisturbedFit
  <2>2. CASE i # j
    <3>1. i \in cancelled' => i \in cancelled
      BY <1>0, <2>2
    <3> QED
      BY <1>3, <2>1, <2>2, <3>1
  <2>3. CASE i = j
    <3>1. RowAddsUp(row)
      BY <1>0, <2>1, <2>3
    <3>2. transfers[j] = task[w].known
      BY <1>1, <1>8, <2>3
    <3>3. task[w].known.status # "CANCELLED"
      BY DEF TransferInv, WorkerFits
    <3>4. j \notin cancelled
      BY <2>1, <2>3, <3>2, <3>3
    <3>5. j \in cancelled' => row.status = "CANCELLED"
      BY <3>4
    <3> QED
      BY <1>3, <2>3, <3>1, <3>5
  <2> QED
    BY <2>2, <2>3
<1>9. UndisturbedFit'
  BY <1>8 DEF UndisturbedFit
<1> QED
  BY <1>1, <1>5, <1>6, <1>7, <1>9 DEF TransferInv

(* A new row changes nothing that is under way: no worker holds it, or what it holds is older. *)
LEMMA NewRowStep ==
    ASSUME TransferInv, NEW j \in Transfers, transfers[j].status = "NONE", NEW row \in TransferRow,
           transfers' = [transfers EXCEPT ![j] = row], row.status = "PENDING", TransferFits(row),
           UNCHANGED <<wpc, task, counts, cancelled, transferFaults, disturbed>>
    PROVE  TransferInv'
<1>1. /\ transfers' \in [Transfers -> TransferRow] /\ transfers'[j] = row
      /\ \A i \in Transfers \ {j} : transfers'[i] = transfers[i]
  BY DEF TransferInv, TransferRowsOK
<1>2. TransferRowsOK'
  BY <1>1 DEF TransferInv, TransferRowsOK
<1>3. \A v \in Workers : WorkerFits(v)'
  BY DEF TransferInv, WorkerFits
<1>4. \A i \in Transfers : TransferFits(transfers'[i])
  BY <1>1 DEF TransferInv
<1>5. UndisturbedFit'
  <2>1. RowAddsUp(row)
    BY DEF RowAddsUp
  <2>2. j \notin disturbed => j \notin cancelled
    BY DEF TransferInv, UndisturbedFit
  <2> QED
    BY <1>1, <2>1, <2>2 DEF TransferInv, UndisturbedFit
<1> QED
  BY <1>2, <1>3, <1>4, <1>5 DEF TransferInv

LEMMA CreateImportJobKeeps == ASSUME TransferInv, CreateImportJob PROVE TransferInv'
<1>1. PICK j \in Transfers, file \in Files, rollback \in BOOLEAN :
        /\ transfers[j].status = "NONE"
        /\ transfers' = [transfers EXCEPT ![j] = [NoTransfer EXCEPT !.status = "PENDING", !.file = file,
                                                                    !.rollbackOnFailure = rollback]]
        /\ UNCHANGED <<wpc, task, counts, cancelled, transferFaults, disturbed>>
  BY DEF CreateImportJob
<1> DEFINE row == [NoTransfer EXCEPT !.status = "PENDING", !.file = file, !.rollbackOnFailure = rollback]
<1>2. /\ row \in TransferRow /\ row.status = "PENDING" /\ row.kind = "import" /\ row.counts.processed = 0
  BY NoTransferTyped DEF TransferRow, ImportJobStatus, NoTransfer, Nothing
<1>3. transfers' = [transfers EXCEPT ![j] = row]
  BY <1>1
<1> HIDE DEF row
<1>4. TransferFits(row)
  BY <1>2, FilesTyped DEF TransferFits
<1> QED
  BY <1>1, <1>2, <1>3, <1>4, NewRowStep

LEMMA CreateExportJobKeeps == ASSUME TransferInv, CreateExportJob PROVE TransferInv'
<1>1. PICK j \in Transfers, byMail \in BOOLEAN :
        /\ transfers[j].status = "NONE"
        /\ transfers' = [transfers EXCEPT ![j] = [NoTransfer EXCEPT !.status = "PENDING", !.kind = "export",
                                                                    !.byMail = byMail]]
        /\ UNCHANGED <<wpc, task, counts, cancelled, transferFaults, disturbed>>
  BY DEF CreateExportJob
<1> DEFINE row == [NoTransfer EXCEPT !.status = "PENDING", !.kind = "export", !.byMail = byMail]
<1>2. /\ row \in TransferRow /\ row.status = "PENDING" /\ row.counts.processed = 0
  BY NoTransferTyped DEF TransferRow, ImportJobStatus, NoTransfer, Nothing
<1>3. transfers' = [transfers EXCEPT ![j] = row]
  BY <1>1
<1> HIDE DEF row
<1>4. TransferFits(row)
  BY <1>2, FilesTyped DEF TransferFits
<1> QED
  BY <1>1, <1>2, <1>3, <1>4, NewRowStep

LEMMA ReadTransferKeeps ==
    ASSUME TransferInv, NEW w \in Workers, NEW statuses \in SUBSET {"PENDING", "PROCESSING"},
           NEW label \in {"begin", "cancel"}, ReadTransfer(w, statuses, label)
    PROVE  TransferInv'
<1>1. PICK j \in Transfers :
        /\ transfers[j].status \in statuses
        /\ WorkerAt(w, label, [id |-> j, row |-> transfers[j], known |-> transfers[j]], NoCounts)
        /\ UNCHANGED Local
  BY DEF ReadTransfer
<1> DEFINE t == [id |-> j, row |-> transfers[j], known |-> transfers[j]]
<1>2. t \in WorkerTask /\ t.id = j /\ t.row = transfers[j] /\ t.known = transfers[j] /\ transfers[j] \in TransferRow
  BY DEF TransferInv, TransferRowsOK, WorkerTask
<1>3. WorkerAt(w, label, t, NoCounts) /\ label \in WorkerLabels
  BY <1>1 DEF WorkerLabels
<1> HIDE DEF t
<1>4. WorkerMoved(w) /\ wpc'[w] = label /\ task'[w] = t /\ counts'[w] = NoCounts
  BY <1>2, <1>3, NoTransferTyped, WorkerMoves DEF TransferInv
<1>5. NoCounts.at = 0 /\ NoCounts.sum.processed = 0 /\ Counted(NoCounts.sum) = 0
      /\ NoCounts.sum = Tally(transfers[j].file, 0)
  <2>1. NoCounts.at = 0 /\ NoCounts.sum.processed = 0 /\ Counted(NoCounts.sum) = 0
    BY DEF NoCounts, Nothing, Counted
  <2>2. \A v : UpTo(transfers[j].file, 0, v) = 0
    BY TallyGrows
  <2> QED
    BY <2>1, <2>2 DEF NoCounts, Nothing, Tally
<1>6. /\ TransferFits(transfers[j]) /\ transfers[j].status \in {"PENDING", "PROCESSING", "COMPLETED"}
      /\ 0 <= Len(transfers[j].file)
  <2>1. transfers[j].status \in {"PENDING", "PROCESSING", "COMPLETED"} /\ TransferFits(transfers[j])
    BY <1>1 DEF TransferInv
  <2>2. Len(transfers[j].file) \in Nat
    BY <1>2, FilesTyped
  <2> QED
    BY <2>1, <2>2
<1>7. label \notin ImportLabels /\ label \notin ExportLabels
  BY DEF ImportLabels, ExportLabels
<1>8. WorkerFits(w)'
  BY <1>2, <1>4, <1>5, <1>6, <1>7 DEF WorkerFits
<1> QED
  BY <1>1, <1>4, <1>8, LocalStep DEF Local, TransferInv

LEMMA ProcessTransferKeeps == ASSUME TransferInv, NEW w \in Workers, ProcessTransfer(w) \/ CancelTransfer(w)
                              PROVE  TransferInv'
BY ReadTransferKeeps DEF ProcessTransfer, CancelTransfer

(* A copy with another status, or other counts. *)
LEMMA CopyFits ==
    ASSUME TransferInv, NEW w \in Workers, wpc[w] # "idle", NEW status \in ImportJobStatus,
           task[w].row.kind = "export" => status # "PARTIALLY_COMPLETED"
    PROVE  LET row == [task[w].row EXCEPT !.status = status] IN
             /\ row \in TransferRow /\ row.status = status /\ row.kind = task[w].row.kind
             /\ row.file = task[w].row.file /\ TransferFits(row)
<1> DEFINE row == [task[w].row EXCEPT !.status = status]
<1>1. PICK old \in TransferRow : old = task[w].row
  BY WorkerTyped
<1>2. /\ row \in TransferRow /\ row.status = status /\ row.kind = old.kind
      /\ row.file = old.file /\ row.counts = old.counts
  BY <1>1 DEF TransferRow
<1>3. TransferFits(old)
  BY <1>1 DEF TransferInv, WorkerFits
<1> HIDE DEF row
<1>4. TransferFits(row)
  BY <1>1, <1>2, <1>3 DEF TransferFits
<1> QED
  BY <1>1, <1>2, <1>4 DEF row

LEMMA SaveCancelledKeeps == ASSUME TransferInv, NEW w \in Workers, SaveCancelled(w) PROVE TransferInv'
<1> DEFINE row == [task[w].row EXCEPT !.status = "CANCELLED"]
<1>1. wpc[w] # "idle" /\ SaveAs(w, row, "idle") /\ cancelled' = cancelled \cup {task[w].id}
  BY DEF SaveCancelled
<1>2. row \in TransferRow /\ row.status = "CANCELLED" /\ TransferFits(row)
  BY <1>1, CopyFits DEF ImportJobStatus
<1> HIDE DEF row
<1>3. RowAddsUp(row) /\ "idle" \in WorkerLabels
  BY <1>2 DEF RowAddsUp, WorkerLabels
<1> QED
  BY <1>1, <1>2, <1>3, SavedStep

LEMMA SaveProcessingKeeps == ASSUME TransferInv, NEW w \in Workers, SaveProcessing(w) PROVE TransferInv'
<1> DEFINE row == [task[w].row EXCEPT !.status = "PROCESSING"]
<1>1. PICK label \in {"parse", "generate"} : /\ wpc[w] # "idle" /\ SaveAs(w, row, label) /\ cancelled' = cancelled
                                             /\ label = IF task[w].row.kind = "import" THEN "parse" ELSE "generate"
  BY DEF SaveProcessing
<1>2. row \in TransferRow /\ row.status = "PROCESSING" /\ row.kind = task[w].row.kind /\ row.file = task[w].row.file
      /\ TransferFits(row)
  BY <1>1, CopyFits DEF ImportJobStatus
<1> HIDE DEF row
<1>3. RowAddsUp(row) /\ label \in WorkerLabels
  BY <1>2 DEF RowAddsUp, WorkerLabels, ImportLabels, ExportLabels
<1>4. row.kind \in {"import", "export"}
  BY <1>2 DEF TransferRow
<1>5. /\ label \in ImportLabels => row.kind = "import" /\ row.status = "PROCESSING"
      /\ label \in ExportLabels => row.kind = "export"
  BY <1>1, <1>2, <1>4 DEF ImportLabels, ExportLabels
<1> QED
  BY <1>1, <1>2, <1>3, <1>5, SavedStep

LEMMA SaveTotalKeeps == ASSUME TransferInv, NEW w \in Workers, SaveTotal(w) PROVE TransferInv'
<1>1. wpc[w] = "parse" /\ SaveAs(w, task[w].row, "record") /\ cancelled' = cancelled
  BY DEF SaveTotal
<1>2. /\ task[w].row \in TransferRow /\ TransferFits(task[w].row)
      /\ task[w].row.kind = "import" /\ task[w].row.status = "PROCESSING"
  BY <1>1, WorkerTyped DEF TransferInv, WorkerFits, ImportLabels
<1>3. RowAddsUp(task[w].row) /\ "record" \in WorkerLabels /\ "record" \notin ExportLabels
  BY <1>2 DEF RowAddsUp, WorkerLabels, ImportLabels, ExportLabels
<1> QED
  BY <1>1, <1>2, <1>3, SavedStep

LEMMA ProcessRecordKeeps == ASSUME TransferInv, NEW w \in Workers, ProcessRecord(w) PROVE TransferInv'
<1>1. /\ wpc[w] = "record" /\ counts[w].at < Len(task[w].row.file) /\ UNCHANGED Local
      /\ CountRecord(w, 1)
  BY DEF ProcessRecord, CountRecord
<1>2. PICK c \in WorkerCounts, label \in {"record", "progress"} :
        /\ WorkerAt(w, label, task[w], c)
        /\ c.at = counts[w].at + 1
        /\ Counted(c.sum) = Counted(counts[w].sum) + 1
        /\ c.sum.processed <= counts[w].sum.processed + 1
        /\ task[w].id \notin disturbed => c.sum = Tally(task[w].row.file, c.at)
  <2>1. PICK n \in Nat, p \in Nat, f \in Nat, s \in Nat :
          counts[w] = [sum |-> [processed |-> p, failed |-> f, skipped |-> s], at |-> n]
    BY WorkerTyped DEF WorkerCounts, RecordCounts
  <2> DEFINE plus(x, y, z) == [sum |-> [processed |-> p + x, failed |-> f + y, skipped |-> s + z], at |-> n + 1]
  <2>2. \/ Verdict(w) = "invalid" /\ WorkerAt(w, "record", task[w], plus(0, 1, 0))
        \/ Verdict(w) = "duplicate" /\ WorkerAt(w, "record", task[w], plus(0, 0, 1))
        \/ Verdict(w) \notin {"invalid", "duplicate"} /\ WorkerAt(w, "progress", task[w], plus(1, 0, 0))
    <3> DEFINE gone == [counts[w] EXCEPT !.at = @ + 1]
    <3>1. \/ Verdict(w) = "invalid" /\ WorkerAt(w, "record", task[w], [gone EXCEPT !.sum.failed = @ + 1])
          \/ Verdict(w) = "duplicate" /\ WorkerAt(w, "record", task[w], [gone EXCEPT !.sum.skipped = @ + 1])
          \/ Verdict(w) \notin {"invalid", "duplicate"}
             /\ WorkerAt(w, "progress", task[w], [gone EXCEPT !.sum.processed = @ + 1])
      BY <1>1 DEF CountRecord
    <3>2. gone = [sum |-> [processed |-> p, failed |-> f, skipped |-> s], at |-> n + 1]
      BY <2>1
    <3> HIDE DEF gone
    <3>3. /\ [gone EXCEPT !.sum.failed = @ + 1] = plus(0, 1, 0)
          /\ [gone EXCEPT !.sum.skipped = @ + 1] = plus(0, 0, 1)
          /\ [gone EXCEPT !.sum.processed = @ + 1] = plus(1, 0, 0)
      BY <3>2
    <3> QED
      BY <3>1, <3>3
  <2> DEFINE file == task[w].row.file
  <2>3. ASSUME task[w].id \notin disturbed
        PROVE  /\ p = UpTo(file, n, "ok") /\ f = UpTo(file, n, "invalid") /\ s = UpTo(file, n, "duplicate")
               /\ Verdict(w) = file[n + 1] /\ Verdict(w) \in Verdicts
    <3>1. WorkerFits(w) /\ wpc[w] # "idle"
      BY <1>1 DEF TransferInv, CountRecord
    <3>2. Counted(counts[w].sum) = n /\ counts[w].sum = Tally(file, n)
      BY <2>1, <2>3, <3>1 DEF WorkerFits
    <3>3. p + f + s = n /\ RowNumber(w) = p + f + s + 1
      BY <2>1, <3>2 DEF Counted, RowNumber
    <3>4. PICK q \in Seq(Verdicts) : q = file
      BY WorkerTyped, FilesTyped
    <3>5. RowNumber(w) = n + 1 /\ n + 1 <= Len(q)
      BY <1>1, <2>1, <3>3, <3>4
    <3>6. Verdict(w) = q[n + 1] /\ q[n + 1] \in Verdicts
      BY <3>4, <3>5 DEF Verdict
    <3>7. [processed |-> p, failed |-> f, skipped |-> s] = Tally(file, n)
      BY <2>1, <3>2
    <3> QED
      BY <3>4, <3>6, <3>7 DEF Tally
  <2>4. \A v : UpTo(file, n + 1, v) = IF file[n + 1] = v THEN UpTo(file, n, v) + 1 ELSE UpTo(file, n, v)
    BY TallyGrows
  <2> DEFINE Right(c) == task[w].id \notin disturbed => c.sum = Tally(file, n + 1)
  <2>5. /\ Verdict(w) = "invalid" => Right(plus(0, 1, 0))
        /\ Verdict(w) = "duplicate" => Right(plus(0, 0, 1))
        /\ Verdict(w) \notin {"invalid", "duplicate"} => Right(plus(1, 0, 0))
    <3> SUFFICES ASSUME task[w].id \notin disturbed
                 PROVE  LET now == Tally(file, n + 1) IN
                        /\ Verdict(w) = "invalid" => now = [processed |-> p, failed |-> f + 1, skipped |-> s]
                        /\ Verdict(w) = "duplicate" => now = [processed |-> p, failed |-> f, skipped |-> s + 1]
                        /\ Verdict(w) \notin {"invalid", "duplicate"}
                             => now = [processed |-> p + 1, failed |-> f, skipped |-> s]
      OBVIOUS
    <3> HIDE DEF file
    <3>1. Verdict(w) = "invalid" =>
            UpTo(file, n + 1, "ok") = p /\ UpTo(file, n + 1, "invalid") = f + 1 /\ UpTo(file, n + 1, "duplicate") = s
      BY <2>3, <2>4
    <3>2. Verdict(w) = "duplicate" =>
            UpTo(file, n + 1, "ok") = p /\ UpTo(file, n + 1, "invalid") = f /\ UpTo(file, n + 1, "duplicate") = s + 1
      BY <2>3, <2>4
    <3>3. Verdict(w) \notin {"invalid", "duplicate"} =>
            UpTo(file, n + 1, "ok") = p + 1 /\ UpTo(file, n + 1, "invalid") = f /\ UpTo(file, n + 1, "duplicate") = s
      BY <2>3, <2>4 DEF Verdicts
    <3> QED
      BY <3>1, <3>2, <3>3 DEF Tally
  <2> DEFINE Follows(c) ==
          /\ c \in WorkerCounts /\ c.at = counts[w].at + 1
          /\ Counted(c.sum) = Counted(counts[w].sum) + 1
          /\ c.sum.processed <= counts[w].sum.processed + 1
  <2>6. Follows(plus(0, 1, 0))
    BY <2>1 DEF WorkerCounts, RecordCounts, Counted
  <2>7. Follows(plus(0, 0, 1))
    BY <2>1 DEF WorkerCounts, RecordCounts, Counted
  <2>8. Follows(plus(1, 0, 0))
    BY <2>1 DEF WorkerCounts, RecordCounts, Counted
  <2>9. counts[w].at = n
    BY <2>1
  <2> HIDE DEF plus
  <2> QED
    BY <2>2, <2>5, <2>6, <2>7, <2>8, <2>9
<1>3. WorkerMoved(w) /\ wpc'[w] = label /\ task'[w] = task[w] /\ counts'[w] = c
  BY <1>2, WorkerTyped, WorkerMoves DEF TransferInv, WorkerLabels, ImportLabels
<1>4. WorkerFits(w) /\ counts[w].at \in Nat /\ counts[w].sum.processed \in Nat /\ Len(task[w].row.file) \in Nat
      /\ c.sum.processed \in Nat
  BY WorkerTyped, FilesTyped DEF TransferInv, RecordCounts, WorkerCounts
<1>5. c.at <= Len(task[w].row.file) /\ c.sum.processed <= c.at
  BY <1>1, <1>2, <1>4 DEF WorkerFits
<1>6. disturbed' = disturbed
  BY <1>1 DEF Local
<1>7. WorkerFits(w)'
  BY <1>1, <1>2, <1>3, <1>4, <1>5, <1>6 DEF WorkerFits, ImportLabels, ExportLabels
<1> QED
  BY <1>1, <1>3, <1>7, LocalStep DEF Local, TransferInv

LEMMA SaveProgressKeeps == ASSUME TransferInv, NEW w \in Workers, SaveProgress(w) PROVE TransferInv'
<1> DEFINE row == [task[w].row EXCEPT !.counts = counts[w].sum]
<1>1. wpc[w] = "progress" /\ SaveAs(w, row, "record") /\ cancelled' = cancelled
  BY DEF SaveProgress
<1>2. WorkerFits(w) /\ task[w].row \in TransferRow /\ counts[w].sum \in RecordCounts
  BY WorkerTyped DEF TransferInv
<1>3. /\ row \in TransferRow /\ row.status = task[w].row.status /\ row.kind = task[w].row.kind
      /\ row.file = task[w].row.file /\ row.counts = counts[w].sum
  BY <1>2 DEF TransferRow
<1> HIDE DEF row
<1>4. row.kind = "import" /\ row.status = "PROCESSING"
  BY <1>1, <1>2, <1>3 DEF WorkerFits, ImportLabels
<1>5. TransferFits(row)
  <2>1. counts[w].sum.processed <= counts[w].at /\ counts[w].at <= Len(task[w].row.file)
    BY <1>1, <1>2 DEF WorkerFits
  <2>2. counts[w].sum.processed \in Nat /\ counts[w].at \in Nat /\ Len(task[w].row.file) \in Nat
    BY <1>2, WorkerTyped, FilesTyped DEF RecordCounts
  <2>3. counts[w].sum.processed <= Len(task[w].row.file)
    BY <2>1, <2>2
  <2> QED
    BY <1>3, <1>4, <2>3 DEF TransferFits
<1>6. RowAddsUp(row) /\ "record" \in WorkerLabels /\ "record" \notin ExportLabels
  BY <1>4 DEF RowAddsUp, WorkerLabels, ImportLabels, ExportLabels
<1> QED
  BY <1>1, <1>3, <1>4, <1>5, <1>6, SavedStep

LEMMA SaveImportedKeeps == ASSUME TransferInv, NEW w \in Workers, SaveImported(w) PROVE TransferInv'
<1> DEFINE outcome == Outcome(task[w].row, counts[w].sum)
           row == [task[w].row EXCEPT !.status = outcome, !.counts = counts[w].sum]
<1>1. /\ wpc[w] = "record" /\ counts[w].at = Len(task[w].row.file)
      /\ SaveAs(w, row, "idle") /\ cancelled' = cancelled
  BY DEF SaveImported
<1>2. WorkerFits(w) /\ task[w].row \in TransferRow /\ counts[w].sum \in RecordCounts
  BY WorkerTyped DEF TransferInv
<1>3. counts[w].sum.failed \in Nat /\ counts[w].sum.processed \in Nat
  BY <1>2 DEF RecordCounts
<1>4. /\ outcome \in ImportJobStatus
      /\ outcome \in {"COMPLETED", "PARTIALLY_COMPLETED"} => ((outcome = "COMPLETED") = (counts[w].sum.failed = 0))
  BY <1>3 DEF Outcome, ImportJobStatus
<1> HIDE DEF outcome
<1>5. /\ row \in TransferRow /\ row.status = outcome /\ row.kind = task[w].row.kind
      /\ row.file = task[w].row.file /\ row.counts = counts[w].sum
  BY <1>2, <1>4 DEF TransferRow
<1> HIDE DEF row
<1>6. row.kind = "import"
  BY <1>1, <1>2, <1>5 DEF WorkerFits, ImportLabels
<1>7. TransferFits(row)
  BY <1>1, <1>2, <1>5, <1>6 DEF TransferFits, WorkerFits
<1>8. task[w].id \notin disturbed => RowAddsUp(row)
  <2>1. task[w].id \notin disturbed => row.counts = Tally(row.file, Len(row.file))
    BY <1>1, <1>2, <1>5 DEF WorkerFits
  <2> QED
    BY <1>4, <1>5, <2>1 DEF RowAddsUp
<1>9. "idle" \in WorkerLabels
  BY DEF WorkerLabels
<1> QED
  BY <1>1, <1>5, <1>7, <1>8, <1>9, SavedStep

LEMMA SaveExportedKeeps == ASSUME TransferInv, NEW w \in Workers, SaveExported(w) PROVE TransferInv'
<1> DEFINE row == [task[w].row EXCEPT !.status = "COMPLETED"]
<1>1. PICK label \in {"mail", "idle"} : wpc[w] = "generate" /\ SaveAs(w, row, label) /\ cancelled' = cancelled
  BY DEF SaveExported
<1>2. row \in TransferRow /\ row.status = "COMPLETED" /\ row.kind = task[w].row.kind /\ row.file = task[w].row.file
      /\ TransferFits(row)
  BY <1>1, CopyFits DEF ImportJobStatus
<1> HIDE DEF row
<1>3. row.kind = "export"
  BY <1>1, <1>2 DEF TransferInv, WorkerFits, ExportLabels
<1>4. RowAddsUp(row) /\ label \in WorkerLabels /\ label \notin ImportLabels
  BY <1>3 DEF RowAddsUp, WorkerLabels, ImportLabels, ExportLabels
<1> QED
  BY <1>1, <1>2, <1>3, <1>4, SavedStep

LEMMA SaveMailedKeeps == ASSUME TransferInv, NEW w \in Workers, SaveMailed(w) PROVE TransferInv'
<1>1. wpc[w] = "mail" /\ SaveAs(w, task[w].row, "idle") /\ cancelled' = cancelled
  BY DEF SaveMailed
<1>2. task[w].row \in TransferRow /\ TransferFits(task[w].row) /\ task[w].row.kind = "export"
  BY <1>1, WorkerTyped DEF TransferInv, WorkerFits, ExportLabels
<1>3. RowAddsUp(task[w].row) /\ "idle" \in WorkerLabels
  BY <1>2 DEF RowAddsUp, WorkerLabels
<1> QED
  BY <1>1, <1>2, <1>3, SavedStep

LEMMA SaveFailedKeeps == ASSUME TransferInv, NEW w \in Workers, SaveFailed(w) PROVE TransferInv'
<1> DEFINE row == [task[w].row EXCEPT !.status = "FAILED"]
<1>1. wpc[w] # "idle" /\ SaveAs(w, row, "idle") /\ cancelled' = cancelled
  BY DEF SaveFailed
<1>2. row \in TransferRow /\ row.status = "FAILED" /\ TransferFits(row)
  BY <1>1, CopyFits DEF ImportJobStatus
<1> HIDE DEF row
<1>3. RowAddsUp(row) /\ "idle" \in WorkerLabels
  BY <1>2 DEF RowAddsUp, WorkerLabels
<1> QED
  BY <1>1, <1>2, <1>3, SavedStep

(* A worker that turns to saving FAILED. *)
LEMMA TurnsToFail ==
    ASSUME TransferInv, NEW w \in Workers, wpc[w] # "idle", WorkerAt(w, "fail", task[w], counts[w]),
           disturbed \subseteq disturbed'
    PROVE  WorkerMoved(w) /\ WorkerFits(w)'
<1>1. "fail" \in WorkerLabels /\ "fail" \notin ImportLabels /\ "fail" \notin ExportLabels
  BY DEF WorkerLabels, ImportLabels, ExportLabels
<1>2. WorkerMoved(w) /\ wpc'[w] = "fail" /\ task'[w] = task[w] /\ counts'[w] = counts[w]
  BY <1>1, WorkerTyped, WorkerMoves DEF TransferInv
<1>3. WorkerFits(w)
  BY DEF TransferInv
<1> QED
  BY <1>1, <1>2, <1>3 DEF WorkerFits

LEMMA TransferFailsKeeps == ASSUME TransferInv, NEW w \in Workers, TransferFails(w) PROVE TransferInv'
<1>1. wpc[w] # "idle" /\ WorkerAt(w, "fail", task[w], counts[w]) /\ UNCHANGED Local
  BY DEF TransferFails
<1>2. UNCHANGED <<transfers, cancelled, transferFaults, disturbed>>
  BY <1>1 DEF Local
<1> QED
  BY <1>1, <1>2, TurnsToFail, LocalStep DEF TransferInv

LEMMA SaveRejectsKeeps == ASSUME TransferInv, NEW w \in Workers, SaveRejects(w) PROVE TransferInv'
<1>1. /\ wpc[w] # "idle" /\ UNCHANGED <<transfers, cancelled>>
      /\ transferFaults < MaxTransferFaults /\ transferFaults' = transferFaults + 1
      /\ disturbed' = IF wpc[w] \in {"begin", "cancel"} THEN disturbed ELSE disturbed \cup {task[w].id}
  BY DEF SaveRejects
<1>2. transferFaults' \in 0 .. MaxTransferFaults /\ disturbed \subseteq disturbed'
  BY <1>1, TransferAssumption DEF TransferInv
<1>3. WorkerMoved(w) /\ WorkerFits(w)'
  <2>1. CASE WorkEnds(w)
    BY <2>1, WorkEndMoves DEF TransferInv, WorkerFits
  <2>2. CASE WorkerAt(w, "fail", task[w], counts[w])
    BY <1>1, <1>2, <2>2, TurnsToFail
  <2>3. CASE wpc[w] = "progress" /\ WorkerAt(w, "record", task[w], [counts[w] EXCEPT !.sum.failed = @ + 1])
    <3>1. PICK c \in WorkerCounts : /\ WorkerAt(w, "record", task[w], c)
                                    /\ c.at = counts[w].at /\ c.sum.processed = counts[w].sum.processed
      <4> DEFINE c == [counts[w] EXCEPT !.sum.failed = @ + 1]
      <4>1. counts[w] \in WorkerCounts /\ counts[w].sum \in RecordCounts
        BY WorkerTyped
      <4>2. c \in WorkerCounts /\ c.at = counts[w].at /\ c.sum.processed = counts[w].sum.processed
        BY <4>1 DEF WorkerCounts, RecordCounts
      <4> QED
        BY <2>3, <4>2
    <3>2. WorkerMoved(w) /\ wpc'[w] = "record" /\ task'[w] = task[w] /\ counts'[w] = c
      BY <3>1, WorkerTyped, WorkerMoves DEF TransferInv, WorkerLabels, ImportLabels
    <3>3. task[w].id \in disturbed'
      BY <1>1, <2>3
    <3>4. WorkerFits(w)
      BY DEF TransferInv
    <3>5. WorkerFits(w)'
      BY <2>3, <3>1, <3>2, <3>3, <3>4 DEF WorkerFits, ImportLabels, ExportLabels
    <3> QED
      BY <3>2, <3>5
  <2> QED
    BY <2>1, <2>2, <2>3 DEF SaveRejects
<1> QED
  BY <1>1, <1>2, <1>3, LocalStep

LEMMA TransferCrashKeeps == ASSUME TransferInv, TransferCrash PROVE TransferInv'
<1>1. /\ UNCHANGED <<transfers, cancelled>> /\ disturbed \subseteq disturbed'
      /\ transferFaults < MaxTransferFaults /\ transferFaults' = transferFaults + 1
      /\ wpc' = [v \in Workers |-> "idle"] /\ task' = [v \in Workers |-> NoTask] /\ counts' = [v \in Workers |-> NoCounts]
  BY DEF TransferCrash
<1>2. transferFaults' \in 0 .. MaxTransferFaults
  BY <1>1, TransferAssumption DEF TransferInv
<1>3. TransferRowsOK'
  <2>1. wpc' \in [Workers -> WorkerLabels]
    BY <1>1 DEF WorkerLabels
  <2>2. task' \in [Workers -> WorkerTask] /\ counts' \in [Workers -> WorkerCounts]
    BY <1>1, NoTransferTyped
  <2> QED
    BY <1>1, <2>1, <2>2 DEF TransferInv, TransferRowsOK
<1>4. \A v \in Workers : WorkerFits(v)'
  BY <1>1 DEF WorkerFits
<1>5. UndisturbedFit' /\ \A j \in Transfers : TransferFits(transfers'[j])
  BY <1>1 DEF TransferInv, UndisturbedFit
<1> QED
  BY <1>2, <1>3, <1>4, <1>5 DEF TransferInv

LEMMA TransferStepsKeep == ASSUME TransferInv, [TransferNext]_transferVars PROVE TransferInv'
<1>1. CASE UNCHANGED transferVars
  BY <1>1 DEF TransferInv, TransferRowsOK, UndisturbedFit, WorkerFits, transferVars
<1>2. CASE CreateImportJob \/ CreateExportJob \/ TransferCrash
  BY <1>2, CreateImportJobKeeps, CreateExportJobKeeps, TransferCrashKeeps
<1>3. ASSUME NEW w \in Workers, \/ ProcessTransfer(w) \/ CancelTransfer(w) \/ SaveCancelled(w) \/ SaveProcessing(w)
                                \/ SaveTotal(w) \/ ProcessRecord(w)
      PROVE  TransferInv'
  BY <1>3, ProcessTransferKeeps, SaveCancelledKeeps, SaveProcessingKeeps, SaveTotalKeeps, ProcessRecordKeeps
<1>4. ASSUME NEW w \in Workers, \/ SaveProgress(w) \/ SaveImported(w) \/ SaveExported(w) \/ SaveMailed(w)
                                \/ SaveFailed(w) \/ TransferFails(w) \/ SaveRejects(w)
      PROVE  TransferInv'
  BY <1>4, SaveProgressKeeps, SaveImportedKeeps, SaveExportedKeeps, SaveMailedKeeps, SaveFailedKeeps,
     TransferFailsKeeps, SaveRejectsKeeps
<1> QED
  BY <1>1, <1>2, <1>3, <1>4 DEF TransferNext

LEMMA TransferInvariant == TransferSpec => []TransferInv
<1>1. TransferInit => TransferInv
  BY TransferInitKeeps
<1>2. TransferInv /\ [TransferNext]_transferVars => TransferInv'
  BY TransferStepsKeep
<1> QED
  BY <1>1, <1>2, PTL DEF TransferSpec

(* import-export.service.ts: the rows of both tables keep the shape of their columns. *)
THEOREM TransferTypes == TransferSpec => []TransferTypeOK
<1>1. TransferInv => TransferTypeOK
  BY DEF TransferInv, TransferRowsOK, TransferTypeOK, TransferRow, TransferFits
<1> QED
  BY <1>1, TransferInvariant, PTL

(* import-export.service.ts, processImport and cancelImportJob: an import that ran to its  *)
(* end undisturbed has counted each record of its file once and under its own verdict, and *)
(* its status says what the counts say; a job whose cancellation was saved stays cancelled *)
(* - unless a handler saved over another's work or was cut short.                          *)
THEOREM TransfersAreCounted == TransferSpec => []TransfersAddUp
<1>1. ASSUME TransferInv PROVE TransfersAddUp
  <2> SUFFICES ASSUME NEW j \in Transfers, j \notin disturbed
               PROVE  LET row == transfers[j] IN
                      /\ row.kind = "import" /\ row.status \in {"COMPLETED", "PARTIALLY_COMPLETED"} =>
                           /\ row.counts = [processed |-> Of(row.file, "ok"), failed |-> Of(row.file, "invalid"),
                                            skipped |-> Of(row.file, "duplicate")]
                           /\ (row.status = "COMPLETED") = (Of(row.file, "invalid") = 0)
                      /\ j \in cancelled => row.status = "CANCELLED"
    BY DEF TransfersAddUp
  <2>1. PICK row \in TransferRow : row = transfers[j]
    BY <1>1 DEF TransferInv, TransferRowsOK
  <2>2. RowAddsUp(row) /\ (j \in cancelled => row.status = "CANCELLED")
    BY <1>1, <2>1 DEF TransferInv, UndisturbedFit
  <2>3. DOMAIN row.file = 1 .. Len(row.file)
    BY FilesTyped
  <2>4. \A v : Of(row.file, v) = UpTo(row.file, Len(row.file), v)
    BY <2>3 DEF Of, UpTo
  <2>5. Tally(row.file, Len(row.file)) =
          [processed |-> Of(row.file, "ok"), failed |-> Of(row.file, "invalid"), skipped |-> Of(row.file, "duplicate")]
    BY <2>4 DEF Tally
  <2>6. Tally(row.file, Len(row.file)).failed = Of(row.file, "invalid")
    BY <2>5
  <2> QED
    BY <2>1, <2>2, <2>5, <2>6 DEF RowAddsUp
<1> QED
  BY <1>1, TransferInvariant, PTL

-----------------------------------------------------------------------------
(* Rate limits.  First what every request and every window keeps to; then the *)
(* histories as running totals, the bucket and the login counter, which rest  *)
(* on it.                                                                     *)

RateRowsOK ==
    /\ clock \in Ticks /\ limiter \in Limiters
    /\ bucket \in [tokens: Int, lastRefill: Ticks, expires: Int] /\ bucket.tokens <= Capacity
    /\ windows \in [Tiers -> [times: SUBSET Ticks, expires: Int]]
    /\ rpc \in [Requests -> Checks \cup {"idle"}]
    /\ stamp \in [Requests -> Ticks]
    /\ granted \in [Checks -> [Ticks -> Nat]]
    /\ attempts \in [count: 0 .. MaxAttempts + 1, resetTime: Int]
    /\ rateFaults \in 0 .. MaxRateFaults

(* A request read its clock at most Lag ticks ago. *)
StampsFresh == \A r \in Requests :
    stamp[r] <= clock /\ (rpc[r] # "idle" => clock <= stamp[r] + Lag)

(* A time at which a window let a request pass is in it until the window is over, and *)
(* the window's key lives as long.                                                    *)
WindowHolds(tier) ==
    /\ \A t \in Ticks : granted[tier][t] > 0 => t \in windows[tier].times \/ t + SizeOf(tier) <= clock
    /\ \A t \in windows[tier].times : t <= clock /\ t + SizeOf(tier) <= windows[tier].expires

LetPass(tier, b) == {t \in b - SizeOf(tier) + Lag + 1 .. b : t \in Ticks /\ granted[tier][t] > 0}
WithinLimit(tier) == \A b \in Ticks : Cardinality(LetPass(tier, b)) <= LimitOf(tier)

RateInv ==
    /\ RateRowsOK /\ StampsFresh
    /\ \A tier \in Tiers : WindowHolds(tier) /\ WithinLimit(tier)

LEMMA RateNumbers ==
    /\ Capacity \in Nat /\ RefillTokens \in Nat /\ RefillTicks \in Nat /\ RefillTicks > 0
    /\ Limit \in Nat /\ HourLimit \in Nat /\ Window \in Nat /\ Hour \in Nat
    /\ MaxAttempts \in Nat /\ LoginWindow \in Nat /\ Lag \in Nat /\ LastTick \in Nat /\ MaxRateFaults \in Nat
    /\ 0 \in Ticks /\ Ticks \subseteq Nat /\ \A t \in Ticks : t <= LastTick
<1>1. /\ {Capacity, RefillTokens, RefillTicks, Limit, Window, HourLimit, Hour} \subseteq Nat \ {0}
      /\ {MaxAttempts, LoginWindow, Lag, LastTick, MaxRateFaults} \subseteq Nat
  BY RateAssumption
<1>2. LastTick \in Nat
  BY <1>1
<1>3. 0 \in Ticks /\ Ticks \subseteq Nat /\ \A t \in Ticks : t <= LastTick
  BY <1>2 DEF Ticks
<1> QED
  BY <1>1, <1>3

(* A history as a running total, and what it holds between two times. *)
LEMMA OneMoreTyped ==
    ASSUME NEW totals \in [Ticks -> Nat], NEW time \in Ticks
    PROVE  /\ OneMore(totals, time) \in [Ticks -> Nat]
           /\ \A t \in Ticks : OneMore(totals, time)[t] = totals[t] + IF t >= time THEN 1 ELSE 0
<1>1. \A t \in Ticks : totals[t] + (IF t >= time THEN 1 ELSE 0) \in Nat
  OBVIOUS
<1> QED
  BY <1>1 DEF OneMore

LEMMA TierNumbers == \A tier \in Tiers : LimitOf(tier) \in Nat /\ SizeOf(tier) \in Nat
BY RateNumbers DEF LimitOf, SizeOf

LEMMA TiersAreChecks == Tiers \subseteq Checks /\ "bucket" \in Checks /\ "bucket" \notin Tiers /\ "minute" \in Tiers
                        /\ "hour" \in Tiers
BY DEF Tiers, Checks

LEMMA RateInitKeeps == ASSUME RateInit PROVE RateInv
<1>1. /\ clock = 0 /\ \A tier \in Tiers : windows[tier].times = {}
      /\ \A k \in Checks, t \in Ticks : granted[k][t] = 0
      /\ \A r \in Requests : rpc[r] = "idle" /\ stamp[r] = 0
  BY DEF RateInit, NoWindow, Never
<1>2. RateRowsOK
  <2>1. clock \in Ticks /\ limiter \in Limiters /\ rateFaults \in 0 .. MaxRateFaults /\ stamp \in [Requests -> Ticks]
    BY RateNumbers DEF RateInit
  <2>2. bucket \in [tokens: Int, lastRefill: Ticks, expires: Int] /\ bucket.tokens <= Capacity
    BY RateNumbers DEF RateInit, NoBucket
  <2>3. windows \in [Tiers -> [times: SUBSET Ticks, expires: Int]]
    BY DEF RateInit, NoWindow
  <2>4. rpc \in [Requests -> Checks \cup {"idle"}]
    BY DEF RateInit
  <2>5. granted \in [Checks -> [Ticks -> Nat]]
    BY DEF RateInit, Never
  <2>6. attempts \in [count: 0 .. MaxAttempts + 1, resetTime: Int]
    BY RateNumbers DEF RateInit, NoEntry
  <2> QED
    BY <2>1, <2>2, <2>3, <2>4, <2>5, <2>6 DEF RateRowsOK
<1>3. StampsFresh
  BY <1>1 DEF StampsFresh
<1>4. ASSUME NEW tier \in Tiers PROVE WindowHolds(tier) /\ WithinLimit(tier)
  <2>1. WindowHolds(tier)
    BY <1>1, <1>4, TiersAreChecks DEF WindowHolds
  <2>2. \A b \in Ticks : LetPass(tier, b) = {}
    BY <1>1, <1>4, TiersAreChecks DEF LetPass
  <2>3. Cardinality({}) = 0
    BY FS_EmptySet
  <2> QED
    BY <2>1, <2>2, <2>3, TierNumbers DEF WithinLimit
<1> QED
  BY <1>2, <1>3, <1>4 DEF RateInv

LEMMA RateAtTyped ==
    ASSUME RateRowsOK, StampsFresh, NEW r \in Requests, NEW check \in Checks \cup {"idle"}, NEW time,
           time = clock \/ (time = 0 /\ check = "idle"), RateAt(r, check, time), clock' = clock
    PROVE  rpc' \in [Requests -> Checks \cup {"idle"}] /\ stamp' \in [Requests -> Ticks] /\ StampsFresh'
<1>1. time \in Ticks /\ time <= clock /\ clock <= clock + Lag
  BY RateNumbers DEF RateRowsOK
<1>2. rpc' \in [Requests -> Checks \cup {"idle"}] /\ rpc'[r] = check /\ \A s \in Requests \ {r} : rpc'[s] = rpc[s]
  BY DEF RateAt, RateRowsOK
<1>3. stamp' \in [Requests -> Ticks] /\ stamp'[r] = time /\ \A s \in Requests \ {r} : stamp'[s] = stamp[s]
  BY <1>1 DEF RateAt, RateRowsOK
<1>4. StampsFresh'
  <2>1. \A s \in Requests \ {r} : stamp'[s] <= clock' /\ (rpc'[s] # "idle" => clock' <= stamp'[s] + Lag)
    BY <1>2, <1>3 DEF StampsFresh
  <2>2. stamp'[r] <= clock' /\ (rpc'[r] # "idle" => clock' <= stamp'[r] + Lag)
    BY <1>1, <1>2, <1>3
  <2> QED
    BY <2>1, <2>2 DEF StampsFresh
<1> QED
  BY <1>2, <1>3, <1>4

LEMMA ThenHourlyMoves ==
    ASSUME RateRowsOK, StampsFresh, NEW r \in Requests, ThenHourly(r) \/ RateAt(r, "idle", 0), clock' = clock
    PROVE  rpc' \in [Requests -> Checks \cup {"idle"}] /\ stamp' \in [Requests -> Ticks] /\ StampsFresh'
<1>1. RateAt(r, "hour", clock) \/ RateAt(r, "idle", 0)
  BY DEF ThenHourly
<1>2. "hour" \in Checks \cup {"idle"} /\ "idle" \in Checks \cup {"idle"}
  BY TiersAreChecks
<1> QED
  BY <1>1, <1>2, RateAtTyped

(* A step that leaves what the windows hold and have let pass. *)
LEMMA WindowsStay ==
    ASSUME RateInv, NEW tier \in Tiers, clock' \in Ticks, clock <= clock',
           windows'[tier] = windows[tier], granted'[tier] = granted[tier]
    PROVE  WindowHolds(tier)' /\ WithinLimit(tier)'
<1>1. WindowHolds(tier) /\ WithinLimit(tier)
  BY DEF RateInv
<1>2. WindowHolds(tier)'
  <2>1. \A t \in Ticks : granted'[tier][t] > 0 => t \in windows'[tier].times \/ t + SizeOf(tier) <= clock'
    <3>1. \A t \in Ticks : t + SizeOf(tier) <= clock => t + SizeOf(tier) <= clock'
      BY RateNumbers, TierNumbers DEF RateInv, RateRowsOK
    <3> QED
      BY <1>1, <3>1 DEF WindowHolds
  <2>2. \A t \in windows'[tier].times : t <= clock' /\ t + SizeOf(tier) <= windows'[tier].expires
    <3>1. \A t \in Ticks : t <= clock => t <= clock'
      BY RateNumbers DEF RateInv, RateRowsOK
    <3>2. windows[tier].times \subseteq Ticks
      BY DEF RateInv, RateRowsOK
    <3> QED
      BY <1>1, <3>1, <3>2 DEF WindowHolds
  <2> QED
    BY <2>1, <2>2 DEF WindowHolds
<1>3. \A b \in Ticks : LetPass(tier, b)' = LetPass(tier, b)
  BY DEF LetPass
<1>4. WithinLimit(tier)'
  BY <1>1, <1>3 DEF WithinLimit
<1> QED
  BY <1>2, <1>4

LEMMA CheckRateLimitKeeps == ASSUME RateInv, NEW r \in Requests, CheckRateLimit(r) PROVE RateInv'
<1>1. PICK check \in Checks : RateAt(r, check, clock)
  BY TiersAreChecks DEF CheckRateLimit
<1>2. UNCHANGED <<clock, limiter, bucket, windows, granted, attempts, passed, rateFaults>>
  BY DEF CheckRateLimit
<1>3. rpc' \in [Requests -> Checks \cup {"idle"}] /\ stamp' \in [Requests -> Ticks] /\ StampsFresh'
  BY <1>1, <1>2, RateAtTyped DEF RateInv
<1>4. RateRowsOK'
  BY <1>2, <1>3 DEF RateInv, RateRowsOK
<1>5. \A tier \in Tiers : WindowHolds(tier)' /\ WithinLimit(tier)'
  BY <1>2, WindowsStay, RateNumbers DEF RateInv, RateRowsOK
<1> QED
  BY <1>3, <1>4, <1>5 DEF RateInv

LEMMA TokensTyped ==
    ASSUME RateRowsOK, NEW now \in Ticks
    PROVE  Tokens(now) \in Int /\ Tokens(now) <= Capacity
<1> DEFINE x == bucket.tokens + ((now - bucket.lastRefill) * RefillTokens) \div RefillTicks
<1>1. x \in Int
  <2>1. (now - bucket.lastRefill) * RefillTokens \in Int
    <3>1. PICK last \in Ticks : last = bucket.lastRefill
      BY DEF RateRowsOK
    <3>2. PICK d \in Int : d = now - last
      BY RateNumbers
    <3>3. d * RefillTokens \in Int
      BY RateNumbers
    <3> QED
      BY <3>1, <3>2, <3>3
  <2>2. bucket.tokens \in Int
    BY DEF RateRowsOK
  <2> HIDE DEF x
  <2>3. \A y \in Int : y \div RefillTicks \in Int
    BY RateNumbers
  <2> QED
    BY <2>1, <2>2, <2>3 DEF x
<1>2. Tokens(now) = Min({Capacity, x})
  BY DEF Tokens
<1> HIDE DEF x
<1>3. \E m \in {Capacity, x} : \A y \in {Capacity, x} : m =< y
  BY <1>1, RateNumbers
<1>4. Min({Capacity, x}) \in {Capacity, x} /\ \A y \in {Capacity, x} : Min({Capacity, x}) =< y
  BY <1>3 DEF Min
<1> QED
  BY <1>1, <1>2, <1>4, RateNumbers

LEMMA CheckTokenBucketKeeps == ASSUME RateInv, NEW r \in Requests, CheckTokenBucket(r) PROVE RateInv'
<1>1. UNCHANGED <<clock, limiter, windows, attempts, passed, rateFaults>> /\ ThenHourly(r)
  BY DEF CheckTokenBucket
<1>2. PICK now \in Ticks : now = stamp[r]
  BY DEF RateInv, RateRowsOK
<1>3. rpc' \in [Requests -> Checks \cup {"idle"}] /\ stamp' \in [Requests -> Ticks] /\ StampsFresh'
  BY <1>1, ThenHourlyMoves DEF RateInv
<1>4. bucket' \in [tokens: Int, lastRefill: Ticks, expires: Int] /\ bucket'.tokens <= Capacity
  <2>1. PICK tokens \in Int : /\ tokens <= Capacity
                              /\ bucket' = [tokens |-> IF tokens >= 1 THEN tokens - 1 ELSE tokens,
                                            lastRefill |-> now, expires |-> clock + Window]
    BY <1>2, TokensTyped, RateNumbers DEF CheckTokenBucket, RateInv
  <2>2. clock + Window \in Int
    BY RateNumbers DEF RateInv, RateRowsOK
  <2>3. PICK left \in Int : left <= Capacity /\ left = IF tokens >= 1 THEN tokens - 1 ELSE tokens
    BY <2>1, RateNumbers
  <2>4. bucket' = [tokens |-> left, lastRefill |-> now, expires |-> clock + Window]
    BY <2>1, <2>3
  <2> QED
    BY <2>2, <2>3, <2>4
<1>5. granted' \in [Checks -> [Ticks -> Nat]] /\ \A tier \in Tiers : granted'[tier] = granted[tier]
  <2>1. CASE Grant("bucket", now)
    <3>1. granted' = [granted EXCEPT !["bucket"] = OneMore(granted["bucket"], now)]
      BY <2>1 DEF Grant
    <3>2. granted \in [Checks -> [Ticks -> Nat]] /\ granted["bucket"] \in [Ticks -> Nat]
      BY TiersAreChecks DEF RateInv, RateRowsOK
    <3>3. OneMore(granted["bucket"], now) \in [Ticks -> Nat]
      BY <3>2, OneMoreTyped
    <3> QED
      BY <3>1, <3>2, <3>3, TiersAreChecks
  <2>2. CASE granted' = granted
    BY <2>2 DEF RateInv, RateRowsOK
  <2> QED
    BY <1>2, <2>1, <2>2 DEF CheckTokenBucket, Refuse
<1>6. RateRowsOK'
  BY <1>1, <1>3, <1>4, <1>5 DEF RateInv, RateRowsOK
<1>7. \A tier \in Tiers : WindowHolds(tier)' /\ WithinLimit(tier)'
  BY <1>1, <1>5, WindowsStay, RateNumbers DEF RateInv, RateRowsOK
<1> QED
  BY <1>3, <1>6, <1>7 DEF RateInv

(* What a window let pass within its size of a time is still in it. *)
LEMMA RecentAreKept ==
    ASSUME RateInv, NEW tier \in Tiers, NEW now \in Ticks, now <= clock, clock <= now + Lag, NEW b \in Ticks,
           now \in b - SizeOf(tier) + Lag + 1 .. b
    PROVE  LetPass(tier, b) \subseteq Kept(tier, now)
<1> SUFFICES ASSUME NEW t \in LetPass(tier, b) PROVE t \in Kept(tier, now)
  OBVIOUS
<1>0. t \in Ticks /\ granted[tier][t] > 0 /\ b - SizeOf(tier) + Lag + 1 <= t
  BY RateNumbers, TierNumbers DEF LetPass
<1>1. now <= b /\ now \in Nat /\ b \in Nat /\ t \in Nat /\ clock \in Nat /\ SizeOf(tier) \in Nat /\ Lag \in Nat
  BY <1>0, RateNumbers, TierNumbers DEF RateInv, RateRowsOK
<1>2. clock < t + SizeOf(tier) /\ t > now - SizeOf(tier)
  BY <1>0, <1>1
<1>3. t \in windows[tier].times
  <2>1. ~(t + SizeOf(tier) <= clock)
    BY <1>1, <1>2
  <2> QED
    BY <1>0, <2>1 DEF RateInv, WindowHolds
<1>4. windows[tier].expires > clock
  <2>1. t + SizeOf(tier) <= windows[tier].expires /\ windows[tier].expires \in Int
    BY <1>3 DEF RateInv, WindowHolds, RateRowsOK
  <2> QED
    BY <1>1, <1>2, <2>1
<1> QED
  BY <1>2, <1>3, <1>4 DEF Kept

LEMMA CheckSlidingWindowKeeps == ASSUME RateInv, NEW r \in Requests, CheckSlidingWindow(r) PROVE RateInv'
<1>1. PICK tier \in Tiers :
        /\ rpc[r] = tier
        /\ windows' = [windows EXCEPT ![tier] =
               [times |-> IF Cardinality(Kept(tier, stamp[r])) < LimitOf(tier)
                          THEN Kept(tier, stamp[r]) \cup {stamp[r]} ELSE Kept(tier, stamp[r]),
                expires |-> clock + SizeOf(tier)]]
        /\ IF Cardinality(Kept(tier, stamp[r])) < LimitOf(tier) THEN Grant(tier, stamp[r]) ELSE Refuse
        /\ ThenHourly(r) \/ RateAt(r, "idle", 0)
        /\ UNCHANGED <<clock, limiter, bucket, attempts, passed, rateFaults>>
  BY DEF CheckSlidingWindow
<1>2. PICK now \in Ticks : now = stamp[r] /\ now <= clock /\ clock <= now + Lag
  <2>1. rpc[r] # "idle"
    BY <1>1 DEF Tiers
  <2> QED
    BY <2>1 DEF RateInv, RateRowsOK, StampsFresh
<1> DEFINE kept == Kept(tier, now)
           allowed == Cardinality(kept) < LimitOf(tier)
<1>3. rpc' \in [Requests -> Checks \cup {"idle"}] /\ stamp' \in [Requests -> Ticks] /\ StampsFresh'
  BY <1>1, ThenHourlyMoves DEF RateInv
<1>4. /\ kept \subseteq windows[tier].times /\ kept \subseteq Ticks
      /\ \A t \in windows[tier].times : t \notin kept => t + SizeOf(tier) <= clock
  <2>1. windows[tier].times \subseteq Ticks /\ windows[tier].expires \in Int
    BY DEF RateInv, RateRowsOK
  <2>2. kept \subseteq windows[tier].times
    BY DEF Kept
  <2>3. ASSUME NEW t \in windows[tier].times, t \notin kept PROVE t + SizeOf(tier) <= clock
    <3>1. t \in Nat /\ now \in Nat /\ clock \in Nat /\ SizeOf(tier) \in Nat
      BY <2>1, RateNumbers, TierNumbers DEF RateInv, RateRowsOK
    <3>2. ~(windows[tier].expires > clock) \/ ~(t > now - SizeOf(tier))
      BY <2>3 DEF Kept
    <3>3. t + SizeOf(tier) <= windows[tier].expires
      BY DEF RateInv, WindowHolds
    <3> QED
      BY <1>2, <2>1, <3>1, <3>2, <3>3
  <2> QED
    BY <2>1, <2>2, <2>3
<1>5. /\ windows' = [windows EXCEPT ![tier] = [times |-> IF allowed THEN kept \cup {now} ELSE kept,
                                               expires |-> clock + SizeOf(tier)]]
      /\ IF allowed THEN Grant(tier, now) ELSE granted' = granted
      /\ clock' = clock
  BY <1>1, <1>2 DEF Refuse
<1> HIDE DEF kept, allowed
<1>6. PICK times \in SUBSET Ticks : times = IF allowed THEN kept \cup {now} ELSE kept
  BY <1>4
<1>7. /\ windows' \in [Tiers -> [times: SUBSET Ticks, expires: Int]]
      /\ windows'[tier].times = times /\ windows'[tier].expires = clock + SizeOf(tier)
      /\ \A o \in Tiers \ {tier} : windows'[o] = windows[o]
  <2> DEFINE w == [times |-> times, expires |-> clock + SizeOf(tier)]
  <2>1. clock + SizeOf(tier) \in Int
    BY RateNumbers, TierNumbers DEF RateInv, RateRowsOK
  <2>2. w \in [times: SUBSET Ticks, expires: Int] /\ w.times = times /\ w.expires = clock + SizeOf(tier)
    BY <2>1
  <2>3. windows' = [windows EXCEPT ![tier] = w]
    BY <1>5, <1>6
  <2> HIDE DEF w
  <2> QED
    BY <2>2, <2>3 DEF RateInv, RateRowsOK
<1>8. /\ granted' \in [Checks -> [Ticks -> Nat]]
      /\ \A t \in Ticks : granted'[tier][t] > 0 => granted[tier][t] > 0 \/ (allowed /\ t = now)
      /\ \A o \in Tiers \ {tier} : granted'[o] = granted[o]
  <2>1. granted \in [Checks -> [Ticks -> Nat]] /\ tier \in Checks
    BY TiersAreChecks DEF RateInv, RateRowsOK
  <2>2. CASE allowed
    <3>1. granted' = [granted EXCEPT ![tier] = [granted[tier] EXCEPT ![now] = 1]]
      BY <1>5, <2>2, TiersAreChecks DEF Grant
    <3>2. granted[tier] \in [Ticks -> Nat]
      BY <2>1
    <3>3. [granted[tier] EXCEPT ![now] = 1] \in [Ticks -> Nat]
      BY <3>2
    <3>4. granted' \in [Checks -> [Ticks -> Nat]] /\ granted'[tier] = [granted[tier] EXCEPT ![now] = 1]
          /\ \A o \in Tiers \ {tier} : granted'[o] = granted[o]
      BY <2>1, <3>1, <3>3, TiersAreChecks
    <3>5. \A t \in Ticks : granted'[tier][t] > 0 => granted[tier][t] > 0 \/ t = now
      BY <3>2, <3>4
    <3> QED
      BY <2>2, <3>4, <3>5
  <2>3. CASE ~allowed
    BY <1>5, <2>1, <2>3
  <2> QED
    BY <2>2, <2>3
<1>9. RateRowsOK'
  BY <1>1, <1>3, <1>7, <1>8 DEF RateInv, RateRowsOK
<1>10. WindowHolds(tier)'
  <2>1. ASSUME NEW t \in Ticks, granted'[tier][t] > 0 PROVE t \in times \/ t + SizeOf(tier) <= clock
    <3>1. CASE allowed /\ t = now
      BY <1>6, <3>1
    <3>2. CASE granted[tier][t] > 0
      <4>1. t \in windows[tier].times \/ t + SizeOf(tier) <= clock
        BY <3>2 DEF RateInv, WindowHolds
      <4> QED
        BY <1>4, <1>6, <4>1
    <3> QED
      BY <1>8, <2>1, <3>1, <3>2
  <2>2. ASSUME NEW t \in times PROVE t <= clock /\ t + SizeOf(tier) <= clock + SizeOf(tier)
    <3>1. t \in windows[tier].times \/ t = now
      BY <1>4, <1>6, <2>2
    <3>2. t <= clock
      BY <1>2, <3>1 DEF RateInv, WindowHolds
    <3>3. t \in Nat /\ clock \in Nat /\ SizeOf(tier) \in Nat
      BY <2>2, RateNumbers, TierNumbers DEF RateInv, RateRowsOK
    <3> QED
      BY <3>2, <3>3
  <2> QED
    BY <1>5, <1>7, <2>1, <2>2 DEF WindowHolds
<1>11. WithinLimit(tier)'
  <2> SUFFICES ASSUME NEW b \in Ticks PROVE Cardinality(LetPass(tier, b)') <= LimitOf(tier)
    BY DEF WithinLimit
  <2>1. Cardinality(LetPass(tier, b)) <= LimitOf(tier)
    BY DEF RateInv, WithinLimit
  <2>2. IsFiniteSet(Ticks)
    BY FS_Interval, RateNumbers DEF Ticks
  <2>3. IsFiniteSet(LetPass(tier, b)) /\ IsFiniteSet(kept)
    <3>1. LetPass(tier, b) \subseteq Ticks
      BY DEF LetPass
    <3> QED
      BY <1>4, <2>2, <3>1, FS_Subset
  <2>4. CASE allowed /\ now \in b - SizeOf(tier) + Lag + 1 .. b
    <3>1. LetPass(tier, b)' \subseteq LetPass(tier, b) \cup {now}
      BY <1>8 DEF LetPass
    <3>2. LetPass(tier, b) \subseteq kept
      BY <1>2, <2>4, RecentAreKept DEF kept
    <3>3. LetPass(tier, b)' \subseteq kept \cup {now}
      BY <3>1, <3>2
    <3>4. IsFiniteSet(kept \cup {now}) /\ Cardinality(kept \cup {now}) <= Cardinality(kept) + 1
      <4>1. Cardinality(kept) \in Nat
        BY <2>3, FS_CardinalityType
      <4>2. /\ IsFiniteSet(kept \cup {now})
            /\ Cardinality(kept \cup {now}) = IF now \in kept THEN Cardinality(kept) ELSE Cardinality(kept) + 1
        BY <2>3, FS_AddElement
      <4> QED
        BY <4>1, <4>2
    <3>5. Cardinality(LetPass(tier, b)') <= Cardinality(kept \cup {now})
      BY <3>3, <3>4, FS_Subset
    <3>6. Cardinality(kept) < LimitOf(tier)
      BY <2>4 DEF allowed
    <3>7. /\ Cardinality(kept) \in Nat /\ Cardinality(kept \cup {now}) \in Nat
          /\ Cardinality(LetPass(tier, b)') \in Nat /\ LimitOf(tier) \in Nat
      <4>1. IsFiniteSet(LetPass(tier, b)')
        BY <3>3, <3>4, FS_Subset
      <4> QED
        BY <2>3, <3>4, <4>1, FS_CardinalityType, TierNumbers
    <3> QED
      BY <3>4, <3>5, <3>6, <3>7
  <2>5. CASE ~(allowed /\ now \in b - SizeOf(tier) + Lag + 1 .. b)
    <3>1. LetPass(tier, b)' \subseteq LetPass(tier, b)
      BY <1>8, <2>5 DEF LetPass
    <3>2. Cardinality(LetPass(tier, b)') <= Cardinality(LetPass(tier, b)) /\ IsFiniteSet(LetPass(tier, b)')
      BY <2>3, <3>1, FS_Subset
    <3>3. Cardinality(LetPass(tier, b)') \in Nat /\ Cardinality(LetPass(tier, b)) \in Nat /\ LimitOf(tier) \in Nat
      BY <2>3, <3>2, FS_CardinalityType, TierNumbers
    <3> QED
      BY <2>1, <3>2, <3>3
  <2> QED
    BY <2>4, <2>5
<1>12. \A o \in Tiers \ {tier} : WindowHolds(o)' /\ WithinLimit(o)'
  BY <1>5, <1>7, <1>8, WindowsStay, RateNumbers DEF RateInv, RateRowsOK
<1> QED
  BY <1>3, <1>9, <1>10, <1>11, <1>12 DEF RateInv

LEMMA RedisFaultKeeps == ASSUME RateInv, NEW r \in Requests, RedisFault(r) PROVE RateInv'
<1>1. /\ ThenHourly(r) \/ RateAt(r, "idle", 0)
      /\ rateFaults < MaxRateFaults /\ rateFaults' = rateFaults + 1
      /\ UNCHANGED <<clock, limiter, bucket, windows, granted, attempts, passed>>
  BY DEF RedisFault
<1>2. rpc' \in [Requests -> Checks \cup {"idle"}] /\ stamp' \in [Requests -> Ticks] /\ StampsFresh'
  BY <1>1, ThenHourlyMoves DEF RateInv
<1>3. rateFaults' \in 0 .. MaxRateFaults
  BY <1>1, RateNumbers DEF RateInv, RateRowsOK
<1>4. RateRowsOK'
  BY <1>1, <1>2, <1>3 DEF RateInv, RateRowsOK
<1>5. \A tier \in Tiers : WindowHolds(tier)' /\ WithinLimit(tier)'
  BY <1>1, WindowsStay, RateNumbers DEF RateInv, RateRowsOK
<1> QED
  BY <1>2, <1>4, <1>5 DEF RateInv

(* A step that is about the login counter only. *)
LEMMA LoginStep ==
    ASSUME RateInv, UNCHANGED <<clock, limiter, bucket, windows, rpc, stamp, granted>>,
           attempts' \in [count: 0 .. MaxAttempts + 1, resetTime: Int], rateFaults' \in 0 .. MaxRateFaults
    PROVE  RateInv'
<1>1. RateRowsOK' /\ StampsFresh'
  BY DEF RateInv, RateRowsOK, StampsFresh
<1>2. \A tier \in Tiers : WindowHolds(tier)' /\ WithinLimit(tier)'
  BY WindowsStay, RateNumbers DEF RateInv, RateRowsOK
<1> QED
  BY <1>1, <1>2 DEF RateInv

LEMMA CheckLoginKeeps == ASSUME RateInv, CheckLogin PROVE RateInv'
<1> DEFINE fresh == [count |-> 0, resetTime |-> clock + LoginWindow]
<1>1. /\ UNCHANGED <<clock, limiter, bucket, windows, rpc, stamp, granted, rateFaults>>
      /\ \E entry \in {fresh, attempts} : attempts' = [entry EXCEPT !.count = @ + 1] /\ entry.count <= MaxAttempts
  BY DEF CheckLogin
<1>2. fresh \in [count: 0 .. MaxAttempts + 1, resetTime: Int]
  BY RateNumbers DEF RateInv, RateRowsOK
<1> HIDE DEF fresh
<1>3. PICK n \in 0 .. MaxAttempts + 1, until \in Int :
        n <= MaxAttempts /\ attempts' = [count |-> n + 1, resetTime |-> until]
  <2>1. PICK entry \in [count: 0 .. MaxAttempts + 1, resetTime: Int] :
          attempts' = [entry EXCEPT !.count = @ + 1] /\ entry.count <= MaxAttempts
    BY <1>1, <1>2 DEF RateInv, RateRowsOK
  <2> QED
    BY <2>1
<1>4. n + 1 \in 0 .. MaxAttempts + 1
  BY <1>3, RateNumbers
<1>5. attempts' \in [count: 0 .. MaxAttempts + 1, resetTime: Int]
  BY <1>3, <1>4
<1> QED
  BY <1>1, <1>5, LoginStep DEF RateInv, RateRowsOK

LEMMA ForgetLogins == ASSUME RateInv, CleanupExpiredEntries \/ Restart PROVE RateInv'
<1>1. NoEntry \in [count: 0 .. MaxAttempts + 1, resetTime: Int]
  BY RateNumbers DEF NoEntry
<1>2. CASE CleanupExpiredEntries
  BY <1>1, <1>2, LoginStep DEF CleanupExpiredEntries, RateInv, RateRowsOK
<1>3. CASE Restart
  <2>1. rateFaults' \in 0 .. MaxRateFaults
    BY <1>3, RateNumbers DEF Restart, RateInv, RateRowsOK
  <2> QED
    BY <1>1, <1>3, <2>1, LoginStep DEF Restart
<1> QED
  BY <1>2, <1>3

LEMMA TickKeeps == ASSUME RateInv, Tick PROVE RateInv'
<1>1. /\ clock' = clock + 1 /\ clock < LastTick /\ \A r \in Requests : rpc[r] # "idle" => stamp[r] + Lag > clock
      /\ UNCHANGED <<limiter, bucket, windows, rpc, stamp, granted, attempts, passed, rateFaults>>
  BY DEF Tick
<1>2. clock' \in Ticks /\ clock <= clock' /\ clock \in Nat
  BY <1>1, RateNumbers DEF RateInv, RateRowsOK, Ticks
<1>3. RateRowsOK'
  BY <1>1, <1>2 DEF RateInv, RateRowsOK
<1>4. ASSUME NEW r \in Requests PROVE stamp'[r] <= clock' /\ (rpc'[r] # "idle" => clock' <= stamp'[r] + Lag)
  <2>1. PICK n \in Nat : n = stamp[r] /\ n <= clock
    BY RateNumbers DEF RateInv, RateRowsOK, StampsFresh
  <2>2. n <= clock + 1 /\ (n + Lag > clock => clock + 1 <= n + Lag)
    BY <1>2, <2>1, RateNumbers
  <2> QED
    BY <1>1, <2>1, <2>2
<1>5. StampsFresh'
  BY <1>4 DEF StampsFresh
<1>6. \A tier \in Tiers : WindowHolds(tier)' /\ WithinLimit(tier)'
  BY <1>1, <1>2, WindowsStay
<1> QED
  BY <1>3, <1>5, <1>6 DEF RateInv

LEMMA RateInvariant == RateSpec => []RateInv
<1>1. RateInit => RateInv
  BY RateInitKeeps
<1>2. RateInv /\ [RateNext]_rateVars => RateInv'
  <2> SUFFICES ASSUME RateInv, [RateNext]_rateVars PROVE RateInv'
    OBVIOUS
  <2>1. CASE UNCHANGED rateVars
    BY <2>1, LoginStep DEF rateVars, RateInv, RateRowsOK
  <2>2. CASE RateNext
    BY <2>2, CheckRateLimitKeeps, CheckTokenBucketKeeps, CheckSlidingWindowKeeps, RedisFaultKeeps,
       CheckLoginKeeps, ForgetLogins, TickKeeps DEF RateNext
  <2> QED
    BY <2>1, <2>2
<1> QED
  BY <1>1, <1>2, PTL DEF RateSpec

(* rate-limit.service.ts, both of them: no bucket holds more than its capacity, no request *)
(* is from the future, and a login counter stops one above the attempts it allows.         *)
THEOREM RateTypes == RateSpec => []RateTypeOK
<1>1. ASSUME RateInv PROVE RateTypeOK
  <2>1. \A tier \in Tiers : windows[tier].times \subseteq Ticks
    BY <1>1 DEF RateInv, RateRowsOK
  <2>2. \A r \in Requests : rpc[r] \in Checks \cup {"idle"} /\ stamp[r] \in 0 .. clock
    <3> SUFFICES ASSUME NEW r \in Requests PROVE rpc[r] \in Checks \cup {"idle"} /\ stamp[r] \in 0 .. clock
      OBVIOUS
    <3>1. rpc[r] \in Checks \cup {"idle"} /\ stamp[r] \in Ticks /\ clock \in Ticks /\ stamp[r] <= clock
      BY <1>1 DEF RateInv, RateRowsOK, StampsFresh
    <3>2. PICK n \in Nat, now \in Nat : n = stamp[r] /\ now = clock /\ n <= now
      BY <3>1, RateNumbers
    <3>3. n \in 0 .. now
      BY <3>2
    <3> QED
      BY <3>1, <3>2, <3>3
  <2>3. clock \in Ticks /\ bucket.tokens <= Capacity /\ attempts.count \in 0 .. MaxAttempts + 1
        /\ rateFaults \in 0 .. MaxRateFaults
    BY <1>1 DEF RateInv, RateRowsOK
  <2> QED
    BY <2>1, <2>2, <2>3 DEF RateTypeOK
<1> QED
  BY <1>1, RateInvariant, PTL

(* rate-limit.service.ts, checkSlidingWindow: whatever the order of the scripts and of the *)
(* expiries, a window of either size lets pass at no more times than its limit.            *)
THEOREM WindowsKeepLimits == RateSpec => []WindowsBound
<1>1. RateInv => WindowsBound
  BY DEF RateInv, WithinLimit, LetPass, WindowsBound
<1> QED
  BY <1>1, RateInvariant, PTL

-----------------------------------------------------------------------------
(* Running totals: what they say up to a time never falls, and one more at a time is one *)
(* more in every stretch of time that holds it, and in no other.                         *)
Rising(totals) == \A t, u \in Ticks : t <= u => totals[t] <= totals[u]

LEMMA UptoRises ==
    ASSUME NEW totals \in [Ticks -> Nat], Rising(totals), NEW t \in Int, NEW u \in Int, t <= u, u <= LastTick
    PROVE  Upto(totals, t) \in Nat /\ Upto(totals, u) \in Nat /\ Upto(totals, t) <= Upto(totals, u)
<1>1. \A v \in Int : v <= LastTick => v < 0 \/ v \in Ticks
  BY RateNumbers DEF Ticks
<1>2. \A v \in Int : v <= LastTick => Upto(totals, v) \in Nat
  BY <1>1 DEF Upto
<1>3. t <= LastTick
  BY RateNumbers
<1>4. CASE t < 0
  <2>1. Upto(totals, t) = 0
    BY <1>4 DEF Upto
  <2> QED
    BY <1>2, <1>3, <2>1
<1>5. CASE t >= 0
  <2>1. t \in Ticks /\ u \in Ticks /\ ~(t < 0) /\ ~(u < 0)
    BY <1>1, <1>3, <1>5
  <2> QED
    BY <1>2, <1>3, <2>1 DEF Upto, Rising
<1> QED
  BY <1>4, <1>5

LEMMA BetweenTyped ==
    ASSUME NEW totals \in [Ticks -> Nat], Rising(totals), NEW a \in Int, NEW b \in Int, a - 1 <= b, b <= LastTick
    PROVE  Between(totals, a, b) \in Nat
<1>1. PICK x \in Nat, y \in Nat : x = Upto(totals, a - 1) /\ y = Upto(totals, b) /\ x <= y
  BY UptoRises
<1> QED
  BY <1>1 DEF Between

LEMMA OneMoreRises ==
    ASSUME NEW totals \in [Ticks -> Nat], Rising(totals), NEW time \in Ticks
    PROVE  Rising(OneMore(totals, time))
<1> SUFFICES ASSUME NEW t \in Ticks, NEW u \in Ticks, t <= u
             PROVE  OneMore(totals, time)[t] <= OneMore(totals, time)[u]
  BY DEF Rising
<1>1. PICK x \in Nat, y \in Nat : x = totals[t] /\ y = totals[u] /\ x <= y
  BY DEF Rising
<1>2. t \in Nat /\ u \in Nat /\ time \in Nat
  BY RateNumbers
<1>3. /\ OneMore(totals, time)[t] = x + IF t >= time THEN 1 ELSE 0
      /\ OneMore(totals, time)[u] = y + IF u >= time THEN 1 ELSE 0
  BY <1>1, OneMoreTyped
<1> QED
  BY <1>1, <1>2, <1>3

LEMMA UptoOneMore ==
    ASSUME NEW totals \in [Ticks -> Nat], NEW time \in Ticks, NEW t \in Int, t <= LastTick
    PROVE  Upto(OneMore(totals, time), t) = Upto(totals, t) + IF t >= time THEN 1 ELSE 0
<1>1. time \in Nat /\ (t < 0 \/ t \in Ticks)
  BY RateNumbers DEF Ticks
<1>2. CASE t < 0
  BY <1>1, <1>2 DEF Upto
<1>3. CASE ~(t < 0)
  BY <1>1, <1>3, OneMoreTyped DEF Upto
<1> QED
  BY <1>2, <1>3

LEMMA BetweenOneMore ==
    ASSUME NEW totals \in [Ticks -> Nat], Rising(totals), NEW time \in Ticks,
           NEW a \in Int, NEW b \in Int, a - 1 <= b, b <= LastTick
    PROVE  Between(OneMore(totals, time), a, b) =
               Between(totals, a, b) + IF a <= time /\ time <= b THEN 1 ELSE 0
<1>1. PICK x \in Nat, y \in Nat : x = Upto(totals, a - 1) /\ y = Upto(totals, b) /\ x <= y
  BY UptoRises
<1>2. time \in Nat /\ a - 1 \in Int /\ a - 1 <= LastTick
  BY RateNumbers
<1>3. /\ Upto(OneMore(totals, time), a - 1) = x + IF a - 1 >= time THEN 1 ELSE 0
      /\ Upto(OneMore(totals, time), b) = y + IF b >= time THEN 1 ELSE 0
  BY <1>1, <1>2, UptoOneMore
<1>4. PICK i \in {0, 1} : i = IF a - 1 >= time THEN 1 ELSE 0
  OBVIOUS
<1>5. PICK j \in {0, 1} : j = IF b >= time THEN 1 ELSE 0
  OBVIOUS
<1>6. Between(OneMore(totals, time), a, b) = (y + j) - (x + i) /\ Between(totals, a, b) = y - x
  BY <1>1, <1>3, <1>4, <1>5 DEF Between
<1>7. j - i = IF a <= time /\ time <= b THEN 1 ELSE 0
  BY <1>2, <1>4, <1>5
<1> QED
  BY <1>1, <1>6, <1>7

(* What was let pass in a stretch is what was in its two halves. *)
LEMMA BetweenSplits ==
    ASSUME NEW totals \in [Ticks -> Nat], Rising(totals), NEW a \in Int, NEW m \in Int, NEW b \in Int,
           a <= m, m - 1 <= b, b <= LastTick
    PROVE  Between(totals, a, b) = Between(totals, a, m - 1) + Between(totals, m, b)
<1>1. PICK x \in Nat, y \in Nat : x = Upto(totals, a - 1) /\ y = Upto(totals, m - 1)
  BY UptoRises, RateNumbers
<1>2. PICK z \in Nat : z = Upto(totals, b)
  BY UptoRises, RateNumbers
<1>3. Between(totals, a, b) = z - x /\ Between(totals, a, m - 1) = y - x /\ Between(totals, m, b) = z - y
  BY <1>1, <1>2 DEF Between
<1> QED
  BY <1>1, <1>2, <1>3

-----------------------------------------------------------------------------
(* The bucket.  Its level is what it holds less all that was refilled up to its last   *)
(* update: a script that finds the key alive can only lower it, whatever its time.  A  *)
(* key that expired gives at most what it would have been refilled, but for what a     *)
(* window does not refill and for the lag of the script; so what was let pass from a   *)
(* on is bounded by the capacity, the refill and what each of the k expiries since,    *)
(* which are a window apart, gives away.                                               *)

Level(tokens, lastRefill) == tokens * RefillTicks - RefillTokens * lastRefill
LastScript(row) == row.expires - Window
GivenAway == Surplus + RefillTokens * Lag
Budget(a, k) == Capacity * RefillTicks + GivenAway * k - RefillTokens * a

(* Once a request was let pass at a time from a to b, what was let pass then and is *)
(* still in the bucket is within the budget,                                        *)
LevelFits(totals, row, a, b) == \E k \in Nat :
    /\ k * Window <= LastScript(row) - a
    /\ Between(totals, a, b) * RefillTicks + Level(row.tokens, row.lastRefill) <= Budget(a, k)

(* and what was let pass is, by the last time in the stretch that was let pass. *)
SpentFits(totals, row, a, b) == \E k \in Nat, last \in a .. b :
    /\ k * Window <= b + Lag - a /\ k * Window <= LastScript(row) - a /\ last <= LastScript(row)
    /\ Between(totals, a, b) * RefillTicks <= Budget(a, k) + RefillTokens * last

BucketFits(totals, row) == \A a, b \in Ticks :
    a <= b /\ Between(totals, a, b) > 0 => LevelFits(totals, row, a, b) /\ SpentFits(totals, row, a, b)

BucketInv ==
    /\ LastScript(bucket) <= clock
    /\ Rising(granted["bucket"])
    /\ BucketFits(granted["bucket"], bucket)

LEMMA RefillProducts ==
    /\ \A n \in Int : RefillTokens * n \in Int /\ n * RefillTokens = RefillTokens * n
    /\ \A m, n \in Int : m <= n => RefillTokens * m <= RefillTokens * n
    /\ \A m, n \in Int : /\ RefillTokens * (m + n) = RefillTokens * m + RefillTokens * n
                         /\ RefillTokens * (m - n) = RefillTokens * m - RefillTokens * n
<1>1. ASSUME NEW r \in Nat, NEW m \in Int, NEW n \in Int
      PROVE  /\ r * n \in Int /\ n * r = r * n /\ (m <= n => r * m <= r * n)
             /\ r * (m + n) = r * m + r * n /\ r * (m - n) = r * m - r * n
  BY <1>1
<1> QED
  BY <1>1, RateNumbers

LEMMA TickProducts ==
    /\ \A n \in Int : n * RefillTicks \in Int
    /\ \A m, n \in Int : m <= n => m * RefillTicks <= n * RefillTicks
    /\ \A m, n \in Int : /\ (m + n) * RefillTicks = m * RefillTicks + n * RefillTicks
                         /\ (m - n) * RefillTicks = m * RefillTicks - n * RefillTicks
<1>1. ASSUME NEW r \in Nat, NEW m \in Int, NEW n \in Int
      PROVE  /\ n * r \in Int /\ (m <= n => m * r <= n * r)
             /\ (m + n) * r = m * r + n * r /\ (m - n) * r = m * r - n * r
  BY <1>1
<1> QED
  BY <1>1, RateNumbers

LEMMA SurplusTyped ==
    /\ Surplus \in Nat /\ GivenAway \in Nat /\ GivenAway = Surplus + RefillTokens * Lag
    /\ Capacity * RefillTicks <= RefillTokens * Window + Surplus
<1>1. PICK excess \in Int : excess = Capacity * RefillTicks - RefillTokens * Window
  BY TickProducts, RefillProducts, RateNumbers
<1>2. Surplus = Max({0, excess})
  BY <1>1 DEF Surplus
<1>3. \E m \in {0, excess} : \A y \in {0, excess} : m >= y
  <2>1. CASE excess <= 0
    BY <2>1
  <2>2. CASE excess > 0
    BY <2>2
  <2> QED
    BY <1>1, <2>1, <2>2
<1>4. Max({0, excess}) \in {0, excess} /\ \A y \in {0, excess} : Max({0, excess}) >= y
  BY <1>3 DEF Max
<1>5. Surplus \in Int /\ Surplus >= 0 /\ Surplus >= excess
  BY <1>1, <1>2, <1>4
<1>6. Capacity * RefillTicks \in Int /\ RefillTokens * Window \in Int
  BY TickProducts, RefillProducts, RateNumbers
<1>7. RefillTokens * Lag \in Nat
  <2>1. RefillTokens \in Nat /\ Lag \in Nat
    BY RateNumbers
  <2> QED
    BY <2>1
<1> QED
  BY <1>1, <1>5, <1>6, <1>7 DEF GivenAway

LEMMA ExpiryProducts ==
    /\ Window > 0
    /\ \A n \in Int : n * Window \in Int /\ (n + 1) * Window = n * Window + Window
    /\ \A n \in Int : GivenAway * n \in Int /\ GivenAway * (n + 1) = GivenAway * n + GivenAway
    /\ \A m, n \in Int : m <= n => GivenAway * m <= GivenAway * n
<1>1. ASSUME NEW r \in Nat, NEW m \in Int, NEW n \in Int
      PROVE  /\ n * r \in Int /\ (n + 1) * r = n * r + r /\ r * n \in Int /\ r * (n + 1) = r * n + r
             /\ (m <= n => r * m <= r * n)
  BY <1>1
<1>2. Window > 0
  BY RateAssumption
<1> QED
  BY <1>1, <1>2, SurplusTyped, RateNumbers

LEMMA FloorBelow == \A x \in Int : x \div RefillTicks \in Int /\ (x \div RefillTicks) * RefillTicks <= x
<1>1. ASSUME NEW x \in Int, NEW n \in Nat, n > 0
      PROVE  x \div n \in Int /\ n * (x \div n) <= x
  BY <1>1
<1>2. ASSUME NEW q \in Int PROVE q * RefillTicks = RefillTicks * q
  BY RateNumbers
<1> QED
  BY <1>1, <1>2, RateNumbers

(* A refill rounds down, so it never raises the level, not even one out of order. *)
LEMMA RefillKeepsLevel ==
    ASSUME RateRowsOK, NEW now \in Ticks
    PROVE  Level(Tokens(now), now) <= Level(bucket.tokens, bucket.lastRefill)
<1>1. PICK tokens \in Int, last \in Int : tokens = bucket.tokens /\ last = bucket.lastRefill
  <2>1. bucket.tokens \in Int /\ bucket.lastRefill \in Ticks
    BY DEF RateRowsOK
  <2>2. Ticks \subseteq Int
    BY RateNumbers
  <2> QED
    BY <2>1, <2>2
<1>2. PICK x \in Int : x = (now - last) * RefillTokens
  BY <1>1, RateNumbers
<1>3. PICK q \in Int : q = x \div RefillTicks /\ q * RefillTicks <= x
  BY FloorBelow
<1>4. PICK after \in Int : after = Tokens(now) /\ after <= tokens + q
  <2>1. Tokens(now) = Min({Capacity, tokens + q})
    BY <1>1, <1>2, <1>3 DEF Tokens
  <2>2. \E m \in {Capacity, tokens + q} : \A y \in {Capacity, tokens + q} : m =< y
    BY <1>1, <1>3, RateNumbers
  <2>3. Min({Capacity, tokens + q}) <= tokens + q
    BY <2>2 DEF Min
  <2> QED
    BY <2>1, <2>3, TokensTyped
<1>5. after * RefillTicks <= tokens * RefillTicks + q * RefillTicks
  <2>1. after * RefillTicks <= (tokens + q) * RefillTicks
    BY <1>4, TickProducts
  <2> QED
    BY <2>1, TickProducts
<1>6. x = RefillTokens * now - RefillTokens * last
  <2>1. now \in Int /\ now - last \in Int
    BY <1>1, RateNumbers
  <2>2. RefillTokens * (now - last) = RefillTokens * now - RefillTokens * last
    BY <1>1, <2>1, RefillProducts
  <2> QED
    BY <1>2, <2>1, <2>2, RefillProducts
<1>7. /\ after * RefillTicks \in Int /\ tokens * RefillTicks \in Int /\ q * RefillTicks \in Int
      /\ RefillTokens * now \in Int /\ RefillTokens * last \in Int
  BY <1>1, <1>3, <1>4, TickProducts, RefillProducts, RateNumbers
<1> QED
  BY <1>1, <1>2, <1>3, <1>4, <1>5, <1>6, <1>7 DEF Level

LEMMA NothingGivenAway == GivenAway \in Int /\ GivenAway * 0 = 0
<1>1. PICK given \in Int : given = GivenAway
  BY SurplusTyped
<1>2. given * 0 = 0
  BY <1>1
<1> QED
  BY <1>1, <1>2

LEMMA BudgetGrows ==
    ASSUME NEW a \in Int, NEW k \in Nat
    PROVE  /\ Budget(a, k) \in Int
           /\ Budget(a, 0) = Capacity * RefillTicks - RefillTokens * a
           /\ Budget(a, k + 1) = Budget(a, k) + GivenAway
<1>0. GivenAway \in Int /\ GivenAway * 0 = 0
  BY NothingGivenAway
<1>1. GivenAway * k \in Int /\ GivenAway * (k + 1) = GivenAway * k + GivenAway
  <2>1. k \in Int
    OBVIOUS
  <2> QED
    BY <2>1, ExpiryProducts
<1>2. RefillTokens * a \in Int
  BY RefillProducts
<1>3. Capacity * RefillTicks \in Int
  BY TickProducts, RateNumbers
<1> QED
  BY <1>0, <1>1, <1>2, <1>3 DEF Budget

(* A key that expired had been refilled to its capacity by then, but for what a window does *)
(* not refill and for the script's lag.                                                     *)
LEMMA ExpiredIsPaidFor ==
    ASSUME NEW last \in Int, NEW script \in Int, NEW now \in Int, NEW time \in Int,
           last <= script, script + Window <= time, time <= now + Lag
    PROVE  Capacity * RefillTicks - RefillTokens * now + RefillTokens * last <= GivenAway
<1>1. Window \in Int /\ Lag \in Int /\ Capacity * RefillTicks \in Int
  BY RateNumbers, TickProducts
<1>2. Capacity * RefillTicks <= RefillTokens * Window + Surplus /\ Surplus \in Int
  BY SurplusTyped
<1>3. last + Window <= now + Lag
  BY <1>1
<1>4. RefillTokens * (last + Window) <= RefillTokens * (now + Lag)
  BY <1>1, <1>3, RefillProducts
<1>5. /\ RefillTokens * (last + Window) = RefillTokens * last + RefillTokens * Window
      /\ RefillTokens * (now + Lag) = RefillTokens * now + RefillTokens * Lag
  BY <1>1, RefillProducts
<1>6. /\ RefillTokens * last \in Int /\ RefillTokens * Window \in Int
      /\ RefillTokens * now \in Int /\ RefillTokens * Lag \in Int
  BY <1>1, RefillProducts
<1>7. GivenAway = Surplus + RefillTokens * Lag
  BY SurplusTyped
<1> QED
  BY <1>1, <1>2, <1>4, <1>5, <1>6, <1>7

LEMMA LevelTyped ==
    ASSUME NEW tokens \in Int, NEW last \in Int
    PROVE  Level(tokens, last) \in Int
<1>1. tokens * RefillTicks \in Int /\ RefillTokens * last \in Int
  BY TickProducts, RefillProducts
<1> QED
  BY <1>1 DEF Level

(* What a script lets pass it takes from the level. *)
LEMMA GrantIsTaken ==
    ASSUME NEW n \in Int, NEW tokens \in Int, NEW now \in Int, NEW g \in {0, 1}, NEW d \in {0, 1}, g <= d
    PROVE  /\ n * RefillTicks \in Int /\ (n + g) * RefillTicks \in Int
           /\ (n + g) * RefillTicks + Level(tokens - d, now) <= n * RefillTicks + Level(tokens, now)
<1>0. g \in Int /\ d \in Int /\ n + g \in Int
  OBVIOUS
<1>1. /\ (n + g) * RefillTicks = n * RefillTicks + g * RefillTicks
      /\ (tokens - d) * RefillTicks = tokens * RefillTicks - d * RefillTicks
  BY <1>0, TickProducts
<1>2. g * RefillTicks <= d * RefillTicks
  BY <1>0, TickProducts
<1>3. /\ n * RefillTicks \in Int /\ g * RefillTicks \in Int /\ d * RefillTicks \in Int
      /\ tokens * RefillTicks \in Int
  BY <1>0, TickProducts
<1>4. RefillTokens * now \in Int
  BY RefillProducts
<1> QED
  BY <1>1, <1>2, <1>3, <1>4 DEF Level

LEMMA FitsAfterScript ==
    ASSUME NEW totals \in [Ticks -> Nat], Rising(totals), NEW next \in [Ticks -> Nat], Rising(next),
           NEW row \in [tokens: Int, lastRefill: Ticks, expires: Int], BucketFits(totals, row),
           NEW time \in Ticks, LastScript(row) <= time, NEW now \in Ticks, now <= time, time <= now + Lag,
           NEW tokens \in Int, tokens <= Capacity, NEW d \in {0, 1}, d = 1 => tokens >= 1,
           next = IF d = 1 THEN OneMore(totals, now) ELSE totals,
           \/ Level(tokens, now) <= Level(row.tokens, row.lastRefill)
           \/ row.expires <= time /\ tokens = Capacity
    PROVE  BucketFits(next, [tokens |-> tokens - d, lastRefill |-> now, expires |-> time + Window])
<1> DEFINE after == [tokens |-> tokens - d, lastRefill |-> now, expires |-> time + Window]
<1>1. LastScript(after) = time /\ after.tokens = tokens - d /\ after.lastRefill = now
  BY RateNumbers DEF LastScript
<1> HIDE DEF after
<1>2. PICK script \in Int : script = LastScript(row) /\ script = row.expires - Window
  BY RateNumbers DEF LastScript
<1>3. time \in Int /\ now \in Int /\ Lag \in Nat /\ Window \in Nat /\ row.expires \in Int
  BY RateNumbers
<1> SUFFICES ASSUME NEW a \in Ticks, NEW b \in Ticks, a <= b, Between(next, a, b) > 0
             PROVE  LevelFits(next, after, a, b) /\ SpentFits(next, after, a, b)
  BY DEF BucketFits, after
<1>4. a \in Int /\ b \in Int /\ a - 1 <= b /\ b <= LastTick
  BY RateNumbers
<1>5. PICK n \in Nat : n = Between(totals, a, b)
  BY <1>4, BetweenTyped
<1>6. PICK g \in {0, 1} : /\ Between(next, a, b) = n + g /\ g <= d
                          /\ g = 1 => d = 1 /\ a <= now /\ now <= b
  <2>1. CASE d = 0
    BY <1>5, <2>1
  <2>2. CASE d = 1
    <3>1. Between(next, a, b) = n + IF a <= now /\ now <= b THEN 1 ELSE 0
      BY <1>4, <1>5, <2>2, BetweenOneMore
    <3> QED
      BY <2>2, <3>1
  <2> QED
    BY <2>1, <2>2
<1>7. /\ n * RefillTicks \in Int /\ (n + g) * RefillTicks \in Int
      /\ (n + g) * RefillTicks + Level(tokens - d, now) <= n * RefillTicks + Level(tokens, now)
  <2>1. n \in Int /\ tokens \in Int /\ now \in Int /\ g \in {0, 1} /\ d \in {0, 1} /\ g <= d
    BY <1>3, <1>6
  <2> QED
    BY <2>1, GrantIsTaken
<1>8. Level(tokens, now) \in Int /\ Level(tokens - d, now) \in Int
  BY <1>3, LevelTyped
<1>9. PICK k \in Nat : /\ k * Window <= time - a
                       /\ (n + g) * RefillTicks + Level(tokens - d, now) <= Budget(a, k)
  <2>1. CASE n = 0
    <3>1. 0 * RefillTicks = 0 /\ 0 * Window = 0
      BY TickProducts, ExpiryProducts, RateNumbers
    <3>2. g = 1 /\ a <= now
      BY <1>6, <2>1
    <3>3. Level(tokens, now) <= Budget(a, 0)
      <4>1. tokens * RefillTicks <= Capacity * RefillTicks /\ RefillTokens * a <= RefillTokens * now
        BY <1>3, <1>4, <3>2, TickProducts, RefillProducts, RateNumbers
      <4>2. /\ tokens * RefillTicks \in Int /\ Capacity * RefillTicks \in Int
            /\ RefillTokens * a \in Int /\ RefillTokens * now \in Int
        BY <1>3, <1>4, TickProducts, RefillProducts, RateNumbers
      <4>3. Budget(a, 0) = Capacity * RefillTicks - RefillTokens * a
        BY <1>4, BudgetGrows
      <4> QED
        BY <4>1, <4>2, <4>3 DEF Level
    <3>4. Budget(a, 0) \in Int
      BY <1>4, BudgetGrows
    <3>5. (n + g) * RefillTicks + Level(tokens - d, now) <= Budget(a, 0)
      BY <1>7, <1>8, <2>1, <3>1, <3>3, <3>4
    <3>6. 0 * Window <= time - a
      BY <1>3, <1>4, <3>1, <3>2
    <3> QED
      BY <3>5, <3>6
  <2>2. CASE n > 0 /\ Level(tokens, now) <= Level(row.tokens, row.lastRefill)
    <3>1. PICK k \in Nat : /\ k * Window <= script - a
                           /\ n * RefillTicks + Level(row.tokens, row.lastRefill) <= Budget(a, k)
      BY <1>2, <1>5, <2>2 DEF BucketFits, LevelFits
    <3>2. PICK held \in Int : held = Level(row.tokens, row.lastRefill)
      <4>1. row.tokens \in Int /\ row.lastRefill \in Ticks /\ Ticks \subseteq Int
        BY RateNumbers
      <4> QED
        BY <4>1, LevelTyped
    <3>3. Budget(a, k) \in Int /\ k * Window \in Int
      <4>1. Budget(a, k) \in Int
        BY <1>4, BudgetGrows
      <4>2. k \in Int
        OBVIOUS
      <4> QED
        BY <4>1, <4>2, ExpiryProducts
    <3>4. (n + g) * RefillTicks + Level(tokens - d, now) <= Budget(a, k)
      BY <1>7, <1>8, <2>2, <3>1, <3>2, <3>3
    <3>5. k * Window <= time - a
      BY <1>2, <1>3, <1>4, <3>1, <3>3
    <3> QED
      BY <3>4, <3>5
  <2>3. CASE n > 0 /\ row.expires <= time /\ tokens = Capacity
    <3>1. PICK k \in Nat, last \in a .. b :
            /\ k * Window <= script - a /\ last <= script
            /\ n * RefillTicks <= Budget(a, k) + RefillTokens * last
      BY <1>2, <1>5, <2>3 DEF BucketFits, SpentFits
    <3>2. last \in Int /\ script + Window <= time
      BY <1>2, <1>3, <1>4, <2>3
    <3>3. Capacity * RefillTicks - RefillTokens * now + RefillTokens * last <= GivenAway
      BY <1>3, <3>1, <3>2, ExpiredIsPaidFor
    <3>4. /\ Capacity * RefillTicks \in Int /\ RefillTokens * now \in Int /\ RefillTokens * last \in Int
          /\ GivenAway \in Int
      BY <1>3, <3>2, TickProducts, RefillProducts, SurplusTyped, RateNumbers
    <3>5. Budget(a, k) \in Int /\ Budget(a, k + 1) = Budget(a, k) + GivenAway
      BY <1>4, BudgetGrows
    <3>6. n * RefillTicks + Level(tokens, now) <= Budget(a, k + 1)
      BY <1>7, <2>3, <3>1, <3>3, <3>4, <3>5 DEF Level
    <3>7. (n + g) * RefillTicks + Level(tokens - d, now) <= Budget(a, k + 1)
      BY <1>7, <1>8, <3>4, <3>5, <3>6
    <3>8. (k + 1) * Window <= time - a
      <4>0. k \in Int
        OBVIOUS
      <4>1. (k + 1) * Window = k * Window + Window /\ k * Window \in Int
        BY <4>0, ExpiryProducts
      <4> QED
        BY <1>3, <1>4, <3>1, <3>2, <4>1
    <3>9. k + 1 \in Nat
      OBVIOUS
    <3> QED
      BY <3>7, <3>8, <3>9
  <2> QED
    BY <1>5, <2>1, <2>2, <2>3
<1>10. LevelFits(next, after, a, b)
  BY <1>1, <1>6, <1>9 DEF LevelFits
<1>11. SpentFits(next, after, a, b)
  <2>1. CASE g = 1
    <3>1. now \in a .. b
      BY <1>3, <1>4, <1>6, <2>1
    <3>2. 0 <= (tokens - d) * RefillTicks
      <4>1. 0 <= tokens - d
        BY <1>6, <2>1
      <4>2. 0 * RefillTicks = 0
        BY RateNumbers
      <4> QED
        BY <4>1, <4>2, TickProducts
    <3>3. (tokens - d) * RefillTicks \in Int /\ RefillTokens * now \in Int /\ Budget(a, k) \in Int
      <4>1. tokens - d \in Int
        OBVIOUS
      <4>2. (tokens - d) * RefillTicks \in Int
        BY <4>1, TickProducts
      <4>3. RefillTokens * now \in Int
        BY <1>3, RefillProducts
      <4> QED
        BY <1>4, <4>2, <4>3, BudgetGrows
    <3>4. (n + g) * RefillTicks <= Budget(a, k) + RefillTokens * now
      BY <1>7, <1>9, <3>2, <3>3 DEF Level
    <3>5. k * Window <= b + Lag - a
      <4>1. k * Window \in Int
        BY ExpiryProducts
      <4> QED
        BY <1>3, <1>4, <1>6, <1>9, <2>1, <4>1
    <3> QED
      BY <1>1, <1>6, <1>9, <3>1, <3>4, <3>5 DEF SpentFits
  <2>2. CASE g = 0
    <3>1. n > 0 /\ Between(next, a, b) = n
      BY <1>6, <2>2
    <3>2. PICK j \in Nat, last \in a .. b :
            /\ j * Window <= b + Lag - a /\ j * Window <= script - a /\ last <= script
            /\ n * RefillTicks <= Budget(a, j) + RefillTokens * last
      BY <1>2, <1>5, <3>1 DEF BucketFits, SpentFits
    <3>3. j * Window <= time - a /\ last <= time
      <4>1. j * Window \in Int /\ last \in Int
        BY <1>4, ExpiryProducts
      <4> QED
        BY <1>2, <1>3, <1>4, <3>2, <4>1
    <3> QED
      BY <1>1, <3>1, <3>2, <3>3 DEF SpentFits
  <2> QED
    BY <2>1, <2>2
<1> QED
  BY <1>10, <1>11

LEMMA BucketStays ==
    ASSUME BucketInv, RateRowsOK, UNCHANGED <<bucket, granted>>, clock' \in Ticks, clock <= clock'
    PROVE  BucketInv'
<1>1. PICK script \in Int : script = LastScript(bucket) /\ script <= clock
  <2>1. bucket.expires \in Int /\ Window \in Int
    BY RateNumbers DEF RateRowsOK
  <2> QED
    BY <2>1 DEF BucketInv, LastScript
<1>2. LastScript(bucket)' = script /\ granted'["bucket"] = granted["bucket"] /\ bucket' = bucket
  BY <1>1 DEF LastScript
<1>3. script <= clock'
  BY <1>1, RateNumbers DEF RateRowsOK
<1>4. Rising(granted'["bucket"]) /\ BucketFits(granted'["bucket"], bucket')
  BY <1>2 DEF BucketInv
<1> QED
  BY <1>2, <1>3, <1>4 DEF BucketInv

LEMMA ScriptFits ==
    ASSUME RateInv, BucketInv, NEW r \in Requests, CheckTokenBucket(r)
    PROVE  BucketInv'
<1>1. PICK now \in Ticks : now = stamp[r] /\ now <= clock /\ clock <= now + Lag
  <2>1. rpc[r] # "idle"
    BY DEF CheckTokenBucket
  <2> QED
    BY <2>1 DEF RateInv, RateRowsOK, StampsFresh
<1>2. PICK tokens \in Int :
        /\ tokens <= Capacity
        /\ tokens = IF bucket.expires > clock THEN Tokens(now) ELSE Capacity
        /\ bucket' = [tokens |-> IF tokens >= 1 THEN tokens - 1 ELSE tokens,
                      lastRefill |-> now, expires |-> clock + Window]
        /\ IF tokens >= 1 THEN Grant("bucket", now) ELSE Refuse
        /\ clock' = clock
  BY <1>1, TokensTyped, RateNumbers DEF CheckTokenBucket, RateInv
<1>3. PICK d \in {0, 1} : d = 1 <=> tokens >= 1
  OBVIOUS
<1>4. PICK totals \in [Ticks -> Nat] : totals = granted["bucket"] /\ Rising(totals)
  BY TiersAreChecks DEF RateInv, RateRowsOK, BucketInv
<1>5. PICK row \in [tokens: Int, lastRefill: Ticks, expires: Int] : row = bucket
  BY DEF RateInv, RateRowsOK
<1>6. PICK time \in Ticks : time = clock
  BY DEF RateInv, RateRowsOK
<1>7. PICK next \in [Ticks -> Nat] :
        /\ next = IF d = 1 THEN OneMore(totals, now) ELSE totals
        /\ Rising(next) /\ granted'["bucket"] = next
  <2>1. CASE d = 1
    <3>1. granted' = [granted EXCEPT !["bucket"] = OneMore(totals, now)]
      BY <1>2, <1>3, <1>4, <2>1 DEF Grant
    <3>2. "bucket" \in DOMAIN granted
      BY TiersAreChecks DEF RateInv, RateRowsOK
    <3>3. granted'["bucket"] = OneMore(totals, now)
      BY <3>1, <3>2
    <3>4. OneMore(totals, now) \in [Ticks -> Nat] /\ Rising(OneMore(totals, now))
      BY <1>4, OneMoreTyped, OneMoreRises
    <3> QED
      BY <2>1, <3>3, <3>4
  <2>2. CASE d = 0
    BY <1>2, <1>3, <1>4, <2>2 DEF Refuse
  <2> QED
    BY <2>1, <2>2
<1>8. bucket' = [tokens |-> tokens - d, lastRefill |-> now, expires |-> time + Window]
  BY <1>2, <1>3, <1>6
<1>9. \/ Level(tokens, now) <= Level(row.tokens, row.lastRefill)
      \/ row.expires <= time /\ tokens = Capacity
  <2>1. CASE bucket.expires > clock
    <3>1. Level(Tokens(now), now) <= Level(bucket.tokens, bucket.lastRefill)
      BY RefillKeepsLevel DEF RateInv
    <3> QED
      BY <1>2, <1>5, <2>1, <3>1
  <2>2. CASE ~(bucket.expires > clock)
    <3>1. row.expires \in Int /\ time \in Int
      BY RateNumbers
    <3> QED
      BY <1>2, <1>5, <1>6, <2>2, <3>1
  <2> QED
    BY <2>1, <2>2
<1>10. BucketFits(next, [tokens |-> tokens - d, lastRefill |-> now, expires |-> time + Window])
  <2>1. BucketFits(totals, row) /\ LastScript(row) <= time
    BY <1>4, <1>5, <1>6 DEF BucketInv
  <2>2. now <= time /\ time <= now + Lag
    BY <1>1, <1>6
  <2> QED
    BY <1>2, <1>3, <1>4, <1>7, <1>9, <2>1, <2>2, FitsAfterScript
<1>11. LastScript(bucket)' <= clock'
  <2>1. bucket'.expires = time + Window
    BY <1>8
  <2>2. LastScript(bucket)' = (time + Window) - Window
    BY <2>1 DEF LastScript
  <2> QED
    BY <1>2, <1>6, <2>2, RateNumbers
<1> QED
  BY <1>7, <1>8, <1>10, <1>11 DEF BucketInv

LEMMA BucketUntouched ==
    ASSUME RateInv, BucketInv, UNCHANGED <<clock, bucket>>, granted'["bucket"] = granted["bucket"]
    PROVE  BucketInv'
<1>1. LastScript(bucket)' = LastScript(bucket)
  BY DEF LastScript
<1> QED
  BY <1>1 DEF BucketInv

LEMMA BucketInvariant == RateSpec => []BucketInv
<1>1. RateInit => BucketInv
  <2> SUFFICES ASSUME RateInit PROVE BucketInv
    OBVIOUS
  <2>1. \A t \in Ticks : granted["bucket"][t] = 0
    BY TiersAreChecks DEF RateInit, Never
  <2>2. Rising(granted["bucket"])
    BY <2>1 DEF Rising
  <2>3. LastScript(bucket) <= clock
    <3>1. bucket.expires = -1 /\ clock = 0
      BY DEF RateInit, NoBucket
    <3> QED
      BY <3>1, RateNumbers DEF LastScript
  <2>4. ASSUME NEW a \in Ticks, NEW b \in Ticks PROVE Between(granted["bucket"], a, b) = 0
    <3>1. a \in Nat /\ b \in Nat /\ a - 1 \in Int /\ a <= LastTick
      BY RateNumbers
    <3>2. a - 1 < 0 \/ a - 1 \in Ticks
      BY <3>1, RateNumbers DEF Ticks
    <3>3. Upto(granted["bucket"], b) = 0 /\ Upto(granted["bucket"], a - 1) = 0
      BY <2>1, <3>1, <3>2 DEF Upto
    <3> QED
      BY <3>3 DEF Between
  <2>5. BucketFits(granted["bucket"], bucket)
    BY <2>4 DEF BucketFits
  <2> QED
    BY <2>2, <2>3, <2>5 DEF BucketInv
<1>2. RateInv /\ BucketInv /\ [RateNext]_rateVars => BucketInv'
  <2> SUFFICES ASSUME RateInv, BucketInv, [RateNext]_rateVars PROVE BucketInv'
    OBVIOUS
  <2>1. CASE UNCHANGED rateVars
    BY <2>1, BucketUntouched DEF rateVars
  <2>2. ASSUME NEW r \in Requests, CheckRateLimit(r) \/ RedisFault(r) PROVE BucketInv'
    BY <2>2, BucketUntouched DEF CheckRateLimit, RedisFault
  <2>3. ASSUME NEW r \in Requests, CheckTokenBucket(r) PROVE BucketInv'
    BY <2>3, ScriptFits
  <2>4. ASSUME NEW r \in Requests, CheckSlidingWindow(r) PROVE BucketInv'
    <3>1. PICK tier \in Tiers : Grant(tier, stamp[r]) \/ granted' = granted
      BY <2>4 DEF CheckSlidingWindow, Refuse
    <3>2. tier # "bucket"
      BY TiersAreChecks
    <3>3. granted'["bucket"] = granted["bucket"]
      BY <3>1, <3>2, TiersAreChecks DEF Grant, RateInv, RateRowsOK
    <3>4. UNCHANGED <<clock, bucket>>
      BY <2>4 DEF CheckSlidingWindow
    <3> QED
      BY <3>3, <3>4, BucketUntouched
  <2>5. CASE CheckLogin \/ CleanupExpiredEntries \/ Restart
    BY <2>5, BucketUntouched DEF CheckLogin, CleanupExpiredEntries, Restart
  <2>6. CASE Tick
    <3>1. clock' \in Ticks /\ clock <= clock' /\ UNCHANGED <<bucket, granted>>
      BY <2>6, RateNumbers DEF Tick, RateInv, RateRowsOK, Ticks
    <3> QED
      BY <3>1, BucketStays DEF RateInv
  <2> QED
    BY <2>1, <2>2, <2>3, <2>4, <2>5, <2>6 DEF RateNext
<1> QED
  BY <1>1, <1>2, RateInvariant, PTL DEF RateSpec

(* rate-limit.service.ts, checkTokenBucket: whatever the capacity beside the refill, the  *)
(* order of the scripts, their lag and the expiries of the key, between two times a       *)
(* bucket lets pass, of the requests Redis answers, no more than its capacity and what it *)
(* is refilled with, and in each window what an expiry gives away.                        *)
THEOREM BucketsKeepLimits == RateSpec => []BucketsBound
<1>1. ASSUME RateInv, BucketInv PROVE BucketsBound
  <2> SUFFICES ASSUME NEW a \in Ticks, NEW b \in Ticks, a <= b
               PROVE  Between(granted["bucket"], a, b) * RefillTicks
                        <= Capacity * RefillTicks + RefillTokens * (b - a)
                           + GivenAway * ((b - a + Lag) \div Window)
    BY DEF BucketsBound, GivenAway
  <2>1. a \in Int /\ b \in Int /\ a - 1 <= b /\ b <= LastTick /\ Lag \in Nat
    BY RateNumbers
  <2>2. PICK n \in Nat : n = Between(granted["bucket"], a, b)
    <3>1. granted["bucket"] \in [Ticks -> Nat] /\ Rising(granted["bucket"])
      BY <1>1, TiersAreChecks DEF RateInv, RateRowsOK, BucketInv
    <3> QED
      BY <2>1, <3>1, BetweenTyped
  <2>3. PICK q \in Nat : /\ q = (b - a + Lag) \div Window
                         /\ \A k \in Nat : k * Window <= b + Lag - a => k <= q
    <3>1. ASSUME NEW w \in Nat, w > 0, NEW x \in Nat
          PROVE  x \div w \in Nat /\ \A k \in Nat : k * w <= x => k <= x \div w
      <4>1. PICK y \in Int : y = x \div w /\ w * y <= x /\ x < w * y + w
        BY <3>1
      <4>2. y >= 0
        BY <3>1, <4>1
      <4>3. ASSUME NEW k \in Nat, k * w <= x PROVE k <= y
        <5>1. SUFFICES ASSUME k >= y + 1 PROVE FALSE
          BY <4>1
        <5>2. k * w >= (y + 1) * w
          BY <3>1, <4>1, <5>1
        <5>3. (y + 1) * w = w * y + w /\ k * w \in Int /\ w * y \in Int
          BY <3>1, <4>1
        <5> QED
          BY <4>1, <4>3, <5>2, <5>3
      <4> QED
        BY <4>1, <4>2, <4>3
    <3>2. b - a + Lag \in Nat /\ b + Lag - a = b - a + Lag /\ Window \in Nat /\ Window > 0
      BY <2>1, RateNumbers, ExpiryProducts
    <3> QED
      BY <3>1, <3>2
  <2>4. RefillTokens * (b - a) = RefillTokens * b - RefillTokens * a
    BY <2>1, RefillProducts
  <2>5. /\ Capacity * RefillTicks \in Int /\ GivenAway * q \in Int
        /\ RefillTokens * a \in Int /\ RefillTokens * b \in Int
    BY <2>1, RateNumbers, TickProducts, RefillProducts, ExpiryProducts
  <2>6. n * RefillTicks <= Capacity * RefillTicks + (RefillTokens * b - RefillTokens * a) + GivenAway * q
    <3>1. CASE n = 0
      <4>1. 0 * RefillTicks = 0 /\ 0 <= Capacity * RefillTicks
        BY RateNumbers
      <4>2. RefillTokens * a <= RefillTokens * b
        BY <2>1, RefillProducts
      <4>3. GivenAway * 0 = 0 /\ GivenAway * 0 <= GivenAway * q
        <5>1. 0 \in Int /\ q \in Int /\ 0 <= q
          BY <2>3
        <5>2. GivenAway * 0 <= GivenAway * q
          BY <5>1, ExpiryProducts
        <5> QED
          BY <5>2, NothingGivenAway
      <4> QED
        BY <2>5, <3>1, <4>1, <4>2, <4>3
    <3>2. CASE n > 0
      <4>1. PICK k \in Nat, last \in a .. b :
              /\ k * Window <= b + Lag - a
              /\ n * RefillTicks <= Budget(a, k) + RefillTokens * last
        BY <1>1, <2>2, <3>2 DEF BucketInv, BucketFits, SpentFits
      <4>2. k <= q /\ last \in Int /\ last <= b /\ k \in Int
        BY <2>1, <2>3, <4>1
      <4>3. RefillTokens * last <= RefillTokens * b /\ RefillTokens * last \in Int
        BY <2>1, <4>2, RefillProducts
      <4>4. GivenAway * k <= GivenAway * q /\ GivenAway * k \in Int
        <5>1. q \in Int /\ k \in Int /\ k <= q
          BY <4>2
        <5> QED
          BY <5>1, ExpiryProducts
      <4>5. n * RefillTicks \in Int
        BY TickProducts
      <4> QED
        BY <2>5, <4>1, <4>3, <4>4, <4>5 DEF Budget
    <3> QED
      BY <3>1, <3>2
  <2> QED
    BY <2>2, <2>3, <2>4, <2>5, <2>6
<1> QED
  BY <1>1, RateInvariant, BucketInvariant, PTL

-----------------------------------------------------------------------------
(* The login counter.  Its window began at s: since then it has let pass no more than  *)
(* it counted and no more than the limit; nor did any stretch of a window's length     *)
(* that ended before s; and once the window is over it lets nothing pass.  A counter   *)
(* that was forgotten leaves such a window behind, and that window is over.            *)

StretchEnd(a) == Min({LastTick, a + LoginWindow - 1})
TwiceAtMost(totals) == \A a \in Ticks : Between(totals, a, StretchEnd(a)) <= 2 * MaxAttempts
QuietAfter(totals, time) == \A t \in Ticks : t >= time => totals[t] = totals[time]

CounterFits(totals, entry, time, s) ==
    /\ s <= time
    /\ IF entry.resetTime = -1 THEN s + LoginWindow <= time
       ELSE entry.resetTime = s + LoginWindow /\ Between(totals, s, time) <= entry.count
    /\ Between(totals, s, time) <= MaxAttempts
    /\ \A a \in s - LoginWindow + 1 .. s : Between(totals, a, s - 1) <= MaxAttempts
    /\ time >= s + LoginWindow => Between(totals, s + LoginWindow, time) = 0

LoginInv ==
    /\ passed \in [Ticks -> Nat] /\ Rising(passed) /\ QuietAfter(passed, clock)
    /\ LoginWindow > 0 => /\ TwiceAtMost(passed)
                          /\ \E s \in Int : CounterFits(passed, attempts, clock, s)

LEMMA StretchEnds ==
    \A a \in Ticks : /\ StretchEnd(a) \in Int /\ StretchEnd(a) <= LastTick /\ a - 1 <= StretchEnd(a)
                     /\ StretchEnd(a) <= a + LoginWindow - 1
<1> SUFFICES ASSUME NEW a \in Ticks
             PROVE  /\ StretchEnd(a) \in Int /\ StretchEnd(a) <= LastTick /\ a - 1 <= StretchEnd(a)
                    /\ StretchEnd(a) <= a + LoginWindow - 1
  OBVIOUS
<1>1. a \in Nat /\ a <= LastTick /\ LastTick \in Nat /\ LoginWindow \in Nat
  BY RateNumbers
<1>2. \E m \in {LastTick, a + LoginWindow - 1} : \A y \in {LastTick, a + LoginWindow - 1} : m =< y
  BY <1>1
<1>3. StretchEnd(a) \in {LastTick, a + LoginWindow - 1} /\ \A y \in {LastTick, a + LoginWindow - 1} : StretchEnd(a) =< y
  BY <1>2 DEF StretchEnd, Min
<1> QED
  BY <1>1, <1>3

LEMMA NothingAfter ==
    ASSUME NEW totals \in [Ticks -> Nat], NEW time \in Ticks, QuietAfter(totals, time),
           NEW b \in Int, time <= b, b <= LastTick
    PROVE  Between(totals, time + 1, b) = 0
<1>1. time \in Nat /\ b \in Ticks
  BY RateNumbers DEF Ticks
<1>2. totals[b] = totals[time] /\ totals[time] \in Nat
  BY <1>1 DEF QuietAfter
<1>3. Upto(totals, b) = totals[b] /\ Upto(totals, (time + 1) - 1) = totals[time]
  BY <1>1 DEF Upto
<1> QED
  BY <1>2, <1>3 DEF Between

(* Where an attempt counts: in the window that runs, or in one that begins with it. *)
LEMMA CounterAtAttempt ==
    ASSUME NEW totals \in [Ticks -> Nat], Rising(totals), NEW time \in Ticks, LoginWindow > 0,
           NEW entry \in [count: Nat, resetTime: Int], NEW s \in Int, CounterFits(totals, entry, time, s),
           NEW start, start = IF time >= entry.resetTime THEN time ELSE s,
           NEW count, count = IF time >= entry.resetTime THEN 0 ELSE entry.count
    PROVE  /\ start \in Int /\ start <= time /\ time < start + LoginWindow /\ count \in Nat
           /\ time < entry.resetTime => entry.resetTime = start + LoginWindow
           /\ Between(totals, start, time) <= count /\ Between(totals, start, time) <= MaxAttempts
           /\ \A a \in start - LoginWindow + 1 .. start : Between(totals, a, start - 1) <= MaxAttempts
<1>1. time \in Nat /\ time <= LastTick /\ LoginWindow \in Nat /\ MaxAttempts \in Nat /\ entry.resetTime \in Int
      /\ entry.count \in Nat /\ LastTick \in Nat
  BY RateNumbers
<1>2. CASE time < entry.resetTime
  <2>1. start = s /\ count = entry.count
    BY <1>1, <1>2
  <2>2. entry.resetTime # -1
    BY <1>1, <1>2
  <2>3. entry.resetTime = s + LoginWindow /\ Between(totals, s, time) <= entry.count /\ s <= time
    BY <2>2 DEF CounterFits
  <2>4. /\ Between(totals, s, time) <= MaxAttempts
        /\ \A a \in s - LoginWindow + 1 .. s : Between(totals, a, s - 1) <= MaxAttempts
    BY DEF CounterFits
  <2> QED
    BY <1>1, <1>2, <2>1, <2>3, <2>4
<1>3. CASE time >= entry.resetTime
  <2>1. start = time /\ count = 0
    BY <1>3
  <2>2. s + LoginWindow <= time
    BY <1>1, <1>3 DEF CounterFits
  <2>3. PICK over \in Int : over = s + LoginWindow /\ over <= time
    BY <1>1, <2>2
  <2>4. Between(totals, over, time) = 0 /\ Between(totals, s, time) <= MaxAttempts
    BY <1>1, <2>3 DEF CounterFits
  <2>5. Between(totals, time, time) = 0
    <3>1. Between(totals, over, time) = Between(totals, over, time - 1) + Between(totals, time, time)
      BY <1>1, <2>3, BetweenSplits
    <3>2. Between(totals, over, time - 1) \in Nat /\ Between(totals, time, time) \in Nat
      <4>1. time - 1 \in Int /\ over - 1 <= time - 1 /\ time - 1 <= LastTick /\ time - 1 <= time
        BY <1>1, <2>3
      <4>2. Between(totals, over, time - 1) \in Nat
        BY <2>3, <4>1, BetweenTyped
      <4> QED
        BY <1>1, <4>1, <4>2, BetweenTyped
    <3> QED
      BY <2>4, <3>1, <3>2
  <2>6. ASSUME NEW a \in time - LoginWindow + 1 .. time PROVE Between(totals, a, time - 1) <= MaxAttempts
    <3>1. a \in Int /\ a <= time /\ s <= a
      BY <1>1, <2>2
    <3>2. Between(totals, s, time) = Between(totals, s, a - 1) + Between(totals, a, time)
      BY <1>1, <3>1, BetweenSplits
    <3>3. Between(totals, a, time) = Between(totals, a, time - 1) + Between(totals, time, time)
      BY <1>1, <3>1, BetweenSplits
    <3>4. Between(totals, s, a - 1) \in Nat /\ Between(totals, a, time - 1) \in Nat
      <4>1. a - 1 \in Int /\ s - 1 <= a - 1 /\ a - 1 <= LastTick /\ a - 1 <= time - 1
        BY <1>1, <3>1
      <4>2. Between(totals, s, a - 1) \in Nat
        BY <4>1, BetweenTyped
      <4>3. time - 1 \in Int /\ time - 1 <= LastTick
        BY <1>1
      <4> QED
        BY <3>1, <4>1, <4>2, <4>3, BetweenTyped
    <3> QED
      BY <1>1, <2>4, <2>5, <3>2, <3>3, <3>4
  <2>7. time < time + LoginWindow /\ 0 <= MaxAttempts
    BY <1>1
  <2> QED
    BY <1>1, <1>3, <2>1, <2>5, <2>6, <2>7
<1> QED
  BY <1>1, <1>2, <1>3

LEMMA AttemptFits ==
    ASSUME NEW totals \in [Ticks -> Nat], Rising(totals), NEW time \in Ticks, QuietAfter(totals, time),
           LoginWindow > 0, TwiceAtMost(totals), NEW start \in Int, NEW count \in Nat,
           start <= time, time < start + LoginWindow,
           Between(totals, start, time) <= count, Between(totals, start, time) <= MaxAttempts,
           \A a \in start - LoginWindow + 1 .. start : Between(totals, a, start - 1) <= MaxAttempts,
           NEW next \in [Ticks -> Nat], Rising(next), QuietAfter(next, time),
           next = IF count + 1 <= MaxAttempts THEN OneMore(totals, time) ELSE totals
    PROVE  /\ CounterFits(next, [count |-> count + 1, resetTime |-> start + LoginWindow], time, start)
           /\ TwiceAtMost(next)
<1>1. time \in Nat /\ time <= LastTick /\ LoginWindow \in Nat /\ MaxAttempts \in Nat /\ LastTick \in Nat
  BY RateNumbers
<1>2. ASSUME NEW a \in Int, NEW b \in Int, a - 1 <= b, b <= LastTick
      PROVE  /\ Between(totals, a, b) \in Nat
             /\ Between(next, a, b) = Between(totals, a, b) +
                  IF count + 1 <= MaxAttempts /\ a <= time /\ time <= b THEN 1 ELSE 0
  <2>1. Between(totals, a, b) \in Nat
    BY <1>2, BetweenTyped
  <2>2. CASE count + 1 <= MaxAttempts
    <3>1. Between(next, a, b) = Between(totals, a, b) + IF a <= time /\ time <= b THEN 1 ELSE 0
      BY <1>2, <2>2, BetweenOneMore
    <3> QED
      BY <2>1, <2>2, <3>1
  <2>3. CASE ~(count + 1 <= MaxAttempts)
    BY <2>1, <2>3
  <2> QED
    BY <2>1, <2>2, <2>3
<1>3. Between(next, start, time) <= count + 1 /\ Between(next, start, time) <= MaxAttempts
  <2>1. PICK n \in Nat : n = Between(totals, start, time)
    BY <1>1, <1>2
  <2>2. Between(next, start, time) = n + IF count + 1 <= MaxAttempts THEN 1 ELSE 0
    BY <1>1, <1>2, <2>1
  <2> QED
    BY <1>1, <2>1, <2>2
<1>4. ASSUME NEW a \in start - LoginWindow + 1 .. start PROVE Between(next, a, start - 1) <= MaxAttempts
  <2>1. a \in Int /\ a - 1 <= start - 1 /\ start - 1 <= LastTick /\ ~(time <= start - 1)
    BY <1>1
  <2>2. Between(next, a, start - 1) = Between(totals, a, start - 1) + 0 /\ Between(totals, a, start - 1) \in Nat
    BY <1>2, <2>1
  <2> QED
    BY <2>2
<1>5. CounterFits(next, [count |-> count + 1, resetTime |-> start + LoginWindow], time, start)
  <2>1. start + LoginWindow # -1 /\ ~(time >= start + LoginWindow)
    BY <1>1
  <2> QED
    BY <1>3, <1>4, <2>1 DEF CounterFits
<1>6. ASSUME NEW a \in Ticks PROVE Between(next, a, StretchEnd(a)) <= 2 * MaxAttempts
  <2>1. PICK b \in Int : b = StretchEnd(a) /\ b <= LastTick /\ a - 1 <= b /\ b <= a + LoginWindow - 1
    BY StretchEnds
  <2>2. a \in Nat
    BY RateNumbers
  <2>3. CASE a <= time /\ time <= b
    <3>1. Between(next, a, b) = Between(next, a, time) + Between(next, time + 1, b)
      <4>1. time + 1 \in Int /\ a <= time + 1 /\ (time + 1) - 1 <= b /\ (time + 1) - 1 = time
        BY <1>1, <2>2, <2>3
      <4> QED
        BY <2>1, <2>2, <4>1, BetweenSplits
    <3>2. Between(next, time + 1, b) = 0
      BY <2>1, <2>3, NothingAfter
    <3>3. Between(next, a, time) \in Nat
      BY <1>1, <2>2, <2>3, BetweenTyped
    <3>4. CASE a >= start
      <4>1. Between(next, start, time) = Between(next, start, a - 1) + Between(next, a, time)
        BY <1>1, <2>2, <2>3, <3>4, BetweenSplits
      <4>2. Between(next, start, a - 1) \in Nat
        BY <1>1, <2>2, <2>3, <3>4, BetweenTyped
      <4> QED
        BY <1>1, <1>3, <2>1, <3>1, <3>2, <3>3, <4>1, <4>2
    <3>5. CASE a < start
      <4>1. a \in start - LoginWindow + 1 .. start
        BY <1>1, <2>1, <2>2, <2>3, <3>5
      <4>2. Between(next, a, time) = Between(next, a, start - 1) + Between(next, start, time)
        BY <1>1, <2>2, <3>5, BetweenSplits
      <4>3. Between(next, a, start - 1) \in Nat /\ Between(next, start, time) \in Nat
        BY <1>1, <2>2, <3>5, BetweenTyped
      <4>4. Between(next, a, start - 1) <= MaxAttempts
        BY <1>4, <4>1
      <4> QED
        BY <1>1, <1>3, <2>1, <3>1, <3>2, <3>3, <4>2, <4>3, <4>4
    <3> QED
      BY <2>2, <3>4, <3>5
  <2>4. CASE ~(a <= time /\ time <= b)
    <3>1. Between(next, a, b) = Between(totals, a, b) + 0 /\ Between(totals, a, b) \in Nat
      BY <1>2, <2>1, <2>2, <2>4
    <3> QED
      BY <2>1, <3>1 DEF TwiceAtMost
  <2> QED
    BY <2>3, <2>4
<1> QED
  BY <1>5, <1>6 DEF TwiceAtMost

LEMMA LoginsUntouched ==
    ASSUME RateInv, LoginInv, UNCHANGED <<clock, attempts, passed>>
    PROVE  LoginInv'
BY DEF LoginInv

LEMMA AttemptKeepsLogins == ASSUME RateInv, LoginInv, CheckLogin PROVE LoginInv'
<1>1. PICK time \in Ticks : time = clock
  BY DEF RateInv, RateRowsOK
<1>2. PICK totals \in [Ticks -> Nat] : totals = passed /\ Rising(totals) /\ QuietAfter(totals, time)
  BY <1>1 DEF LoginInv
<1>3. PICK entry \in [count: Nat, resetTime: Int] : entry = attempts
  <2>1. attempts \in [count: 0 .. MaxAttempts + 1, resetTime: Int] /\ 0 .. MaxAttempts + 1 \subseteq Nat
    BY RateNumbers DEF RateInv, RateRowsOK
  <2> QED
    BY <2>1
<1>4. PICK count \in Nat : count = IF time >= entry.resetTime THEN 0 ELSE entry.count
  OBVIOUS
<1>5. PICK until \in Int : until = IF time >= entry.resetTime THEN time + LoginWindow ELSE entry.resetTime
  BY RateNumbers
<1>6. /\ attempts' = [count |-> count + 1, resetTime |-> until]
      /\ passed' = IF count + 1 <= MaxAttempts THEN OneMore(totals, time) ELSE totals
      /\ clock' = time
  <2>1. [count |-> count, resetTime |-> until] =
          IF clock >= attempts.resetTime THEN [count |-> 0, resetTime |-> clock + LoginWindow] ELSE attempts
    BY <1>1, <1>3, <1>4, <1>5
  <2>2. PICK row : row = [count |-> count, resetTime |-> until]
    OBVIOUS
  <2>3. /\ attempts' = [row EXCEPT !.count = @ + 1] /\ clock' = clock
        /\ passed' = IF row.count + 1 <= MaxAttempts THEN OneMore(passed, clock) ELSE passed
    BY <2>1, <2>2 DEF CheckLogin
  <2> QED
    BY <1>1, <1>2, <2>2, <2>3
<1>7. PICK next \in [Ticks -> Nat] : next = passed' /\ Rising(next) /\ QuietAfter(next, time)
  <2>1. CASE count + 1 <= MaxAttempts
    <3>1. OneMore(totals, time) \in [Ticks -> Nat] /\ Rising(OneMore(totals, time))
      BY <1>2, OneMoreTyped, OneMoreRises
    <3>2. ASSUME NEW t \in Ticks, t >= time PROVE OneMore(totals, time)[t] = OneMore(totals, time)[time]
      <4>1. totals[t] = totals[time] /\ time >= time
        BY <1>2, <3>2, RateNumbers DEF QuietAfter
      <4> QED
        BY <3>2, <4>1, OneMoreTyped
    <3> QED
      BY <1>6, <2>1, <3>1, <3>2 DEF QuietAfter
  <2>2. CASE ~(count + 1 <= MaxAttempts)
    BY <1>2, <1>6, <2>2
  <2> QED
    BY <2>1, <2>2
<1>8. ASSUME LoginWindow > 0
      PROVE  TwiceAtMost(next) /\ \E s \in Int : CounterFits(next, attempts', time, s)
  <2>1. PICK s \in Int : CounterFits(totals, entry, time, s)
    BY <1>1, <1>2, <1>3, <1>8 DEF LoginInv
  <2>2. PICK start : start = IF time >= entry.resetTime THEN time ELSE s
    OBVIOUS
  <2>3. /\ start \in Int /\ start <= time /\ time < start + LoginWindow
        /\ time < entry.resetTime => entry.resetTime = start + LoginWindow
        /\ Between(totals, start, time) <= count /\ Between(totals, start, time) <= MaxAttempts
        /\ \A a \in start - LoginWindow + 1 .. start : Between(totals, a, start - 1) <= MaxAttempts
    BY <1>2, <1>4, <1>8, <2>1, <2>2, CounterAtAttempt
  <2>4. until = start + LoginWindow
    <3>1. time \in Int /\ entry.resetTime \in Int
      BY RateNumbers
    <3> QED
      BY <1>5, <2>2, <2>3, <3>1
  <2>5. TwiceAtMost(totals)
    BY <1>2, <1>8 DEF LoginInv
  <2>6. /\ CounterFits(next, [count |-> count + 1, resetTime |-> start + LoginWindow], time, start)
        /\ TwiceAtMost(next)
    BY <1>2, <1>6, <1>7, <1>8, <2>3, <2>5, AttemptFits
  <2> QED
    BY <1>6, <2>3, <2>4, <2>6
<1> QED
  BY <1>6, <1>7, <1>8 DEF LoginInv

LEMMA CleanupKeepsLogins == ASSUME RateInv, LoginInv, CleanupExpiredEntries PROVE LoginInv'
<1>1. /\ attempts.resetTime # -1 /\ clock >= attempts.resetTime
      /\ attempts' = NoEntry /\ UNCHANGED <<clock, passed>>
  BY DEF CleanupExpiredEntries
<1>2. ASSUME NEW s \in Int, CounterFits(passed, attempts, clock, s) PROVE CounterFits(passed, NoEntry, clock, s)
  <2>1. s + LoginWindow <= clock
    <3>1. clock \in Int /\ attempts.resetTime = s + LoginWindow /\ LoginWindow \in Int
      BY <1>1, <1>2, RateNumbers DEF CounterFits, RateInv, RateRowsOK
    <3> QED
      BY <1>1, <3>1
  <2>2. NoEntry.resetTime = -1
    BY DEF NoEntry
  <2> QED
    BY <1>2, <2>1, <2>2 DEF CounterFits
<1> QED
  BY <1>1, <1>2 DEF LoginInv

(* A process that starts has let nothing pass. *)
LEMMA NothingPassed ==
    ASSUME NEW time \in Ticks
    PROVE  /\ Never \in [Ticks -> Nat] /\ Rising(Never) /\ QuietAfter(Never, time) /\ TwiceAtMost(Never)
           /\ CounterFits(Never, NoEntry, time, -LoginWindow)
<1>1. \A t \in Ticks : Never[t] = 0
  BY DEF Never
<1>2. Never \in [Ticks -> Nat] /\ Rising(Never) /\ QuietAfter(Never, time)
  <2>1. Never \in [Ticks -> Nat]
    BY DEF Never
  <2>2. Rising(Never)
    BY <1>1 DEF Rising
  <2>3. QuietAfter(Never, time)
    BY <1>1 DEF QuietAfter
  <2> QED
    BY <2>1, <2>2, <2>3
<1>3. ASSUME NEW a \in Int, NEW b \in Int, a - 1 <= b, b <= LastTick PROVE Between(Never, a, b) = 0
  <2>1. \A t \in Int : t <= LastTick => t < 0 \/ t \in Ticks
    BY RateNumbers DEF Ticks
  <2>2. \A t \in Int : t <= LastTick => Upto(Never, t) = 0
    BY <1>1, <2>1 DEF Upto
  <2>3. a - 1 \in Int /\ a - 1 <= LastTick
    BY <1>3, RateNumbers
  <2>4. Upto(Never, a - 1) = 0 /\ Upto(Never, b) = 0
    BY <1>3, <2>2, <2>3
  <2> QED
    BY <2>4 DEF Between
<1>4. time \in Nat /\ time <= LastTick /\ LastTick \in Nat /\ MaxAttempts \in Nat /\ LoginWindow \in Nat
  BY RateNumbers
<1>5. TwiceAtMost(Never)
  <2> SUFFICES ASSUME NEW a \in Ticks PROVE Between(Never, a, StretchEnd(a)) <= 2 * MaxAttempts
    BY DEF TwiceAtMost
  <2>1. a \in Int
    BY RateNumbers
  <2>2. Between(Never, a, StretchEnd(a)) = 0
    BY <1>3, <2>1, StretchEnds
  <2> QED
    BY <1>4, <2>2
<1>6. CounterFits(Never, NoEntry, time, -LoginWindow)
  <2>1. PICK s \in Int : s = -LoginWindow /\ s <= 0 /\ s + LoginWindow = 0
    BY <1>4
  <2>2. Between(Never, s, time) = 0 /\ Between(Never, 0, time) = 0
    BY <1>3, <1>4, <2>1
  <2>3. ASSUME NEW a \in s - LoginWindow + 1 .. s PROVE Between(Never, a, s - 1) <= MaxAttempts
    <3>1. a \in Int /\ s - 1 \in Int /\ a - 1 <= s - 1 /\ s - 1 <= LastTick
      BY <1>4, <2>1
    <3>2. Between(Never, a, s - 1) = 0
      BY <1>3, <3>1
    <3> QED
      BY <1>4, <3>2
  <2>4. NoEntry.resetTime = -1 /\ s <= time /\ 0 <= time /\ 0 <= MaxAttempts
    BY <1>4, <2>1 DEF NoEntry
  <2>5. CounterFits(Never, NoEntry, time, s)
    BY <2>1, <2>2, <2>3, <2>4 DEF CounterFits
  <2> QED
    BY <2>1, <2>5
<1> QED
  BY <1>2, <1>5, <1>6

LEMMA RestartKeepsLogins == ASSUME RateInv, Restart PROVE LoginInv'
<1>1. attempts' = NoEntry /\ passed' = Never /\ clock' = clock /\ clock \in Ticks /\ -LoginWindow \in Int
  BY RateNumbers DEF Restart, RateInv, RateRowsOK
<1> QED
  BY <1>1, NothingPassed DEF LoginInv

LEMMA TickKeepsLogins == ASSUME RateInv, LoginInv, Tick PROVE LoginInv'
<1>1. PICK time \in Ticks : time = clock
  BY DEF RateInv, RateRowsOK
<1>2. PICK totals \in [Ticks -> Nat] : totals = passed /\ Rising(totals) /\ QuietAfter(totals, time)
  BY <1>1 DEF LoginInv
<1>3. PICK later \in Ticks : later = time + 1 /\ clock' = later
  <2>1. clock' = time + 1 /\ time < LastTick
    BY <1>1 DEF Tick
  <2> QED
    BY <2>1, RateNumbers DEF Ticks
<1>4. UNCHANGED <<attempts, passed>>
  BY DEF Tick
<1>5. QuietAfter(totals, later)
  <2>1. \A t \in Ticks : t >= later => t >= time
    BY <1>3, RateNumbers
  <2>2. later >= time
    BY <1>3, RateNumbers
  <2> QED
    BY <1>2, <2>1, <2>2 DEF QuietAfter
<1>6. ASSUME NEW s \in Int, CounterFits(totals, attempts, time, s) PROVE CounterFits(totals, attempts, later, s)
  <2>1. time \in Nat /\ later \in Nat /\ later <= LastTick /\ LastTick \in Nat /\ LoginWindow \in Nat /\ s <= time
    BY <1>6, RateNumbers DEF CounterFits
  <2>2. \A a \in Int : a <= later => Between(totals, a, later) = Between(totals, a, time) + 0
    <3>1. Between(totals, later, later) = 0
      BY <1>2, <1>3, <2>1, NothingAfter
    <3>2. ASSUME NEW a \in Int, a <= later PROVE Between(totals, a, later) = Between(totals, a, time) + 0
      <4>1. later - 1 = time /\ later - 1 <= later
        BY <1>3, <2>1
      <4>2. Between(totals, a, later) = Between(totals, a, later - 1) + Between(totals, later, later)
        BY <1>2, <2>1, <3>2, <4>1, BetweenSplits
      <4> QED
        BY <3>1, <4>1, <4>2
    <3> QED
      BY <3>2
  <2>3. Between(totals, s, time) \in Nat /\ Between(totals, s, later) = Between(totals, s, time)
    <3>1. Between(totals, s, time) \in Nat
      BY <1>2, <1>3, <2>1, BetweenTyped
    <3> QED
      BY <1>3, <2>1, <2>2, <3>1
  <2>4. ASSUME later >= s + LoginWindow PROVE Between(totals, s + LoginWindow, later) = 0
    <3>1. PICK over \in Int : over = s + LoginWindow /\ over <= later
      BY <2>1, <2>4
    <3>2. Between(totals, over, later) = Between(totals, over, time) + 0
      BY <2>2, <3>1
    <3>3. CASE time >= over
      BY <1>6, <3>1, <3>2, <3>3 DEF CounterFits
    <3>4. CASE over = time + 1
      <4>1. Between(totals, over, later) = 0
        BY <1>2, <1>3, <2>1, <3>4, NothingAfter
      <4> QED
        BY <3>1, <4>1
    <3> QED
      BY <1>3, <2>1, <3>1, <3>3, <3>4
  <2>5. s <= later /\ (s + LoginWindow <= time => s + LoginWindow <= later)
    BY <1>3, <2>1
  <2> QED
    BY <1>6, <2>3, <2>4, <2>5 DEF CounterFits
<1> QED
  BY <1>1, <1>2, <1>3, <1>4, <1>5, <1>6 DEF LoginInv

LEMMA LoginInvariant == RateSpec => []LoginInv
<1>1. RateInit => LoginInv
  BY NothingPassed, RateNumbers DEF RateInit, LoginInv
<1>2. RateInv /\ LoginInv /\ [RateNext]_rateVars => LoginInv'
  <2> SUFFICES ASSUME RateInv, LoginInv, [RateNext]_rateVars PROVE LoginInv'
    OBVIOUS
  <2>1. CASE UNCHANGED rateVars
    BY <2>1, LoginsUntouched DEF rateVars
  <2>2. ASSUME NEW r \in Requests,
               CheckRateLimit(r) \/ CheckTokenBucket(r) \/ CheckSlidingWindow(r) \/ RedisFault(r)
        PROVE  LoginInv'
    BY <2>2, LoginsUntouched DEF CheckRateLimit, CheckTokenBucket, CheckSlidingWindow, RedisFault
  <2>3. CASE CheckLogin \/ CleanupExpiredEntries \/ Restart \/ Tick
    BY <2>3, AttemptKeepsLogins, CleanupKeepsLogins, RestartKeepsLogins, TickKeepsLogins
  <2> QED
    BY <2>1, <2>2, <2>3 DEF RateNext
<1> QED
  BY <1>1, <1>2, RateInvariant, PTL DEF RateSpec

(* auth/services/rate-limit.service.ts, checkRateLimit: in no stretch of time as long as *)
(* its window does a process let more than twice the attempts through, whatever entries  *)
(* are cleaned up in between.                                                            *)
THEOREM LoginsKeepLimits == RateSpec => []LoginsBound
<1>1. ASSUME LoginInv PROVE LoginsBound
  <2> SUFFICES ASSUME NEW a \in Ticks PROVE Between(passed, a, StretchEnd(a)) <= 2 * MaxAttempts
    BY DEF LoginsBound, StretchEnd
  <2>1. CASE LoginWindow > 0
    BY <1>1, <2>1 DEF LoginInv, TwiceAtMost
  <2>2. CASE LoginWindow = 0
    <3>1. a \in Nat /\ StretchEnd(a) \in Int /\ a - 1 <= StretchEnd(a) /\ StretchEnd(a) <= a - 1
      BY <2>2, StretchEnds, RateNumbers
    <3>2. StretchEnd(a) = a - 1
      BY <3>1
    <3>3. PICK n \in Nat : n = Upto(passed, a - 1)
      BY <1>1, <3>1, <3>2, StretchEnds, UptoRises DEF LoginInv
    <3> QED
      BY <3>2, <3>3, RateNumbers DEF Between
  <2> QED
    BY <2>1, <2>2, RateNumbers
<1> QED
  BY <1>1, LoginInvariant, PTL

(* rate-limit.service.ts, both of them: for any capacity, refill, window and limits, and  *)
(* whatever scripts, expiries, failures and restarts come in whatever order, of the       *)
(* requests that Redis answered (the times of requests, for the sliding windows) and of   *)
(* one process's login attempts no more pass than LimitsHold says.                        *)
THEOREM LimitsAlwaysHold == RateSpec => []LimitsHold
<1>1. BucketsBound /\ WindowsBound /\ LoginsBound => LimitsHold
  BY DEF LimitsHold
<1> QED
  BY <1>1, BucketsKeepLimits, WindowsKeepLimits, LoginsKeepLimits, PTL

-----------------------------------------------------------------------------
(* The composition: whatever the scene, each service takes its own steps or none. *)

LEMMA TenantsAlone == MCSpec => TenantSpec
<1>1. MCInit => TenantInit
  BY DEF MCInit
<1>2. [MCNext]_services => [TenantNext]_tenantVars
  BY DEF MCNext, services
<1> QED
  BY <1>1, <1>2, PTL DEF MCSpec, TenantSpec

LEMMA OrganizationsAlone == MCSpec => OrgSpec
<1>1. MCInit => OrgInit
  BY DEF MCInit
<1>2. [MCNext]_services => [OrgNext]_orgVars
  BY DEF MCNext, services
<1> QED
  BY <1>1, <1>2, PTL DEF MCSpec, OrgSpec

LEMMA InvoicesAlone == MCSpec => RecurringSpec
<1>1. MCInit => RecurringInit
  BY DEF MCInit
<1>2. [MCNext]_services => [RecurringNext]_recurringVars
  BY DEF MCNext, services
<1> QED
  BY <1>1, <1>2, PTL DEF MCSpec, RecurringSpec

LEMMA NoticesAlone == MCSpec => NoticeSpec
<1>1. MCInit => NoticeInit
  BY DEF MCInit
<1>2. [MCNext]_services => [NoticeNext]_noticeVars
  BY DEF MCNext, services
<1> QED
  BY <1>1, <1>2, PTL DEF MCSpec, NoticeSpec

LEMMA TransfersAlone == MCSpec => TransferSpec
<1>1. MCInit => TransferInit
  BY DEF MCInit
<1>2. [MCNext]_services => [TransferNext]_transferVars
  BY DEF MCNext, services
<1> QED
  BY <1>1, <1>2, PTL DEF MCSpec, TransferSpec

LEMMA TasksAlone == MCSpec => TaskSpec
<1>1. MCInit => TaskInit
  BY DEF MCInit
<1>2. [MCNext]_services => [TaskNext]_taskVars
  BY DEF MCNext, services
<1> QED
  BY <1>1, <1>2, PTL DEF MCSpec, TaskSpec

LEMMA LimitsAlone == MCSpec => RateSpec
<1>1. MCInit => RateInit
  BY DEF MCInit
<1>2. [MCNext]_services => [RateNext]_rateVars
  BY DEF MCNext, services
<1> QED
  BY <1>1, <1>2, PTL DEF MCSpec, RateSpec

(* The services as the run composes them keep the shape of their tables and of what *)
(* their requests hold.                                                             *)
THEOREM ServicesTypes == MCSpec => []ServicesTypeOK
<1>1. /\ TenantTypeOK /\ OrgTypeOK /\ RecurringTypeOK
      /\ NoticeTypeOK /\ TransferTypeOK /\ TaskTypeOK /\ RateTypeOK
      => ServicesTypeOK
  BY DEF ServicesTypeOK
<1>2. MCSpec => [](TenantTypeOK /\ OrgTypeOK /\ RecurringTypeOK)
  BY TenantTypes, TenantsAlone, OrganizationTypes, OrganizationsAlone,
     RecurringTypes, InvoicesAlone, PTL
<1>3. MCSpec => [](NoticeTypeOK /\ TransferTypeOK /\ TaskTypeOK /\ RateTypeOK)
  BY NoticeTypeCorrect, NoticesAlone, TransferTypes, TransfersAlone, TaskTypes, TasksAlone,
     RateTypes, LimitsAlone, PTL
<1> QED
  BY <1>1, <1>2, <1>3, PTL

(* And each keeps its promise in the composition: tenants, organizations,        *)
(* invoices, notifications, transfers, tasks and limits.                         *)
THEOREM ServicesKeepPromises ==
    MCSpec => [](/\ TenanciesHold /\ OneDefaultAndOnePrimary /\ InvoicedOnce
                 /\ AttemptsAreCounted /\ TransfersAddUp /\ UnmetDependenciesBlock /\ LimitsHold)
BY TenanciesAreKept, TenantsAlone, OneDefaultOnePrimary, OrganizationsAlone,
   InvoicedOnceEach, InvoicesAlone, AttemptsCounted, NoticesAlone, TransfersAreCounted, TransfersAlone,
   UnmetDependenciesAlwaysBlock, TasksAlone, LimitsAlwaysHold, LimitsAlone, PTL
=============================================================================
