------------------------- MODULE TenantProvisioning -------------------------
(***************************************************************************)
(* One tenant key (src/src/tenants): its row in admin.tenants, its admin's *)
(* row in admin.tenant_admin, and its schema, which no transaction binds   *)
(* together.  Operators create the tenant, repair, update, deactivate and  *)
(* reactivate it; what a failed creation cleans up is found by name.       *)
(* Operations on different keys share nothing.                             *)
(***************************************************************************)
EXTENDS Integers

CONSTANTS
    Operators,      \* requests under way at a time
    MaxTenants,     \* bound: rows ever inserted for the key
    MaxTenantFaults \* bound: awaits that reject, and crashes

TenantIds == 1 .. MaxTenants
(* What lies under the name t_<key>: the schema itself, its tables, its admin *)
(* user with the default roles, its default organization.                     *)
SchemaParts == {"schema", "tables", "user", "organization"}
Tenant == [id: 0 .. MaxTenants, isActive: BOOLEAN]
NoTenant == [id |-> 0, isActive |-> FALSE]

ASSUME TenantAssumption == MaxTenants \in Nat /\ MaxTenantFaults \in Nat

VARIABLES
    tenant,         \* the row of the key, if any (tenant_key is unique)
    admins,         \* tenant id -> its row in admin.tenant_admin
    schema,         \* the parts of the schema that exist
    issued,         \* the last id the sequence of admin.tenants gave out
    opc,            \* operator -> the await it stands at
    opTenant,       \* operator -> the tenant entity it holds
    tenantFaults,
    trampled,       \* history: a clean-up met what another request was making or had made
    stranded,       \* history: a creation failed or died where nothing cleans up
    crossed         \* history: the status was changed by two requests at once, by a half-done
                    \*   one, or by update, which leaves the admins alone

tenantVars == <<tenant, admins, schema, issued, opc, opTenant,
                tenantFaults, trampled, stranded, crossed>>
histories == <<tenantFaults, trampled, stranded, crossed>>

TenantInit ==
    /\ tenant = NoTenant
    /\ admins = [i \in TenantIds |-> "NONE"]
    /\ schema = {}
    /\ issued = 0
    /\ opc = [o \in Operators |-> "idle"]
    /\ opTenant = [o \in Operators |-> NoTenant]
    /\ tenantFaults = 0
    /\ trampled = FALSE /\ stranded = FALSE /\ crossed = FALSE

OperatorAt(o, label, row) ==
    /\ opc' = [opc EXCEPT ![o] = label]
    /\ opTenant' = [opTenant EXCEPT ![o] = row]
OperatorDone(o) == OperatorAt(o, "idle", NoTenant)

StatusSteps == {"admins off", "off", "validate", "on", "admins on", "save"}
Creating == {"check", "create", "migrate", "record", "drop", "find", "remove"}
OthersAt(o, labels) == \E p \in Operators \ {o} : opc[p] \in labels

-----------------------------------------------------------------------------
(* createTenant: no row, active or not, has the key. *)
CreateTenant(o) ==
    /\ opc[o] = "idle"
    /\ tenant.id = 0
    /\ OperatorAt(o, "check", NoTenant)
    /\ UNCHANGED <<tenant, admins, schema, issued, histories>>

(* A schema of that name is a conflict; when the query fails it counts as absent. *)
CheckSchema(o) ==
    /\ opc[o] = "check"
    /\ OperatorAt(o, IF schema = {} THEN "create" ELSE "idle", NoTenant)
    /\ UNCHANGED <<tenant, admins, schema, issued, histories>>

(* CREATE SCHEMA IF NOT EXISTS. *)
CreateTenantSchema(o) ==
    /\ opc[o] = "create"
    /\ schema' = schema \cup {"schema"}
    /\ OperatorAt(o, "migrate", NoTenant)
    /\ UNCHANGED <<tenant, admins, issued, histories>>

(* Mutant: a failed migration is not noticed. *)
RunTenantMigrationsUnchecked(o) ==
    /\ opc[o] = "migrate"
    /\ \/ schema' = IF "schema" \in schema THEN schema \cup {"tables"} ELSE schema
       \/ UNCHANGED schema
    /\ OperatorAt(o, "record", NoTenant)
    /\ UNCHANGED <<tenant, admins, issued, histories>>

RunTenantMigrations(o) ==
    /\ opc[o] = "migrate"
    /\ IF "schema" \in schema
       THEN schema' = schema \cup {"tables"} /\ OperatorAt(o, "record", NoTenant)
       ELSE UNCHANGED schema /\ OperatorAt(o, "drop", NoTenant)
    /\ UNCHANGED <<tenant, admins, issued, histories>>

(* The loser of two insertions gets a unique violation, and cleans up. *)
CreateTenantRecord(o) ==
    /\ opc[o] = "record"
    /\ \/ /\ tenant.id # 0
          /\ OperatorAt(o, "drop", NoTenant)
          /\ UNCHANGED <<tenant, issued>>
       \/ /\ tenant.id = 0 /\ issued < MaxTenants
          /\ issued' = issued + 1
          /\ tenant' = [id |-> issued', isActive |-> TRUE]
          /\ OperatorAt(o, "user", tenant')
    /\ UNCHANGED <<admins, schema, histories>>

(* cleanupFailedProvisioning, by name: whoever made the schema and the row. *)
DropSchema(o) ==
    /\ opc[o] = "drop"
    /\ schema' = {}
    /\ trampled' = (trampled \/ tenant.id # 0 \/ OthersAt(o, Creating \cup {"user", "admin", "organization"}))
    /\ OperatorAt(o, "find", NoTenant)
    /\ UNCHANGED <<tenant, admins, issued, tenantFaults, stranded, crossed>>

FindRecord(o) ==
    /\ opc[o] = "find"
    /\ IF tenant.id = 0 THEN OperatorDone(o) ELSE OperatorAt(o, "remove", tenant)
    /\ UNCHANGED <<tenant, admins, schema, issued, histories>>

(* The tenant's admins go with it (ON DELETE CASCADE). *)
RemoveRecord(o) ==
    /\ opc[o] = "remove"
    /\ IF tenant.id = opTenant[o].id
       THEN /\ tenant' = NoTenant
            /\ admins' = [admins EXCEPT ![tenant.id] = "NONE"]
            /\ trampled' = TRUE
       ELSE UNCHANGED <<tenant, admins, trampled>>
    /\ OperatorDone(o)
    /\ UNCHANGED <<schema, issued, tenantFaults, stranded, crossed>>

(* initializeTenant: its queries run in whatever schema bears the name by then, *)
(* and nothing is cleaned up when one fails.                                    *)
Initialize(o, at, part, next) ==
    /\ opc[o] = at
    /\ IF "tables" \in schema
       THEN /\ schema' = schema \cup {part}
            /\ OperatorAt(o, next, IF next = "idle" THEN NoTenant ELSE opTenant[o])
            /\ UNCHANGED stranded
       ELSE OperatorDone(o) /\ stranded' = TRUE /\ UNCHANGED schema
    /\ UNCHANGED <<tenant, admins, issued, tenantFaults, trampled, crossed>>
CreateTenantAdminUser(o) == Initialize(o, "user", "user", "admin")
CreateDefaultOrganization(o) == Initialize(o, "organization", "organization", "idle")

(* INSERT: (tenant_id, email) is unique, and tenant_id a foreign key. *)
AdminFits(i) == admins[i] = "NONE" /\ tenant.id = i
InsertAdmin(i) == admins' = IF AdminFits(i) THEN [admins EXCEPT ![i] = "ACTIVE"] ELSE admins

(* An active record of an active tenant is taken as it is. *)
CreateTenantAdminRecord(o) ==
    LET i == opTenant[o].id
        existing == admins[i] = "ACTIVE" /\ tenant = [id |-> i, isActive |-> TRUE]
        done == existing \/ AdminFits(i)
    IN /\ opc[o] = "admin"
       /\ InsertAdmin(i)
       /\ OperatorAt(o, IF done THEN "organization" ELSE "idle", IF done THEN opTenant[o] ELSE NoTenant)
       /\ stranded' = (stranded \/ ~done)
       /\ UNCHANGED <<tenant, schema, issued, tenantFaults, trampled, crossed>>

(* The repair of a creation that failed after the row was saved. *)
FixTenantAdmin(o) ==
    /\ opc[o] = "idle"
    /\ tenant.id # 0
    /\ ~(tenant.isActive /\ admins[tenant.id] = "ACTIVE")
    /\ "user" \in schema
    /\ OperatorAt(o, "fix", tenant)
    /\ crossed' = (crossed \/ ~tenant.isActive \/ OthersAt(o, StatusSteps))
    /\ UNCHANGED <<tenant, admins, schema, issued, tenantFaults, trampled, stranded>>

FixRecord(o) ==
    /\ opc[o] = "fix"
    /\ InsertAdmin(opTenant[o].id)
    /\ OperatorDone(o)
    /\ UNCHANGED <<tenant, schema, issued, histories>>

-----------------------------------------------------------------------------
(* A status change begins on the row read. *)
ReadTenant(o, label, row) ==
    /\ opc[o] = "idle"
    /\ tenant.id # 0
    /\ OperatorAt(o, label, row)
    /\ crossed' = (crossed \/ OthersAt(o, StatusSteps \cup {"user", "admin", "fix"}))
    /\ UNCHANGED <<tenant, admins, schema, issued, tenantFaults, trampled, stranded>>

(* TenantsService.update: the whole row is saved, inserted again if it is gone. *)
UpdateTenant(o) ==
    \E isActive \in BOOLEAN : ReadTenant(o, "save", [tenant EXCEPT !.isActive = isActive])

SaveTenant(o) ==
    /\ opc[o] = "save"
    /\ tenant' = IF tenant.id \in {0, opTenant[o].id} THEN opTenant[o] ELSE tenant
    /\ crossed' = (crossed \/ tenant' # tenant)
    /\ OperatorDone(o)
    /\ UNCHANGED <<admins, schema, issued, tenantFaults, trampled, stranded>>

DeactivateTenant(o) == tenant.isActive /\ ReadTenant(o, "admins off", tenant)
ReactivateTenant(o) == ~tenant.isActive /\ ReadTenant(o, "validate", tenant)

SetAdmins(o, at, from, to, next) ==
    LET i == opTenant[o].id IN
    /\ opc[o] = at
    /\ admins' = [admins EXCEPT ![i] = IF @ = from THEN to ELSE @]
    /\ OperatorAt(o, next, IF next = "idle" THEN NoTenant ELSE opTenant[o])
    /\ UNCHANGED <<tenant, schema, issued, histories>>
DeactivateTenantAdmins(o) == SetAdmins(o, "admins off", "ACTIVE", "INACTIVE", "off")

ReactivateTenantAdmins(o) == SetAdmins(o, "admins on", "INACTIVE", "ACTIVE", "idle")

ValidateReactivation(o) ==
    /\ opc[o] = "validate"
    /\ OperatorAt(o, IF "tables" \in schema THEN "on" ELSE "idle",
                  IF "tables" \in schema THEN opTenant[o] ELSE NoTenant)
    /\ UNCHANGED <<tenant, admins, schema, issued, histories>>

(* UPDATE ... SET is_active WHERE id. *)
SetActive(o, at, isActive, next) ==
    /\ opc[o] = at
    /\ tenant' = IF tenant.id = opTenant[o].id THEN [tenant EXCEPT !.isActive = isActive] ELSE tenant
    /\ OperatorAt(o, next, IF next = "idle" THEN NoTenant ELSE opTenant[o])
    /\ UNCHANGED <<admins, schema, issued, histories>>
DeactivateRow(o) == SetActive(o, "off", FALSE, "idle")
ActivateRow(o) == SetActive(o, "on", TRUE, "admins on")

-----------------------------------------------------------------------------
(* An await rejects. *)
AfterTenantFault(label) ==
    CASE label = "check" -> "create"
      [] label \in {"create", "migrate", "record"} -> "drop"
      [] label = "drop" -> "find"
      [] OTHER -> "idle"

TenantFault(o) ==
    /\ opc[o] # "idle"
    /\ tenantFaults < MaxTenantFaults
    /\ tenantFaults' = tenantFaults + 1
    /\ OperatorAt(o, AfterTenantFault(opc[o]), NoTenant)
    /\ stranded' = (stranded \/ opc[o] \in {"drop", "find", "remove", "user", "admin", "organization"})
    /\ crossed' = (crossed \/ opc[o] \in StatusSteps)
    /\ UNCHANGED <<tenant, admins, schema, issued, trampled>>

TenantCrash ==
    /\ tenantFaults < MaxTenantFaults
    /\ tenantFaults' = tenantFaults + 1
    /\ stranded' = (stranded \/ \E o \in Operators : opc[o] \notin StatusSteps \cup {"idle", "fix"})
    /\ crossed' = (crossed \/ \E o \in Operators : opc[o] \in StatusSteps)
    /\ opc' = [o \in Operators |-> "idle"]
    /\ opTenant' = [o \in Operators |-> NoTenant]
    /\ UNCHANGED <<tenant, admins, schema, issued, trampled>>

OperatorStep(o) ==
    \/ CreateTenant(o) \/ CheckSchema(o) \/ CreateTenantSchema(o) \/ RunTenantMigrations(o)
    \/ CreateTenantRecord(o) \/ DropSchema(o) \/ FindRecord(o) \/ RemoveRecord(o)
    \/ CreateTenantAdminUser(o) \/ CreateTenantAdminRecord(o) \/ CreateDefaultOrganization(o)
    \/ FixTenantAdmin(o) \/ FixRecord(o) \/ UpdateTenant(o) \/ SaveTenant(o)
    \/ DeactivateTenant(o) \/ DeactivateTenantAdmins(o) \/ DeactivateRow(o)
    \/ ReactivateTenant(o) \/ ValidateReactivation(o) \/ ActivateRow(o) \/ ReactivateTenantAdmins(o)
    \/ TenantFault(o)

TenantNext == (\E o \in Operators : OperatorStep(o)) \/ TenantCrash

TenantSpec == TenantInit /\ [][TenantNext]_tenantVars

-----------------------------------------------------------------------------
(* Properties. *)

OperatorLabels == Creating \cup StatusSteps \cup {"idle", "user", "admin", "organization", "fix"}

(* The rows keep the shape of their columns. *)
TenantTypeOK ==
    /\ tenant \in Tenant
    /\ admins \in [TenantIds -> {"NONE", "ACTIVE", "INACTIVE"}]
    /\ schema \subseteq SchemaParts
    /\ issued \in 0 .. MaxTenants
    /\ opc \in [Operators -> OperatorLabels]
    /\ opTenant \in [Operators -> Tenant]

Quiet == \A o \in Operators : opc[o] = "idle"

(* A tenant that is listed has its schema and its tables, and one whose creation  *)
(* went through its admin and organization: only a clean-up that met another      *)
(* request takes them away.                                                       *)
TenantsAreWhole ==
    tenant.id # 0 /\ ~trampled =>
        /\ {"schema", "tables"} \subseteq schema
        /\ Quiet /\ ~stranded => schema = SchemaParts /\ admins[tenant.id] # "NONE"

(* A failed creation leaves no schema, which would make every later one fail:     *)
(* only where it dies half-way, or where the clean-up itself fails.               *)
FailuresLeaveNothing ==
    Quiet /\ tenant.id = 0 /\ ~trampled /\ ~stranded => schema = {}

(* The admins of a tenant can log in exactly while it is active, unless requests  *)
(* crossed or the status was changed behind the services' back.                   *)
AdminsFollowTheTenant ==
    Quiet /\ tenant.id # 0 /\ ~crossed /\ ~trampled =>
        admins[tenant.id] \in {"NONE", IF tenant.isActive THEN "ACTIVE" ELSE "INACTIVE"}

(* What provisioning, deactivation and reactivation keep, whatever interleaves. *)
TenanciesHold == TenantsAreWhole /\ FailuresLeaveNothing /\ AdminsFollowTheTenant
=============================================================================
