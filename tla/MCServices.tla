------------------------------ MODULE MCServices ------------------------------
(***************************************************************************)
(* Small instances of the services that share nothing but the database,    *)
(* for TLC.  A behaviour plays one scene: one service runs, the others     *)
(* stay as they are.                                                       *)
(***************************************************************************)
EXTENDS TenantProvisioning, Organizations, RecurringInvoices,
        NotificationDelivery, TransferJobs, TaskDependencies, RateLimits, TLC

CONSTANTS o1, o2, s1, s2, n1, n2, t1

VARIABLE scene

services == <<tenantVars, orgVars, recurringVars,
              noticeVars, transferVars, taskVars, rateVars, scene>>

(* A schedule without an end, and one with a last date and a last count. *)
ScheduleTerms == {<<0, 0>>, <<1, 2>>}
ImportFiles == {<<"ok", "duplicate", "invalid">>, <<"invalid">>, <<"duplicate", "ok">>}
Limits == {[strategy |-> "TOKEN_BUCKET", hourly |-> FALSE],
           [strategy |-> "SLIDING_WINDOW", hourly |-> TRUE],
           [strategy |-> "LOGIN", hourly |-> FALSE]}

Scenes == {"tenants", "organizations", "invoices", "notifications", "transfers", "tasks", "limits"}

Symmetry == Permutations({o1, o2}) \cup Permutations({s1, s2}) \cup Permutations({n1, n2})

MCInit ==
    /\ TenantInit /\ OrgInit /\ RecurringInit
    /\ NoticeInit /\ TransferInit /\ TaskInit /\ RateInit
    /\ scene \in Scenes
    /\ scene # "invoices" => \A s \in Schedules : schedules[s].recurrenceCount = 0
    /\ scene # "limits" => limiter.strategy = "SLIDING_WINDOW"

MCNext ==
    \/ /\ scene = "tenants" /\ TenantNext
       /\ UNCHANGED <<orgVars, recurringVars, noticeVars,
                     transferVars, taskVars, rateVars, scene>>
    \/ /\ scene = "organizations" /\ OrgNext
       /\ UNCHANGED <<tenantVars, recurringVars, noticeVars,
                     transferVars, taskVars, rateVars, scene>>
    \/ /\ scene = "invoices" /\ RecurringNext
       /\ UNCHANGED <<tenantVars, orgVars, noticeVars,
                     transferVars, taskVars, rateVars, scene>>
    \/ /\ scene = "notifications" /\ NoticeNext
       /\ Cardinality({n \in Notices : notices'[n].channel = "EMAIL"}) <= 1    \* bound
       /\ UNCHANGED <<tenantVars, orgVars, recurringVars,
                     transferVars, taskVars, rateVars, scene>>
    \/ /\ scene = "transfers" /\ TransferNext
       /\ UNCHANGED <<tenantVars, orgVars, recurringVars,
                     noticeVars, taskVars, rateVars, scene>>
    \/ /\ scene = "tasks" /\ TaskNext
       /\ UNCHANGED <<tenantVars, orgVars, recurringVars,
                     noticeVars, transferVars, rateVars, scene>>
    \/ /\ scene = "limits" /\ RateNext
       /\ UNCHANGED <<tenantVars, orgVars, recurringVars,
                     noticeVars, transferVars, taskVars, scene>>

MCSpec == MCInit /\ [][MCNext]_services

(* One scene by itself. *)
OrganizationsOnly == MCInit /\ scene = "organizations" /\ [][MCNext]_services

(* The tables and the requests in hand of the service that runs keep their shape. *)
ServicesTypeOK ==
    /\ scene = "tenants" => TenantTypeOK
    /\ scene = "organizations" => OrgTypeOK
    /\ scene = "invoices" => RecurringTypeOK
    /\ scene = "notifications" => NoticeTypeOK
    /\ scene = "transfers" => TransferTypeOK
    /\ scene = "tasks" => TaskTypeOK
    /\ scene = "limits" => RateTypeOK
===============================================================================
