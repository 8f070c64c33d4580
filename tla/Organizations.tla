---------------------------- MODULE Organizations ----------------------------
(***************************************************************************)
(* The organizations of a tenant and the memberships of one user in them   *)
(* (src/src/organizations): the default organization, the user's primary   *)
(* one, and the tree the organizations form.  Each is kept by handlers     *)
(* that look at some rows and then save others.                            *)
(***************************************************************************)
EXTENDS Integers, FiniteSets

CONSTANTS
    MaxOrganizations,   \* bound: organizations ever made
    MaxOrgRequests,     \* bound: requests ever made
    OrgClients          \* requests under way at a time

Orgs == 1 .. MaxOrganizations
OrganizationStatus == {"NONE", "ACTIVE", "INACTIVE", "ARCHIVED"}
Organization == [status: OrganizationStatus, parent: 0 .. MaxOrganizations, isDefault: BOOLEAN]
Membership == [status: {"NONE", "MEMBER", "LEFT"}, isPrimary: BOOLEAN]
NoOrganization == [status |-> "NONE", parent |-> 0, isDefault |-> FALSE]
NoMembership == [status |-> "NONE", isPrimary |-> FALSE]

ASSUME OrganizationAssumption == MaxOrganizations \in Nat /\ MaxOrgRequests \in Nat

VARIABLES
    orgs,           \* rows of organizations; parent 0 is none
    memberships,    \* rows of organization_memberships, by organization
    gpc,            \* client -> the await it stands at
    org,            \* client -> the organization it works on, as it will save it
    flagged,        \* client -> rows whose flag it has found and will unset, as it read them
    orgRequests,    \* requests made
    overlapped      \* history: two requests were under way at once, or one was cut short

orgVars == <<orgs, memberships, gpc, org, flagged, orgRequests, overlapped>>

NoWork == [id |-> 0, row |-> NoOrganization, isPrimary |-> FALSE]
Work(i, o) == [NoWork EXCEPT !.id = i, !.row = o]
Found(i, o) == [id |-> i, row |-> o]

OrgInit ==
    /\ orgs = [i \in Orgs |-> NoOrganization]
    /\ memberships = [i \in Orgs |-> NoMembership]
    /\ gpc = [c \in OrgClients |-> "idle"]
    /\ org = [c \in OrgClients |-> NoWork]
    /\ flagged = [c \in OrgClients |-> {}]
    /\ orgRequests = 0
    /\ overlapped = FALSE

OrgAt(c, label, work, found) ==
    /\ gpc' = [gpc EXCEPT ![c] = label]
    /\ org' = [org EXCEPT ![c] = work]
    /\ flagged' = [flagged EXCEPT ![c] = found]
OrgDone(c) == OrgAt(c, "idle", NoWork, {})

BeginOrg(c, label, work) ==
    /\ gpc[c] = "idle"
    /\ orgRequests < MaxOrgRequests
    /\ orgRequests' = orgRequests + 1
    /\ OrgAt(c, label, work, {})
    /\ overlapped' = (overlapped \/ \E d \in OrgClients : gpc[d] # "idle")
    /\ UNCHANGED <<orgs, memberships>>

-----------------------------------------------------------------------------
(* validateParentOrganization: active, and not the organization itself.  Its test *)
(* for a circle asks whether the parent is an ancestor already; the ids of that   *)
(* raw query are strings, the parent's a number, so it never refuses.             *)
ValidParent(id, parent) ==
    parent # 0 => parent # id /\ orgs[parent].status = "ACTIVE"

(* A new organization that is to be the default needs that there be none. *)
CreateOrganization(c) ==
    \E i \in Orgs, parent \in 0 .. MaxOrganizations, isDefault \in BOOLEAN :
        /\ orgs[i].status = "NONE" /\ \A j \in Orgs : j < i => orgs[j].status # "NONE"
        /\ ValidParent(0, parent)
        /\ isDefault => \A j \in Orgs : ~orgs[j].isDefault
        /\ BeginOrg(c, IF isDefault THEN "find default" ELSE "insert",
                    Work(0, [status |-> "ACTIVE", parent |-> parent, isDefault |-> isDefault]))

(* When the row was read with a parent, what is saved is that one or the new one: *)
(* entity and id of the relation disagree.                                        *)
UpdateOrganization(c) ==
    \E i \in Orgs, status \in OrganizationStatus \ {"NONE"},
       parent \in 0 .. MaxOrganizations, isDefault \in BOOLEAN :
        /\ orgs[i].status # "NONE"
        /\ parent = orgs[i].parent \/ ValidParent(i, parent)
        /\ \E saved \in IF orgs[i].parent = 0 THEN {parent} ELSE {parent, orgs[i].parent} :
             BeginOrg(c, IF isDefault /\ ~orgs[i].isDefault THEN "find default" ELSE "save",
                      Work(i, [status |-> status, parent |-> saved, isDefault |-> isDefault]))

DeleteOrganization(c) ==
    \E i \in Orgs :
        /\ orgs[i].status # "NONE"
        /\ \A j \in Orgs : orgs[j].parent # i
        /\ BeginOrg(c, "save", Work(i, [orgs[i] EXCEPT !.status = "ARCHIVED", !.isDefault = FALSE]))

SetDefault(c) ==
    \E i \in Orgs :
        /\ orgs[i].status = "ACTIVE" /\ ~orgs[i].isDefault
        /\ BeginOrg(c, "find default", Work(i, [orgs[i] EXCEPT !.isDefault = TRUE]))

After(c) == IF org[c].id = 0 THEN "insert" ELSE "save"

(* unsetOtherDefaultOrganizations takes whichever default it finds first. *)
FindDefault(c) ==
    LET defaults == {i \in Orgs : orgs[i].isDefault} IN
    /\ gpc[c] = "find default"
    /\ \/ defaults = {} /\ OrgAt(c, After(c), org[c], {})
       \/ \E i \in defaults :
            OrgAt(c, "unset default", org[c], {Found(i, [orgs[i] EXCEPT !.isDefault = FALSE])})
    /\ UNCHANGED <<orgs, memberships, orgRequests, overlapped>>

(* Mutant: the one that was found stays the default. *)
UnsetDefaultForgotten(c) ==
    /\ gpc[c] = "unset default"
    /\ OrgAt(c, After(c), org[c], {})
    /\ UNCHANGED <<orgs, memberships, orgRequests, overlapped>>

UnsetDefault(c) ==
    /\ gpc[c] = "unset default"
    /\ \E h \in flagged[c] : orgs' = [orgs EXCEPT ![h.id] = h.row]
    /\ OrgAt(c, After(c), org[c], {})
    /\ UNCHANGED <<memberships, orgRequests, overlapped>>

InsertOrganization(c) ==
    /\ gpc[c] = "insert"
    /\ \E i \in Orgs :
         /\ orgs[i].status = "NONE" /\ \A j \in Orgs : j < i => orgs[j].status # "NONE"
         /\ orgs' = [orgs EXCEPT ![i] = org[c].row]
    /\ OrgDone(c)
    /\ UNCHANGED <<memberships, orgRequests, overlapped>>

SaveOrganization(c) ==
    /\ gpc[c] = "save"
    /\ orgs' = [orgs EXCEPT ![org[c].id] = org[c].row]
    /\ OrgDone(c)
    /\ UNCHANGED <<memberships, orgRequests, overlapped>>

-----------------------------------------------------------------------------
Member(isPrimary) == [status |-> "MEMBER", isPrimary |-> isPrimary]

(* addUserToOrganization saves the new membership first and unsets the others *)
(* after.  Whether a membership that was left is found depends on the type of *)
(* the id the caller passes; if not, the insertion is a unique violation.     *)
AddUserToOrganization(c) ==
    \E i \in Orgs, isPrimary \in BOOLEAN :
        /\ orgs[i].status = "ACTIVE" /\ memberships[i].status # "MEMBER"
        /\ BeginOrg(c, "add", [NoWork EXCEPT !.id = i, !.isPrimary = isPrimary])

SaveAdded(c) ==
    /\ gpc[c] = "add"
    /\ memberships' = [memberships EXCEPT ![org[c].id] = Member(org[c].isPrimary)]
    /\ IF org[c].isPrimary THEN OrgAt(c, "find added", org[c], {}) ELSE OrgDone(c)
    /\ UNCHANGED <<orgs, orgRequests, overlapped>>

(* A handler goes on to label with a membership it has read. *)
ReadMembership(c, label) ==
    \E i \in Orgs :
        /\ orgs[i].status = "ACTIVE" /\ memberships[i].status = "MEMBER"
        /\ label = "find primary" => ~memberships[i].isPrimary
        /\ BeginOrg(c, label, [NoWork EXCEPT !.id = i, !.isPrimary = memberships[i].isPrimary])
SetPrimaryOrganization(c) == ReadMembership(c, "find primary")
RemoveUserFromOrganization(c) == ReadMembership(c, "leave")
UpdateOrganizationRole(c) == ReadMembership(c, "role")

(* unsetOtherPrimaryMemberships: all that are primary, saved one by one. *)
FindPrimaries(c) ==
    /\ gpc[c] \in {"find added", "find primary"}
    /\ LET others == {i \in Orgs \ {org[c].id} : memberships[i].status = "MEMBER" /\ memberships[i].isPrimary}
       IN OrgAt(c, IF gpc[c] = "find added" THEN "unset added" ELSE "unset primary", org[c],
                {Found(i, NoOrganization) : i \in others})
    /\ UNCHANGED <<orgs, memberships, orgRequests, overlapped>>

UnsetPrimary(c) ==
    /\ gpc[c] \in {"unset added", "unset primary"}
    /\ \E h \in flagged[c] :
         /\ memberships' = [memberships EXCEPT ![h.id] = Member(FALSE)]
         /\ OrgAt(c, gpc[c], org[c], flagged[c] \ {h})
    /\ UNCHANGED <<orgs, orgRequests, overlapped>>

MembershipSaved(c) ==
    CASE gpc[c] = "unset primary" -> Member(TRUE)
      [] gpc[c] = "leave" -> [status |-> "LEFT", isPrimary |-> FALSE]
      [] gpc[c] = "role" -> Member(org[c].isPrimary)
      [] OTHER -> memberships[org[c].id]
Saving == {"unset added", "unset primary", "leave", "role"}

SaveMembership(c) ==
    /\ gpc[c] \in Saving
    /\ flagged[c] = {}
    /\ memberships' = [memberships EXCEPT ![org[c].id] = MembershipSaved(c)]
    /\ OrgDone(c)
    /\ UNCHANGED <<orgs, orgRequests, overlapped>>

-----------------------------------------------------------------------------
(* An await rejects, or the server stops. *)
OrgFault(c) ==
    /\ gpc[c] # "idle"
    /\ overlapped' = TRUE
    /\ OrgDone(c)
    /\ UNCHANGED <<orgs, memberships, orgRequests>>

OrgStep(c) ==
    \/ CreateOrganization(c) \/ UpdateOrganization(c) \/ DeleteOrganization(c) \/ SetDefault(c)
    \/ FindDefault(c) \/ UnsetDefault(c) \/ InsertOrganization(c) \/ SaveOrganization(c)

MembershipStep(c) ==
    \/ AddUserToOrganization(c) \/ SaveAdded(c) \/ SetPrimaryOrganization(c)
    \/ RemoveUserFromOrganization(c) \/ UpdateOrganizationRole(c)
    \/ FindPrimaries(c) \/ UnsetPrimary(c) \/ SaveMembership(c)

OrgNext == \E c \in OrgClients : OrgStep(c) \/ MembershipStep(c) \/ OrgFault(c)

OrgSpec == OrgInit /\ [][OrgNext]_orgVars

-----------------------------------------------------------------------------
(* Properties. *)

OrgTypeOK ==
    /\ orgs \in [Orgs -> Organization]
    /\ memberships \in [Orgs -> Membership]
    /\ gpc \in [OrgClients -> {"idle", "find default", "unset default", "insert", "save",
                               "add", "find added", "find primary"} \cup Saving]
    /\ org \in [OrgClients -> [id: 0 .. MaxOrganizations, row: Organization, isPrimary: BOOLEAN]]
    /\ flagged \in [OrgClients -> SUBSET [id: Orgs, row: Organization]]

Idle(i) == \A c \in OrgClients : gpc[c] \in {"idle"} \/ org[c].id # i

(* A tenant has one default organization and a user one primary one, at most;     *)
(* while a new primary membership is being added there may be two, and two        *)
(* requests at once, or one that is cut short, may leave more.                    *)
OneDefaultAndOnePrimary ==
    ~overlapped =>
        /\ Cardinality({i \in Orgs : orgs[i].isDefault}) <= 1
        /\ Cardinality({i \in Orgs : memberships[i].isPrimary /\ Idle(i)}) <= 1

(* The organizations of a tenant form a forest, so that walking up or down from   *)
(* one of them ends: every set of them has one whose parent is not in it.         *)
HierarchyHasNoCycles ==
    \A S \in SUBSET Orgs : S # {} => \E i \in S : orgs[i].parent \notin S
=============================================================================
