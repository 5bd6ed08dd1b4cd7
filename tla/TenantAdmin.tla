---------------------------- MODULE TenantAdmin ----------------------------
(***************************************************************************)
(* The administration of one tenant: its users and their roles             *)
(* (core/access/src/server/users.ts, roles.ts) and its departments         *)
(* (core/tenancy/src/server/departments.ts), changed by signed-in users    *)
(* whose requests overlap in READ COMMITTED transactions.                  *)
(*                                                                         *)
(* A request knows what its manager held when the session was read, before *)
(* the transaction began; everything else it reads under locks: the        *)
(* tenant's row for what counts rows, a role's row for what names a role.  *)
(***************************************************************************)
EXTENDS Naturals, FiniteSets

CONSTANTS
  Users,            \* the users the tenant may have; the first is its first owner
  First,            \* the first owner
  Roles,            \* the editable roles
  Permissions,      \* what a role may hold
  ManageUsers,      \* access.users.manage
  ManageRoles,      \* access.roles.manage
  ManageDepartments, \* organization.departments.manage
  Departments,      \* the departments the tenant may have
  Default,          \* the default one
  Requests,         \* requests at a time
  UserLimit,        \* the license's limit of active users
  DepartmentLimit   \* the license's limit of active departments

Owner == "owner"    \* the owner role holds everything and is never changed

Managing == {ManageUsers, ManageRoles, ManageDepartments}

ASSUME TenantAdminAssumption ==
  /\ First \in Users /\ Default \in Departments /\ Managing \subseteq Permissions
  /\ Owner \notin Roles
  /\ IsFiniteSet(Users) /\ IsFiniteSet(Departments)
  /\ UserLimit \in Nat \ {0} /\ DepartmentLimit \in Nat \ {0}

VARIABLES
  status,       \* users.status, "none" while there is no row
  role,         \* users.role_id
  roleArchived, \* the roles with an archived_at
  holds,        \* role_permissions of each editable role
  department,   \* each department: "none", "active" or "archived"
  request       \* the requests being processed

userVars == <<status, role>>
roleVars == <<roleArchived, holds>>
vars == <<userVars, roleVars, department, request>>

AllRoles == Roles \cup {Owner}

\* What each kind of request is about, and which locks it takes.
UserKinds == {"addUser", "changeUser", "deactivateUser", "reactivateUser"}
GivingKinds == UserKinds \ {"deactivateUser"}
DepartmentKinds == {"createDepartment", "archiveDepartment", "restoreDepartment"}
RoleKinds == {"editRole", "archiveRole", "restoreRole"}
Kinds == UserKinds \cup DepartmentKinds \cup RoleKinds

\* A request: what its manager held as their session was read, what it changes, and whether that
\* is the manager's own account.
Request ==
  [kind : Kinds, step : {"asked", "locked", "ready"}, own : BOOLEAN, isOwner : BOOLEAN,
   grant : SUBSET Permissions, user : Users, role : AllRoles, holdings : SUBSET Permissions,
   department : Departments]

NoRequest == [kind |-> "none"]

-----------------------------------------------------------------------------
(* What is read. *)

Active == {u \in Users : status[u] = "active"}

\* activeUserCount; under the tenant lock it cannot change.
ActiveDepartments == {d \in Departments : department[d] = "active"}

Holdings(r) == IF r = Owner THEN Permissions ELSE holds[r]

ActiveRole(r) == r \notin roleArchived

\* checkManages: an owner is managed by owners, anybody else within what the manager holds.
Manages(q, u) ==
  request[q].isOwner \/ (role[u] # Owner /\ Holdings(role[u]) \subseteq request[q].grant)

\* checkGrantable, for the whole of a role.
Grantable(q, r) == request[q].isOwner \/ (r # Owner /\ Holdings(r) \subseteq request[q].grant)

\* checkAnotherOwner.
\* (AnyOwner, a bug: it does not look at whether the other owner is active.)
AnyOwner(u) == \E v \in Users \ {u} : status[v] # "none" /\ role[v] = Owner

AnotherOwner(u) == \E v \in Active \ {u} : role[v] = Owner

-----------------------------------------------------------------------------
(* Locks. *)

Ready(q, kinds) == request[q].kind \in kinds /\ request[q].step = "ready"

\* The role a request gives; a user who comes back keeps theirs.
Gives(q) == IF request[q].kind = "reactivateUser" THEN role[request[q].user] ELSE request[q].role

\* Two bugs: the tenant's row is not locked; a role is read without its lock.
TenantOpen(q) == q \in Requests

RoleOpen(q, r) == q \in Requests

HoldsTenant(q) ==
  request[q].kind \in UserKinds \cup DepartmentKinds /\ request[q].step # "asked"

\* lockTenant: for update.
TenantFree(q) == \A p \in Requests \ {q} : ~HoldsTenant(p)

\* activeRole: for share, so that no other request is changing the role.
RoleShareable(q, r) ==
  \A p \in Requests \ {q} : ~(Ready(p, RoleKinds) /\ request[p].role = r)

\* editableRole: for update, so that no other request is changing or giving it.
RoleFree(q, r) ==
  /\ RoleShareable(q, r)
  /\ \A p \in Requests \ {q} : ~(Ready(p, GivingKinds) /\ Gives(p) = r)

-----------------------------------------------------------------------------
(* Requests. *)

Begin(q, r) ==
  /\ request[q] = NoRequest
  /\ request' = [request EXCEPT ![q] = r]
  /\ UNCHANGED <<userVars, roleVars, department>>

\* A request comes in, and its session is read: what its manager holds.
Asked(m, kind) ==
  [kind |-> kind, step |-> "asked", own |-> FALSE, isOwner |-> role[m] = Owner,
   grant |-> Holdings(role[m]), user |-> First, role |-> Owner, holdings |-> {},
   department |-> Default]

\* The route lets in an active user whose role holds its permission.
May(m, permission) == m \in Active /\ permission \in Holdings(role[m])

\* A new user, or an existing one, and the role to give.
AskUser(q, m) ==
  /\ May(m, ManageUsers)
  /\ \E u \in Users, r \in AllRoles :
       Begin(q, [Asked(m, IF status[u] = "none" THEN "addUser" ELSE "changeUser")
                   EXCEPT !.own = (u = m), !.user = u, !.role = r])

AskStatus(q, m) ==
  /\ May(m, ManageUsers)
  /\ \E kind \in {"deactivateUser", "reactivateUser"}, u \in Users :
       /\ status[u] # "none"
       /\ Begin(q, [Asked(m, kind) EXCEPT !.own = (u = m), !.user = u])

AskRole(q, m) ==
  /\ May(m, ManageRoles)
  /\ \E kind \in RoleKinds, r \in Roles, S \in SUBSET Permissions :
       /\ kind # "editRole" => S = {}
       /\ Begin(q, [Asked(m, kind) EXCEPT !.role = r, !.holdings = S])

AskDepartment(q, m) ==
  /\ May(m, ManageDepartments)
  /\ \E kind \in DepartmentKinds, d \in Departments :
       Begin(q, [Asked(m, kind) EXCEPT !.department = d])

Step(q, from, to) ==
  /\ request[q].kind \in Kinds /\ request[q].step = from
  /\ request' = [request EXCEPT ![q].step = to]
  /\ UNCHANGED <<userVars, roleVars, department>>

\* The tenant's row is locked, then the user's, whose role is read.  addUser reads no user.
LockTenant(q) ==
  LET r == request[q]
  IN  /\ r.kind \in UserKinds
      /\ Step(q, "asked", "locked")
      /\ TenantFree(q)
      /\ r.kind = "addUser" => status[r.user] = "none"
      /\ r.kind \in UserKinds \ {"addUser"} => status[r.user] # "none" /\ Manages(q, r.user)

Room == Cardinality(Active) < UserLimit

\* addUser: an active role, within the manager's, and within the license.
CheckAdd(q) ==
  LET r == request[q]
  IN  /\ r.kind = "addUser" /\ Step(q, "locked", "ready")
      /\ RoleShareable(q, r.role) /\ ActiveRole(r.role) /\ Grantable(q, r.role)
      /\ Room

\* changeUser: a role other than the user's; nobody changes their own unless an owner.
CheckChange(q) ==
  LET r == request[q]
  IN  /\ r.kind = "changeUser" /\ Step(q, "locked", "ready")
      /\ r.role # role[r.user]
      /\ RoleShareable(q, r.role) /\ ActiveRole(r.role) /\ Grantable(q, r.role)
      /\ role[r.user] = Owner /\ r.user \in Active => AnotherOwner(r.user)
      /\ r.own => r.isOwner

\* deactivateUser: never the last active owner, never oneself.
CheckDeactivate(q) ==
  LET r == request[q]
  IN  /\ r.kind = "deactivateUser" /\ Step(q, "locked", "ready")
      /\ r.user \in Active
      /\ role[r.user] = Owner => AnotherOwner(r.user)
      /\ ~r.own

\* A bug: the role of a user who comes back is not looked at.
CheckReactivateAnyRole(q) ==
  LET r == request[q]
  IN  /\ r.kind = "reactivateUser" /\ Step(q, "locked", "ready")
      /\ r.user \notin Active
      /\ Room

\* reactivateUser: with the role they have, if it is active, and within the license.
CheckReactivate(q) ==
  LET r == request[q]
  IN  /\ r.kind = "reactivateUser" /\ Step(q, "locked", "ready")
      /\ r.user \notin Active
      /\ RoleShareable(q, role[r.user]) /\ ActiveRole(role[r.user])
      /\ Room

\* The rules of departments: the limit, never the default one, never the last active one.
CheckDepartment(q) ==
  LET r == request[q]
      before == department[r.department]
  IN  /\ r.kind \in DepartmentKinds /\ Step(q, "asked", "ready")
      /\ TenantFree(q)
      /\ IF r.kind = "archiveDepartment"
         THEN /\ before = "active"
              /\ Cardinality(ActiveDepartments) > 1
              /\ r.department # Default
         ELSE /\ before = (IF r.kind = "createDepartment" THEN "none" ELSE "archived")
              /\ Cardinality(ActiveDepartments) < DepartmentLimit

\* The rules of roles, with the role's row locked: a non-owner changes what is within their own,
\* into what they may grant or what it held before, and nobody archives a role in use.
CheckRole(q) ==
  LET r == request[q]
  IN  /\ r.kind \in RoleKinds /\ Step(q, "asked", "ready")
      /\ RoleFree(q, r.role)
      /\ ActiveRole(r.role) <=> r.kind # "restoreRole"
      /\ Grantable(q, r.role)
      /\ r.kind = "editRole" /\ ~r.isOwner => r.holdings \ holds[r.role] \subseteq r.grant
      /\ r.kind = "archiveRole" => \A u \in Active : role[u] # r.role

Done(q) == request' = [request EXCEPT ![q] = NoRequest]

CommitUser(q) ==
  LET u == request[q].user
  IN  /\ \/ /\ Ready(q, {"addUser", "reactivateUser"})
            /\ status' = [status EXCEPT ![u] = "active"]
            /\ role' = [role EXCEPT ![u] = Gives(q)]
         \/ /\ Ready(q, {"changeUser"})
            /\ role' = [role EXCEPT ![u] = request[q].role]
            /\ UNCHANGED status
         \/ /\ Ready(q, {"deactivateUser"})
            /\ status' = [status EXCEPT ![u] = "deactivated"]
            /\ UNCHANGED role
      /\ Done(q)
      /\ UNCHANGED <<roleVars, department>>

CommitRole(q) ==
  LET r == request[q].role
  IN  /\ \/ /\ Ready(q, {"editRole"})
            /\ holds' = [holds EXCEPT ![r] = request[q].holdings]
            /\ UNCHANGED roleArchived
         \/ /\ Ready(q, {"archiveRole"})
            /\ roleArchived' = roleArchived \cup {r}
            /\ UNCHANGED holds
         \/ /\ Ready(q, {"restoreRole"})
            /\ roleArchived' = roleArchived \ {r}
            /\ UNCHANGED holds
      /\ Done(q)
      /\ UNCHANGED <<userVars, department>>

CommitDepartment(q) ==
  LET d == request[q].department
  IN  /\ \/ /\ Ready(q, {"createDepartment", "restoreDepartment"})
            /\ department' = [department EXCEPT ![d] = "active"]
         \/ /\ Ready(q, {"archiveDepartment"})
            /\ department' = [department EXCEPT ![d] = "archived"]
      /\ Done(q)
      /\ UNCHANGED <<userVars, roleVars>>

\* A check refuses the request, or it fails: nothing of it stays.
Refuse(q) ==
  /\ request[q] # NoRequest
  /\ Done(q)
  /\ UNCHANGED <<userVars, roleVars, department>>

-----------------------------------------------------------------------------
\* createTenant: the first owner, the roles of the templates, which are granted no managing, and
\* the default department.
Init ==
  /\ status = [u \in Users |-> IF u = First THEN "active" ELSE "none"]
  /\ role = [u \in Users |-> Owner]
  /\ roleArchived = {}
  /\ holds \in [Roles -> SUBSET (Permissions \ Managing)]
  /\ department = [d \in Departments |-> IF d = Default THEN "active" ELSE "none"]
  /\ request = [q \in Requests |-> NoRequest]

Ask(q, m) == AskUser(q, m) \/ AskStatus(q, m) \/ AskRole(q, m) \/ AskDepartment(q, m)

Check(q) ==
  \/ CheckAdd(q) \/ CheckChange(q) \/ CheckDeactivate(q) \/ CheckReactivate(q)
  \/ CheckDepartment(q) \/ CheckRole(q)

Next ==
  \E q \in Requests :
    \/ \E m \in Users : Ask(q, m)
    \/ LockTenant(q) \/ Check(q)
    \/ CommitUser(q) \/ CommitRole(q) \/ CommitDepartment(q)
    \/ Refuse(q)

Spec == Init /\ [][Next]_vars

-----------------------------------------------------------------------------
(* Properties. *)

\* Types; and one request at a time holds the tenant's row.
TypeOK ==
  /\ status \in [Users -> {"none", "active", "deactivated"}]
  /\ role \in [Users -> AllRoles]
  /\ roleArchived \subseteq Roles
  /\ holds \in [Roles -> SUBSET Permissions]
  /\ department \in [Departments -> {"none", "active", "archived"}]
  /\ request \in [Requests -> Request \cup {NoRequest}]
  /\ \A p, q \in Requests :
       HoldsTenant(p) /\ HoldsTenant(q) => p = q

\* The store always has an active owner, however many owners demote and deactivate one another at
\* once (core-foundation rule 14; users.ts, checkAnotherOwner).
AnOwnerRemains == \E u \in Active : role[u] = Owner

\* An active user's role is active: a role given while it is being archived keeps it from being
\* archived, or is not given (roles.ts, archiveRole and activeRole).
ActiveUsersHaveActiveRoles == \A u \in Active : ActiveRole(role[u])

\* The license's limits hold, however many requests add or bring back the last one allowed
\* (core-foundation rule 4).
LimitsKept ==
  /\ Cardinality(Active) <= UserLimit
  /\ Cardinality(ActiveDepartments) \in 1..DepartmentLimit

\* Whoever is given a role is given an active one, deactivated or not; and a manager who is not an
\* owner never gives one that holds more than their session did when it was read, although the
\* role may be edited or archived meanwhile (core-foundation slice 6; users.ts, activeRole and
\* checkGrantable).  A user who comes back keeps theirs, which nobody judges again (users.ts,
\* reactivateUser): it is active, and may hold more by now than when the manager was checked.
GrantsWithinOwn ==
  [][\A q \in Requests :
       LET r == request[q]
       IN  CommitUser(q) /\ r.kind \in GivingKinds =>
             /\ ActiveRole(Gives(q))
             /\ r.kind # "reactivateUser" /\ ~r.isOwner =>
                  r.role # Owner /\ holds[r.role] \subseteq r.grant]_vars
=============================================================================
