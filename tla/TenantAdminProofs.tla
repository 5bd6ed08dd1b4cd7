------------------------- MODULE TenantAdminProofs --------------------------
(***************************************************************************)
(* Safety of TenantAdmin for every set of users, roles, permissions,       *)
(* departments and requests at once, and every limit of the license.       *)
(***************************************************************************)
EXTENDS TenantAdmin, TLAPS, FiniteSetTheorems

USE TenantAdminAssumption

-----------------------------------------------------------------------------
(* The inductive invariant. *)

\* A request that passed its checks and has not committed: what it was checked against still
\* holds, since the locks it keeps stop whoever could change it.
UserJudged(q) ==
  /\ Ready(q, GivingKinds) => ActiveRole(Gives(q))
  /\ Ready(q, {"addUser", "changeUser"}) => Grantable(q, request[q].role)
  /\ Ready(q, {"addUser", "reactivateUser"}) => request[q].user \notin Active /\ Room
  /\ Ready(q, {"changeUser"}) =>
       (role[request[q].user] = Owner /\ request[q].user \in Active
          => AnotherOwner(request[q].user))
  /\ Ready(q, {"deactivateUser"}) =>
       (role[request[q].user] = Owner => AnotherOwner(request[q].user))

DepartmentJudged(q) ==
  /\ Ready(q, {"createDepartment", "restoreDepartment"}) =>
       /\ request[q].department \notin ActiveDepartments
       /\ Cardinality(ActiveDepartments) < DepartmentLimit
  /\ Ready(q, {"archiveDepartment"}) =>
       /\ request[q].department \in ActiveDepartments
       /\ Cardinality(ActiveDepartments) > 1

RoleJudged(q) ==
  Ready(q, {"archiveRole"}) => \A u \in Active : role[u] # request[q].role

Judged == \A q \in Requests : UserJudged(q) /\ DepartmentJudged(q) /\ RoleJudged(q)

\* Whoever changes a role holds its row: nobody else changes or gives it.
RolesLocked ==
  /\ \A p, q \in Requests :
       Ready(p, RoleKinds) /\ Ready(q, GivingKinds) => Gives(q) # request[p].role
  /\ \A p, q \in Requests :
       Ready(p, RoleKinds) /\ Ready(q, RoleKinds) /\ request[p].role = request[q].role => p = q

\* The owner role is never asked to be changed.
EditableOnly == \A q \in Requests : request[q].kind \in RoleKinds => request[q].role \in Roles

\* Nobody else adds the user whom a request found to be new.
AddsNew ==
  \A q \in Requests :
    HoldsTenant(q) /\ request[q].kind = "addUser" => status[request[q].user] = "none"

IInv ==
  /\ TypeOK /\ EditableOnly /\ AddsNew
  /\ AnOwnerRemains /\ ActiveUsersHaveActiveRoles /\ LimitsKept
  /\ Judged /\ RolesLocked

-----------------------------------------------------------------------------
(* The initial states, and the steps that change no row. *)

\* The active users and departments are finitely many.
LEMMA Finite == IsFiniteSet(Active) /\ IsFiniteSet(ActiveDepartments)
  BY FS_Subset DEF Active, ActiveDepartments

\* The invariant holds of a tenant just created.
LEMMA InitInv == Init => IInv
<1> SUFFICES ASSUME Init PROVE IInv
  OBVIOUS
<1> USE DEF Init
<1>1. \A q \in Requests : request[q] = NoRequest
  OBVIOUS
<1>2. Active = {First} /\ ActiveDepartments = {Default}
  BY DEF Active, ActiveDepartments
<1>3. Cardinality(Active) = 1 /\ Cardinality(ActiveDepartments) = 1
  BY <1>2, FS_Singleton
<1>4. TypeOK
  BY <1>1 DEF TypeOK, AllRoles, HoldsTenant, NoRequest, UserKinds, DepartmentKinds
<1>5. AnOwnerRemains /\ ActiveUsersHaveActiveRoles
  BY <1>2 DEF AnOwnerRemains, ActiveUsersHaveActiveRoles, ActiveRole
<1>6. LimitsKept
  BY <1>3 DEF LimitsKept
<1>7. EditableOnly
  BY <1>1 DEF EditableOnly, NoRequest, RoleKinds
<1>7a. AddsNew
  BY <1>1 DEF AddsNew, HoldsTenant, NoRequest, UserKinds, DepartmentKinds
<1>8. Judged /\ RolesLocked
  BY <1>1 DEF Judged, UserJudged, DepartmentJudged, RoleJudged, RolesLocked, Ready, NoRequest,
       GivingKinds, UserKinds, RoleKinds
<1> QED BY <1>4, <1>5, <1>6, <1>7, <1>7a, <1>8 DEF IInv

\* What a step leaves of the rows leaves what is read of them.
LEMMA RowsSame ==
  ASSUME UNCHANGED <<userVars, roleVars, department>>
  PROVE  /\ Active' = Active /\ ActiveDepartments' = ActiveDepartments
         /\ role' = role /\ holds' = holds /\ roleArchived' = roleArchived
         /\ status' = status /\ department' = department
  BY DEF userVars, roleVars, Active, ActiveDepartments

\* A step that changes no row, and of the requests only q, which does not pass its checks, keeps
\* the invariant if it takes the tenant's row only when it is free.
LEMMA Quiet ==
  ASSUME IInv, NEW q \in Requests, NEW r \in Request \cup {NoRequest},
         request' = [request EXCEPT ![q] = r],
         UNCHANGED <<userVars, roleVars, department>>,
         r # NoRequest => r.step # "ready",
         r.kind \in RoleKinds => r.role \in Roles,
         HoldsTenant(q)' => TenantFree(q) /\ (r.kind = "addUser" => status[r.user] = "none")
  PROVE  IInv'
<1> USE DEF IInv
<1>1. request \in [Requests -> Request \cup {NoRequest}]
  BY DEF TypeOK
<1>2. request' \in [Requests -> Request \cup {NoRequest}]
  BY <1>1
<1>3. \A p \in Requests : p # q => request'[p] = request[p]
  BY <1>1
<1>4. request'[q] = r
  BY <1>1
<1>5. \A p \in Requests : p # q => (HoldsTenant(p)' <=> HoldsTenant(p))
  BY <1>3 DEF HoldsTenant
<1>6. TypeOK'
  <2>1. \A s, p \in Requests : HoldsTenant(s)' /\ HoldsTenant(p)' => s = p
    BY <1>5 DEF TypeOK, TenantFree
  <2> QED BY <1>2, <2>1, RowsSame DEF TypeOK
<1>7. EditableOnly'
  BY <1>3, <1>4 DEF EditableOnly
<1>7a. AddsNew'
  BY <1>3, <1>4, <1>5, RowsSame DEF AddsNew
<1>8. AnOwnerRemains' /\ ActiveUsersHaveActiveRoles' /\ LimitsKept'
  BY RowsSame DEF AnOwnerRemains, ActiveUsersHaveActiveRoles, LimitsKept, ActiveRole
<1>9. /\ ~Ready(q, Kinds)'
      /\ \A p \in Requests, K \in SUBSET Kinds : Ready(p, K)' => p # q /\ Ready(p, K)
  BY <1>3, <1>4 DEF Ready, NoRequest, Kinds, UserKinds, DepartmentKinds, RoleKinds
<1>10. Judged' /\ RolesLocked'
  BY <1>3, <1>4, RowsSame DEF Judged, UserJudged, DepartmentJudged, RoleJudged, RolesLocked, Ready,
       NoRequest, GivingKinds, UserKinds, RoleKinds, Gives, ActiveRole, Grantable, Holdings, Room,
       AnotherOwner
<1> QED BY <1>6, <1>7, <1>7a, <1>8, <1>10

\* Whoever asks, and whoever locks the tenant or is refused, keeps the invariant.
LEMMA QuietSteps ==
  ASSUME IInv, NEW q \in Requests,
         \/ \E m \in Users : Ask(q, m)
         \/ LockTenant(q) \/ Refuse(q)
  PROVE  IInv'
<1> USE DEF IInv
<1>1. /\ role \in [Users -> AllRoles] /\ holds \in [Roles -> SUBSET Permissions]
      /\ request \in [Requests -> Request \cup {NoRequest}]
  BY DEF TypeOK
<1>2. \A u \in Users : Holdings(role[u]) \in SUBSET Permissions
  BY <1>1 DEF Holdings, AllRoles
<1>3. ASSUME NEW r \in Request, Begin(q, r), r.step = "asked",
             r.kind \in RoleKinds => r.role \in Roles
      PROVE  IInv'
  <2>1. request' = [request EXCEPT ![q] = r] /\ request'[q] = r
    BY <1>1, <1>3 DEF Begin
  <2>2. ~HoldsTenant(q)'
    BY <1>3, <2>1 DEF HoldsTenant
  <2> QED BY <1>3, <2>1, <2>2, Quiet DEF Begin
<1>4. CASE \E m \in Users : Ask(q, m)
  <2>1. PICK m \in Users : Ask(q, m)
    BY <1>4
  <2>2. ASSUME NEW kind \in Kinds
        PROVE  /\ Asked(m, kind) \in Request
               /\ Asked(m, kind).step = "asked" /\ Asked(m, kind).kind = kind
    BY <1>1, <1>2, Zenon DEF Asked, Request, AllRoles
  <2>3. CASE AskUser(q, m)
    <3>1. PICK u \in Users, r \in AllRoles :
            Begin(q, [Asked(m, IF status[u] = "none" THEN "addUser" ELSE "changeUser")
                        EXCEPT !.own = (u = m), !.user = u, !.role = r])
      BY <2>3 DEF AskUser
    <3> DEFINE kind == IF status[u] = "none" THEN "addUser" ELSE "changeUser"
               a == [Asked(m, kind) EXCEPT !.own = (u = m), !.user = u, !.role = r]
    <3>2. kind \in Kinds /\ kind \notin RoleKinds
      BY DEF Kinds, UserKinds, RoleKinds
    <3>3. a \in Request /\ a.step = "asked" /\ a.kind = kind
      <4> DEFINE b == Asked(m, kind)
                 c == [b EXCEPT !.own = (u = m), !.user = u, !.role = r]
      <4> HIDE DEF kind, b
      <4>1. b \in Request /\ b.step = "asked" /\ b.kind = kind
        BY <2>2, <3>2 DEF b
      <4>2. c \in Request /\ c.step = "asked" /\ c.kind = kind
        BY <4>1 DEF Request
      <4>3. a = c
        BY DEF b
      <4> HIDE DEF a, c
      <4> QED BY <4>2, <4>3
    <3> QED BY <1>3, <3>1, <3>2, <3>3
  <2>4. CASE AskStatus(q, m)
    <3>1. PICK kind \in {"deactivateUser", "reactivateUser"}, u \in Users :
            Begin(q, [Asked(m, kind) EXCEPT !.own = (u = m), !.user = u])
      BY <2>4 DEF AskStatus
    <3> DEFINE a == [Asked(m, kind) EXCEPT !.own = (u = m), !.user = u]
    <3>2. kind \in Kinds /\ kind \notin RoleKinds
      BY DEF Kinds, UserKinds, RoleKinds
    <3>3. a \in Request /\ a.step = "asked" /\ a.kind = kind
      <4> DEFINE b == Asked(m, kind)
                 c == [b EXCEPT !.own = (u = m), !.user = u]
      <4> HIDE DEF b
      <4>1. b \in Request /\ b.step = "asked" /\ b.kind = kind
        BY <2>2, <3>2 DEF b
      <4>2. c \in Request /\ c.step = "asked" /\ c.kind = kind
        BY <4>1 DEF Request
      <4>3. a = c
        BY DEF b
      <4> HIDE DEF a, c
      <4> QED BY <4>2, <4>3
    <3> QED BY <1>3, <3>1, <3>2, <3>3
  <2>5. CASE AskRole(q, m)
    <3>1. PICK kind \in RoleKinds, r \in Roles, S \in SUBSET Permissions :
            Begin(q, [Asked(m, kind) EXCEPT !.role = r, !.holdings = S])
      BY <2>5 DEF AskRole
    <3> DEFINE a == [Asked(m, kind) EXCEPT !.role = r, !.holdings = S]
    <3>2. kind \in Kinds
      BY DEF Kinds
    <3>3. a \in Request /\ a.step = "asked" /\ a.role = r
      <4> DEFINE b == Asked(m, kind)
                 c == [b EXCEPT !.role = r, !.holdings = S]
      <4> HIDE DEF b
      <4>1. b \in Request /\ b.step = "asked" /\ r \in AllRoles
        BY <2>2, <3>2 DEF b, AllRoles
      <4>2. c \in Request /\ c.step = "asked" /\ c.role = r
        BY <4>1 DEF Request
      <4>3. a = c
        BY DEF b
      <4> HIDE DEF a, c
      <4> QED BY <4>2, <4>3
    <3> QED BY <1>3, <3>1, <3>3
  <2>6. CASE AskDepartment(q, m)
    <3>1. PICK kind \in DepartmentKinds, d \in Departments :
            Begin(q, [Asked(m, kind) EXCEPT !.department = d])
      BY <2>6 DEF AskDepartment
    <3> DEFINE a == [Asked(m, kind) EXCEPT !.department = d]
    <3>2. kind \in Kinds /\ kind \notin RoleKinds
      BY DEF Kinds, DepartmentKinds, RoleKinds
    <3>3. a \in Request /\ a.step = "asked" /\ a.kind = kind
      BY <2>2, <3>2 DEF Request
    <3> QED BY <1>3, <3>1, <3>2, <3>3
  <2> QED BY <2>1, <2>3, <2>4, <2>5, <2>6 DEF Ask
<1>5. CASE LockTenant(q)
  <2> DEFINE r == [request[q] EXCEPT !.step = "locked"]
  <2>1. /\ request[q].kind \in UserKinds /\ TenantFree(q)
        /\ request' = [request EXCEPT ![q] = r]
        /\ UNCHANGED <<userVars, roleVars, department>>
    BY <1>5 DEF LockTenant, Step
  <2>1a. r.kind = "addUser" => status[r.user] = "none"
    BY <1>1, <1>5 DEF LockTenant, Request, NoRequest, UserKinds
  <2>2. request[q] \in Request
    BY <1>1, <2>1 DEF NoRequest, UserKinds
  <2>3. r \in Request /\ r.step = "locked" /\ r.kind \notin RoleKinds
    BY <2>1, <2>2 DEF Request, UserKinds, RoleKinds
  <2> QED BY <2>1, <2>1a, <2>3, Quiet
<1>6. CASE Refuse(q)
  <2>1. ~HoldsTenant(q)'
    BY <1>1, <1>6 DEF Refuse, Done, HoldsTenant, NoRequest, UserKinds, DepartmentKinds
  <2> QED BY <1>6, <2>1, Quiet DEF Refuse, Done, NoRequest, RoleKinds
<1> QED BY <1>4, <1>5, <1>6

-----------------------------------------------------------------------------
(* The checks. *)

\* A request that passes its checks keeps the invariant if it holds what it will need: what it was
\* judged by, and the locks.
LEMMA CheckStep ==
  ASSUME IInv, NEW q \in Requests, NEW from \in {"asked", "locked"},
         Step(q, from, "ready"),
         from = "asked" => request[q].kind \notin UserKinds,
         request[q].kind \in DepartmentKinds => TenantFree(q),
         UserJudged(q)', DepartmentJudged(q)', RoleJudged(q)',
         Ready(q, GivingKinds)' => RoleShareable(q, Gives(q)),
         Ready(q, RoleKinds)' => RoleFree(q, request[q].role)
  PROVE  IInv'
<1> USE DEF IInv
<1> DEFINE r == [request[q] EXCEPT !.step = "ready"]
<1>1. /\ request \in [Requests -> Request \cup {NoRequest}]
      /\ request' = [request EXCEPT ![q] = r] /\ request[q].step = from
      /\ request[q].kind \in Kinds
  BY DEF TypeOK, Step
<1>2. request[q] \in Request
  BY <1>1 DEF NoRequest, Kinds, UserKinds, DepartmentKinds, RoleKinds
<1>3. r \in Request
  BY <1>2 DEF Request
<1>4. request' \in [Requests -> Request \cup {NoRequest}]
  BY <1>1, <1>3
<1>5. /\ \A p \in Requests : p # q => request'[p] = request[p]
      /\ request'[q] = r
  BY <1>1
<1>6. \A p \in Requests : p # q => (HoldsTenant(p)' <=> HoldsTenant(p))
  BY <1>5 DEF HoldsTenant
<1>7. UNCHANGED <<userVars, roleVars, department>>
  BY DEF Step
<1>8. HoldsTenant(q)' => TenantFree(q)
  BY <1>1, <1>2, <1>5 DEF HoldsTenant, Request, TypeOK, TenantFree, UserKinds, DepartmentKinds
<1>9. TypeOK'
  <2>1. \A s, p \in Requests : HoldsTenant(s)' /\ HoldsTenant(p)' => s = p
    BY <1>6, <1>8 DEF TypeOK, TenantFree
  <2> QED BY <1>4, <1>7, <2>1, RowsSame DEF TypeOK
<1>10. EditableOnly'
  BY <1>2, <1>5 DEF EditableOnly, Request
<1>10a. AddsNew'
  <2>1. Ready(q, {"addUser"})' => HoldsTenant(q)
    BY <1>1, <1>2, <1>5 DEF Ready, HoldsTenant, UserKinds, Request
  <2>2. request'[q].user = request[q].user /\ request'[q].kind = request[q].kind
    BY <1>2, <1>5 DEF Request
  <2>3. \A p \in Requests : HoldsTenant(p)' /\ request'[p].kind = "addUser" =>
          HoldsTenant(p) /\ request[p].kind = "addUser" /\ request'[p].user = request[p].user
    BY <1>1, <1>2, <1>5, <1>6, <2>1, <2>2 DEF Ready, HoldsTenant, UserKinds
  <2> QED BY <1>7, <2>3, RowsSame DEF AddsNew
<1>11. AnOwnerRemains' /\ ActiveUsersHaveActiveRoles' /\ LimitsKept'
  BY <1>7, RowsSame DEF AnOwnerRemains, ActiveUsersHaveActiveRoles, LimitsKept, ActiveRole
<1>12. Judged'
  <2> SUFFICES ASSUME NEW p \in Requests, p # q
              PROVE  (UserJudged(p) /\ DepartmentJudged(p) /\ RoleJudged(p))'
    BY DEF Judged
  <2> QED BY <1>5, <1>7, RowsSame DEF Judged, UserJudged, DepartmentJudged, RoleJudged, Ready,
            Gives, ActiveRole, Grantable, Holdings, Room, AnotherOwner
<1>13. /\ \A p \in Requests : request'[p].role = request[p].role \/ p # q
       /\ \A p \in Requests : p # q => request'[p] = request[p]
       /\ \A p \in Requests : Gives(p)' = Gives(p)
  BY <1>2, <1>5, <1>7, RowsSame DEF Gives, Request
<1>14. RolesLocked'
  <2>1. \A p \in Requests : request'[p].role = request[p].role
    BY <1>2, <1>5 DEF Request
  <2>2. \A K : \A p \in Requests : p # q => (Ready(p, K)' <=> Ready(p, K))
    BY <1>5 DEF Ready
  <2>3. ~ (Ready(q, RoleKinds)' /\ Ready(q, GivingKinds)')
    BY DEF Ready, RoleKinds, GivingKinds, UserKinds
  <2>4. ASSUME NEW p \in Requests, NEW s \in Requests, Ready(p, RoleKinds)', Ready(s, GivingKinds)'
        PROVE  Gives(s)' # request'[p].role
    BY <1>13, <2>1, <2>2, <2>3, <2>4 DEF RolesLocked, RoleShareable, RoleFree
  <2>5. ASSUME NEW p \in Requests, NEW s \in Requests, Ready(p, RoleKinds)', Ready(s, RoleKinds)',
               request'[p].role = request'[s].role
        PROVE  p = s
    BY <2>1, <2>2, <2>5 DEF RolesLocked, RoleShareable, RoleFree
  <2> QED BY <2>4, <2>5 DEF RolesLocked
<1> QED BY <1>9, <1>10, <1>10a, <1>11, <1>12, <1>14

\* A request that passes its checks holds what CheckStep asks for.
LEMMA CheckSteps ==
  ASSUME IInv, NEW q \in Requests, Check(q)
  PROVE  IInv'
<1> DEFINE r == request[q]
<1>1. request \in [Requests -> Request \cup {NoRequest}]
  BY DEF IInv, TypeOK
<1>2. ASSUME NEW from \in {"asked", "locked"}, Step(q, from, "ready")
      PROVE  /\ request'[q].kind = r.kind /\ request'[q].step = "ready"
             /\ request'[q].user = r.user /\ request'[q].role = r.role
             /\ request'[q].grant = r.grant /\ request'[q].isOwner = r.isOwner
             /\ request'[q].department = r.department
             /\ r \in Request
             /\ UNCHANGED <<userVars, roleVars, department>>
             /\ Gives(q)' = Gives(q) /\ Room' = Room
  <2>1. /\ request' = [request EXCEPT ![q].step = "ready"]
        /\ r.kind \in Kinds
        /\ UNCHANGED <<userVars, roleVars, department>>
    BY <1>2 DEF Step
  <2>2. r \in Request
    BY <1>1, <2>1 DEF Kinds, UserKinds, DepartmentKinds, RoleKinds, NoRequest
  <2>3. /\ request'[q].kind = r.kind /\ request'[q].step = "ready"
        /\ request'[q].user = r.user /\ request'[q].role = r.role
        /\ request'[q].grant = r.grant /\ request'[q].isOwner = r.isOwner
        /\ request'[q].department = r.department
    BY <1>1, <2>1, <2>2 DEF Request
  <2> QED BY <2>1, <2>2, <2>3, RowsSame DEF Gives, Room
<1> USE DEF Ready, UserKinds, DepartmentKinds, RoleKinds, GivingKinds
<1>3. CASE CheckAdd(q)
  <2>1. Step(q, "locked", "ready") /\ r.kind = "addUser"
    BY <1>3 DEF CheckAdd
  <2>2. r.user \notin Active
    BY <2>1 DEF IInv, AddsNew, HoldsTenant, Active, Step
  <2>3. UserJudged(q)' /\ DepartmentJudged(q)' /\ RoleJudged(q)'
    BY <1>2, <1>3, <2>1, <2>2, RowsSame
       DEF CheckAdd, UserJudged, DepartmentJudged, RoleJudged, Gives, ActiveRole, Grantable,
           Holdings
  <2> QED BY <1>2, <1>3, <2>1, <2>3, CheckStep DEF CheckAdd, Gives
<1>4. CASE CheckChange(q)
  <2>1. Step(q, "locked", "ready") /\ r.kind = "changeUser"
    BY <1>4 DEF CheckChange
  <2>2. AnotherOwner(r.user) => AnotherOwner(r.user)'
    BY <1>2, <2>1, RowsSame DEF AnotherOwner
  <2>3. UserJudged(q)' /\ DepartmentJudged(q)' /\ RoleJudged(q)'
    BY <1>2, <1>4, <2>1, <2>2, RowsSame
       DEF CheckChange, UserJudged, DepartmentJudged, RoleJudged, Gives, ActiveRole, Grantable,
           Holdings
  <2> QED BY <1>2, <1>4, <2>1, <2>3, CheckStep DEF CheckChange, Gives
<1>5. CASE CheckDeactivate(q)
  <2>1. Step(q, "locked", "ready") /\ r.kind = "deactivateUser"
    BY <1>5 DEF CheckDeactivate
  <2>2. AnotherOwner(r.user) => AnotherOwner(r.user)'
    BY <1>2, <2>1, RowsSame DEF AnotherOwner
  <2>3. UserJudged(q)' /\ DepartmentJudged(q)' /\ RoleJudged(q)'
    BY <1>2, <1>5, <2>1, <2>2, RowsSame
       DEF CheckDeactivate, UserJudged, DepartmentJudged, RoleJudged
  <2> QED BY <1>2, <2>1, <2>3, CheckStep
<1>6. CASE CheckReactivate(q)
  <2>1. Step(q, "locked", "ready") /\ r.kind = "reactivateUser"
    BY <1>6 DEF CheckReactivate
  <2>2. UserJudged(q)' /\ DepartmentJudged(q)' /\ RoleJudged(q)'
    BY <1>2, <1>6, <2>1, RowsSame
       DEF CheckReactivate, UserJudged, DepartmentJudged, RoleJudged, Gives, ActiveRole
  <2> QED BY <1>2, <1>6, <2>1, <2>2, CheckStep DEF CheckReactivate, Gives
<1>7. CASE CheckDepartment(q)
  <2>1. /\ Step(q, "asked", "ready") /\ r.kind \in DepartmentKinds /\ TenantFree(q)
    BY <1>7 DEF CheckDepartment
  <2>2. UserJudged(q)' /\ DepartmentJudged(q)' /\ RoleJudged(q)'
    <3>1. r.department \in Departments
      BY <1>2, <2>1 DEF Request
    <3> QED BY <1>2, <1>7, <2>1, <3>1, RowsSame
              DEF CheckDepartment, UserJudged, DepartmentJudged, RoleJudged, ActiveDepartments
  <2> QED BY <1>2, <2>1, <2>2, CheckStep
<1>8. CASE CheckRole(q)
  <2>1. Step(q, "asked", "ready") /\ r.kind \in RoleKinds /\ RoleFree(q, r.role)
    BY <1>8 DEF CheckRole
  <2>2. UserJudged(q)' /\ DepartmentJudged(q)' /\ RoleJudged(q)'
    BY <1>2, <1>8, <2>1, RowsSame DEF CheckRole, UserJudged, DepartmentJudged, RoleJudged
  <2> QED BY <1>2, <2>1, <2>2, CheckStep
<1> QED BY <1>3, <1>4, <1>5, <1>6, <1>7, <1>8 DEF Check

-----------------------------------------------------------------------------
(* The commits. *)

\* What a commit leaves of the requests: the others, and nothing of its own.
LEMMA Committed ==
  ASSUME TypeOK, NEW q \in Requests, Done(q)
  PROVE  /\ request' \in [Requests -> Request \cup {NoRequest}]
         /\ \A p \in Requests : p # q => request'[p] = request[p]
         /\ ~HoldsTenant(q)'
         /\ \A K \in SUBSET Kinds : ~Ready(q, K)'
         /\ \A p, s \in Requests : HoldsTenant(p)' /\ HoldsTenant(s)' => p = s
         /\ EditableOnly => EditableOnly'
<1>1. /\ request \in [Requests -> Request \cup {NoRequest}]
      /\ request' = [request EXCEPT ![q] = NoRequest]
  BY DEF TypeOK, Done
<1>2. /\ request' \in [Requests -> Request \cup {NoRequest}]
      /\ \A p \in Requests : p # q => request'[p] = request[p]
      /\ request'[q] = NoRequest
  BY <1>1
<1>3. ~HoldsTenant(q)'
  BY <1>2 DEF HoldsTenant, NoRequest, UserKinds, DepartmentKinds
<1>4. \A K \in SUBSET Kinds : ~Ready(q, K)'
  BY <1>2 DEF Ready, NoRequest, Kinds, UserKinds, DepartmentKinds, RoleKinds
<1>5. \A p \in Requests : HoldsTenant(p)' => p # q /\ HoldsTenant(p)
  BY <1>2, <1>3 DEF HoldsTenant
<1>6. \A p, s \in Requests : HoldsTenant(p)' /\ HoldsTenant(s)' => p = s
  BY <1>5 DEF TypeOK
<1>7. EditableOnly => EditableOnly'
  BY <1>2 DEF EditableOnly, NoRequest, RoleKinds
<1> QED BY <1>2, <1>3, <1>4, <1>6, <1>7

\* Changing a user keeps the invariant.
LEMMA CommitUserStep ==
  ASSUME IInv, NEW q \in Requests, CommitUser(q)
  PROVE  IInv'
<1> USE DEF IInv
<1> DEFINE r == request[q]
           u == request[q].user
<1>1. /\ status \in [Users -> {"none", "active", "deactivated"}]
      /\ role \in [Users -> AllRoles]
      /\ request \in [Requests -> Request \cup {NoRequest}]
  BY DEF TypeOK
<1>2. /\ r.kind \in UserKinds /\ HoldsTenant(q) /\ Done(q)
      /\ roleArchived' = roleArchived /\ holds' = holds /\ department' = department
  BY DEF CommitUser, Ready, HoldsTenant, UserKinds, roleVars
<1>3. r \in Request /\ u \in Users /\ r.role \in AllRoles
  BY <1>1, <1>2 DEF NoRequest, UserKinds, Request
<1>4. Gives(q) \in AllRoles
  BY <1>1, <1>3 DEF Gives
<1>5. \A p \in Requests : p # q => request'[p] = request[p] /\ ~HoldsTenant(p)
  BY <1>2, Committed DEF TypeOK
<1>6. \A p \in Requests : ~HoldsTenant(p)'
  BY <1>2, <1>5, Committed DEF HoldsTenant
<1>7. \A p \in Requests : ~Ready(p, UserKinds \cup DepartmentKinds)'
  BY <1>6 DEF Ready, HoldsTenant
<1>8. \A p \in Requests : Ready(p, RoleKinds)' => Ready(p, RoleKinds) /\ request'[p] = request[p]
  BY <1>2, <1>5, Committed DEF Ready, Kinds
<1>9. /\ status' \in [Users -> {"none", "active", "deactivated"}]
      /\ role' \in [Users -> AllRoles]
      /\ \A v \in Users : v # u => status'[v] = status[v] /\ role'[v] = role[v]
  BY <1>1, <1>3, <1>4 DEF CommitUser
<1>10. TypeOK'
  BY <1>2, <1>9, Committed DEF TypeOK
<1>11. EditableOnly' /\ AddsNew'
  BY <1>2, <1>6, Committed DEF AddsNew
<1>12. RolesLocked'
  BY <1>7, <1>8 DEF RolesLocked, Ready, GivingKinds, UserKinds, RoleKinds
<1>13. ActiveDepartments' = ActiveDepartments /\ Active' = {v \in Users : status'[v] = "active"}
  BY <1>2 DEF ActiveDepartments, Active
<1>14. IsFiniteSet(Active) /\ Cardinality(Active) \in Nat
  BY Finite, FS_CardinalityType
\* Of the checks of the others only those of a role being archived are still of use.
<1>15. ASSUME \A p \in Requests : Ready(p, {"archiveRole"}) =>
                \A v \in Active' : role'[v] # request[p].role
       PROVE  Judged'
  BY <1>7, <1>8, <1>15
     DEF Judged, UserJudged, DepartmentJudged, RoleJudged, Ready, GivingKinds, UserKinds,
         DepartmentKinds, RoleKinds
<1>16. CASE Ready(q, {"addUser", "reactivateUser"})
  <2>1. status'[u] = "active" /\ role'[u] = Gives(q)
    BY <1>1, <1>3, <1>16 DEF CommitUser, Ready
  <2>2. u \notin Active /\ Room /\ ActiveRole(Gives(q)) /\ Ready(q, GivingKinds)
    BY <1>16 DEF Judged, UserJudged, Ready, GivingKinds, UserKinds
  <2>3. Active' = Active \cup {u}
    BY <1>3, <1>9, <1>13, <2>1 DEF Active
  <2>4. LimitsKept'
    <3>1. Cardinality(Active \cup {u}) = Cardinality(Active) + 1
      BY <1>14, <2>2, FS_AddElement
    <3>2. Cardinality(Active) + 1 <= UserLimit
      BY <1>14, <2>2 DEF Room
    <3>3. Cardinality(Active') <= UserLimit
      BY <2>3, <3>1, <3>2
    <3> QED BY <1>13, <3>3 DEF LimitsKept
  <2>5. AnOwnerRemains'
    BY <1>9, <2>2, <2>3 DEF AnOwnerRemains, Active
  <2>6. ActiveUsersHaveActiveRoles'
    BY <1>2, <1>9, <2>1, <2>2, <2>3 DEF ActiveUsersHaveActiveRoles, ActiveRole, Active
  <2>7. Judged'
    <3> SUFFICES ASSUME NEW p \in Requests, Ready(p, {"archiveRole"}), NEW v \in Active'
                PROVE  role'[v] # request[p].role
      BY <1>15
    <3>1. Gives(q) # request[p].role
      BY <2>2 DEF RolesLocked, Ready, RoleKinds
    <3> QED BY <1>9, <2>1, <2>3, <3>1 DEF Judged, RoleJudged, Active
  <2> QED BY <1>10, <1>11, <1>12, <2>4, <2>5, <2>6, <2>7
<1>17. CASE Ready(q, {"changeUser"})
  <2>1. status' = status /\ role'[u] = r.role
    BY <1>1, <1>3, <1>17 DEF CommitUser, Ready
  <2>2. /\ ActiveRole(r.role) /\ Ready(q, GivingKinds) /\ Gives(q) = r.role
        /\ role[u] = Owner /\ u \in Active => AnotherOwner(u)
    BY <1>17 DEF Judged, UserJudged, Ready, GivingKinds, UserKinds, Gives
  <2>3. Active' = Active
    BY <2>1 DEF Active
  <2>4. LimitsKept'
    BY <1>13, <2>3 DEF LimitsKept
  <2>5. AnOwnerRemains'
    <3>1. \E v \in Active \ {u} : role[v] = Owner
      BY <2>2 DEF AnOwnerRemains, AnotherOwner
    <3> QED BY <1>9, <2>3, <3>1 DEF AnOwnerRemains, Active
  <2>6. ActiveUsersHaveActiveRoles'
    BY <1>2, <1>9, <2>1, <2>2, <2>3 DEF ActiveUsersHaveActiveRoles, ActiveRole, Active
  <2>7. Judged'
    <3> SUFFICES ASSUME NEW p \in Requests, Ready(p, {"archiveRole"}), NEW v \in Active'
                PROVE  role'[v] # request[p].role
      BY <1>15
    <3>1. r.role # request[p].role
      BY <2>2 DEF RolesLocked, Ready, RoleKinds
    <3> QED BY <1>9, <2>1, <2>3, <3>1 DEF Judged, RoleJudged, Active
  <2> QED BY <1>10, <1>11, <1>12, <2>4, <2>5, <2>6, <2>7
<1>18. CASE Ready(q, {"deactivateUser"})
  <2>1. status'[u] = "deactivated" /\ role' = role
    BY <1>1, <1>3, <1>18 DEF CommitUser, Ready
  <2>2. role[u] = Owner => AnotherOwner(u)
    BY <1>18 DEF Judged, UserJudged
  <2>3. Active' = Active \ {u}
    BY <1>3, <1>9, <1>13, <2>1 DEF Active
  <2>4. Cardinality(Active \ {u}) \in Nat /\ Cardinality(Active \ {u}) <= Cardinality(Active)
    <3>1. IsFiniteSet(Active \ {u})
      BY <1>14, FS_Subset
    <3>2. Cardinality(Active \ {u}) =
            IF u \in Active THEN Cardinality(Active) - 1 ELSE Cardinality(Active)
      BY <1>14, FS_RemoveElement
    <3>3. Cardinality(Active \ {u}) \in Nat
      BY <3>1, FS_CardinalityType
    <3> QED BY <1>14, <3>2, <3>3
  <2>5. LimitsKept'
    BY <1>13, <1>14, <2>3, <2>4 DEF LimitsKept
  <2>6. AnOwnerRemains'
    BY <2>1, <2>2, <2>3 DEF AnOwnerRemains, AnotherOwner
  <2>7. ActiveUsersHaveActiveRoles'
    BY <1>2, <2>1, <2>3 DEF ActiveUsersHaveActiveRoles, ActiveRole
  <2>8. Judged'
    BY <1>15, <2>1, <2>3 DEF Judged, RoleJudged
  <2> QED BY <1>10, <1>11, <1>12, <2>5, <2>6, <2>7, <2>8
<1> QED BY <1>16, <1>17, <1>18 DEF CommitUser

\* Changing a role keeps the invariant: whoever gives a role keeps it as it is.
LEMMA CommitRoleStep ==
  ASSUME IInv, NEW q \in Requests, CommitRole(q)
  PROVE  IInv'
<1> USE DEF IInv
<1> DEFINE r == request[q].role
<1>1. /\ holds \in [Roles -> SUBSET Permissions]
      /\ request \in [Requests -> Request \cup {NoRequest}]
  BY DEF TypeOK
<1>2. /\ Ready(q, RoleKinds) /\ Done(q)
      /\ status' = status /\ role' = role /\ department' = department
  BY DEF CommitRole, Ready, RoleKinds, userVars
<1>3. r \in Roles /\ request[q] \in Request
  BY <1>1, <1>2 DEF EditableOnly, Ready, NoRequest, RoleKinds
<1>4. \A p \in Requests : p # q => request'[p] = request[p]
  BY <1>2, Committed
<1>5. /\ roleArchived' \subseteq Roles /\ holds' \in [Roles -> SUBSET Permissions]
      /\ \A s \in AllRoles : s # r => (s \in roleArchived' <=> s \in roleArchived)
      /\ \A s \in Roles : s # r => holds'[s] = holds[s]
  <2>1. request[q].holdings \in SUBSET Permissions
    BY <1>3 DEF Request
  <2>2. roleArchived \subseteq Roles
    BY DEF TypeOK
  <2>3. \/ /\ holds' = [holds EXCEPT ![r] = request[q].holdings]
           /\ roleArchived' = roleArchived
        \/ roleArchived' = roleArchived \cup {r} /\ holds' = holds
        \/ roleArchived' = roleArchived \ {r} /\ holds' = holds
    BY DEF CommitRole
  <2> QED BY <1>1, <1>3, <2>1, <2>2, <2>3
<1>6. TypeOK'
  BY <1>2, <1>5, Committed DEF TypeOK
<1>7. EditableOnly'
  BY <1>2, Committed
<1>8. \A p \in Requests : HoldsTenant(p)' => HoldsTenant(p) /\ request'[p] = request[p]
  BY <1>2, <1>4, Committed DEF HoldsTenant
<1>9. AddsNew'
  BY <1>2, <1>8 DEF AddsNew
<1>10. Active' = Active /\ ActiveDepartments' = ActiveDepartments
  BY <1>2 DEF Active, ActiveDepartments
<1>11. AnOwnerRemains' /\ LimitsKept'
  BY <1>2, <1>10 DEF AnOwnerRemains, LimitsKept
<1>12. ActiveUsersHaveActiveRoles'
  <2> SUFFICES ASSUME NEW v \in Active PROVE ActiveRole(role[v])'
    BY <1>2, <1>10 DEF ActiveUsersHaveActiveRoles
  <2>1. ActiveRole(role[v]) /\ role[v] \in AllRoles
    BY DEF ActiveUsersHaveActiveRoles, TypeOK, Active
  <2>2. CASE role[v] # r
    BY <1>2, <1>5, <2>1, <2>2 DEF ActiveRole
  <2>3. CASE role[v] = r /\ Ready(q, {"archiveRole"})
    BY <2>3 DEF Judged, RoleJudged
  <2>4. CASE ~Ready(q, {"archiveRole"})
    <3>1. roleArchived' \subseteq roleArchived
      BY <2>4 DEF CommitRole
    <3> QED BY <1>2, <2>1, <3>1 DEF ActiveRole
  <2> QED BY <2>2, <2>3, <2>4
<1>13. \A p \in Requests, K \in SUBSET Kinds : Ready(p, K)' => p # q /\ Ready(p, K)
  BY <1>2, <1>4, Committed DEF Ready
<1>14. \A p \in Requests : p # q => Gives(p)' = Gives(p)
  BY <1>2, <1>4 DEF Gives
<1>15. RolesLocked'
  <2>1. \A p \in Requests : Ready(p, RoleKinds)' => p # q /\ Ready(p, RoleKinds)
    BY <1>13 DEF Kinds
  <2>2. \A p \in Requests : Ready(p, GivingKinds)' => p # q /\ Ready(p, GivingKinds)
    BY <1>13 DEF Kinds, GivingKinds
  <2> QED BY <1>4, <1>14, <2>1, <2>2 DEF RolesLocked
<1>16. ASSUME NEW p \in Requests, p # q
       PROVE  (UserJudged(p) /\ DepartmentJudged(p) /\ RoleJudged(p))'
  <2>1. request'[p] = request[p] /\ UserJudged(p) /\ DepartmentJudged(p) /\ RoleJudged(p)
    BY <1>4, <1>16 DEF Judged
  <2>2. Ready(p, GivingKinds) => Gives(p) # r
    BY <1>2 DEF RolesLocked
  <2>3. DepartmentJudged(p)' /\ RoleJudged(p)'
    BY <1>2, <1>10, <2>1 DEF DepartmentJudged, RoleJudged, Ready
  <2>4. Ready(p, GivingKinds)' => ActiveRole(Gives(p))'
    <3> SUFFICES ASSUME Ready(p, GivingKinds) PROVE ActiveRole(Gives(p))'
      BY <2>1 DEF Ready
    <3>1. request[p] \in Request
      BY <1>1 DEF Ready, NoRequest, GivingKinds, UserKinds
    <3>2. Gives(p) \in AllRoles
      BY <3>1 DEF Gives, TypeOK, Request
    <3> QED BY <1>5, <1>14, <1>16, <2>1, <2>2, <3>2 DEF UserJudged, ActiveRole
  <2>5. Ready(p, {"addUser", "changeUser"})' => Grantable(p, request[p].role)'
    <3> SUFFICES ASSUME Ready(p, {"addUser", "changeUser"})
                PROVE  Grantable(p, request[p].role)'
      BY <2>1 DEF Ready
    <3>1. request[p] \in Request
      BY <1>1 DEF Ready, NoRequest
    <3>2. request[p].role \in AllRoles /\ request[p].role # r
      BY <2>2, <3>1 DEF Gives, Request, Ready, GivingKinds, UserKinds
    <3>3. Holdings(request[p].role)' = Holdings(request[p].role)
      BY <1>5, <2>1, <3>2 DEF Holdings, AllRoles
    <3> QED BY <2>1, <3>3 DEF UserJudged, Grantable
  <2>6. /\ Ready(p, {"addUser", "reactivateUser"})' => request'[p].user \notin Active' /\ Room'
        /\ Ready(p, {"changeUser"})' =>
             (role'[request'[p].user] = Owner /\ request'[p].user \in Active'
                => AnotherOwner(request[p].user)')
        /\ Ready(p, {"deactivateUser"})' =>
             (role'[request'[p].user] = Owner => AnotherOwner(request[p].user)')
    BY <1>2, <1>10, <2>1 DEF UserJudged, Ready, Room, AnotherOwner
  <2> QED BY <2>1, <2>3, <2>4, <2>5, <2>6 DEF UserJudged
<1>17. Judged'
  <2>1. UserJudged(q)' /\ DepartmentJudged(q)' /\ RoleJudged(q)'
    <3>1. \A K \in SUBSET Kinds : ~Ready(q, K)'
      BY <1>2, Committed
    <3> QED BY <3>1
         DEF UserJudged, DepartmentJudged, RoleJudged, Kinds, UserKinds, GivingKinds,
             DepartmentKinds, RoleKinds
  <2> QED BY <1>16, <2>1 DEF Judged
<1> QED BY <1>6, <1>7, <1>9, <1>11, <1>12, <1>15, <1>17

\* Changing a department keeps the invariant.
LEMMA CommitDepartmentStep ==
  ASSUME IInv, NEW q \in Requests, CommitDepartment(q)
  PROVE  IInv'
<1> USE DEF IInv
<1> DEFINE d == request[q].department
<1>1. /\ department \in [Departments -> {"none", "active", "archived"}]
      /\ request \in [Requests -> Request \cup {NoRequest}]
  BY DEF TypeOK
<1>2. /\ Ready(q, DepartmentKinds) /\ HoldsTenant(q) /\ Done(q)
      /\ status' = status /\ role' = role /\ holds' = holds /\ roleArchived' = roleArchived
  BY DEF CommitDepartment, Ready, HoldsTenant, DepartmentKinds, userVars, roleVars
<1>3. d \in Departments
  BY <1>1, <1>2 DEF NoRequest, Ready, DepartmentKinds, Request
<1>4. \A p \in Requests : p # q => request'[p] = request[p] /\ ~HoldsTenant(p)
  BY <1>2, Committed DEF TypeOK
<1>5. \A p \in Requests : ~HoldsTenant(p)'
  BY <1>2, <1>4, Committed DEF HoldsTenant
<1>6. \A p \in Requests : ~Ready(p, UserKinds \cup DepartmentKinds)'
  BY <1>5 DEF Ready, HoldsTenant
<1>7. \A p \in Requests : Ready(p, RoleKinds)' => Ready(p, RoleKinds) /\ request'[p] = request[p]
  BY <1>2, <1>4, Committed DEF Ready, Kinds
<1>8. Active' = Active
  BY <1>2 DEF Active
<1>9. TypeOK'
  <2>1. department' \in [Departments -> {"none", "active", "archived"}]
    BY <1>1 DEF CommitDepartment
  <2> QED BY <1>2, <2>1, Committed DEF TypeOK
<1>10. EditableOnly' /\ AddsNew'
  BY <1>2, <1>5, Committed DEF AddsNew
<1>11. RolesLocked'
  BY <1>6, <1>7 DEF RolesLocked, Ready, GivingKinds, UserKinds, RoleKinds
<1>12. AnOwnerRemains' /\ ActiveUsersHaveActiveRoles'
  BY <1>2, <1>8 DEF AnOwnerRemains, ActiveUsersHaveActiveRoles, ActiveRole
<1>13. Judged'
  BY <1>2, <1>6, <1>7, <1>8
     DEF Judged, UserJudged, DepartmentJudged, RoleJudged, Ready, GivingKinds, UserKinds,
         DepartmentKinds, RoleKinds
<1>14. IsFiniteSet(ActiveDepartments) /\ Cardinality(ActiveDepartments) \in Nat
  BY Finite, FS_CardinalityType
<1>15. LimitsKept'
  <2>1. CASE Ready(q, {"createDepartment", "restoreDepartment"})
    <3>1. department' = [department EXCEPT ![d] = "active"]
      BY <2>1 DEF CommitDepartment, Ready
    <3>2. ActiveDepartments' = ActiveDepartments \cup {d}
      BY <1>1, <1>3, <3>1 DEF ActiveDepartments
    <3>3. d \notin ActiveDepartments /\ Cardinality(ActiveDepartments) < DepartmentLimit
      BY <2>1 DEF Judged, DepartmentJudged
    <3>4. Cardinality(ActiveDepartments \cup {d}) = Cardinality(ActiveDepartments) + 1
      BY <1>14, <3>3, FS_AddElement
    <3> QED BY <1>8, <1>14, <3>2, <3>3, <3>4 DEF LimitsKept
  <2>2. CASE Ready(q, {"archiveDepartment"})
    <3>1. department' = [department EXCEPT ![d] = "archived"]
      BY <2>2 DEF CommitDepartment, Ready
    <3>2. ActiveDepartments' = ActiveDepartments \ {d}
      BY <1>1, <1>3, <3>1 DEF ActiveDepartments
    <3>3. d \in ActiveDepartments /\ Cardinality(ActiveDepartments) > 1
      BY <2>2 DEF Judged, DepartmentJudged
    <3>4. Cardinality(ActiveDepartments \ {d}) = Cardinality(ActiveDepartments) - 1
      <4>1. IsFiniteSet(ActiveDepartments) /\ d \in ActiveDepartments
        BY <1>14, <3>3
      <4> HIDE TenantAdminAssumption
      <4> QED BY <4>1, FS_RemoveElement
    <3> QED BY <1>8, <1>14, <3>2, <3>3, <3>4 DEF LimitsKept
  <2> QED BY <2>1, <2>2 DEF CommitDepartment
<1> QED BY <1>9, <1>10, <1>11, <1>12, <1>13, <1>15

-----------------------------------------------------------------------------
(* The theorems. *)

\* The invariant is inductive.
LEMMA Invariance == Spec => []IInv
<1>1. ASSUME IInv, Next PROVE IInv'
  <2> PICK q \in Requests :
        \/ \E m \in Users : Ask(q, m)
        \/ LockTenant(q) \/ Check(q)
        \/ CommitUser(q) \/ CommitRole(q) \/ CommitDepartment(q)
        \/ Refuse(q)
    BY <1>1 DEF Next
  <2> QED BY <1>1, QuietSteps, CheckSteps, CommitUserStep, CommitRoleStep, CommitDepartmentStep
<1>2. ASSUME IInv, UNCHANGED vars PROVE IInv'
  <2> USE <1>2 DEF vars
  <2>1. UNCHANGED <<userVars, roleVars, department>> /\ request' = request
    OBVIOUS
  <2> QED BY <2>1, RowsSame
         DEF IInv, TypeOK, EditableOnly, AddsNew, AnOwnerRemains, ActiveUsersHaveActiveRoles,
             LimitsKept, Judged, RolesLocked, UserJudged, DepartmentJudged, RoleJudged, HoldsTenant,
             Ready, Gives, ActiveRole, Grantable, Holdings, Room, AnotherOwner
<1> QED BY InitInv, <1>1, <1>2, PTL DEF Spec

\* The types of the state, and that one request at a time holds the tenant's row.
THEOREM Types == Spec => []TypeOK
  BY Invariance, PTL DEF IInv

\* The tenant always has an active owner (users.ts, checkAnotherOwner under lockTenant).
THEOREM OwnerRemains == Spec => []AnOwnerRemains
  BY Invariance, PTL DEF IInv

\* An active user's role is active (roles.ts, archiveRole and activeRole).
THEOREM RolesStayActive == Spec => []ActiveUsersHaveActiveRoles
  BY Invariance, PTL DEF IInv

\* The limits of the license hold (users.ts and departments.ts, under lockTenant).
THEOREM LimitsHold == Spec => []LimitsKept
  BY Invariance, PTL DEF IInv

\* A role that is given is active when it is given, and, unless an owner gives it, holds no more
\* than the manager's session did when it was read (users.ts, activeRole and checkGrantable with
\* the role's row locked until the commit).  Of a user who comes back with their role, only that it
\* is active.
THEOREM GrantsHold == Spec => GrantsWithinOwn
<1> DEFINE Within ==
      \A q \in Requests :
        LET r == request[q]
        IN  CommitUser(q) /\ r.kind \in GivingKinds =>
              /\ ActiveRole(Gives(q))
              /\ r.kind # "reactivateUser" /\ ~r.isOwner =>
                   r.role # Owner /\ holds[r.role] \subseteq r.grant
<1>1. IInv /\ [Next]_vars => [Within]_vars
  <2> SUFFICES ASSUME IInv, NEW q \in Requests, request[q].kind \in GivingKinds, CommitUser(q)
               PROVE  /\ ActiveRole(Gives(q))
                      /\ request[q].kind # "reactivateUser" /\ ~request[q].isOwner =>
                           /\ request[q].role # Owner
                           /\ holds[request[q].role] \subseteq request[q].grant
    OBVIOUS
  <2>1. Ready(q, GivingKinds)
    BY DEF CommitUser, Ready, GivingKinds, UserKinds
  <2>2. ActiveRole(Gives(q))
    BY <2>1 DEF IInv, Judged, UserJudged
  <2>3. ASSUME request[q].kind # "reactivateUser"
        PROVE  Grantable(q, request[q].role)
    <3>1. Ready(q, {"addUser", "changeUser"})
      BY <2>1, <2>3 DEF Ready, GivingKinds, UserKinds
    <3> QED BY <3>1 DEF IInv, Judged, UserJudged
  <2> QED BY <2>2, <2>3 DEF Grantable, Holdings
<1> QED BY <1>1, Invariance, PTL DEF Spec, GrantsWithinOwn
=============================================================================
