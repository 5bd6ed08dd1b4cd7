SPECIFICATION Spec
CONSTANTS
  u1 = u1
  Users = {u1, u2, u3}
  First = u1
  clerk = clerk
  Roles = {clerk}
  Permissions = {users, rest}
  ManageUsers = users
  ManageRoles = rest
  ManageDepartments = rest
  main = main
  Departments = {main, d1, d2}
  Default = main
  Requests = {q1, q2}
  UserLimit = 2
  DepartmentLimit = 2
SYMMETRY Symmetry
CONSTRAINT Apart
INVARIANTS TypeOK AnOwnerRemains ActiveUsersHaveActiveRoles LimitsKept
PROPERTY GrantsWithinOwn
