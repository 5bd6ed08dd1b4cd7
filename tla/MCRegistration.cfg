CONSTANTS
  Machines = {m1, m2}
  Registrations = {r1, r2, r3, r4}
  Codes = {c1, c2}
  DocPrefixes = {p1, p2}
  Limit = 1
  MaxSales = 2
  Nothing = Nothing
SPECIFICATION Spec
SYMMETRY Alike
INVARIANTS TypeOK NumbersUnique RegistrationsAllowed
CHECK_DEADLOCK FALSE
