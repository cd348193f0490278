SPECIFICATION Spec
CONSTANTS
  n1 = n1
  c1 = c1
  r1 = r1
  r2 = r2
  Requests = {r1, r2}
  Numbers = {n1}
  CallIds = {c1}
  Minutes = {3}
  Monthly = 10
  Included = 2
  Overage = 1
  MaxRequests = 2
  MaxTenants = 2
  MaxFaults = 1
  Routes <- APIRoutes
SYMMETRY Symmetry
INVARIANTS Isolation AckedStays
PROPERTIES StoreIsMem
CHECK_DEADLOCK FALSE
