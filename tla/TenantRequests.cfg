SPECIFICATION RequestsSpec
CONSTANTS
  Users = {u1, u2}
  Requests = {r1, r2}
  Workers = {w1, w2, w3}
  CompareAndSet = TRUE
  MaxTenants = 2
  None = None
CHECK_DEADLOCK FALSE
INVARIANTS OnePendingPerUser
PROPERTIES RequestsDecidedOnce
SYMMETRY Symmetry
