SPECIFICATION Spec
CONSTANTS
  p1 = p1
  p2 = p2
  w1 = w1
  w2 = w2
  owing = owing
  zero = zero
  None = None
  Procs = {p1}
  Workers = {w1}
  Home <- MCSharedHome
  Invoices = {owing}
  Attempts = {a1, a2}
  TotalCents <- MCTotalCents
  MaxRetries = 0
  MaxCrashes = 1
CHECK_DEADLOCK FALSE
INVARIANT ChargedAtMostOnce
