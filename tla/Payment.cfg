SPECIFICATION Spec
CONSTANTS
  p1 = p1
  p2 = p2
  w1 = w1
  w2 = w2
  owing = owing
  zero = zero
  None = None
  Procs = {p1, p2}
  Workers = {w1, w2}
  Home <- MCHome
  Invoices = {owing}
  Attempts = {a1, a2}
  TotalCents <- MCTotalCents
  MaxRetries = 1
  MaxCrashes = 1
CHECK_DEADLOCK FALSE
INVARIANTS MoneyBehindRecords IntentBeforeNetwork LiveCallKeepsItsRow
PROPERTY Settlement
SYMMETRY AttemptSymmetry
