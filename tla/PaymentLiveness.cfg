SPECIFICATION FairSpec
CONSTANTS
  p1 = p1
  p2 = p2
  w1 = w1
  w2 = w2
  owing = owing
  zero = zero
  None = None
  Procs = {p1}
  Workers = {w1, w2}
  Home <- MCSharedHome
  Invoices = {owing, zero}
  Attempts = {a1}
  TotalCents <- MCTotalCents
  MaxRetries = 1
  MaxCrashes = 1
CHECK_DEADLOCK FALSE
PROPERTIES EveryJobEnds EveryAttemptDecided
