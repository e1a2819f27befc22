SPECIFICATION FairSpec
CONSTANTS
  None = None
  free = free
  Events = {e1, e2, free}
  Quantity <- MCQuantity
  Workers = {w1, w2}
  ChanCap = 1
  MaxRetries = 2
  DbOutcomes = {"ok", "error", "lost"}
  MaxRecounts = 1
CHECK_DEADLOCK FALSE
INVARIANTS NoUsageLost AddedOncePerRecount StopDrains
PROPERTIES UsageIsStored StopReturns
