SPECIFICATION FairSpec
CONSTANTS
  Keys = {k1, k2}
  Ids = {1, 2}
  Editors = {e1}
  MaxAttempts = 2
  Threshold = 2
  MaxRuns = 1
  MaxCrashes = 1
  None = None
CHECK_DEADLOCK FALSE
INVARIANTS OutboxIsTruthful CompletedMeansHandedOver CancelledForGood
PROPERTY EveryRunEnds
