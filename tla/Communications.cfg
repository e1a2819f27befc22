SPECIFICATION FairSpec
CONSTANTS
  Starts <- MCStarts
  MaxRetries = 1
  MaxEvents = 2
  MaxFaults = 2
CHECK_DEADLOCK FALSE
INVARIANTS NoJobLost OnceWhileCalm CommitsAreHandled
PROPERTIES EventsReachCustomers StopEnds
