SPECIFICATION FairSpec
CONSTANTS
  Caller = {c1, c2}
  Minute = 1
  Hour = 3
  MaxPerMinute = 3
  MaxPerHour = 3
  BurstSize = 2
  FailureThreshold = 2
  ResetTimeout = 2
  MaxSpan = 4
INVARIANT RateBound
PROPERTIES TripsExactly OpenIsQuiet Recovers
CHECK_DEADLOCK FALSE
