SPECIFICATION FairSpec
CONSTANTS
  Session = {s1}
  Killer = {k1, k2}
  NSteps = 2
  MaxConcurrency = 1
  MaxStalled = 1
  MaxCrashes = 2
  None = None
INVARIANTS CancelStopsRun KillIsHeard SuccessIsComplete EndedJobIsRecorded
PROPERTIES FinishedIsFinal JobsDrain
CHECK_DEADLOCK FALSE
