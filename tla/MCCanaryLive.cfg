SPECIFICATION FairSpec
CONSTANTS
  Deployment = {d1}
  Caller = {c1}
  Slot = {k1}
  Verdicts = {"PASS", "FAIL"}
  InitialTraffic = 1
  IncrementStep = 1
  MaxTraffic = 3
  FullTraffic = 4
  MaxWindow = 3
  MaxRetry = 2
  MaxGates = 6
  MaxFaults = 0
  None = None
PROPERTY CanaryEnds
CHECK_DEADLOCK FALSE
