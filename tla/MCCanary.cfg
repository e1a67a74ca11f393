SPECIFICATION Spec
CONSTANTS
  Deployment = {d1}
  Caller = {c1, c2}
  Slot = {k1, k2}
  Verdicts = {"PASS", "WARN", "FAIL"}
  InitialTraffic = 1
  IncrementStep = 1
  MaxTraffic = 3
  FullTraffic = 4
  MaxWindow = 2
  MaxRetry = 0
  MaxGates = 2
  MaxFaults = 1
  None = None
SYMMETRY Symmetry
INVARIANTS TrafficEarned DecisionIsRecorded ActiveIsEvaluated
CHECK_DEADLOCK FALSE
