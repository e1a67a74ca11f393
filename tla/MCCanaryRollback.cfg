SPECIFICATION Spec
CONSTANTS
  Deployment = {d1}
  Caller = {c1}
  Slot = {k1}
  Verdicts = {"PASS"}
  InitialTraffic = 1
  IncrementStep = 1
  MaxTraffic = 3
  FullTraffic = 4
  MaxWindow = 2
  MaxRetry = 1
  MaxGates = 2
  MaxFaults = 0
  None = None
SYMMETRY Symmetry
PROPERTY RolledBackIsFinal
CHECK_DEADLOCK FALSE
