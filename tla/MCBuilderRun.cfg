SPECIFICATION Spec
CONSTANTS
  Workflow <- Workflows
  Batch <- Batches
  User = {u}
  Runner = run
  Closing = {"CANCELLED"}
  MaxOps = 2
  MaxFaults = 1
  Retries = 2
  MaxOutages = 1
INVARIANTS MissionAgrees HistoryTellsStatus PipelineOutcome ToldIsTrue RerunNeedsFault
PROPERTIES FollowsGraph EveryWaitEnds
CHECK_DEADLOCK FALSE
