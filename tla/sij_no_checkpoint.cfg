CONSTANTS
  Replicas = 2
  MaxInstances = 3
  MaxJobs = 2
  MaxRestorers = 0
  MaxPreemptions = 2
  MaxFaults = 0
  CacheLags = FALSE
  StagingSeen = FALSE
  JobsMayFinish = FALSE
  JobsCountedInTime = TRUE
SPECIFICATION Spec
PROPERTIES CheckpointForLoss
CHECK_DEADLOCK FALSE
