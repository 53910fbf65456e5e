CONSTANTS
  Replicas = 2
  MaxInstances = 3
  MaxJobs = 0
  MaxRestorers = 0
  MaxPreemptions = 2
  MaxFaults = 1
  CacheLags = TRUE
  StagingSeen = TRUE
  JobsMayFinish = FALSE
  JobsCountedInTime = TRUE
SPECIFICATION Spec
INVARIANTS OneInstancePerReplica NoSurplusInstance
CHECK_DEADLOCK FALSE
