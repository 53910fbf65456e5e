CONSTANTS
  Replicas = 2
  MaxInstances = 2
  MaxJobs = 3
  MaxRestorers = 0
  MaxPreemptions = 0
  MaxFaults = 0
  CacheLags = FALSE
  StagingSeen = FALSE
  JobsMayFinish = FALSE
  JobsCountedInTime = FALSE
SPECIFICATION Spec
INVARIANTS OneJobPerReplica
CHECK_DEADLOCK FALSE
