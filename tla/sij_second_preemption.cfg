CONSTANTS
  Replicas = 1
  MaxInstances = 3
  MaxJobs = 4
  MaxRestorers = 1
  MaxPreemptions = 2
  MaxFaults = 0
  CacheLags = FALSE
  StagingSeen = FALSE
  JobsMayFinish = FALSE
  JobsCountedInTime = TRUE
SPECIFICATION FairSpec
PROPERTIES ReplicaRecovers
CHECK_DEADLOCK FALSE
