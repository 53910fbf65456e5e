CONSTANTS
  Replicas = 2
  MaxInstances = 3
  MaxJobs = 3
  MaxRestorers = 1
  MaxPreemptions = 1
  MaxFaults = 0
  CacheLags = FALSE
  StagingSeen = FALSE
  JobsMayFinish = FALSE
  JobsCountedInTime = TRUE
SPECIFICATION FairSpec
PROPERTIES ReplicaRecovers ReplicaRestored
CHECK_DEADLOCK FALSE
