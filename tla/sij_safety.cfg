CONSTANTS
  Replicas = 2
  MaxInstances = 3
  MaxJobs = 2
  MaxRestorers = 1
  MaxPreemptions = 1
  MaxFaults = 1
  CacheLags = FALSE
  StagingSeen = FALSE
  JobsMayFinish = TRUE
  JobsCountedInTime = TRUE
SPECIFICATION Spec
INVARIANTS TypeOK JobOnItsReplica NameIsHeld
PROPERTIES RestorationSpec DeletedOnlyWithCheckpoint HealthyReplicaKept NoInstanceDuringCheckpoint
CHECK_DEADLOCK FALSE
