SPECIFICATION FairSpec
CONSTANTS
  Objects = {2, 3}
  Others = {1}
  Stem = 2
  Longer = {3}
  PageSize = 3
  MaxFaults = 3
INVARIANTS TypeOK
PROPERTIES AdoptsOwn EveryVMRecorded LossNoticed EveryDeletionCompletes
CHECK_DEADLOCK FALSE
