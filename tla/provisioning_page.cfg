SPECIFICATION FairSpec
CONSTANTS
  Objects = {2}
  Others = {1}
  Stem = 2
  Longer = {}
  PageSize = 1
  MaxFaults = 1
PROPERTIES EveryVMRecorded
CHECK_DEADLOCK FALSE
