SPECIFICATION FairSpec
CONSTANTS
  i1 = i1
  i2 = i2
  b1 = b1
  b2 = b2
  Instances = {i1, i2}
  MaxJobs = 1
  Backups = {b1, b2}
  MaxFaults = 2
  TemplateDeletable = TRUE
INVARIANTS TypeOK BackupsReleased
PROPERTIES CreatedForOwner OwnerReleased EverythingReleased
CHECK_DEADLOCK FALSE
