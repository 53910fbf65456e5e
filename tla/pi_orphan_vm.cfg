SPECIFICATION Spec
CONSTANTS
  p1 = p1
  Instances = {p1}
  MaxFaults = 0
  TemplateDeletable = FALSE
INVARIANT NoOrphanVM
CHECK_DEADLOCK FALSE
