SPECIFICATION FairSpec
CONSTANTS
  p1 = p1
  Instances = {p1}
  MaxFaults = 3
  TemplateDeletable = TRUE
INVARIANT TypeOK
INVARIANT FinalizerGuardsVM
PROPERTY RecordedVMReleased
PROPERTY KnownNodeReleased
PROPERTY StatusNeverRegresses
PROPERTY NoticeOnlyForStoppedVM
PROPERTY NodeDeletedOnlyAfterVM
PROPERTY LifecycleSpec
PROPERTY PreemptionNoticed
PROPERTY DeletionCompletes
CHECK_DEADLOCK FALSE
