SPECIFICATION FairSpec
CONSTANTS
  Slugs <- MCSlugs
  Layouts <- BootstrapLayouts
  Followed <- BootstrapLayouts
  MaxGens = 1
  MaxEvents = 0
PROPERTY
  TenantRunsIndependently
CHECK_DEADLOCK FALSE
