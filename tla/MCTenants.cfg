SPECIFICATION FairSpec
CONSTANTS
  Slugs <- MCSlugs
  Layouts <- MCLayouts
  Followed <- MCFollowed
  MaxGens = 2
  MaxEvents = 1
INVARIANTS
  TypeOK
  FetchMatchesMeaning
  ReadyMeansServed
PROPERTIES
  
  TenantsHeal
CHECK_DEADLOCK FALSE
