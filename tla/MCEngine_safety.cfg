SPECIFICATION Spec
CONSTANTS
  Resources <- SafetyResources
  Needs <- SafetyNeeds
  Scopes <- SafetyScopes
  Manifests <- SafetyManifests
  Ignored <- SafetyIgnored
  Untracked <- SafetyUntracked
  Labelled <- SafetyLabelled
  Pubs <- PubValues
  Sides <- SideValues
  Secrets <- OneSecret
  Options <- AllOptions
  MaxEvents = 1
  RotateInCycle = TRUE
INVARIANTS
  TypeOK
  CleanCycleInSync
  QuietApplySucceeds
  QuietDestroyEmpties
PROPERTIES
  EngineInScope
  DependentsDeletedFirst
