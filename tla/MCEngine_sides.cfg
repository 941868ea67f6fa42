SPECIFICATION FairSpec
CONSTANTS
  Resources <- SideResources
  Needs <- SideNeeds
  Scopes <- SideScopes
  Manifests <- SideManifests
  Ignored <- None
  Untracked <- None
  Labelled <- None
  Pubs <- PubValues
  Sides <- SideValues
  Secrets <- OneSecret
  Options <- ServeOptions
  MaxEvents = 1
  RotateInCycle = FALSE
PROPERTY SideEffectsHeal
