SPECIFICATION FairSpec
CONSTANTS
  Resources <- LiveResources
  Needs <- LiveNeeds
  Scopes <- LiveScopes
  Manifests <- LiveManifests
  Ignored <- None
  Untracked <- None
  Labelled <- None
  Pubs <- PubValues
  Sides <- SideValues
  Secrets <- TwoSecrets
  Options <- ServeOptions
  MaxEvents = 2
  RotateInCycle = FALSE
PROPERTIES
  
  ComesToRest
  
