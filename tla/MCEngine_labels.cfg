SPECIFICATION Spec
CONSTANTS
  Resources <- LabelResources
  Needs <- LabelNeeds
  Scopes <- LabelScopes
  Manifests <- LabelManifests
  Ignored <- None
  Untracked <- None
  Labelled <- JustAgent1
  Pubs <- PubValues
  Sides <- SideValues
  Secrets <- OneSecret
  Options <- LabelOptions
  MaxEvents = 1
  RotateInCycle = FALSE
PROPERTY PrunesOnlyRemoved
