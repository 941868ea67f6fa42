SPECIFICATION Spec
CONSTANTS
  w1 = w1
  w2 = w2
  Calls <- TwoCalls
  MaxTriggers = 2
  MaxFired = 2
INVARIANTS
  TypeOK
  NoLostTrigger
  OwnReconcileFollows
  WaiterCovered
  DeliverNeverBlocks
  StatusMatchesResult
CHECK_DEADLOCK FALSE
SYMMETRY CallSymmetry
