SPECIFICATION FairSpec
CONSTANTS
  w1 = w1
  w2 = w2
  Calls <- OneCall
  MaxTriggers = 2
  MaxFired = 1
PROPERTIES
  WaiterAnswered
  TriggerFetched
  StopsEventually
  ImplementsService
CHECK_DEADLOCK FALSE
