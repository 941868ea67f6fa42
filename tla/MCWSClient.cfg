SPECIFICATION FairSpec
CONSTANTS
  c1 = c1
  c2 = c2
  c3 = c3
  Calls <- ThreeCalls
  MaxConns = 2
  MaxID = 3
  MaxActors = 3
INVARIANTS
  TypeOK
  ReaderNeverBlocks
  OwnAnswerOnOneSocket
PROPERTIES
  HealthyConnKept
  DeadConnDropped
  PendingIsAnswered
CHECK_DEADLOCK FALSE
