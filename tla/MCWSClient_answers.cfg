SPECIFICATION FairSpec
CONSTANTS
  c1 = c1
  c2 = c2
  c3 = c3
  Calls <- TwoCalls
  MaxConns = 2
  MaxID = 3
  MaxActors = 2
PROPERTY CallAnswered
CHECK_DEADLOCK FALSE
