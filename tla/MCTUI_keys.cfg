SPECIFICATION MCFairSpec
CONSTANTS
  t1 = t1
  t2 = t2
  r1 = r1
  r2 = r2
  Traces <- OneTrace
  Keys <- TabAndRefresh
  MaxEvents = 3
  LogCap = 2
  Managed <- TwoResources
  Uses <- DoubtfulUses
  MaxInputs = 4
PROPERTY
  KeysDoWhatTheySay
CHECK_DEADLOCK FALSE
