SPECIFICATION MCFairSpec
CONSTANTS
  t1 = t1
  t2 = t2
  r1 = r1
  r2 = r2
  Traces <- TwoTraces
  Keys <- AllKeys
  MaxEvents = 3
  LogCap = 2
  Managed <- TwoResources
  Uses <- AllUses
  MaxInputs = 3
INVARIANTS
  TypeOK
  StateTypeOK
  DetailOfSelection
  SnapshotIsChronological
PROPERTIES
  ListNeverGoesBack
  TraceListCatchesUp
  SpansCatchUp
  TableNeverGoesBack
  DeletesWhatWasConfirmed
  TableCatchesUp
CHECK_DEADLOCK FALSE
