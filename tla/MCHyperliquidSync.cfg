CONSTANTS
  f1 = f1
  f2 = f2
  f3 = f3
  f4 = f4
  f5 = f5
  c1 = c1
  c2 = c2
  c3 = c3
  c4 = c4
  None = None
  Fill = {f1, f2, f3, f4, f5}
  Time <- MCTime
  Unreadable = {f5}
  Limit = 2
  MaxPages = 3
  MaxRetries = 1
  Charge = {c1, c2, c3, c4}
  Raw <- MCRaw
  Cap = 2
  MaxFailures = 1
SPECIFICATION FairSyncSpec
INVARIANTS
  SyncTypeOK
  StallMeansCrowded
PROPERTIES
  FetchIsSnapshot
  IngestSpec
  EventuallyIngested
