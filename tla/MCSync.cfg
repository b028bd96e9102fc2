CONSTANTS
  r1 = r1
  r2 = r2
  hf = hf
  vc = vc
  h1 = h1
  h2 = h2
  h3 = h3
  v3 = v3
  None = None
  Run = {r1, r2}
  Stream = {hf, vc}
  Ordered = {hf}
  Plans <- FullPlan
  Event = {h1, h2, h3, v3}
  StreamOf <- MCStreamOf
  Time <- MCTime
  Unparsed = {}
  Unidentified = {v3}
  MaxAborts = 1
SPECIFICATION FairSpec
INVARIANTS
  TypeOK
  NoDuplicates
  NothingLost
PROPERTIES
  IngestSpec
  EventuallyStored
