CONSTANTS
  p1 = p1
  p2 = p2
  p3 = p3
  None = None
  Proc = {p1, p2, p3}
  Version = {1, 2}
  Size <- MCSize
  MaxFailures = 2
SPECIFICATION FairSpec
INVARIANTS
  TypeOK
  WholeOrNotAtAll
  RecordedInOrder
PROPERTY EventuallyMigrated
