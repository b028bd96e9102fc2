CONSTANTS
  x = x
  y = y
  z = z
  None = None
  File <- MCFile
  FolderOf <- MCFolderOf
  Content <- MCContent
  WrongHeader = {6}
  Id = {x, y, z}
  Ms = 2
  MaxFailures = 1
SPECIFICATION FairSpec
INVARIANTS
  TypeOK
  NothingSilentlyDropped
PROPERTIES
  FirstRowStays
  EventuallyImported
