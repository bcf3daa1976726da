SPECIFICATION FairSpec
CONSTANTS
  Inbox = Inbox
  Other = Other
  Review = Review
  None = None
  Folders = {Inbox, Other, Review}
  Position <- MCPosition
  Priority <- MCPriority
  Allowed = {Inbox, Review}
  Managed = {Review}
  Ticks = {t1, t2}
  Period = 6
  MaxOverrun = 1
  MaxChanges = 1
  MaxFaults = 1
PROPERTIES
  ManagedKept
  NoLiveFolderDropped
  NoTickAfterStop
  FoldersConverge
  MaintenanceFair
