SPECIFICATION FairSpec
CONSTANTS
  BatchSize = 2
  RecentFirst = TRUE
  RecentWindow = 2
  BackfillWindow = 2
  FlagWindow = 2
  SearchMayFail = FALSE
  MaxUid = 3
  MaxGen = 2
  MaxFaults = 1
INVARIANTS
  CheckpointCovers
  CurrentRowsFaithful
  NewMailAnnounced
PROPERTIES
  RowsOutliveNothing
  EventuallyMirrors
