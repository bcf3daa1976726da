SPECIFICATION Spec
CONSTANTS
  BatchSize = 1
  RecentFirst = TRUE
  RecentWindow = 1
  BackfillWindow = 1
  FlagWindow = 1
  SearchMayFail = TRUE
  MaxUid = 3
  MaxGen = 2
  MaxFaults = 1
PROPERTY
  RowsOutliveNothing
