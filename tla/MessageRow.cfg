SPECIFICATION FairSpec
CONSTANTS
  Atts = {a1}
  Workers = {w1, w2}
  MaxCalls = 3
  MaxFaults = 1
  FlagWindow = 1
  MaxAbove = 1
  Body = Body
  NoRow = NoRow
INVARIANTS
  LoadedHasBytes
PROPERTIES
  FlagsConverge
  GoneRowsGo
CHECK_DEADLOCK FALSE
