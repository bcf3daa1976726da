SPECIFICATION FairSpec
CONSTANTS
  ItemCount = 3
  PageSize = 1
  Malformed = {2}
  MaxFaults = 1
PROPERTIES
  NoSweepAfterStop
  SweepNotCutOff
  SweepsEnd
  SignalMeansExit
  EveryItemSwept
CHECK_DEADLOCK FALSE
