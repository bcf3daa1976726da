SPECIFICATION FairLockSpec
CONSTANTS
  Callers = {d1, r1}
  Downloads = {d1}
  Delay = 2
  MaxFaults = 1
  MaxAborts = 1
  None = None
PROPERTIES
  TimedOutLetsGo
CHECK_DEADLOCK FALSE
