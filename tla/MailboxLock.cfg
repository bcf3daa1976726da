SPECIFICATION FairLockSpec
CONSTANTS
  Callers = {d1, d2, r1}
  Downloads = {d1, d2}
  Delay = 2
  MaxFaults = 1
  MaxAborts = 2
  None = None
INVARIANTS
  OneConnection
  NoStrayConnection
  OneUser
PROPERTIES
  ReconnectThrottled
  ReadersServed
CHECK_DEADLOCK FALSE
