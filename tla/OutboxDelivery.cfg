SPECIFICATION FairSpec
CONSTANTS
  Procs = {p1, p2}
  MaxAttempts = 2
  MaxFaults = 1
  MaxLate = 1
  NoOwner = NoOwner
  Orphan = Orphan
INVARIANTS
  TypeOK
  AtMostOnceAcceptance
  OutcomeTruthful
  AckMeansTerminal
  AttemptsBounded
  LeaseFences
PROPERTIES
  ImplementsLifecycle
  EventuallyTerminal
