SPECIFICATION AttemptSpec
CONSTANTS
  N = 3
  MaxTotal = 4
  MaxSize = 3
INVARIANTS
  Bounded
  LoadsAllOrRefuses
  VerdictTruthful
CHECK_DEADLOCK FALSE
