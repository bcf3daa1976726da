SPECIFICATION Spec
CONSTANTS
  Calls = {c1, c2, c3}
  Sizes = {1, 2}
  Types <- MCTypes
  Generic = {"octet-stream"}
  Intended <- Part
  Legacy <- Anything
  MaxFaults = 1
  None = None
INVARIANTS
  OkIsStored
  FailsOnlyByFault
  AllOkIsStored
PROPERTY
  StoredStays
SYMMETRY CallSymmetry
CHECK_DEADLOCK FALSE
