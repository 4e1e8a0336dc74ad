SPECIFICATION FairSpec
CONSTANTS
  Call = {f1, f2}
  FailFast = {f2}
  N = 3
  BatchSize = 2
  Slots = 2
  HasProxy = TRUE
  Oversize <- MCSecond
  MayCancel = TRUE
INVARIANTS MissingExact SliceIsStable ErrorsAreTrue SlotsAccounted
PROPERTY AllEnd
