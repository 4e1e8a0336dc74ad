SPECIFICATION Spec
CONSTANTS
  Call = {f2}
  FailFast = {f2}
  N = 2
  BatchSize = 1
  Slots = 1
  HasProxy = TRUE
  Oversize <- MCNone
  MayCancel = FALSE
INVARIANT FailFastComplete
