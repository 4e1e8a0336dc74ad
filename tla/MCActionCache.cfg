SPECIFICATION Spec
CONSTANTS
  b1 = b1
  b2 = b2
  t1 = t1
  empty = empty
  none = none
  c1 = c1
  c2 = c2
  Blob <- MCBlob
  EmptyBlob = empty
  NoBlob = none
  BlobSize <- MCBlobSize
  TreeFiles <- MCTreeFiles
  Result <- MCResult
  NoResult = NoResult
  Call = {c1, c2}
  Kind <- MCKind
  HasProxy = TRUE
  Backed = {b2}
  Want = {{3}, {1, 2, 3}}
  Lossy = {b2, t1}
  MaxInline = 2
  MaxCapture = 2
  Budget = 3
INVARIANTS HitIsComplete InlineBounded ClosureIsComplete BudgetAccounted AckedIsStored
