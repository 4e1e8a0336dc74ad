SPECIFICATION FairUploadSpec
CONSTANTS
  r1 = r1
  r2 = r2
  r3 = r3
  x1 = x1
  x2 = x2
  x3 = x3
  x4 = x4
  Request <- MCRequest
  Reader <- MCReader
  MaxReads = 1
  Key <- MCKey
  Kind <- MCKind
  CtxPrefix <- MCCtxPrefix
  Prefix = "configured"
  Worker = {w1, w2}
  MaxQueuedUploads = 1
  Proxy <- MCProxy
INVARIANTS HandlesAccounted NamespacesKept ReportsAreTrue
PROPERTIES PutsEnd ReadersAreClosed
CHECK_DEADLOCK FALSE
