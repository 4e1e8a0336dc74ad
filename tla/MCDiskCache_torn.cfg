SPECIFICATION Spec
CONSTANTS
  a1 = a1
  c1 = c1
  Key <- MCKey
  Kind <- MCKind
  Item <- MCItem
  Upload <- MCUploadGood
  ProxyBlob <- MCNoBlob
  AskSize <- MCAskUnknown
  Request = {r1, r2}
  Random = {x1, x2}
  RemovalSlots = 1
  Compressed = TRUE
  HasProxy = FALSE
  MaxProxyBlobSize = 2
  MaxCrashes = 1
  BlockSize = 2
  MaxSize = 6
  MaxInt = 12
INVARIANT ReadsAreWhole
