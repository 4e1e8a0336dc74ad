SPECIFICATION Spec
CONSTANTS
  a1 = a1
  c1 = c1
  Key <- MCKey
  Kind <- MCKind
  Item <- MCItem
  Upload <- MCUpload
  ProxyBlob <- MCProxyBlob
  AskSize <- MCAskBoth
  Request = {r1, r2}
  Random = {x1, x2}
  RemovalSlots = 1
  Compressed = TRUE
  HasProxy = TRUE
  MaxProxyBlobSize = 2
  MaxCrashes = 0
  BlockSize = 2
  MaxSize = 6
  MaxInt = 12
INVARIANTS SpaceAccounted EveryUnreserveWorks NoSpuriousMiss
PROPERTY ImplementsStore
SYMMETRY MCSymmetry
