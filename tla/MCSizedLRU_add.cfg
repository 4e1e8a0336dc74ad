SPECIFICATION Spec
CONSTANTS
  Key = {k1, k2}
  Client = {c1}
  Item <- MCItem
  Size <- MCSize
  BlockSize = 2
  MaxSize = 7
  MaxInt = 15
INVARIANT AddedIsPresent
