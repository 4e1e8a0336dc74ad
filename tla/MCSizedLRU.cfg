SPECIFICATION Spec
CONSTANTS
  Key = {k1, k2, k3}
  Client = {c1, c2}
  Item <- MCItem
  Size <- MCSize
  BlockSize = 2
  MaxSize = 9
  MaxInt = 18
INVARIANTS ListMatchesMap SizesAccounted WithinCapacity NoInternalError
PROPERTIES EvictsOldestAsNeeded ReserveExact
SYMMETRY MCSymmetry
