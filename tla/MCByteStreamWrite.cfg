SPECIFICATION FairWriteSpec
CONSTANTS
  Size = {0, 1, 2}
  Offset <- MCOffset
  MaxChunk = 2
  MaxMessages = 3
INVARIANTS OkMeansStored OnlyWholeIsStored NoEarlyReturn
PROPERTIES CallIsAnswered GoroutinesEnd
