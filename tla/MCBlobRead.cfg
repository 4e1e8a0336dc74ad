SPECIFICATION FairSpec
CONSTANTS
  ChunkSize = 2
  BlobSize = {2, 5}
  CompressedSize = {1, 3}
  MaxRead = 2
  Surplus = 1
  Request <- MCRequest
INVARIANTS AcceptedIsWhole SentIsRight
PROPERTY ReadsEnd
