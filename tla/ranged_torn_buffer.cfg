SPECIFICATION MCSpec
CONSTANTS
  Kinds = {"ranged"}
  ObjectSize = 5
  ObjectSizes = {0, 4}
  BufferSizes = {0, 2, 3}
  Offsets <- MCOffsets
  Sizes <- MCSizes
  ChunkSizes = {1, 3}
  Faults = {"s3"}
  MaxRetries = 1
  MaxErrors = 2
INVARIANTS
  RightBytes
