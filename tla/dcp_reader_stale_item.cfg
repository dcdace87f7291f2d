SPECIFICATION Spec
CONSTANTS
  Plans <- MCPlans
  Offsets <- MCOffsets
  Sizes <- MCSizes
  ChunkSizes <- MCChunkSizes
  Faults = {"s3"}
  MaxRetries = 1
INVARIANTS
  RightBytes
