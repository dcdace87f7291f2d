SPECIFICATION FairSpec
CONSTANTS
  Plans <- MCPlans
  Offsets <- MCOffsets
  Sizes <- MCSizes
  ChunkSizes <- MCChunkSizes
  Faults <- MCAllFaults
  MaxRetries = 1
INVARIANTS
  TypeOK
  RightUnlessPoisoned
  StreamInStep
  ProgressReachesTotal
PROPERTIES
  ItemsInOrder
  CallReturns
  ImplementsByteReader
