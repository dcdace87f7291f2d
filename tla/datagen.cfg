SPECIFICATION GenSpec
CONSTANTS
  NumWorkers = 2
  Sizes <- MCSizes
  ShardSizes = {0, 2}
  MaxRaised = 2
\* The program may end, or hang after an exception.
CHECK_DEADLOCK FALSE
INVARIANTS
  AllIsUploaded
PROPERTIES
  ProgramEnds
