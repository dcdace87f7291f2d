SPECIFICATION MCSpec
CONSTANTS
  Writer = w
  Finalizer = gc
  Free = free
  c1 = c1
  c2 = c2
  Closers <- MCClosers
  MaxWrites = 2
  MaxCloses = 2
  MaxSaves = 3
  MaxCalls = 3
\* The writer is used once, and the calls are bounded: the system stops.
CHECK_DEADLOCK FALSE
INVARIANTS
  ClosedOnce
  ObjectIsWhole
  CloseMeansStoredUnlessFailed
  PathIsAsLeft
  LoadsAreFresh
PROPERTIES
  CloseReturns
