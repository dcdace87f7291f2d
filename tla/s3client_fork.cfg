SPECIFICATION FairSpec
CONSTANTS
  Main = main
  Free = free
  t1 = t1
  Others <- MCOthers
  MaxProcs = 3
\* A child forked while another thread held the lock waits forever; when all
\* processes are such children, or hold the bound, nothing more happens.
CHECK_DEADLOCK FALSE
INVARIANTS
  OwnClientOnly
  HeededForksAreSafe
PROPERTIES
  BuiltOnce
  UseEnds
