SPECIFICATION Spec
CONSTANTS
  Main = main
  Free = free
  t1 = t1
  Others <- MCOthers
  MaxProcs = 2
CHECK_DEADLOCK FALSE
INVARIANTS
  ChildCanStart
