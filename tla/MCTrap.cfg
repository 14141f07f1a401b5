SPECIFICATION FairSpec
CONSTANTS
  Harts = {h1, h2}
  Tasks = {t1, t2, t3}
  Values = {0, 1}
  None = None
  KernelFaults = FALSE
INVARIANTS MutualExclusion StacksApart 
PROPERTY LockReleased
CHECK_DEADLOCK FALSE
