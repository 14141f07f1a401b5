SPECIFICATION TrapSpec
CONSTANTS
  Harts = {h1, h2}
  Tasks = {t1, t2, t3}
  Values = {0, 1}
  None = None
  KernelFaults = TRUE
INVARIANT NoSelfWait
SYMMETRY Symmetry
CHECK_DEADLOCK FALSE
