SPECIFICATION Spec
CONSTANTS
  Harts = {h1, h2}
  Idles = {i1, i2}
  None = None
  NumTask = 3
  NumLock = 1
  NumCond = 1
  NumBar = 0
  MaxGoal = 1
  Procs <- ProcSet
  Locks <- LockSet
  Conds <- CondSet
  Bars <- BarSet
  Goals <- GoalSet
  ZombieActs = FALSE
  ReuseOnCPU = FALSE
  KillAtBarrier = FALSE
INVARIANTS OnePlace CPUsRun NoOrphanWaiters
PROPERTIES WakesOwning HandOffFIFO 
SYMMETRY Symmetry
CHECK_DEADLOCK FALSE
