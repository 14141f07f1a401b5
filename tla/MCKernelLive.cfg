SPECIFICATION FairSpec
CONSTANTS
  Harts = {h1, h2}
  Idles = {i1, i2}
  None = None
  NumTask = 2
  NumLock = 1
  NumCond = 0
  NumBar = 0
  MaxGoal = 1
  Procs <- ProcSet
  Locks <- LockSet
  Conds <- CondSet
  Bars <- BarSet
  Goals <- GoalSet
  ZombieActs = FALSE
  ReuseOnCPU = FALSE
  KillAtBarrier = FALSE
PROPERTIES NobodyStarves ZombieLeaves
CHECK_DEADLOCK FALSE
