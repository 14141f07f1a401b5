SPECIFICATION Spec
CONSTANTS
  Harts = {h1, h2}
  Idles = {i1, i2}
  None = None
  NumTask = 2
  NumLock = 1
  NumCond = 1
  NumBar = 1
  MaxGoal = 2
  Procs <- ProcSet
  Locks <- LockSet
  Conds <- CondSet
  Bars <- BarSet
  Goals <- GoalSet
  ZombieActs = FALSE
  ReuseOnCPU = FALSE
  KillAtBarrier = FALSE
INVARIANT IInv
PROPERTIES  ImplementsDispatch
SYMMETRY Symmetry
CHECK_DEADLOCK FALSE
