SPECIFICATION Spec
CONSTANTS
  Harts = {h1, h2}
  Procs = {1, 2}
  Asid <- AsidOf
  KernelBit = "kernel"
  AccessedBit = "accessed"
  Pages = {1, 2}
  ImagePages = {}
  StackPage = 1
  MEM_PAGE_NUM = 3
  PGT_PAGE_NUM = 2
  SWAP_INFO_NUM = 5
  MaxExecs = 3
  Idle = Idle
  Unmapped = Unmapped
  None = None
  UseTLB = FALSE
  ZombieRuns = FALSE
  ThreadExits = FALSE
  ExecEvictsItself = FALSE
INVARIANTS FramesOwned NothingLeaks 
 
SYMMETRY Symmetry
CHECK_DEADLOCK FALSE
