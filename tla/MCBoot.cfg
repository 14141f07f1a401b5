SPECIFICATION BootSpec
CONSTANTS
  SECTOR_SIZE = 4
  PageSecs = 4
  InfoSize = 2
  Most = 1
  Kernels <- KernelSet
  Programs <- ProgramSet
  MaxTasks = 4
  AnyLayout = FALSE
  PlicFrame = 96
  E1000Frame = 512
  MaxSwaps = 2
  Hasty = {}
INVARIANTS LoadedWhole NoFault HartsApart
 
