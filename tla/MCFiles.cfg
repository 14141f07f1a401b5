SPECIFICATION Spec
CONSTANTS
  NumInode = 3
  NumBlock = 6
  SavedBlocks = 6
  Direct = 1
  Indirect = 3
  Slots = 3
  NumFd = 1
  Vals = {v1, v2}
  MaxLen = 3
  Paths <- PathSet
  Careless = {}
SYMMETRY Symmetry
VIEW Live
INVARIANTS  ReadsBack LinksCounted SizesAdd DiskCurrent
