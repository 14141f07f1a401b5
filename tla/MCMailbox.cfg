SPECIFICATION Spec
CONSTANTS
  Procs = {p1, p2, p3}
  Space <- OneSpace
  Addr <- EachItself
  MAX_MBOX_LENGTH = 2
  Sizes = {1, 2}
  Junk = 0
  MaxBytes = 4
  MaxRefs = 3
  
PROPERTY NoOvertaking
SYMMETRY Symmetry
CHECK_DEADLOCK FALSE
