SPECIFICATION Spec
CONSTANTS
  Harts = {h1, h2}
  Idles = {i1, i2}
  Procs = {p1, p2, p3}
  Locks = {l1}
  Conds = {c1}
  Bars = {b1}
  None = None
INVARIANTS IInv 
SYMMETRY Symmetry
CHECK_DEADLOCK FALSE
