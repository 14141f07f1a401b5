SPECIFICATION Spec
CONSTANTS
  Heads = {ready, q1, q2}
  Nodes = {n1, n2, n3, n4}
  ready = ready
  Running = Running
  Dead = Dead
  KillDead = FALSE
INVARIANTS Rings Linked
SYMMETRY Symmetry
CHECK_DEADLOCK FALSE
