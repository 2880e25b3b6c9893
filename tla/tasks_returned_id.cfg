SPECIFICATION Spec
CONSTANTS
  MaxId = 3
  QueueSize = 4
  NCells = 4
  NBlocks = 6
  p1 = p1
  p2 = p2
  p3 = p3
  Kernel = Kernel
  None = None
  Program = {p1, p2, p3}
  Careful = TRUE
SYMMETRY Symmetry
INVARIANTS ReturnsItsTask
CHECK_DEADLOCK FALSE
