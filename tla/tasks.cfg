SPECIFICATION FairSpec
CONSTANTS
  MaxId = 3
  QueueSize = 4
  NCells = 5
  NBlocks = 6
  p1 = p1
  p2 = p2
  p3 = p3
  p4 = p4
  Kernel = Kernel
  None = None
  Program = {p1, p2, p3, p4}
  Careful = TRUE
ACTION_CONSTRAINT InOrder
INVARIANTS TypeOK NoTaskLost IdsAgree BlocksOwned ShellSeesTheEnd
PROPERTIES QueueFits EveryTaskRuns RoundRobin
CHECK_DEADLOCK FALSE
