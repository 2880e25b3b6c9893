SPECIFICATION Spec
CONSTANTS
  NPages = 3
  SpacePages = 4
  NFrames = 2
  FlushFirst = 1
  FlushCount = 1
  NSlots = 2
  SwapRun = 0
  Byte = {0, 1}
  Zero = 0
INVARIANTS StreamCoherent
PROPERTIES FlatMemory
CHECK_DEADLOCK FALSE
