SPECIFICATION DiskSpec
CONSTANTS
  NPages = 3
  SpacePages = 3
  NFrames = 2
  FlushFirst = 1
  FlushCount = 1
  NSlots = 1
  SwapRun = 2
  Byte = {0, 1}
  Zero = 0
  StackPage = 2
  StackSlot = 0
  PinnedOnly = TRUE
INVARIANTS ChipFreeAtTransfer
PROPERTIES OnlyAskedSector FlatMachine
