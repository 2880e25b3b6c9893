SPECIFICATION BootSpec
CONSTANTS
  NPages = 3
  SpacePages = 3
  NFrames = 4
  FlushFirst = 3
  FlushCount = 1
  NSlots = 2
  SwapRun = 1
  Byte = {0, 1, 2}
  Zero = 0
  StackPage = 1
  StackSlot = 1
  PinnedOnly = FALSE
  EventPage = 2
  EventSlot = 1
  BootSlot = 0
  Bootable = {1, 2}
INVARIANTS JumpsIntoBootSector PinnedAtJump
PROPERTIES Boots
CHECK_DEADLOCK FALSE
