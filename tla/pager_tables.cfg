SPECIFICATION FairSpec
CONSTANTS
  NPages = 6
  SpacePages = 7
  NFrames = 4
  FlushFirst = 1
  FlushCount = 2
  NSlots = 1
  SwapRun = 0
  Byte = {0}
  Zero = 0
INVARIANTS TypeOK TablesAgree NeverStuck
PROPERTIES PinnedForEver Answered
CHECK_DEADLOCK FALSE
