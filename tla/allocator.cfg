SPECIFICATION Spec
CONSTANTS
  Header = 2
  Slack = 1
  LowStart = 1
  LowSize = 7
  HighStart = 9
  HighSize = 9
  Request = {1, 3}
  Word = 18
INVARIANTS Tiled ListLinked
PROPERTIES HeapKept
CHECK_DEADLOCK FALSE
