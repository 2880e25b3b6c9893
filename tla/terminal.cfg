SPECIFICATION Spec
CONSTANTS
  H = 2
  V = 2
  Typed = {65, 8, 13, 10, 240, 241, 242, 243, 254}
  Parameters = {0, 112}
  None = None
INVARIANTS TypeOK OneCellBehind
PROPERTIES IsScreen
