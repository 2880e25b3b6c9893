SPECIFICATION Spec
CONSTANTS
  ByteBits = 2
  IntBits = 4
  p1 = p1
  p2 = p2
  p3 = p3
  p4 = p4
  p5 = p5
  Program = {p1, p2, p3, p4, p5}
  NotRunning = NotRunning
  MaxRunning = 5
SYMMETRY Symmetry
INVARIANT ReturnsUnused
