CONSTANTS
  ByteBits = 4
  IntBits = 8
  RegisterCount = 2
  RamSize = 1024
  RomStart = 61440
  RomSize = 32
  Windows <- McWindows
  WindowSize = 64
  Rom <- McRom
  Count = 3
  Starts <- McStarts
  PortValues = {0, 65535}
  HostCalls = TRUE
SPECIFICATION Spec
INVARIANTS CpuTypeOK PanicsCaught ArithmeticLaws
PROPERTIES FaultsArePrecise SkipsWhole ComparesOrder ReturnsWhereInterrupted
CHECK_DEADLOCK FALSE
