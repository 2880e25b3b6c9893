SPECIFICATION Spec
CONSTANTS
  Name = {a, b, c}
  None = None
  Sectors = 8
  System = 3
  Entries = 3
  Payload = 2
  Lengths = {0, 3}
  Pieces = {1, 3}
  MaxLength = 5
  Careful = TRUE
SYMMETRY Alike
INVARIANTS FilesKept StructureAgrees
PROPERTY SystemKept
