SPECIFICATION Spec
CONSTANTS
  Letter = {a, b}
  a = a
  b = b
  Newline = Newline
  Absent = Absent
  CharRange = 4
  BufferSize = 3
  Lines = 2
  Width = 2
  MaxText = 4
  Files <- SmallFiles
INVARIANTS CursorInText CursorShown
PROPERTIES IsText
