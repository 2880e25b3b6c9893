-------------------------------- MODULE Editor --------------------------------
(***************************************************************************)
(* TEd: one action for each key, with all that it calls.  The rows are     *)
(* sequences; cursorX and cursorY are bytes that nothing holds inside of   *)
(* the text.  Where a procedure is called with a length or an address      *)
(* outside of a row (Stray) what follows is not modelled: the task may     *)
(* only be ended from outside.                                             *)
(***************************************************************************)
EXTENDS Naturals, SequencesExt

CONSTANTS Letter, Newline,
          Absent,        \* the file that does not exist
          CharRange,     \* values of a CHAR: 256
          BufferSize,    \* of OpenFile: 128
          Lines, Width,  \* the part of the screen that shows text: 24, 39
          Files,         \* what may be in the file at the beginning
          MaxText        \* bound of the exploration

ASSUME EditorAssumption ==
  /\ CharRange \in Nat \ {0} /\ BufferSize \in Nat \ {0}
  /\ Lines \in Nat \ {0} /\ Width \in Nat \ {0}
  /\ MaxText \in Nat
  /\ Newline \notin Letter
  /\ \A f \in Files : f = Absent \/ f \in Seq(Letter \cup {Newline})

VARIABLES
  mode,         \* running and insertMode, or the task has gone astray
  rows,         \* row and numberOfRows
  cursorX, cursorY, rowOffset, colOffset,
  file,
  lost          \* history: the rows are no longer what was typed

vars == <<mode, rows, cursorX, cursorY, rowOffset, colOffset, file, lost>>
view == <<rowOffset, colOffset>>

Init ==
  /\ mode = "closed" /\ rows = <<>>
  /\ cursorX = 0 /\ cursorY = 0
  /\ rowOffset = 0 /\ colOffset = 0
  /\ file \in Files
  /\ lost = FALSE

numberOfRows == Len(rows)
Byte(n) == n % CharRange

(* The row that the cursor is in, where it is in one, and the next.        *)
Here == rows[cursorY + 1]
InRow == cursorY < numberOfRows

RowsToString(r) == FlattenSeq([i \in DOMAIN r |-> Append(r[i], Newline)])
Room(n) == Len(RowsToString(rows)) + n <= MaxText

(* ScrollScreen, for the cursor after the key.                             *)
ScrolledLate(offset, at, size) ==
  IF at < offset THEN at ELSE IF at > offset + size THEN at - size + 1 ELSE offset
Scrolled(offset, at, size) ==
  IF at < offset THEN at ELSE IF at >= offset + size THEN at - size + 1 ELSE offset
ScrollScreen ==
  /\ rowOffset' = Scrolled(rowOffset, cursorY', Lines)
  /\ colOffset' = Scrolled(colOffset, cursorX', Width)

Stray ==
  /\ mode' = "astray" /\ lost' = TRUE
  /\ UNCHANGED <<rows, cursorX, cursorY, view, file>>

-----------------------------------------------------------------------------
(* OpenFile: a line that fills the buffer begins again, and characters     *)
(* behind the last line feed are read and dropped.                         *)
ReadChar(s, c) ==
  IF c = Newline THEN [rows |-> Append(s.rows, s.line), line |-> <<>>]
  ELSE [s EXCEPT !.line = IF Len(s.line) + 1 >= BufferSize THEN <<>> ELSE Append(@, c)]
RowsOf(content) == FoldLeft(ReadChar, [rows |-> <<>>, line |-> <<>>], content).rows

Open ==
  /\ mode = "closed"
  /\ mode' = "command"
  /\ rows' = IF file = Absent THEN <<>> ELSE RowsOf(file)
  /\ lost' = (file # Absent /\ RowsToString(rows') # file)
  /\ cursorX' = 0 /\ cursorY' = 0 /\ rowOffset' = 0 /\ colOffset' = 0
  /\ UNCHANGED file

(* 'q', and a machine that is switched off and on again.                   *)
Closed ==
  /\ mode' = "closed" /\ rows' = <<>> /\ lost' = FALSE
  /\ cursorX' = 0 /\ cursorY' = 0 /\ rowOffset' = 0 /\ colOffset' = 0
  /\ UNCHANGED file
Quit == mode = "command" /\ Closed
Reset == mode # "closed" /\ Closed

-----------------------------------------------------------------------------
MoveDownBehind == cursorY <= numberOfRows /\ cursorY' = Byte(cursorY + 1) /\ UNCHANGED cursorX

MoveUp == cursorY # 0 /\ cursorY' = cursorY - 1 /\ UNCHANGED cursorX
MoveDown == cursorY < numberOfRows /\ cursorY' = Byte(cursorY + 1) /\ UNCHANGED cursorX
MoveLeft == cursorX # 0 /\ cursorX' = cursorX - 1 /\ UNCHANGED cursorY
MoveRight == cursorX' = Byte(cursorX + 1) /\ UNCHANGED cursorY

MoveCursor ==
  /\ mode = "command"
  /\ MoveUp \/ MoveDown \/ MoveLeft \/ MoveRight
  /\ ScrollScreen
  /\ UNCHANGED <<mode, rows, file, lost>>

(* The keys 'i', and escape or control-f.                                  *)
SwitchMode ==
  /\ \/ mode = "command" /\ mode' = "insert"
     \/ mode = "insert" /\ mode' = "command"
  /\ UNCHANGED <<cursorX, cursorY>>
  /\ ScrollScreen
  /\ UNCHANGED <<rows, file, lost>>

(* create deletes the file before it looks for room.  An empty text asks   *)
(* allocate_memory for no bytes.                                           *)
SaveFile ==
  /\ mode = "command"
  /\ numberOfRows # 0
  /\ file' \in {RowsToString(rows), Absent}
  /\ UNCHANGED <<cursorX, cursorY>>
  /\ ScrollScreen
  /\ UNCHANGED <<mode, rows, lost>>
SaveNothing == mode = "command" /\ numberOfRows = 0 /\ Stray

-----------------------------------------------------------------------------
InsertRow(r, at, line) == InsertAt(r, at + 1, line)

RowInsertCharacterAfter(line, at, c) ==
  IF at >= Len(line) THEN Append(line, c) ELSE InsertAt(line, at + 2, c)
RowInsertCharacter(line, at, c) ==
  IF at > Len(line) THEN Append(line, c) ELSE InsertAt(line, at + 1, c)

InsertCharacter(c) ==
  /\ mode = "insert" /\ c \in Letter
  /\ Room(IF InRow THEN 1 ELSE 2)
  /\ LET r == IF cursorY = numberOfRows THEN InsertRow(rows, numberOfRows, <<>>) ELSE rows
     IN  rows' = [r EXCEPT ![cursorY + 1] = RowInsertCharacter(@, cursorX, c)]
  /\ cursorX' = Byte(cursorX + 1)
  /\ lost' = (lost \/ cursorX' = 0)
  /\ UNCHANGED <<mode, cursorY, view, file>>

InsertNewLine ==
  /\ mode = "insert" /\ Room(1)
  /\ cursorX = 0 \/ (InRow /\ cursorX <= Len(Here))
  /\ rows' = IF cursorX = 0 THEN InsertRow(rows, cursorY, <<>>)
             ELSE [InsertRow(rows, cursorY + 1, SubSeq(Here, cursorX + 1, Len(Here)))
                    EXCEPT ![cursorY + 1] = SubSeq(Here, 1, cursorX)]
  /\ cursorY' = Byte(cursorY + 1) /\ cursorX' = 0
  /\ ScrollScreen
  /\ lost' = (lost \/ cursorY' = 0)
  /\ UNCHANGED <<mode, file>>

(* Behind the end of a line the rest has a negative length, and behind the *)
(* last line there is no row to cut.                                       *)
NewLineBehind ==
  /\ mode = "insert"
  /\ cursorX # 0 /\ ~ (InRow /\ cursorX <= Len(Here))
  /\ Stray

(* One column behind the end of a line it takes the last character, and    *)
(* leaves an empty line with the length -1.                                *)
RowRemoveCharacter(line, at) ==
  IF at > Len(line) THEN line
  ELSE IF at = Len(line) THEN Front(line) ELSE RemoveAt(line, at + 1)

RemoveCharacter ==
  /\ mode = "insert" /\ InRow
  /\ cursorX > 0 /\ ~ (cursorX = 1 /\ Here = <<>>)
  /\ rows' = [rows EXCEPT ![cursorY + 1] = RowRemoveCharacter(@, cursorX - 1)]
  /\ cursorX' = cursorX - 1
  /\ UNCHANGED <<mode, cursorY, view, file, lost>>

RemoveFromEmpty ==
  /\ mode = "insert" /\ InRow
  /\ cursorX = 1 /\ Here = <<>>
  /\ Stray

(* The line above gets the first line of the file, whatever line it is     *)
(* that goes.                                                              *)
JoinLines ==
  /\ mode = "insert" /\ InRow
  /\ cursorX = 0 /\ cursorY # 0
  /\ Room(Len(rows[1]))
  /\ rows' = RemoveAt([rows EXCEPT ![cursorY] = @ \o rows[1]], cursorY + 1)
  /\ cursorX' = Byte(Len(rows[cursorY])) /\ cursorY' = cursorY - 1
  /\ lost' = (lost \/ Here # rows[1] \/ Len(rows[cursorY]) >= CharRange)
  /\ UNCHANGED <<mode, view, file>>

-----------------------------------------------------------------------------
Next ==
  \/ Open \/ Quit \/ Reset
  \/ MoveCursor \/ SwitchMode \/ SaveFile \/ SaveNothing
  \/ \E c \in Letter : InsertCharacter(c)
  \/ InsertNewLine \/ NewLineBehind
  \/ RemoveCharacter \/ RemoveFromEmpty \/ JoinLines

Spec == Init /\ [][Next]_vars

-----------------------------------------------------------------------------
(* InsertCharacter and RemoveCharacter test for the row behind the last    *)
(* one only, and take any other for a row there is: the cursor is never    *)
(* further down, whatever was cut, joined or wrapped around.               *)
CursorInText == cursorY <= numberOfRows

(* In command mode the cursor is put inside of the part of the screen that *)
(* shows the text, also after lines were joined above it and typed past    *)
(* its edge in insert mode.                                                *)
CursorShown ==
  mode = "command" => /\ cursorY >= rowOffset /\ cursorY - rowOffset < Lines
                      /\ cursorX >= colOffset /\ cursorX - colOffset < Width

Promise == INSTANCE Text WITH
             text <- RowsToString(rows),
             pos <- Len(RowsToString(SubSeq(rows, 1, cursorY))) +
                      (IF ~ InRow THEN 0
                       ELSE IF cursorX > Len(Here) THEN Len(Here) ELSE cursorX)

(* Every key changes the string that is saved by one character at the      *)
(* cursor or not at all, what is saved is read back the same, and a        *)
(* failed save costs the file and not the text - until the program leaves  *)
(* the promise in one of the ways that set lost.                           *)
IsText == Promise!Spec
=============================================================================
