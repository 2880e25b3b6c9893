-------------------------------- MODULE Screen --------------------------------
(***************************************************************************)
(* What the terminal promises: a page of rows and columns with a cursor.   *)
(* A row is left when a byte comes and the cursor is two columns behind    *)
(* its last one: what is typed right behind the last column is seen in the *)
(* row below, until the next character takes its place.                    *)
(***************************************************************************)
EXTENDS Naturals

CONSTANTS Columns, Rows, Char, Ink, Blank

VARIABLES page, col, row, ink

vars == <<page, col, row, ink>>

Column == 0 .. Columns - 1
Row    == 0 .. Rows - 1

(* A blank shows no colour.                                                *)
Cell(c, k) == IF c = Blank THEN [char |-> Blank] ELSE [char |-> c, ink |-> k]
BlankCell == Cell(Blank, CHOOSE k \in Ink : TRUE)

Init ==
  /\ page = [r \in Row |-> [c \in Column |-> BlankCell]]
  /\ col = 0 /\ row = 0
  /\ ink \in Ink

(* Where a byte finds the cursor; and the page with a cell typed there.    *)
Left == col > Columns
ThisCol == IF Left THEN 0 ELSE col
ThisRow == IF Left THEN row + 1 ELSE row

PageWith(cell) ==
  LET there == IF ThisCol < Columns THEN <<ThisRow, ThisCol>> ELSE <<ThisRow + 1, 0>>
  IN  [r \in Row |-> [c \in Column |-> IF <<r, c>> = there THEN cell ELSE page[r][c]]]

(* A cursor that comes to be below the last row takes the page up by one   *)
(* row, and goes to the beginning of the last.                             *)
GoTo(new, c, r) ==
  IF r < Rows
  THEN page' = new /\ col' = c /\ row' = r
  ELSE /\ page' = [q \in Row |-> IF q + 1 < Rows THEN new[q + 1]
                                 ELSE [d \in Column |-> BlankCell]]
       /\ col' = 0 /\ row' = Rows - 1

Type(ch) == GoTo(PageWith(Cell(ch, ink)), ThisCol + 1, ThisRow) /\ UNCHANGED ink

Move(c, r) == GoTo(page, c, r) /\ UNCHANGED ink

Here     == Move(ThisCol, ThisRow)
NextLine == Move(0, ThisRow + 1)
Return   == Move(0, ThisRow)
Back     == Move(IF ThisCol > 0 THEN ThisCol - 1 ELSE 0, ThisRow)

(* What follows is done on a row that is not left.                         *)
SetInk ==
  /\ ~Left
  /\ ink' \in Ink
  /\ UNCHANGED <<page, col, row>>

(* All but the last column and the last row are filled, and the whole page *)
(* gets the colour.                                                        *)
Fill(ch) ==
  /\ ~Left
  /\ page' = [r \in Row |-> [c \in Column |->
       IF c + 1 < Columns /\ r + 1 < Rows THEN Cell(ch, ink)
       ELSE Cell(page[r][c].char, ink)]]
  /\ UNCHANGED <<col, row, ink>>

(* The colour a filled line gets is not promised.                          *)
FillLine(ch) ==
  /\ ~Left
  /\ \A r \in Row \ {row} : page'[r] = page[r]
  /\ \A c \in Column :
       page'[row][c].char = IF c + 1 < Columns THEN ch ELSE page[row][c].char
  /\ UNCHANGED <<col, row, ink>>

Next ==
  \/ \E ch \in Char : Type(ch) \/ Fill(ch) \/ FillLine(ch)
  \/ Here \/ NextLine \/ Return \/ Back \/ SetInk
  \/ \E c \in 0 .. Columns + 1, r \in 0 .. Rows : Move(c, r)

Spec == Init /\ [][Next]_vars
=============================================================================
