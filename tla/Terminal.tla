------------------------------- MODULE Terminal -------------------------------
(***************************************************************************)
(* The terminal of serial.c behind port 0: one action for each way through *)
(* print_char, which ends in scroll.  A control sequence is spread over    *)
(* three calls.  The arrays are flat, and modelled with one cell more than *)
(* the screen has: the cursor may be there when a character is stored.     *)
(***************************************************************************)
EXTENDS Naturals

CONSTANTS H, V,       \* SCREEN_TILES_H = VRAM_TILES_H, SCREEN_TILES_V
          Typed,      \* the bytes printed outside of a sequence
          Parameters, \* and those of a sequence
          None        \* not yet initialised

BS    == 8
LF    == 10
CR    == 13
MARK  == 138
FILL  == 240
MOVE  == 241
COLOR == 242
LINE  == 243
Modes == {FILL, MOVE, COLOR, LINE}
Redraws == {254, 255}
Block == 177

ASSUME TerminalAssumption ==
  /\ H \in 1 .. 254 /\ V \in 1 .. 255
  /\ Typed \cup Parameters \subseteq 0 .. 255

Cells == 0 .. H * V

VARIABLES
  vram, aram,  \* characters and their colours
  x, y, color,
  state,       \* 0 outside of a sequence, else the parameter that comes next
  mode, param_0

vars == <<vram, aram, x, y, color, state, mode, param_0>>
sequence == <<state, mode, param_0>>

Init ==
  /\ vram = [i \in Cells |-> 0] /\ aram = [i \in Cells |-> 0]
  /\ x = 0 /\ y = 0 /\ color = 255
  /\ state = 0 /\ mode = None /\ param_0 = None

(* The end of the row is looked for before a byte, and with >.             *)
ColumnLate == IF x > H + 1 THEN 0 ELSE x

Column == IF x > H THEN 0 ELSE x
Row    == IF x > H THEN y + 1 ELSE y

(* The place of a cell in the arrays.                                      *)
At(r, c) == r * H + c
Here == At(Row, Column)

(* SetFont, PrintChar and FontFill of the Uzebox kernel.                   *)
Rectangle(c0, r0, width, height) ==
  {At(r, c) : r \in r0 .. r0 + height - 1, c \in c0 .. c0 + width - 1}
Put(a, where, b) == [i \in Cells |-> IF i \in where THEN b ELSE a[i]]

(* scroll: the row behind the screen is not copied.                        *)
MovedUpLess(a) == [i \in Cells |-> IF i + H < H * (V - 1) THEN a[i + H] ELSE a[i]]
MovedUp(a) == [i \in Cells |-> IF i < H * (V - 1) THEN a[i + H] ELSE a[i]]

ScrollLate(chars, inks, c, r) ==
  IF r > V
  THEN /\ vram' = Put(MovedUp(chars), Rectangle(0, V - 1, H, 1), 0)
       /\ aram' = MovedUp(inks)
       /\ x' = 0 /\ y' = V - 1
  ELSE vram' = chars /\ aram' = inks /\ x' = c /\ y' = r
Scroll(chars, inks, c, r) ==
  IF r > V - 1
  THEN /\ vram' = Put(MovedUp(chars), Rectangle(0, V - 1, H, 1), 0)
       /\ aram' = MovedUp(inks)
       /\ x' = 0 /\ y' = V - 1
  ELSE vram' = chars /\ aram' = inks /\ x' = c /\ y' = r

Stay(c, r) == Scroll(vram, aram, c, r)

-----------------------------------------------------------------------------
(* case 0xF0 .. 0xF3, with the second parameter c.                         *)
Fill ==
  /\ Scroll(Put(vram, Rectangle(0, 0, H - 1, V - 1), param_0),
            [i \in Cells |-> IF i < H * V THEN color ELSE aram[i]], Column, Row)
  /\ UNCHANGED color

MoveCursor(c) ==
  /\ Stay(param_0, c)
  /\ UNCHANGED color

SetColor ==
  /\ color' = LET high == param_0 - (param_0 % 16)
              IN  IF high = 112 THEN 255 ELSE (high * 2) % 256
  /\ Stay(Column, Row)

FillLine ==
  /\ Scroll(Put(vram, Rectangle(0, Row, H - 1, 1), param_0),
            Put(aram, Here .. H - 1, color), Column, Row)
  /\ UNCHANGED color

EndSequence(c) ==
  /\ state = 2
  /\ \/ mode = FILL /\ Fill
     \/ mode = MOVE /\ MoveCursor(c)
     \/ mode = COLOR /\ SetColor
     \/ mode = LINE /\ FillLine
  /\ state' = 0
  /\ UNCHANGED <<mode, param_0>>

TakeParameter(c) ==
  /\ state = 1
  /\ param_0' = c /\ state' = 2
  /\ Stay(Column, Row)
  /\ UNCHANGED <<color, mode>>

-----------------------------------------------------------------------------
BeginSequence(c) ==
  /\ c \in Modes
  /\ mode' = c /\ state' = 1
  /\ Stay(Column, Row)
  /\ UNCHANGED <<color, param_0>>

Control(c) ==
  /\ \/ c = BS /\ Stay(IF Column > 0 THEN Column - 1 ELSE 0, Row)
     \/ c = CR /\ Stay(0, Row)
     \/ c = LF /\ Stay(0, Row + 1)
     \/ c \in Redraws /\ Stay(Column, Row)
  /\ UNCHANGED <<sequence, color>>

Glyph(c) ==
  /\ c \notin Modes \cup Redraws \cup {BS, CR, LF}
  /\ Scroll(Put(vram, {Here}, IF c = MARK THEN Block ELSE c),
            Put(aram, {Here}, color), Column + 1, Row)
  /\ UNCHANGED <<sequence, color>>

Next ==
  \/ \E c \in Typed : state = 0 /\ (BeginSequence(c) \/ Control(c) \/ Glyph(c))
  \/ \E c \in Parameters : TakeParameter(c) \/ EndSequence(c)

Spec == Init /\ [][Next]_vars

-----------------------------------------------------------------------------
TypeOK ==
  /\ vram \in [Cells -> 0 .. 255] /\ aram \in [Cells -> 0 .. 255]
  /\ x \in 0 .. 255 /\ y \in 0 .. V - 1
  /\ color \in 0 .. 255
  /\ state \in 0 .. 2
  /\ state # 0 => mode \in Modes
  /\ state = 2 => param_0 \in 0 .. 255

(* Wherever the cursor was set to, the next character and every cell of a  *)
(* line to fill lie on the screen or in the one cell behind it: the cursor *)
(* is not tested, but what brings it back to the screen comes in time.     *)
OneCellBehind ==
  /\ Here \in Cells
  /\ state # 0 => x <= H /\ Row < V

Promise == INSTANCE Screen WITH
             Columns <- H, Rows <- V,
             Char <- {0, Block} \cup Typed \cup Parameters,
             Ink <- 0 .. 255, Blank <- 0,
             page <- [r \in 0 .. V - 1 |-> [c \in 0 .. H - 1 |->
                       IF vram[At(r, c)] = 0 THEN [char |-> 0]
                       ELSE [char |-> vram[At(r, c)], ink |-> aram[At(r, c)]]]],
             col <- IF x > H THEN H + 1 ELSE x, row <- y, ink <- color

(* The flat arrays with their copying loop, the sequences spread over      *)
(* three calls and a cursor that may be set anywhere are a page that       *)
(* scrolls, whatever bytes come: no row but the one typed in, or the one   *)
(* below it, is ever changed without being scrolled or filled.             *)
IsScreen == Promise!Spec
=============================================================================
