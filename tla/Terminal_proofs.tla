--------------------------- MODULE Terminal_proofs ---------------------------
(***************************************************************************)
(* The cursor of serial.c is not tested where it is used; these are the    *)
(* proofs that it never leads further than one cell behind the screen, for *)
(* screens of every size.                                                  *)
(***************************************************************************)
EXTENDS Terminal, Integers, TLAPS

(* A cell of a row that is on the screen, and the row's last column.       *)
LEMMA CellBound ==
  ASSUME NEW h \in Nat, NEW v \in Nat, NEW r \in 0 .. v - 1, NEW c \in 0 .. h
  PROVE  r * h + c \in 0 .. h * v
<1>1. (v - 1 - r) * h >= 0
  OBVIOUS
<1>2. (v - 1 - r) * h = v * h - h - r * h
  OBVIOUS
<1>3. r * h >= 0
  OBVIOUS
<1>4. r * h \in Int /\ v * h \in Int /\ v * h = h * v
  OBVIOUS
<1> QED
  BY <1>1, <1>2, <1>3, <1>4

(* The row behind the screen has one cell, its first.                      *)
LEMMA RowBehind ==
  ASSUME NEW h \in Nat, NEW v \in Nat, NEW r \in 0 .. v
  PROVE  r * h + 0 \in 0 .. h * v
<1>1. (v - r) * h >= 0
  OBVIOUS
<1>2. (v - r) * h = v * h - r * h
  OBVIOUS
<1>3. r * h >= 0 /\ r * h \in Int /\ v * h \in Int /\ v * h = h * v
  OBVIOUS
<1> QED
  BY <1>1, <1>2, <1>3

(* The row below a cell that scroll copies to is on the screen.            *)
LEMMA RowBelow ==
  ASSUME NEW h \in Nat, NEW v \in Nat \ {0}, NEW i \in 0 .. h * v, i < h * (v - 1)
  PROVE  i + h \in 0 .. h * v
<1>1. h * (v - 1) = h * v - h
  OBVIOUS
<1>2. h * v \in Int
  OBVIOUS
<1> QED
  BY <1>1, <1>2

LEMMA InCells ==
  ASSUME NEW h \in Nat, NEW v \in Nat, NEW r \in 0 .. v, NEW c \in 0 .. h,
         r = v => c = 0
  PROVE  r * h + c \in 0 .. h * v
<1>1. CASE r = v
  BY <1>1, RowBehind
<1>2. CASE r # v
  <2>1. r \in 0 .. v - 1
    BY <1>2
  <2> QED
    BY <2>1, CellBound
<1> QED
  BY <1>1, <1>2

(* Where a byte finds the cursor after the test for the end of the row.    *)
LEMMA CursorBound ==
  ASSUME TerminalAssumption, TypeOK
  PROVE  /\ Column \in 0 .. H /\ Row \in 0 .. V
         /\ Row = V => Column = 0
         /\ Here \in Cells
<1>1. H \in Nat /\ V \in Nat /\ x \in Nat /\ y \in 0 .. V - 1
  BY DEF TerminalAssumption, TypeOK
<1>2. Column \in 0 .. H /\ Row \in 0 .. V /\ (Row = V => Column = 0)
  BY <1>1 DEF Column, Row
<1> QED
  <2>1. Row * H + Column \in 0 .. H * V
    BY <1>1, <1>2, InCells
  <2> QED
    BY <1>2, <2>1 DEF Here, At, Cells

-----------------------------------------------------------------------------
Screens == [Cells -> 0 .. 255]

(* What scroll brings about at the end of every byte.                      *)
OnScreen ==
  /\ vram \in Screens /\ aram \in Screens
  /\ x \in 0 .. 255 /\ y \in 0 .. V - 1

LEMMA PutTyped ==
  ASSUME NEW a \in Screens, NEW where, NEW b \in 0 .. 255
  PROVE  Put(a, where, b) \in Screens
  BY DEF Put, Screens

LEMMA MovedUpTyped ==
  ASSUME TerminalAssumption, NEW a \in Screens
  PROVE  MovedUp(a) \in Screens
<1>1. ASSUME NEW i \in Cells, i < H * (V - 1)
      PROVE  i + H \in Cells
  BY <1>1, RowBelow DEF TerminalAssumption, Cells
<1> QED
  BY <1>1 DEF MovedUp, Screens

(* scroll brings the cursor back to the screen, and to its first column.   *)
LEMMA ScrollTyped ==
  ASSUME TerminalAssumption,
         NEW chars \in Screens, NEW inks \in Screens,
         NEW c \in 0 .. 255, NEW r \in Nat,
         Scroll(chars, inks, c, r)
  PROVE  OnScreen' /\ x' \in {0, c}
<1>1. MovedUp(chars) \in Screens /\ MovedUp(inks) \in Screens
  BY MovedUpTyped
<1>2. Put(MovedUp(chars), Rectangle(0, V - 1, H, 1), 0) \in Screens
  BY <1>1, PutTyped
<1> QED
  BY <1>1, <1>2 DEF Scroll, TerminalAssumption, OnScreen

-----------------------------------------------------------------------------
IInv == TypeOK /\ OneCellBehind

LEMMA InitIInv ==
  ASSUME TerminalAssumption, Init
  PROVE  IInv
<1>1. TypeOK
  BY DEF TerminalAssumption, Init, TypeOK
<1>2. x = 0 /\ y = 0 /\ state = 0
  BY DEF Init
<1> QED
  BY <1>1, <1>2, CursorBound DEF IInv, OneCellBehind

(* A step that leaves the cursor in some column, and in the middle of a    *)
(* sequence in a column of the screen, keeps the invariant.                *)
LEMMA StepKeeps ==
  ASSUME TerminalAssumption, TypeOK',
         state' # 0 => x' <= H
  PROVE  IInv'
<1>1. H \in Nat /\ V \in Nat /\ x' \in Nat /\ y' \in 0 .. V - 1
  BY DEF TerminalAssumption, TypeOK
<1>2. PICK a \in Nat, b \in 0 .. V - 1 : a = x' /\ b = y'
  BY <1>1
<1>3. /\ Column' \in 0 .. H /\ Row' \in 0 .. V /\ (Row' = V => Column' = 0)
      /\ x' <= H => Row' < V
  <2>1. CASE a > H
    <3>1. Column' = 0 /\ Row' = b + 1
      BY <1>2, <2>1 DEF Column, Row
    <3>2. 0 \in 0 .. H /\ b + 1 \in 0 .. V
      BY <1>1
    <3>3. ~ (x' <= H)
      BY <1>1, <1>2, <2>1
    <3> QED
      BY <3>1, <3>2, <3>3
  <2>2. CASE ~ (a > H)
    <3>1. Column' = a /\ Row' = b
      BY <1>2, <2>2 DEF Column, Row
    <3> QED
      BY <1>1, <1>2, <2>2, <3>1
  <2> QED
    BY <2>1, <2>2
<1>4. Row' * H + Column' \in 0 .. H * V
  BY <1>1, <1>3, InCells
<1> QED
  BY <1>3, <1>4 DEF IInv, OneCellBehind, Here, At, Cells

LEMMA NextKeeps ==
  ASSUME TerminalAssumption, IInv, Next
  PROVE  IInv'
<1>1. /\ TypeOK
      /\ Column \in 0 .. H /\ Row \in 0 .. V /\ Here \in Cells
      /\ Column + 1 \in 0 .. 255 /\ Row \in Nat /\ Row + 1 \in Nat
      /\ Column \in 0 .. 255
  BY CursorBound DEF IInv, TerminalAssumption
<1>2. vram \in Screens /\ aram \in Screens /\ color \in 0 .. 255
  BY <1>1 DEF TypeOK, Screens
<1>3. ASSUME NEW c \in 0 .. 255, NEW r \in Nat, Stay(c, r)
      PROVE  OnScreen' /\ x' \in {0, c}
  BY <1>2, <1>3, ScrollTyped DEF Stay
<1>4. ASSUME NEW c \in Typed, state = 0, BeginSequence(c)
      PROVE  IInv'
  <2>1. OnScreen' /\ x' \in {0, Column}
    BY <1>1, <1>3, <1>4 DEF BeginSequence
  <2>2. TypeOK' /\ x' <= H
    BY <1>1, <1>2, <1>4, <2>1 DEF BeginSequence, TypeOK, OnScreen, Screens, TerminalAssumption
  <2> QED
    BY <2>2, StepKeeps
<1>5. ASSUME NEW c \in Typed, state = 0, Control(c)
      PROVE  IInv'
  <2>1. PICK d \in 0 .. 255, r \in Nat : Stay(d, r)
    BY <1>1, <1>5 DEF Control
  <2>2. OnScreen'
    BY <1>3, <2>1
  <2>3. TypeOK' /\ state' = 0
    BY <1>1, <1>2, <1>5, <2>2 DEF Control, TypeOK, OnScreen, Screens, sequence
  <2> QED
    BY <2>3, StepKeeps
<1>6. ASSUME NEW c \in Typed, state = 0, Glyph(c)
      PROVE  IInv'
  <2>1. /\ Put(vram, {Here}, IF c = MARK THEN Block ELSE c) \in Screens
        /\ Put(aram, {Here}, color) \in Screens
    <3>1. (IF c = MARK THEN Block ELSE c) \in 0 .. 255
      BY DEF TerminalAssumption, Block
    <3> QED
      BY <1>2, <3>1, PutTyped
  <2>2. PICK chars \in Screens, inks \in Screens, d \in 0 .. 255, r \in Nat :
         Scroll(chars, inks, d, r)
    BY <1>1, <1>6, <2>1, Zenon DEF Glyph
  <2>3. OnScreen'
    BY <2>2, ScrollTyped
  <2>4. TypeOK' /\ state' = 0
    BY <1>1, <1>2, <1>6, <2>3 DEF Glyph, TypeOK, OnScreen, Screens, sequence
  <2> QED
    BY <2>4, StepKeeps
<1>7. ASSUME NEW c \in Parameters, TakeParameter(c)
      PROVE  IInv'
  <2>1. OnScreen' /\ x' \in {0, Column}
    BY <1>1, <1>3, <1>7 DEF TakeParameter
  <2>2. TypeOK' /\ x' <= H
    BY <1>1, <1>2, <1>7, <2>1 DEF TakeParameter, TypeOK, OnScreen, Screens, TerminalAssumption
  <2> QED
    BY <2>2, StepKeeps
<1>8. ASSUME NEW c \in Parameters, EndSequence(c)
      PROVE  IInv'
  <2>1. param_0 \in 0 .. 255 /\ c \in Nat /\ state' = 0
    BY <1>1, <1>8 DEF EndSequence, TypeOK, TerminalAssumption
  <2>2. CASE Fill
    <3>1. /\ Put(vram, Rectangle(0, 0, H - 1, V - 1), param_0) \in Screens
          /\ [i \in Cells |-> IF i < H * V THEN color ELSE aram[i]] \in Screens
      <4>1. [i \in Cells |-> IF i < H * V THEN color ELSE aram[i]] \in Screens
        BY <1>2 DEF Screens
      <4> QED
        BY <1>2, <2>1, <4>1, PutTyped
    <3>2. PICK chars \in Screens, inks \in Screens, d \in 0 .. 255, r \in Nat :
           Scroll(chars, inks, d, r)
      BY <1>1, <2>2, <3>1, Zenon DEF Fill
    <3>3. OnScreen'
      BY <3>2, ScrollTyped
    <3> QED
      BY <1>2, <2>1, <2>2, <3>3, StepKeeps DEF Fill, TypeOK, OnScreen, Screens
  <2>3. CASE MoveCursor(c)
    <3>1. OnScreen'
      BY <1>3, <2>1, <2>3 DEF MoveCursor
    <3> QED
      BY <1>2, <2>1, <2>3, <3>1, StepKeeps DEF MoveCursor, TypeOK, OnScreen, Screens
  <2>4. CASE SetColor
    <3>1. OnScreen'
      BY <1>1, <1>3, <2>4 DEF SetColor
    <3>2. color' \in 0 .. 255
      BY <2>1, <2>4 DEF SetColor
    <3> QED
      BY <2>1, <3>1, <3>2, StepKeeps DEF TypeOK, OnScreen, Screens
  <2>5. CASE FillLine
    <3>1. /\ Put(vram, Rectangle(0, Row, H - 1, 1), param_0) \in Screens
          /\ Put(aram, Here .. H - 1, color) \in Screens
      BY <1>2, <2>1, PutTyped
    <3>2. PICK chars \in Screens, inks \in Screens, d \in 0 .. 255, r \in Nat :
           Scroll(chars, inks, d, r)
      BY <1>1, <2>5, <3>1, Zenon DEF FillLine
    <3>3. OnScreen'
      BY <3>2, ScrollTyped
    <3>4. color' = color
      BY <2>5 DEF FillLine
    <3> QED
      BY <1>2, <2>1, <3>3, <3>4, StepKeeps DEF TypeOK, OnScreen, Screens
  <2> QED
    BY <1>8, <2>2, <2>3, <2>4, <2>5 DEF EndSequence
<1> QED
  BY <1>4, <1>5, <1>6, <1>7, <1>8 DEF Next

-----------------------------------------------------------------------------
LEMMA Inductive ==
  ASSUME TerminalAssumption
  PROVE  Spec => []IInv
<1>1. ASSUME IInv, UNCHANGED vars
      PROVE  IInv'
  BY <1>1 DEF IInv, TypeOK, OneCellBehind, vars, Here, Row, Column
<1> QED
  BY InitIInv, NextKeeps, <1>1, PTL DEF Spec

(* On a screen of every size, after every sequence of bytes, the next      *)
(* character and the start of the next line to fill lie on the screen or   *)
(* in the one cell behind it.                                              *)
THEOREM OneBehind ==
  ASSUME TerminalAssumption
  PROVE  Spec => []OneCellBehind
  BY Inductive, PTL DEF IInv

(* The cursor is in a row of the screen between any two bytes.             *)
THEOREM TerminalTyping ==
  ASSUME TerminalAssumption
  PROVE  Spec => []TypeOK
  BY Inductive, PTL DEF IInv

-----------------------------------------------------------------------------
(* Terminal implements Screen.  What fills is a byte that was received.     *)
Kept == state = 2 => param_0 \in Parameters

(* The column of Screen: how far behind the row the cursor is is the same. *)
ColOf(c) == IF c > H THEN H + 1 ELSE c

Char == {0, Block} \cup Typed \cup Parameters
CellOf(b, n) == IF b = 0 THEN [char |-> 0] ELSE [char |-> b, ink |-> n]
Shown(chars, inks) ==
  [r \in 0 .. V - 1 |-> [c \in 0 .. H - 1 |->
     CellOf(chars[At(r, c)], inks[At(r, c)])]]

(* What the actions of Screen do to a page.                                *)
NextPage(page) ==
  [r \in 0 .. V - 1 |-> IF r + 1 < V THEN page[r + 1]
                         ELSE [c \in 0 .. H - 1 |-> Promise!BlankCell]]
Filling(page, b, n) ==
  [r \in 0 .. V - 1 |-> [c \in 0 .. H - 1 |->
     IF c + 1 < H /\ r + 1 < V THEN CellOf(b, n) ELSE CellOf(page[r][c].char, n)]]
LineFilled(new, old, q, b) ==
  /\ \A r \in (0 .. V - 1) \ {q} : new[r] = old[r]
  /\ \A c \in 0 .. H - 1 :
       new[q][c].char = IF c + 1 < H THEN b ELSE old[q][c].char

Coloured(inks, n) == [i \in Cells |-> IF i < H * V THEN n ELSE inks[i]]

LEMMA CellIsCell ==
  /\ \A b, n : Promise!Cell(b, n) = CellOf(b, n)
  /\ Promise!BlankCell = CellOf(0, 0)
BY DEF Promise!Cell, Promise!BlankCell, CellOf

(* Two cells of the screen lie at two places of the arrays.                *)
LEMMA CellsDiffer ==
  ASSUME TerminalAssumption,
         NEW r \in 0 .. V - 1, NEW c \in 0 .. H - 1,
         NEW q \in 0 .. V - 1, NEW d \in 0 .. H - 1
  PROVE  /\ At(r, c) \in Cells /\ At(r, c) < H * V
         /\ At(r, c) = At(q, d) => r = q /\ c = d
<1>1. H \in Nat /\ H # 0 /\ V \in Nat /\ V # 0
  BY DEF TerminalAssumption
<1>2. (r * H + c) \div H = r /\ (r * H + c) % H = c
  BY <1>1
<1>3. (q * H + d) \div H = q /\ (q * H + d) % H = d
  BY <1>1
<1>4. r * H + c \in 0 .. H * V
  BY <1>1, CellBound
<1>5. r * H + c < H * V
  <2>1. (V - 1 - r) * H >= 0
    BY <1>1
  <2>2. (V - 1 - r) * H = V * H - H - r * H
    BY <1>1
  <2>3. r * H \in Int /\ V * H \in Int /\ V * H = H * V
    BY <1>1
  <2> QED
    BY <1>1, <2>1, <2>2, <2>3
<1> QED
  BY <1>2, <1>3, <1>4, <1>5 DEF Cells, At

(* Which cells of the screen are in a rectangle on it.                     *)
LEMMA InRectangle ==
  ASSUME TerminalAssumption,
         NEW c0 \in Nat, NEW r0 \in Nat, NEW width \in Nat, NEW height \in Nat,
         c0 + width <= H, r0 + height <= V,
         NEW r \in 0 .. V - 1, NEW c \in 0 .. H - 1
  PROVE  At(r, c) \in Rectangle(c0, r0, width, height)
           <=> r \in r0 .. r0 + height - 1 /\ c \in c0 .. c0 + width - 1
<1>1. ASSUME NEW q \in r0 .. r0 + height - 1, NEW d \in c0 .. c0 + width - 1,
             At(r, c) = At(q, d)
      PROVE  r = q /\ c = d
  <2>1. q \in 0 .. V - 1 /\ d \in 0 .. H - 1
    BY DEF TerminalAssumption
  <2> QED
    BY <1>1, <2>1, CellsDiffer
<1>2. ASSUME At(r, c) \in Rectangle(c0, r0, width, height)
      PROVE  r \in r0 .. r0 + height - 1 /\ c \in c0 .. c0 + width - 1
  <2>1. PICK q \in r0 .. r0 + height - 1, d \in c0 .. c0 + width - 1 :
          At(r, c) = At(q, d)
    BY <1>2 DEF Rectangle
  <2>2. r = q /\ c = d
    BY <1>1, <2>1
  <2> QED
    BY <2>2
<1>3. ASSUME r \in r0 .. r0 + height - 1, c \in c0 .. c0 + width - 1
      PROVE  At(r, c) \in Rectangle(c0, r0, width, height)
  BY <1>3 DEF Rectangle
<1> QED
  BY <1>2, <1>3

(* What scroll does to what is shown: the next line, at the bottom.        *)
LEMMA ShownMovedUp ==
  ASSUME TerminalAssumption, NEW chars \in Screens, NEW inks \in Screens
  PROVE  Shown(Put(MovedUp(chars), Rectangle(0, V - 1, H, 1), 0), MovedUp(inks)) =
           NextPage(Shown(chars, inks))
<1> DEFINE cleared == Put(MovedUp(chars), Rectangle(0, V - 1, H, 1), 0)
<1>1. H \in Nat \ {0} /\ V \in Nat \ {0}
  BY DEF TerminalAssumption
<1>2. ASSUME NEW r \in 0 .. V - 1, NEW c \in 0 .. H - 1
      PROVE  At(r, c) \in Rectangle(0, V - 1, H, 1) <=> ~ (r + 1 < V)
  <2>1. V - 1 \in Nat /\ 0 + H <= H /\ V - 1 + 1 <= V
    BY <1>1
  <2>2. At(r, c) \in Rectangle(0, V - 1, H, 1)
          <=> r \in V - 1 .. V - 1 + 1 - 1 /\ c \in 0 .. 0 + H - 1
    BY <1>1, <2>1, InRectangle
  <2> QED
    BY <1>1, <2>2
<1>3. ASSUME NEW r \in 0 .. V - 1, NEW c \in 0 .. H - 1, r + 1 < V
      PROVE  /\ cleared[At(r, c)] = chars[At(r + 1, c)]
             /\ MovedUp(inks)[At(r, c)] = inks[At(r + 1, c)]
  <2>1. At(r, c) \in Cells
    BY CellsDiffer
  <2>2. At(r, c) \notin Rectangle(0, V - 1, H, 1)
    BY <1>3, <1>2
  <2>3. At(r + 1, c) = At(r, c) + H
    BY <1>1 DEF At
  <2>4. At(r, c) < H * (V - 1)
    <3>1. (V - 2 - r) * H >= 0
      BY <1>1, <1>3
    <3>2. (V - 2 - r) * H = V * H - 2 * H - r * H /\ H * (V - 1) = V * H - H
      BY <1>1
    <3>3. r * H \in Int /\ V * H \in Int
      BY <1>1
    <3> QED
      BY <1>1, <3>1, <3>2, <3>3 DEF At
  <2> QED
    BY <2>1, <2>2, <2>3, <2>4 DEF MovedUp, Put
<1>4. ASSUME NEW r \in 0 .. V - 1, NEW c \in 0 .. H - 1, ~ (r + 1 < V)
      PROVE  cleared[At(r, c)] = 0
  <2>1. At(r, c) \in Cells
    BY CellsDiffer
  <2>2. At(r, c) \in Rectangle(0, V - 1, H, 1)
    BY <1>4, <1>2
  <2> QED
    BY <2>1, <2>2 DEF Put
<1> HIDE DEF cleared
<1>5. ASSUME NEW r \in 0 .. V - 1
      PROVE  Shown(cleared, MovedUp(inks))[r] =
               IF r + 1 < V THEN Shown(chars, inks)[r + 1]
               ELSE [c \in 0 .. H - 1 |-> CellOf(0, 0)]
  <2>1. CASE r + 1 < V
    <3>1. r + 1 \in 0 .. V - 1
      BY <1>1, <2>1
    <3> QED
      BY <1>3, <2>1, <3>1 DEF Shown
  <2>2. CASE ~ (r + 1 < V)
    BY <1>4, <2>2 DEF Shown, CellOf
  <2> QED
    BY <2>1, <2>2
<1>6. Shown(cleared, MovedUp(inks)) =
        [r \in 0 .. V - 1 |-> Shown(cleared, MovedUp(inks))[r]]
  BY DEF Shown
<1> QED
  BY <1>5, <1>6, CellIsCell DEF cleared, NextPage

-----------------------------------------------------------------------------
(* What the cells of the page of Screen stand for.                         *)
LEMMA PageShown ==
  /\ Shown(vram, aram) =
       [r \in 0 .. V - 1 |-> [c \in 0 .. H - 1 |->
          IF vram[At(r, c)] = 0 THEN [char |-> 0]
          ELSE [char |-> vram[At(r, c)], ink |-> aram[At(r, c)]]]]
  /\ Shown(vram', aram') =
       [r \in 0 .. V - 1 |-> [c \in 0 .. H - 1 |->
          IF vram'[At(r, c)] = 0 THEN [char |-> 0]
          ELSE [char |-> vram'[At(r, c)], ink |-> aram'[At(r, c)]]]]
BY DEF Shown, CellOf

(* The test for the end of the row is where Screen leaves the row.         *)
LEMMA CursorIs ==
  ASSUME TerminalAssumption, TypeOK
  PROVE  /\ Promise!ThisCol = Column /\ Promise!ThisRow = Row
         /\ ColOf(Column) = Column
         /\ Column \in 0 .. H /\ Row \in 0 .. V
         /\ Row = V => Column = 0
         /\ x <= H => Column = x /\ Row = y /\ ~Promise!Left
<1>1. H \in Nat /\ x \in Nat
  BY DEF TerminalAssumption, TypeOK
<1>2. Promise!Left <=> x > H
  BY <1>1 DEF Promise!Left
<1>3. Promise!ThisCol = Column /\ Promise!ThisRow = Row
  BY <1>2 DEF Promise!ThisCol, Promise!ThisRow, Column, Row
<1>4. x <= H => Column = x /\ Row = y /\ ~Promise!Left
  BY <1>1, <1>2 DEF Column, Row
<1>5. /\ Column \in 0 .. H /\ Row \in 0 .. V
      /\ Row = V => Column = 0
  BY CursorBound
<1>6. ColOf(Column) = Column
  BY <1>1, <1>5 DEF ColOf
<1> QED
  BY <1>3, <1>4, <1>5, <1>6

(* The cell a byte is stored in, as a place of the page: a cell behind the *)
(* last column is the first of the row below, and the last of the arrays   *)
(* is in no row.                                                           *)
Place == IF Column < H THEN <<Row, Column>> ELSE <<Row + 1, 0>>

LEMMA HereIsPlace ==
  ASSUME TerminalAssumption, TypeOK, NEW r \in 0 .. V - 1, NEW c \in 0 .. H - 1
  PROVE  At(r, c) = Here <=> <<r, c>> = Place
<1>1. H \in Nat \ {0} /\ V \in Nat \ {0}
  BY DEF TerminalAssumption
<1>2. PICK q \in 0 .. V, d \in 0 .. H - 1 :
        Place = <<q, d>> /\ Here = At(q, d) /\ (q = V => d = 0)
  <2>1. CASE Column < H
    BY <1>1, <2>1, CursorIs DEF Place, Here
  <2>2. CASE ~(Column < H)
    <3>1. Column = H /\ Row + 1 \in 0 .. V /\ Row \in Nat
      BY <1>1, <2>2, CursorIs
    <3>2. At(Row, H) = At(Row + 1, 0)
      BY <1>1, <3>1 DEF At
    <3>3. Place = <<Row + 1, 0>> /\ 0 \in 0 .. H - 1
      BY <1>1, <2>2 DEF Place
    <3> QED
      BY <3>1, <3>2, <3>3 DEF Here
  <2> QED
    BY <2>1, <2>2
<1>3. CASE q = V
  <2>1. At(q, d) = H * V
    BY <1>1, <1>2, <1>3 DEF At
  <2>2. At(r, c) \in Cells /\ At(r, c) < H * V
    BY CellsDiffer
  <2>3. At(r, c) # At(q, d)
    BY <1>1, <2>1, <2>2 DEF Cells
  <2>4. r # q
    BY <1>1, <1>3
  <2> QED
    BY <1>2, <2>3, <2>4
<1>4. CASE q # V
  <2>1. q \in 0 .. V - 1
    BY <1>1, <1>4
  <2>2. At(r, c) = At(q, d) => r = q /\ c = d
    BY <2>1, CellsDiffer
  <2> QED
    BY <1>2, <2>2
<1> QED
  BY <1>3, <1>4

(* A byte is stored in one cell of the page, or in none.                   *)
LEMMA ShownPut ==
  ASSUME TerminalAssumption, TypeOK, NEW b
  PROVE  Shown(Put(vram, {Here}, b), Put(aram, {Here}, color)) =
           Promise!PageWith(CellOf(b, color))
<1> DEFINE old == Shown(vram, aram)
           new == Shown(Put(vram, {Here}, b), Put(aram, {Here}, color))
           cell(r, c) == IF <<r, c>> = Place THEN CellOf(b, color) ELSE old[r][c]
<1>1. ASSUME NEW r \in 0 .. V - 1, NEW c \in 0 .. H - 1
      PROVE  /\ Put(vram, {Here}, b)[At(r, c)] =
                  IF <<r, c>> = Place THEN b ELSE vram[At(r, c)]
             /\ Put(aram, {Here}, color)[At(r, c)] =
                  IF <<r, c>> = Place THEN color ELSE aram[At(r, c)]
  <2>1. At(r, c) \in Cells
    BY CellsDiffer
  <2>2. At(r, c) \in {Here} <=> <<r, c>> = Place
    BY HereIsPlace
  <2> QED
    BY <2>1, <2>2, Zenon DEF Put
<1>2. ASSUME NEW r \in 0 .. V - 1, NEW c \in 0 .. H - 1
      PROVE  CellOf(Put(vram, {Here}, b)[At(r, c)], Put(aram, {Here}, color)[At(r, c)])
               = cell(r, c)
  <2>1. old[r][c] = CellOf(vram[At(r, c)], aram[At(r, c)])
    BY DEF Shown
  <2> HIDE DEF old
  <2>2. CASE <<r, c>> = Place
    BY <1>1, <2>2
  <2>3. CASE <<r, c>> # Place
    BY <1>1, <2>1, <2>3
  <2> QED
    BY <2>2, <2>3
<1> HIDE DEF cell
<1>3. new = [r \in 0 .. V - 1 |-> [c \in 0 .. H - 1 |-> cell(r, c)]]
  BY <1>2, Zenon DEF Shown
<1>4. Promise!PageWith(CellOf(b, color)) =
        [r \in 0 .. V - 1 |-> [c \in 0 .. H - 1 |-> cell(r, c)]]
  <2>1. Place = IF Promise!ThisCol < H THEN <<Promise!ThisRow, Promise!ThisCol>>
                ELSE <<Promise!ThisRow + 1, 0>>
    BY CursorIs DEF Place
  <2> DEFINE shown == [r \in 0 .. V - 1 |-> [c \in 0 .. H - 1 |->
                        IF vram[At(r, c)] = 0 THEN [char |-> 0]
                        ELSE [char |-> vram[At(r, c)], ink |-> aram[At(r, c)]]]]
             there == IF Promise!ThisCol < H THEN <<Promise!ThisRow, Promise!ThisCol>>
                      ELSE <<Promise!ThisRow + 1, 0>>
             with(at, page) == [r \in 0 .. V - 1 |-> [c \in 0 .. H - 1 |->
                                     IF <<r, c>> = at THEN CellOf(b, color)
                                     ELSE page[r][c]]]
  <2>2. Promise!PageWith(CellOf(b, color)) = with(there, shown)
    BY DEF Promise!PageWith, Promise!Row, Promise!Column
  <2>3. there = Place /\ shown = old
    BY <2>1, PageShown
  <2> HIDE DEF old, shown, there
  <2>4. Promise!PageWith(CellOf(b, color)) = with(Place, old)
    BY <2>2, <2>3
  <2> QED
    BY <2>4, Zenon DEF cell
<1> QED
  BY <1>3, <1>4

LEMMA CharIsByte ==
  ASSUME TerminalAssumption
  PROVE  Char \subseteq 0 .. 255
BY DEF TerminalAssumption, Char, Block

(* FontFill leaves the last column and the last row.                       *)
LEMMA ShownFilled ==
  ASSUME TerminalAssumption, vram \in Screens, aram \in Screens, NEW b
  PROVE  Shown(Put(vram, Rectangle(0, 0, H - 1, V - 1), b),
               Coloured(aram, color)) =
           Filling(Shown(vram, aram), b, color)
<1> DEFINE all == Coloured(aram, color)
           filled == Put(vram, Rectangle(0, 0, H - 1, V - 1), b)
<1>1. H \in Nat \ {0} /\ V \in Nat \ {0}
  BY DEF TerminalAssumption
<1>2. ASSUME NEW r \in 0 .. V - 1, NEW c \in 0 .. H - 1
      PROVE  /\ all[At(r, c)] = color
             /\ filled[At(r, c)] = IF c + 1 < H /\ r + 1 < V THEN b
                                   ELSE vram[At(r, c)]
             /\ Shown(vram, aram)[r][c].char = vram[At(r, c)]
  <2>1. At(r, c) \in Cells /\ At(r, c) < H * V
    BY CellsDiffer
  <2>2. At(r, c) \in Rectangle(0, 0, H - 1, V - 1) <=> c + 1 < H /\ r + 1 < V
    <3>1. H - 1 \in Nat /\ V - 1 \in Nat /\ 0 + (H - 1) <= H /\ 0 + (V - 1) <= V
      BY <1>1
    <3>2. At(r, c) \in Rectangle(0, 0, H - 1, V - 1)
            <=> r \in 0 .. 0 + (V - 1) - 1 /\ c \in 0 .. 0 + (H - 1) - 1
      BY <3>1, InRectangle
    <3> QED
      BY <1>1, <3>2
  <2>3. Shown(vram, aram)[r][c] = CellOf(vram[At(r, c)], aram[At(r, c)])
    BY DEF Shown
  <2> QED
    BY <2>1, <2>2, <2>3 DEF Put, CellOf, Coloured
<1> HIDE DEF all, filled
<1>3. \A r \in 0 .. V - 1, c \in 0 .. H - 1 :
        CellOf(filled[At(r, c)], all[At(r, c)]) =
          IF c + 1 < H /\ r + 1 < V THEN CellOf(b, color)
          ELSE CellOf(Shown(vram, aram)[r][c].char, color)
  BY <1>2
<1>4. Shown(filled, all) =
        [r \in 0 .. V - 1 |-> [c \in 0 .. H - 1 |->
           CellOf(filled[At(r, c)], all[At(r, c)])]]
  BY DEF Shown
<1> DEFINE cell(r, c) == IF c + 1 < H /\ r + 1 < V THEN CellOf(b, color)
                         ELSE CellOf(Shown(vram, aram)[r][c].char, color)
<1> HIDE DEF cell
<1>5. Shown(filled, all) =
        [r \in 0 .. V - 1 |-> [c \in 0 .. H - 1 |-> cell(r, c)]]
  BY <1>3, <1>4 DEF cell
<1> QED
  BY <1>5, Zenon DEF all, filled, cell, Filling

(* FontFill of one row, and the colour of the first row: Here .. H - 1 is  *)
(* empty in all others.                                                    *)
LEMMA ShownLine ==
  ASSUME TerminalAssumption, vram \in Screens, aram \in Screens,
         y \in 0 .. V - 1, x \in 0 .. H, NEW b
  PROVE  LineFilled(Shown(Put(vram, Rectangle(0, y, H - 1, 1), b),
                          Put(aram, At(y, x) .. H - 1, color)),
                    Shown(vram, aram), y, b)
<1> DEFINE new == Shown(Put(vram, Rectangle(0, y, H - 1, 1), b),
                        Put(aram, At(y, x) .. H - 1, color))
           old == Shown(vram, aram)
<1>1. H \in Nat \ {0} /\ V \in Nat \ {0}
  BY DEF TerminalAssumption
<1>2. ASSUME NEW r \in 0 .. V - 1, NEW c \in 0 .. H - 1
      PROVE  /\ At(r, c) \in Cells
             /\ At(r, c) \in Rectangle(0, y, H - 1, 1) <=> r = y /\ c + 1 < H
             /\ At(r, c) \in At(y, x) .. H - 1 => r = y
  <2>1. At(r, c) \in Cells
    BY CellsDiffer
  <2>2. At(r, c) \in Rectangle(0, y, H - 1, 1) <=> r = y /\ c + 1 < H
    <3>1. H - 1 \in Nat /\ y \in Nat /\ 0 + (H - 1) <= H /\ y + 1 <= V
      BY <1>1
    <3>2. At(r, c) \in Rectangle(0, y, H - 1, 1)
            <=> r \in y .. y + 1 - 1 /\ c \in 0 .. 0 + (H - 1) - 1
      BY <3>1, InRectangle
    <3> QED
      BY <1>1, <3>2
  <2>3. ASSUME At(r, c) \in At(y, x) .. H - 1
        PROVE  r = y
    <3>1. r * H \in Nat /\ y * H \in Nat
      BY <1>1
    <3>2. r * H < H /\ y * H < H
      BY <1>1, <2>3, <3>1 DEF At
    <3>3. \A m \in Nat : m * H < H => m = 0
      BY <1>1
    <3> QED
      BY <3>2, <3>3
  <2> QED
    BY <2>1, <2>2, <2>3
<1>3. ASSUME NEW r \in (0 .. V - 1) \ {y}
      PROVE  new[r] = old[r]
  BY <1>2 DEF Shown, Put
<1>4. ASSUME NEW c \in 0 .. H - 1
      PROVE  new[y][c].char = IF c + 1 < H THEN b ELSE old[y][c].char
  BY <1>2 DEF Shown, Put, CellOf
<1> QED
  BY <1>3, <1>4 DEF LineFilled

-----------------------------------------------------------------------------
(* scroll leaves alone what ends on the screen.                            *)
LEMMA ScrollStays ==
  ASSUME TerminalAssumption, NEW chars, NEW inks, NEW c, NEW r \in 0 .. V - 1,
         Scroll(chars, inks, c, r)
  PROVE  vram' = chars /\ aram' = inks /\ x' = c /\ y' = r
BY DEF TerminalAssumption, Scroll

(* At its end a byte leaves the cursor where Screen does.                  *)
LEMMA ScrollGoes ==
  ASSUME TerminalAssumption, NEW chars \in Screens, NEW inks \in Screens,
         NEW c \in 0 .. 255, NEW r \in Nat, Scroll(chars, inks, c, r)
  PROVE  Promise!GoTo(Shown(chars, inks), ColOf(c), r)
<1>1. H \in Nat \ {0} /\ V \in Nat \ {0}
  BY DEF TerminalAssumption
<1> DEFINE was == Shown(chars, inks)
<1>2. CASE r < V
  <2>1. vram' = chars /\ aram' = inks /\ x' = c /\ y' = r
    BY <1>1, <1>2 DEF Scroll
  <2>2. Shown(vram', aram') = was
    BY <2>1
  <2>3. (IF x' > H THEN H + 1 ELSE x') = ColOf(c)
    BY <2>1 DEF ColOf
  <2> HIDE DEF was
  <2>4. Promise!GoTo(was, ColOf(c), r)
    BY <1>2, <2>1, <2>2, <2>3, PageShown, Zenon DEF Promise!GoTo
  <2> QED
    BY <2>4 DEF was
<1>3. CASE ~(r < V)
  <2>1. /\ vram' = Put(MovedUp(chars), Rectangle(0, V - 1, H, 1), 0)
        /\ aram' = MovedUp(inks)
        /\ x' = 0 /\ y' = V - 1
    BY <1>1, <1>3 DEF Scroll
  <2>2. Shown(vram', aram') = NextPage(was)
    BY <2>1, ShownMovedUp
  <2>3. (IF x' > H THEN H + 1 ELSE x') = 0
    BY <1>1, <2>1
  <2> HIDE DEF was
  <2>4. Promise!GoTo(was, ColOf(c), r)
    BY <1>3, <2>1, <2>2, <2>3, PageShown, Zenon
    DEF NextPage, Promise!GoTo, Promise!Row, Promise!Column
  <2> QED
    BY <2>4 DEF was
<1> QED
  BY <1>2, <1>3

LEMMA InitRefines ==
  ASSUME TerminalAssumption, Init
  PROVE  Promise!Init /\ Kept
<1>1. ASSUME NEW r \in 0 .. V - 1, NEW c \in 0 .. H - 1
      PROVE  vram[At(r, c)] = 0
  BY <1>1, CellsDiffer DEF Init
<1>2. Shown(vram, aram) = [r \in 0 .. V - 1 |-> [c \in 0 .. H - 1 |-> CellOf(0, 0)]]
  BY <1>1 DEF Shown, CellOf
<1>3. Promise!Init
  BY <1>2, PageShown, CellIsCell
  DEF Init, Promise!Init, Promise!Row, Promise!Column
<1>4. Kept
  BY DEF Init, Kept
<1> QED
  BY <1>3, <1>4

LEMMA NextKept ==
  ASSUME Next
  PROVE  Kept'
<1>1. ASSUME NEW c \in Typed, state = 0, BeginSequence(c) \/ Control(c) \/ Glyph(c)
      PROVE  state' # 2
  BY <1>1 DEF BeginSequence, Control, Glyph, sequence
<1>2. ASSUME NEW c \in Parameters, TakeParameter(c)
      PROVE  param_0' = c
  BY <1>2 DEF TakeParameter
<1>3. ASSUME NEW c \in Parameters, EndSequence(c)
      PROVE  state' = 0
  BY <1>3 DEF EndSequence
<1> QED
  BY <1>1, <1>2, <1>3 DEF Next, Kept

(* A step that only moves the cursor is a Move of Screen.                  *)
LEMMA StayMoves ==
  ASSUME TerminalAssumption, TypeOK, NEW c \in 0 .. 255, NEW r \in Nat,
         Stay(c, r), color' = color
  PROVE  Promise!Move(ColOf(c), r)
<1>1. vram \in Screens /\ aram \in Screens
  BY DEF TypeOK, Screens
<1>2. Promise!GoTo(Shown(vram, aram), ColOf(c), r)
  BY <1>1, ScrollGoes DEF Stay
<1> QED
  BY <1>2, PageShown, Zenon DEF Promise!Move

(* Outside of the sequences: the control characters are the moves Screen   *)
(* names, and a glyph is typed.                                            *)
LEMMA ByteRefines ==
  ASSUME TerminalAssumption, TypeOK, NEW c \in Typed, state = 0,
         BeginSequence(c) \/ Control(c) \/ Glyph(c)
  PROVE  Promise!Next
<1>1. /\ Column \in 0 .. 255 /\ Row \in Nat /\ Row + 1 \in Nat
      /\ 0 \in 0 .. 255 /\ Column + 1 \in 0 .. 255
      /\ Column > 0 => Column - 1 \in 0 .. 255 /\ ColOf(Column - 1) = Column - 1
      /\ ColOf(Column) = Column /\ ColOf(0) = 0 /\ ColOf(Column + 1) = Column + 1
  BY CursorIs DEF TerminalAssumption, ColOf
<1>2. ASSUME Stay(Column, Row), color' = color
      PROVE  Promise!Here
  <2>1. Promise!Move(Column, Row)
    BY <1>1, <1>2, StayMoves
  <2> QED
    BY <2>1, CursorIs, Zenon DEF Promise!Here
<1>3. CASE BeginSequence(c)
  BY <1>2, <1>3 DEF BeginSequence, Promise!Next
<1>4. CASE Control(c)
  <2>1. color' = color
    BY <1>4 DEF Control
  <2>2. CASE c = BS
    <3>1. Stay(IF Column > 0 THEN Column - 1 ELSE 0, Row)
      BY <1>4, <2>2 DEF Control, BS, CR, LF, Redraws
    <3>2. Promise!Move(IF Column > 0 THEN Column - 1 ELSE 0, Row)
      <4>1. CASE Column > 0
        <5>1. Promise!Move(Column - 1, Row)
          BY <1>1, <2>1, <3>1, <4>1, StayMoves
        <5> QED
          BY <4>1, <5>1, Zenon
      <4>2. CASE ~(Column > 0)
        <5>1. Promise!Move(0, Row)
          BY <1>1, <2>1, <3>1, <4>2, StayMoves
        <5> QED
          BY <4>2, <5>1, Zenon
      <4> QED
        BY <4>1, <4>2
    <3> QED
      BY <3>2, CursorIs, Zenon DEF Promise!Back, Promise!Next
  <2>3. CASE c = CR
    <3>1. Stay(0, Row)
      BY <1>4, <2>3 DEF Control, BS, CR, LF, Redraws
    <3>2. Promise!Move(0, Row)
      BY <1>1, <2>1, <3>1, StayMoves
    <3> QED
      BY <3>2, CursorIs, Zenon DEF Promise!Return, Promise!Next
  <2>4. CASE c = LF
    <3>1. Stay(0, Row + 1)
      BY <1>4, <2>4 DEF Control, BS, CR, LF, Redraws
    <3>2. Promise!Move(0, Row + 1)
      BY <1>1, <2>1, <3>1, StayMoves
    <3> QED
      BY <3>2, CursorIs, Zenon DEF Promise!NextLine, Promise!Next
  <2>5. CASE c \in Redraws
    <3>1. Stay(Column, Row)
      BY <1>4, <2>5 DEF Control, BS, CR, LF, Redraws
    <3> QED
      BY <1>2, <2>1, <3>1 DEF Promise!Next
  <2> QED
    BY <1>4, <2>2, <2>3, <2>4, <2>5 DEF Control
<1>5. CASE Glyph(c)
  <2> DEFINE ch == IF c = MARK THEN Block ELSE c
  <2>1. /\ Scroll(Put(vram, {Here}, ch), Put(aram, {Here}, color), Column + 1, Row)
        /\ color' = color
    BY <1>5 DEF Glyph
  <2>2. ch \in Char /\ ch \in 0 .. 255
    BY CharIsByte DEF Char
  <2> HIDE DEF ch
  <2>3. Put(vram, {Here}, ch) \in Screens /\ Put(aram, {Here}, color) \in Screens
    <3>1. vram \in Screens /\ aram \in Screens /\ color \in 0 .. 255
      BY DEF TypeOK, Screens
    <3> QED
      BY <2>2, <3>1, PutTyped
  <2>4. Promise!GoTo(Shown(Put(vram, {Here}, ch), Put(aram, {Here}, color)),
                     Column + 1, Row)
    <3> DEFINE chars == Put(vram, {Here}, ch)
               inks == Put(aram, {Here}, color)
    <3>1. chars \in Screens /\ inks \in Screens /\ Scroll(chars, inks, Column + 1, Row)
      BY <2>1, <2>3
    <3> HIDE DEF chars, inks
    <3>2. Promise!GoTo(Shown(chars, inks), ColOf(Column + 1), Row)
      BY <1>1, <3>1, ScrollGoes
    <3>3. Promise!GoTo(Shown(chars, inks), Column + 1, Row)
      BY <1>1, <3>2, Zenon
    <3> QED
      BY <3>3 DEF chars, inks
  <2>5. Promise!GoTo(Promise!PageWith(Promise!Cell(ch, color)),
                     Promise!ThisCol + 1, Promise!ThisRow)
    <3>1. Shown(Put(vram, {Here}, ch), Put(aram, {Here}, color)) =
            Promise!PageWith(CellOf(ch, color))
      BY ShownPut
    <3>2. Promise!Cell(ch, color) = CellOf(ch, color)
      BY CellIsCell
    <3> QED
      BY <2>4, <3>1, <3>2, CursorIs, Zenon
  <2>6. Promise!Type(ch)
    BY <2>1, <2>5, Zenon DEF Promise!Type
  <2> QED
    BY <2>2, <2>6 DEF Promise!Next, Char
<1> QED
  BY <1>3, <1>4, <1>5

(* The end of a sequence: the row is not left, and the cursor may be sent  *)
(* anywhere.                                                               *)
LEMMA SequenceRefines ==
  ASSUME TerminalAssumption, IInv, Kept, NEW c \in Parameters, EndSequence(c)
  PROVE  Promise!Next
<1> DEFINE old == Shown(vram, aram)
           new == Shown(vram', aram')
<1>1. /\ x \in 0 .. H /\ y \in 0 .. V - 1 /\ Column = x /\ Row = y
      /\ vram \in Screens /\ aram \in Screens /\ color \in 0 .. 255
      /\ ~Promise!Left /\ TypeOK
  <2>1. TypeOK /\ x <= H
    BY DEF IInv, OneCellBehind, EndSequence
  <2> QED
    BY <2>1, CursorIs DEF TypeOK, TerminalAssumption, Screens
<1>2. param_0 \in Char /\ param_0 \in 0 .. 255 /\ c \in 0 .. 255
  BY CharIsByte DEF EndSequence, Kept, Char, TerminalAssumption
<1>3. x' = x => (IF x' > H THEN H + 1 ELSE x') = (IF x > H THEN H + 1 ELSE x)
  OBVIOUS
<1>4. CASE Fill
  <2> DEFINE filled == Put(vram, Rectangle(0, 0, H - 1, V - 1), param_0)
             all == Coloured(aram, color)
  <2>1. /\ vram' = filled /\ aram' = all
        /\ x' = x /\ y' = y /\ color' = color
    BY <1>1, <1>4, ScrollStays, Zenon DEF Fill, Coloured
  <2>2. new = [r \in 0 .. V - 1 |-> [d \in 0 .. H - 1 |->
                 IF d + 1 < H /\ r + 1 < V THEN CellOf(param_0, color)
                 ELSE CellOf(old[r][d].char, color)]]
    <3>1. Shown(filled, all) =
            Filling(old, param_0, color)
      BY <1>1, ShownFilled
    <3> HIDE DEF filled, all
    <3> QED
      BY <2>1, <3>1, Zenon DEF Filling
  <2>3. Promise!Fill(param_0)
    BY <1>1, <1>3, <2>1, <2>2, PageShown, CellIsCell, Zenon
    DEF Promise!Fill, Promise!Row, Promise!Column
  <2> QED
    BY <1>2, <2>3 DEF Promise!Next, Char
<1>5. CASE MoveCursor(c)
  <2>1. Stay(param_0, c) /\ color' = color
    BY <1>5 DEF MoveCursor
  <2>2. Promise!Move(ColOf(param_0), c)
    <3>1. c \in Nat
      BY <1>2
    <3> QED
      BY <1>1, <1>2, <2>1, <3>1, StayMoves
  <2>3. PICK r \in 0 .. V : IF c < V THEN r = c ELSE r = V
    BY <1>2 DEF TerminalAssumption
  <2>4. Promise!Move(ColOf(param_0), r)
    <3>1. (r < V) <=> (c < V)
      BY <1>2, <2>3 DEF TerminalAssumption
    <3>2. r < V => r = c
      BY <2>3, <3>1
    <3> QED
      BY <2>2, <3>1, <3>2, Zenon DEF Promise!Move, Promise!GoTo
  <2>5. ColOf(param_0) \in 0 .. H + 1
    BY <1>2 DEF ColOf, TerminalAssumption
  <2> QED
    BY <2>3, <2>4, <2>5 DEF Promise!Next
<1>6. CASE SetColor
  <2>1. vram' = vram /\ aram' = aram /\ x' = x /\ y' = y
    BY <1>1, <1>6, ScrollStays DEF SetColor, Stay
  <2>2. color' \in 0 .. 255
    BY <1>2, <1>6 DEF SetColor
  <2> QED
    BY <1>1, <2>1, <2>2 DEF Promise!Next, Promise!SetInk
<1>7. CASE FillLine
  <2> DEFINE filled == Put(vram, Rectangle(0, y, H - 1, 1), param_0)
             inked == Put(aram, At(y, x) .. H - 1, color)
  <2>1. /\ vram' = filled /\ aram' = inked
        /\ x' = x /\ y' = y /\ color' = color
    BY <1>1, <1>7, ScrollStays, Zenon DEF FillLine, Here
  <2>2. /\ \A r \in (0 .. V - 1) \ {y} : new[r] = old[r]
        /\ \A d \in 0 .. H - 1 :
             new[y][d].char = IF d + 1 < H THEN param_0 ELSE old[y][d].char
    <3> DEFINE line == Shown(filled, inked)
    <3>1. LineFilled(line, old, y, param_0)
      BY <1>1, ShownLine
    <3>2. new = line
      BY <2>1
    <3> HIDE DEF filled, inked, line
    <3> QED
      BY <3>1, <3>2, Zenon DEF LineFilled
  <2>3. Promise!FillLine(param_0)
    BY <1>1, <1>3, <2>1, <2>2, PageShown, Zenon
    DEF Promise!FillLine, Promise!Row, Promise!Column
  <2> QED
    BY <1>2, <2>3 DEF Promise!Next, Char
<1> QED
  BY <1>4, <1>5, <1>6, <1>7 DEF EndSequence

LEMMA NextRefines ==
  ASSUME TerminalAssumption, IInv, Kept, Next
  PROVE  Promise!Next
<1>1. ASSUME NEW c \in Parameters, TakeParameter(c)
      PROVE  Promise!Next
  <2>1. /\ Column \in 0 .. 255 /\ Row \in Nat /\ TypeOK
        /\ ColOf(Column) = Column
    BY CursorIs DEF IInv, TerminalAssumption
  <2>2. Promise!Move(Column, Row)
    BY <1>1, <2>1, StayMoves DEF TakeParameter
  <2> QED
    BY <2>1, <2>2, CursorIs, Zenon DEF Promise!Here, Promise!Next
<1> QED
  BY <1>1, ByteRefines, SequenceRefines DEF Next, IInv

(* The flat arrays with their copying loop, the cursor that may stand      *)
(* behind the last column or be set anywhere, and the sequences spread     *)
(* over three calls are a page that scrolls, on a screen of every size,    *)
(* whatever bytes come.                                                    *)
THEOREM TerminalIsScreen ==
  ASSUME TerminalAssumption
  PROVE  Spec => IsScreen
<1>1. Init => Promise!Init /\ Kept
  BY InitRefines
<1>2. IInv /\ Kept /\ [Next]_vars => [Promise!Next]_(Promise!vars) /\ Kept'
  <2>1. ASSUME UNCHANGED vars, Kept
        PROVE  UNCHANGED Promise!vars /\ Kept'
    BY <2>1 DEF vars, Promise!vars, Kept
  <2> QED
    BY <2>1, NextRefines, NextKept
<1> QED
  BY <1>1, <1>2, Inductive, PTL DEF Spec, IsScreen, Promise!Spec
=============================================================================
