-------------------------------- MODULE Vga ---------------------------------
(* The text display of devices/vga.c, beside the text it has been given: an  *)
(* endless roll of rows, of which the screen shows the last ROW_CNT.         *)
EXTENDS Integers, Sequences, SequencesExt

CONSTANTS ROW_CNT, COL_CNT,
          Tab,        \* distance of the tab stops
          Char,
          MaxRows     \* bound: rows printed

VARIABLES fb, cx, cy,      \* vga.c
          cursor,          \* the hardware cursor
          roll, row, col   \* all rows ever, and the place of the next character

vars == <<fb, cx, cy, cursor, roll, row, col>>

Blank == [x \in 0 .. COL_CNT - 1 |-> " "]

(* The display at power-on: blank, the cursor where the BIOS left it. *)
Init ==
  /\ fb = [y \in 0 .. ROW_CNT - 1 |-> Blank]
  /\ cursor \in 0 .. ROW_CNT * COL_CNT - 1
  /\ cx = cursor % COL_CNT /\ cy = cursor \div COL_CNT      \* find_cursor
  /\ roll = [i \in 1 .. ROW_CNT |-> Blank]
  /\ row = cy + 1 /\ col = cx

(* Mutant: the row that scrolls in keeps its old text. *)
newline_dirty(f, y) ==
  IF y + 1 < ROW_CNT THEN [fb |-> f, cy |-> y + 1]
  ELSE [cy |-> ROW_CNT - 1, fb |-> [i \in 0 .. ROW_CNT - 1 |-> IF i < ROW_CNT - 1 THEN f[i + 1] ELSE f[i]]]

(* newline, of a frame buffer f with the cursor in row y; cx becomes 0. *)
newline(f, y) ==
  IF y + 1 < ROW_CNT THEN [fb |-> f, cy |-> y + 1]
  ELSE [cy |-> ROW_CNT - 1, fb |-> [i \in 0 .. ROW_CNT - 1 |-> IF i < ROW_CNT - 1 THEN f[i + 1] ELSE Blank]]

(* The cursor has reached column x: wrap to a new line if that is outside. *)
MoveTo(f, x) ==
  IF x < COL_CNT THEN fb' = f /\ cx' = x /\ UNCHANGED cy
  ELSE LET n == newline(f, cy) IN fb' = n.fb /\ cy' = n.cy /\ cx' = 0

RoundUp(x) == Tab * ((x + Tab - 1) \div Tab)

(* vga_putc, with move_cursor at its end; the bell changes nothing here. *)
vga_putc(c) ==
  /\ CASE c = "NL" -> MoveTo(fb, COL_CNT)
       [] c = "FF" -> fb' = [y \in 0 .. ROW_CNT - 1 |-> Blank] /\ cx' = 0 /\ cy' = 0
       [] c = "BS" -> cx' = (IF cx > 0 THEN cx - 1 ELSE cx) /\ UNCHANGED <<fb, cy>>
       [] c = "CR" -> cx' = 0 /\ UNCHANGED <<fb, cy>>
       [] c = "HT" -> MoveTo(fb, RoundUp(cx + 1))
       [] OTHER -> MoveTo([fb EXCEPT ![cy][cx] = c], cx + 1)
  /\ cursor' = cx' + COL_CNT * cy'

(* The same on the roll of rows. *)
Advance(r, c) ==
  IF c < COL_CNT THEN roll' = r /\ row' = row /\ col' = c
  ELSE /\ row' = row + 1 /\ col' = 0
       /\ roll' = IF row < Len(r) THEN r ELSE Append(r, Blank)

OnRoll(c) ==
  CASE c = "NL" -> Advance(roll, COL_CNT)
    [] c = "FF" -> roll' = [i \in 1 .. ROW_CNT |-> Blank] /\ row' = 1 /\ col' = 0
    [] c = "BS" -> col' = (IF col > 0 THEN col - 1 ELSE 0) /\ UNCHANGED <<roll, row>>
    [] c = "CR" -> col' = 0 /\ UNCHANGED <<roll, row>>
    [] c = "HT" -> Advance(roll, CHOOSE x \in col + 1 .. col + Tab : x % Tab = 0)
    [] OTHER -> Advance([roll EXCEPT ![row][col] = c], col + 1)

Next == \E c \in Char \cup {"NL", "FF", "BS", "CR", "HT"} :
          vga_putc(c) /\ OnRoll(c) /\ Len(roll') <= MaxRows

(* The screen shows the last rows of all that was printed, whatever control  *)
(* characters, wrapped lines and scrolling came before, and the cursor is on *)
(* the screen, where the next character will appear.                         *)
ScreenShowsText ==
  /\ \A y \in 0 .. ROW_CNT - 1 : fb[y] = roll[Len(roll) - ROW_CNT + y + 1]
  /\ cx \in 0 .. COL_CNT - 1 /\ cy \in 0 .. ROW_CNT - 1
  /\ cx = col /\ cy = row - 1 - (Len(roll) - ROW_CNT)
  /\ cursor = cx + COL_CNT * cy
=============================================================================
