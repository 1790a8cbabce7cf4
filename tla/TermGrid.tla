------------------------------ MODULE TermGrid ------------------------------
(***************************************************************************)
(* The screen of a terminal session: TermGrid of src/interface/ansi.rs, a  *)
(* byte at a time.  Cells are numbered from 0, row by row, as in the code; *)
(* an index past the last cell is a panic, which leaves the grid `sick'    *)
(* (the session's mutex is poisoned, see module Terminals).  Colours are   *)
(* the SGR numbers that ask for them.  u16 arithmetic wraps, as in the     *)
(* release build; conversions of bytes to characters are UTF-8's.          *)
(***************************************************************************)
EXTENDS Integers, Sequences, SequencesExt

Replacement == 65533
Blank == 32

\* ansi_parser.ea: the classes of bytes.
Class(b) ==
  CASE b = 27 -> "esc"
    [] b = 91 -> "bracket"
    [] b \in 48..57 -> "digit"
    [] b = 59 -> "semicolon"
    [] b \in 64..126 \ {91} -> "final"
    [] b <= 26 -> "control"
    [] b > 127 -> "high"
    [] b \in 28..127 \ (48..57 \cup {59} \cup 64..126) -> "printable"

\* What std::str::from_utf8 makes of a lead byte and its continuation bytes.
Bits(b) == b % 64
CodePoint(s) ==
  LET cp == CASE Len(s) = 2 -> (s[1] % 32) * 64 + Bits(s[2])
              [] Len(s) = 3 -> (s[1] % 16) * 4096 + Bits(s[2]) * 64 + Bits(s[3])
              [] Len(s) = 4 -> (s[1] % 8) * 262144 + Bits(s[2]) * 4096
                                 + Bits(s[3]) * 64 + Bits(s[4])
      least == CASE Len(s) = 2 -> 128 [] Len(s) = 3 -> 2048 [] Len(s) = 4 -> 65536
  IN IF cp < least \/ cp > 1114111 \/ cp \in 55296..57343 \/ s[1] > 247
     THEN Replacement ELSE cp

IsWide(cp) ==
  \/ cp \in 13312..19903 \/ cp \in 19968..40959 \/ cp \in 63744..64255
  \/ cp \in 131072..195103 \/ cp \in 65281..65376 \/ cp \in 65504..65510
  \/ cp \in 44032..55215 \/ cp \in 127744..129535 \/ cp \in 129536..129647
  \/ cp \in 129648..129791 \/ cp \in 9728..10175

-----------------------------------------------------------------------------
DefaultAttrs == [fg |-> "default", bg |-> "default", flags |-> {}]
Cell(ch, attrs) == [ch |-> ch, attrs |-> attrs]
DefaultCell == Cell(Blank, DefaultAttrs)
NoParams == [i \in 0..15 |-> 0]

New(cols, rows) ==
  [cols |-> cols, rows |-> rows, cells |-> [i \in 0..(cols * rows - 1) |-> DefaultCell],
   row |-> 0, col |-> 0, attrs |-> DefaultAttrs, state |-> "ground",
   params |-> NoParams, idx |-> 0, question |-> FALSE, visible |-> TRUE,
   utf8 |-> <<>>, need |-> 0, sick |-> FALSE]

Lesser(a, b) == IF a < b THEN a ELSE b
Least1(p) == IF p = 0 THEN 1 ELSE p
Minus(a, b) == IF a < b THEN 0 ELSE a - b
Wrap16(n) == n % 65536

Index(g) == g.row * g.cols + g.col
Cells(g) == g.cols * g.rows

\* Writes to the cells from i up to, not including, j.
Erase(g, i, j) ==
  IF i > j \/ j > Cells(g) THEN [g EXCEPT !.sick = TRUE]
  ELSE [g EXCEPT !.cells = [k \in DOMAIN @ |-> IF k \in i..(j - 1) THEN DefaultCell ELSE @[k]]]

Set(g, cell) ==
  IF Index(g) >= Cells(g) THEN [g EXCEPT !.sick = TRUE]
  ELSE [g EXCEPT !.cells[Index(g)] = cell]

ScrollUp(g) ==
  [g EXCEPT !.cells = [k \in DOMAIN @ |-> IF k + g.cols < Cells(g) THEN @[k + g.cols]
                                         ELSE DefaultCell]]

\* One row down, and no further than the last: the rest moves up.
NextRow(g) ==
  IF g.row + 1 >= g.rows THEN [ScrollUp(g) EXCEPT !.row = g.rows - 1]
  ELSE [g EXCEPT !.row = @ + 1]

\* The row is left when the next character comes, not when it is full.
WrapsBefore(g) == g.col >= g.cols
Wrapped(g) == IF WrapsBefore(g) THEN [NextRow(g) EXCEPT !.col = 0] ELSE g

\* A wide character is never cut in two by the end of a row.
SplitsWide(g, wide) == g
WideFits(g, wide) ==
  IF wide /\ g.col + 1 >= g.cols
  THEN [NextRow(Set(g, DefaultCell)) EXCEPT !.col = 0] ELSE g

Room(g, wide) == WideFits(Wrapped(g), wide)

PutChar(g, ch) ==
  LET at == Room(g, IsWide(ch))
      one == [Set(at, Cell(ch, at.attrs)) EXCEPT !.col = @ + 1]
  IN IF IsWide(ch) /\ one.col < one.cols
     THEN [Set(one, Cell(0, one.attrs)) EXCEPT !.col = @ + 1]
     ELSE one

-----------------------------------------------------------------------------
(* Control characters and control sequences                                *)

Control(g, b) ==
  CASE b = 10 -> NextRow(g)
    [] b = 13 -> [g EXCEPT !.col = 0]
    [] b = 9 -> [g EXCEPT !.col = Lesser((@ \div 8 + 1) * 8, g.cols - 1)]
    [] b = 8 -> [g EXCEPT !.col = Minus(@, 1)]
    [] b \notin {8, 9, 10, 13} -> g

EraseDisplay(g, mode) ==
  CASE mode = 0 -> Erase(g, Index(g), Cells(g))
    [] mode = 1 -> Erase(g, 0, Lesser(Index(g) + 1, Cells(g)))
    [] mode \in {2, 3} -> Erase(g, 0, Cells(g))
    [] mode > 3 -> g

EraseLine(g, mode) ==
  LET start == g.row * g.cols IN
  CASE mode = 0 -> Erase(g, Index(g), start + g.cols)
    [] mode = 1 -> Erase(g, start, Index(g) + 1)
    [] mode = 2 -> Erase(g, start, start + g.cols)
    [] mode > 2 -> g

\* The rest of the line moves left, and blanks come in at its end.
DeleteChars(g, p) ==
  LET n == Lesser(p, g.cols - g.col)
      end == g.row * g.cols + g.cols
  IN [g EXCEPT !.cells =
       [k \in DOMAIN @ |-> CASE k \notin Index(g)..(end - 1) -> @[k]
                             [] k \in Index(g)..(end - n - 1) -> @[k + n]
                             [] k \in (end - n)..(end - 1) -> DefaultCell]]

FlagOf(c) ==
  CASE c = 1 -> {"bold"} [] c = 2 -> {"dim"} [] c = 3 -> {"italic"} [] c = 4 -> {"underline"}
    [] c = 7 -> {"inverse"} [] c \notin {1, 2, 3, 4, 7} -> {}
Unflag(c) ==
  CASE c = 22 -> {"bold", "dim"} [] c = 23 -> {"italic"} [] c = 24 -> {"underline"}
    [] c = 27 -> {"inverse"} [] c \notin {22, 23, 24, 27} -> {}

\* An extended colour takes the parameters after it: 5;n or 2;r;g;b.
Extended(g, i, n) ==
  CASE i + 2 < n /\ g.params[i + 1] = 5 -> 2
    [] i + 4 < n /\ g.params[i + 1] = 2 -> 4
    [] ~(i + 2 < n /\ g.params[i + 1] = 5) /\ ~(i + 4 < n /\ g.params[i + 1] = 2) -> 0
Colour(g, i, k) == SubSeq([j \in 1..16 |-> g.params[j - 1]], i + 1, i + 1 + k)

Sgr1(g, i, n) ==
  LET c == g.params[i]
      k == Extended(g, i, n)
      a == CASE c = 0 -> DefaultAttrs
             [] c \in 30..37 \/ c \in 90..97 -> [g.attrs EXCEPT !.fg = <<c>>]
             [] c \in 40..47 \/ c \in 100..107 -> [g.attrs EXCEPT !.bg = <<c>>]
             [] c = 39 -> [g.attrs EXCEPT !.fg = "default"]
             [] c = 49 -> [g.attrs EXCEPT !.bg = "default"]
             [] c = 38 /\ k > 0 -> [g.attrs EXCEPT !.fg = Colour(g, i, k)]
             [] c = 48 /\ k > 0 -> [g.attrs EXCEPT !.bg = Colour(g, i, k)]
             [] OTHER -> [g.attrs EXCEPT !.flags = (@ \ Unflag(c)) \cup FlagOf(c)]
  IN [grid |-> [g EXCEPT !.attrs = a], next |-> i + 1 + IF c \in {38, 48} THEN k ELSE 0]

Sgr(g, n) ==
  FoldLeft(LAMBDA acc, i : IF acc.next = i THEN Sgr1(acc.grid, i, n) ELSE acc,
           [grid |-> g, next |-> 0], [i \in 1..n |-> i - 1]).grid

Execute(g, cmd) ==
  LET p0 == g.params[0]
      p1 == g.params[1]
  IN CASE cmd = 109 -> Sgr(g, g.idx + 1)
       [] cmd \in {72, 102} -> [g EXCEPT !.row = Lesser(Minus(p0, 1), g.rows - 1),
                                        !.col = Lesser(Minus(p1, 1), g.cols - 1)]
       [] cmd = 65 -> [g EXCEPT !.row = Minus(@, Least1(p0))]
       [] cmd = 66 -> [g EXCEPT !.row = Lesser(Wrap16(@ + Least1(p0)), g.rows - 1)]
       [] cmd = 67 -> [g EXCEPT !.col = Lesser(Wrap16(@ + Least1(p0)), g.cols - 1)]
       [] cmd = 68 -> [g EXCEPT !.col = Minus(@, Least1(p0))]
       [] cmd = 74 -> EraseDisplay(g, p0)
       [] cmd = 75 -> EraseLine(g, p0)
       [] cmd = 80 -> DeleteChars(g, Least1(p0))
       [] cmd \in {104, 108} ->
            IF g.question /\ p0 = 25 THEN [g EXCEPT !.visible = (cmd = 104)] ELSE g
       [] cmd \notin {65, 66, 67, 68, 72, 74, 75, 80, 102, 104, 108, 109} -> g

-----------------------------------------------------------------------------
(* step: ground, escape, csi, and the skipping of an operating system      *)
(* command                                                                 *)

Printed(g, b) ==
  CASE b \in 192..253 ->
         [g EXCEPT !.utf8 = <<b>>, !.need = CASE b < 224 -> 2 [] b \in 224..239 -> 3 [] b > 239 -> 4]
    [] Class(b) = "esc" -> [g EXCEPT !.state = "escape"]
    [] Class(b) = "control" -> Control(g, b)
    [] b \notin 192..253 /\ Class(b) \notin {"esc", "control"} -> PutChar(g, b)

\* A character cut short shows as the replacement, and the byte that cut it
\* is taken for what it is.
CutShort(g, b) == Printed(PutChar([g EXCEPT !.utf8 = <<>>, !.need = 0], Replacement), b)
Ground(g, b) ==
  CASE g.need = 0 -> Printed(g, b)
    [] g.need > 0 /\ b \notin 128..191 -> CutShort(g, b)
    [] g.need > 0 /\ b \in 128..191 ->
         IF Len(g.utf8) + 1 < g.need THEN [g EXCEPT !.utf8 = Append(@, b)]
         ELSE PutChar([g EXCEPT !.utf8 = <<>>, !.need = 0], CodePoint(Append(g.utf8, b)))

Escape(g, b) ==
  CASE b = 91 -> [g EXCEPT !.state = "csi", !.params = NoParams, !.idx = 0, !.question = FALSE]
    [] b = 93 -> [g EXCEPT !.state = "osc"]
    [] b \notin {91, 93} -> [g EXCEPT !.state = "ground"]

\* A parameter saturates at 65535.
Saturated(n) == Lesser(n, 65535)

Csi(g, b) ==
  CASE Class(b) = "digit" -> [g EXCEPT !.params[g.idx] = Saturated(Saturated(@ * 10) + b - 48)]
    [] Class(b) = "semicolon" -> [g EXCEPT !.idx = Lesser(@ + 1, 15)]
    [] b = 63 -> [g EXCEPT !.question = TRUE]
    [] b # 63 /\ Class(b) \in {"final", "printable"} -> [Execute(g, b) EXCEPT !.state = "ground"]
    [] Class(b) \in {"esc", "bracket", "control", "high"} -> [g EXCEPT !.state = "ground"]

OscSkip(g, b) ==
  CASE b \in {7, 156} -> [g EXCEPT !.state = "ground"]
    [] b = 27 -> [g EXCEPT !.state = "escape"]
    [] b \notin {7, 27, 156} -> g

Step(g, b) ==
  CASE g.sick -> g
    [] ~g.sick /\ g.state = "ground" -> Ground(g, b)
    [] ~g.sick /\ g.state = "escape" -> Escape(g, b)
    [] ~g.sick /\ g.state = "csi" -> Csi(g, b)
    [] ~g.sick /\ g.state = "osc" -> OscSkip(g, b)

Feed(g, bytes) == FoldLeft(Step, g, bytes)

-----------------------------------------------------------------------------
(* What it is checked against                                              *)

\* erase_line(1) counts the cell under the cursor, and after a full last row
\* there is none.
PastTheEnd(g) == g.col = g.cols /\ g.row = g.rows - 1

InBounds(g) ==
  /\ DOMAIN g.cells = 0..(g.cols * g.rows - 1)
  /\ g.row \in 0..(g.rows - 1)
  /\ g.col \in 0..g.cols
  /\ g.idx \in 0..15
  /\ g.state = "ground" \/ g.need = 0

\* Another state of the grid has the same cells outside the cursor's row.
AtRest(g) == g.state = "ground" /\ g.need = 0 /\ ~g.sick
OtherRowsKept(g, next) ==
  \A k \in DOMAIN g.cells : k \div g.cols # g.row => next.cells[k] = g.cells[k]

\* A text of characters and ends of line, laid out in rows of `cols' columns:
\* a row is ended by an end of line, or because the next character does not
\* fit in it.
LineEnd == -1
Columns(ch) == IF IsWide(ch) THEN <<ch, 0>> ELSE <<ch>>
Laid(rows, ch, cols) ==
  CASE ch = LineEnd -> Append(rows, <<>>)
    [] ch # LineEnd ->
         IF Len(Last(rows)) + Len(Columns(ch)) > cols THEN Append(rows, Columns(ch))
         ELSE Append(Front(rows), Last(rows) \o Columns(ch))
Layout(text, cols) == FoldLeft(LAMBDA rows, ch : Laid(rows, ch, cols), <<<<>>>>, text)

\* The screen shows the last rows of the layout.
ShowsLayout(g, rows) ==
  LET skipped == IF Len(rows) > g.rows THEN Len(rows) - g.rows ELSE 0 IN
  \A r \in 0..(g.rows - 1), c \in 0..(g.cols - 1) :
    g.cells[r * g.cols + c].ch =
      IF skipped + r + 1 \in DOMAIN rows /\ c + 1 \in DOMAIN rows[skipped + r + 1]
      THEN rows[skipped + r + 1][c + 1] ELSE Blank

=============================================================================
