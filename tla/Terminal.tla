------------------------------ MODULE Terminal ------------------------------
(***************************************************************************)
(* The server's terminal model (TerminalState of terminal.rs): the grid,   *)
(* the cursor, the scrollback, the alternate screen and the pen, driven by *)
(* the events the vte parser delivers and by the client's Resize.          *)
(*                                                                         *)
(* The state is one record, term, and every handler an operator from such  *)
(* a record to the next.  A cell is blank, the continuation of a wide      *)
(* glyph, or a glyph.  A glyph remembers the screen it was printed on and  *)
(* the number of resets before it: what the properties below tell apart.   *)
(* The pen's stamp on each cell is left out.  Rows and columns count from  *)
(* 0 in the code and from 1 in the sequences here.                         *)
(***************************************************************************)
EXTENDS Integers, Sequences, SequencesExt

CONSTANTS
  Sizes,      \* the <<cols, rows>> a client asks for
  MaxDim,     \* MAX_COLS and MAX_ROWS of SessionSlot::resize
  LineCap,    \* SCROLLBACK_LINE_CAP
  Counts,     \* the counts a CSI A/B/C/D may carry (0 when omitted)
  Positions,  \* the <<row, col>> parameters of a CSI H
  SgrInputs,  \* the parameter lists of a CSI m
  MaxResets,  \* bound: full resets (ESC c)
  MaxOps      \* bound: events

(* What the constants of an instance satisfy.                               *)
TerminalAssumption ==
  /\ Sizes \subseteq Nat \X Nat /\ Sizes # {}
  /\ MaxDim \in Nat \ {0} /\ LineCap \in Nat \ {0}
  /\ Counts \subseteq Nat /\ Positions \subseteq Nat \X Nat
  /\ SgrInputs \subseteq Seq(Nat)
  /\ MaxResets \in Nat /\ MaxOps \in Nat

VARIABLES
  term,    \* the TerminalState
  resets,  \* history: full resets so far
  nested,  \* history: the alternate screen was entered from the alternate screen
  panics,  \* history: the <<cols, rows>> at which an event indexed outside the grid
  ops      \* events so far, up to MaxOps

vars == <<term, resets, nested, panics, ops>>

U16 == 65535
Min2(a, b) == IF a < b THEN a ELSE b
Max2(a, b) == IF a > b THEN a ELSE b
SatSub(a, b) == IF a > b THEN a - b ELSE 0
SatAdd(a, b) == Min2(a + b, U16)

-----------------------------------------------------------------------------
(* Cells, pens and the initial state.                                      *)

Blank == <<"blank">>
Cont == <<"cont">>                      \* Cell { wide: true }
Glyph(screen, gen) == <<"glyph", screen, gen>>
IsGlyph(cell) == cell[1] = "glyph"
Glyphs == {Glyph(s, g) : s \in {"primary", "alt"}, g \in 0..MaxResets}
Cells == {Blank, Cont} \union Glyphs

Default == -1                           \* fg or bg = None
FreshPen == [style |-> {}, fg |-> Default, bg |-> Default]

None == [some |-> FALSE]

MakeGrid(cols, rows) == [r \in 1..rows |-> [c \in 1..cols |-> Blank]]

New(cols, rows) ==
  [cols |-> cols, rows |-> rows, grid |-> MakeGrid(cols, rows), scrollback |-> <<>>,
   cursor |-> [row |-> 0, col |-> 0], modes |-> {}, alt |-> FALSE, saved |-> None,
   sgr |-> FreshPen]

-----------------------------------------------------------------------------
(* Text.                                                                   *)

\* Lines pushed one after another, the oldest popped whenever there are too many.
Newest(lines) == SubSeq(lines, SatSub(Len(lines), LineCap) + 1, Len(lines))

\* Lines leave the top of the viewport: history on the primary screen, dropped on the
\* alternate one.
ShedAlways(t, lines) == [t EXCEPT !.scrollback = Newest(@ \o lines)]

Shed(t, lines) == IF t.alt THEN t ELSE [t EXCEPT !.scrollback = Newest(@ \o lines)]

ScrollUp(t) ==
  IF t.rows = 0 THEN t
  ELSE [Shed(t, <<t.grid[1]>>) EXCEPT
          !.grid = Append(Tail(t.grid), [c \in 1..t.cols |-> Blank])]

Lf(t) ==
  IF t.cursor.row + 1 >= t.rows THEN ScrollUp(t) ELSE [t EXCEPT !.cursor.row = @ + 1]

\* print_char: the glyph, the continuation cell of a wide one unless it falls off the
\* right edge, the cursor advanced by the width, the wrap.
PrintChar(t, g, width) ==
  LET row == Min2(t.cursor.row, SatSub(t.rows, 1)) + 1
      col == Min2(t.cursor.col, SatSub(t.cols, 1)) + 1
      inGrid == row <= Len(t.grid) /\ col <= Len(t.grid[row])
      line == [c \in DOMAIN t.grid[row] |->
                 IF c = col THEN g
                 ELSE IF width = 2 /\ c = col + 1 THEN Cont
                 ELSE t.grid[row][c]]
      written == IF inGrid THEN [t EXCEPT !.grid[row] = line] ELSE t
      next == SatAdd(t.cursor.col, width)
  IN IF width = 0 THEN t
     ELSE IF next >= t.cols THEN Lf([written EXCEPT !.cursor.col = 0])
     ELSE [written EXCEPT !.cursor.col = next]

\* execute: carriage return, line feed, backspace; every other C0 byte is ignored.
Execute(t, byte) ==
  CASE byte = "CR" -> [t EXCEPT !.cursor.col = 0]
    [] byte = "LF" -> Lf(t)
    [] byte = "BS" -> [t EXCEPT !.cursor.col = SatSub(@, 1)]
    [] OTHER       -> t

-----------------------------------------------------------------------------
(* CSI: motion, erasure, pen, private modes.                               *)

CursorCount(n) == Max2(n, 1)

Motion(t, dir, n) ==
  CASE dir = "A" -> [t EXCEPT !.cursor.row = SatSub(@, CursorCount(n))]
    [] dir = "B" -> [t EXCEPT !.cursor.row = Min2(SatAdd(@, CursorCount(n)), SatSub(t.rows, 1))]
    [] dir = "C" -> [t EXCEPT !.cursor.col = Min2(SatAdd(@, CursorCount(n)), SatSub(t.cols, 1))]
    [] dir = "D" -> [t EXCEPT !.cursor.col = SatSub(@, CursorCount(n))]

\* CSI H: 1-based, a parameter of 0 counts as 1.
CursorPosition(t, p) ==
  [t EXCEPT !.cursor = [row |-> Min2(Max2(p[1], 1) - 1, SatSub(t.rows, 1)),
                        col |-> Min2(Max2(p[2], 1) - 1, SatSub(t.cols, 1))]]

Screen == Nat \X Nat                    \* rows and columns, from 0
Erase(t, cells) ==
  [t EXCEPT !.grid = [r \in DOMAIN t.grid |-> [c \in DOMAIN t.grid[r] |->
      IF <<r - 1, c - 1>> \in cells THEN Blank ELSE t.grid[r][c]]]]

EraseDisplay(t, n) ==
  LET row == t.cursor.row
      col == t.cursor.col
  IN CASE n = 0 -> Erase(t, {x \in Screen : x[1] > row \/ (x[1] = row /\ x[2] >= col)})
       [] n = 1 -> Erase(t, {x \in Screen : x[1] < row \/ (x[1] = row /\ x[2] <= col)})
       [] n = 2 -> Erase(t, Screen)
       [] n = 3 -> [Erase(t, Screen) EXCEPT !.scrollback = <<>>]
       [] OTHER -> t

EraseLine(t, n) ==
  LET row == t.cursor.row
      col == t.cursor.col
  IN CASE n = 0 -> Erase(t, {x \in Screen : x[1] = row /\ x[2] >= col})
       [] n = 1 -> Erase(t, {x \in Screen : x[1] = row /\ x[2] <= col})
       [] n = 2 -> Erase(t, {x \in Screen : x[1] = row})
       [] OTHER -> t

\* The columns of the cursor's row that CSI 1 K and CSI 1 J index, from 0: the last one is
\* never below 0, and a row without columns has no such cell.
LeftOfCursor(t) ==
  LET row == t.cursor.row + 1
  IN IF row > Len(t.grid) THEN {}
     ELSE 0..Min2(t.cursor.col, SatSub(Len(t.grid[row]), 1))

EraseLinePanics(t, n) ==
  n = 1 /\ \E c \in LeftOfCursor(t) : c >= Len(t.grid[t.cursor.row + 1])

EraseDisplayPanics(t, n) ==
  n = 1 /\ (t.cursor.row > Len(t.grid) \/ EraseLinePanics(t, n))

\* The pen after one SGR code, for the codes that take no argument.
SgrCode(pen, code) ==
  CASE code = 0                -> FreshPen
    [] code \in {1, 3, 4, 7}   -> [pen EXCEPT !.style = @ \union {code}]
    [] code = 22               -> [pen EXCEPT !.style = @ \ {1}]
    [] code \in {23, 24, 27}   -> [pen EXCEPT !.style = @ \ {code - 20}]
    [] code \in 30..37         -> [pen EXCEPT !.fg = code - 30]
    [] code = 39               -> [pen EXCEPT !.fg = Default]
    [] code \in 40..47         -> [pen EXCEPT !.bg = code - 40]
    [] code = 49               -> [pen EXCEPT !.bg = Default]
    [] code \in 90..97         -> [pen EXCEPT !.fg = code - 90 + 8]
    [] code \in 100..107       -> [pen EXCEPT !.bg = code - 100 + 8]
    [] OTHER                   -> pen

\* How many of the parameters after a 38 or 48 are its arguments.
SgrArgsForgetsRgb(ps, i) ==
  IF i = Len(ps) THEN 0 ELSE IF ps[i + 1] = 5 THEN 2 ELSE 1

SgrArgs(ps, i) ==
  IF i = Len(ps) THEN 0
  ELSE CASE ps[i + 1] = 5 -> 2 [] ps[i + 1] = 2 -> 4 [] OTHER -> 1

\* 38;5;n and 48;5;n set a palette index; n above 255 is ignored.
ExtendedColour(pen, ps, i) ==
  IF i + 2 <= Len(ps) /\ ps[i + 1] = 5 /\ ps[i + 2] <= 255
  THEN IF ps[i] = 38 THEN [pen EXCEPT !.fg = ps[i + 2]] ELSE [pen EXCEPT !.bg = ps[i + 2]]
  ELSE pen

\* The i-th parameter: an argument still to be skipped, an extended colour, or a code.
SgrStep(acc, ps, i) ==
  IF acc.skip > 0 THEN [acc EXCEPT !.skip = @ - 1]
  ELSE IF ps[i] \in {38, 48}
       THEN [pen |-> ExtendedColour(acc.pen, ps, i), skip |-> SgrArgs(ps, i)]
       ELSE [acc EXCEPT !.pen = SgrCode(@, ps[i])]

HandleSgr(pen, ps) ==
  LET after[i \in 0..Len(ps)] ==
        IF i = 0 THEN [pen |-> pen, skip |-> 0] ELSE SgrStep(after[i - 1], ps, i)
  IN IF ps = <<>> THEN FreshPen ELSE after[Len(ps)].pen

\* ?1049h and ?1049l.
EnterAltScreen(t) ==
  [t EXCEPT !.saved = [some |-> TRUE, grid |-> t.grid, cursor |-> t.cursor, sgr |-> t.sgr],
            !.grid = MakeGrid(t.cols, t.rows), !.cursor = [row |-> 0, col |-> 0],
            !.sgr = FreshPen, !.alt = TRUE]

ExitAltScreen(t) ==
  IF t.saved.some
  THEN [t EXCEPT !.grid = t.saved.grid, !.cursor = t.saved.cursor, !.sgr = t.saved.sgr,
                 !.saved = None, !.alt = FALSE]
  ELSE [t EXCEPT !.alt = FALSE]

\* CSI ? Pm h / l: the alternate screen and three flags (25, 2004, 1).
PrivateMode(t, mode, enable) ==
  CASE mode = 1049 -> IF enable THEN EnterAltScreen(t) ELSE ExitAltScreen(t)
    [] mode \in {25, 2004, 1} ->
         [t EXCEPT !.modes = IF enable THEN @ \union {mode} ELSE @ \ {mode}]
    [] OTHER -> t

-----------------------------------------------------------------------------
(* Reset and resize.                                                       *)

\* ESC c forgets everything but the size.
Ris(t) == New(t.cols, t.rows)

FitRow(line, cols) == [c \in 1..cols |-> IF c <= Len(line) THEN line[c] ELSE Blank]

\* No reflow: columns cut or padded, excess rows leave at the top, new ones at the bottom.
FitGrid(grid, cols, rows) ==
  LET excess == SatSub(Len(grid), rows)
  IN [r \in 1..rows |-> IF r + excess <= Len(grid) THEN FitRow(grid[r + excess], cols)
                        ELSE FitRow(<<>>, cols)]

Clamp(cursor, cols, rows) ==
  [row |-> Min2(cursor.row, SatSub(rows, 1)), col |-> Min2(cursor.col, SatSub(cols, 1))]

\* The rows that leave the active grid are history when they leave the primary screen.
ShedTop(t, cols, rows) ==
  LET excess == SatSub(Len(t.grid), rows)
      top == [i \in 1..excess |-> FitRow(t.grid[i], cols)]
  IN Shed(t, top)

\* TerminalState::resize: the saved primary screen follows the new size too; the rows
\* it sheds are dropped.
Resize(t, cols, rows) ==
  LET shed == ShedTop(t, cols, rows)
      saved == shed.saved
  IN [shed EXCEPT
        !.grid = FitGrid(t.grid, cols, rows), !.cols = cols, !.rows = rows,
        !.cursor = Clamp(shed.cursor, cols, rows),
        !.saved = IF saved.some
                  THEN [saved EXCEPT !.grid = FitGrid(saved.grid, cols, rows),
                                     !.cursor = Clamp(saved.cursor, cols, rows)]
                  ELSE saved]

-----------------------------------------------------------------------------
(* The page a ScrollbackRequest reads.                                     *)

ScrollbackLinesInclusive(t, from, count) ==
  LET total == Len(t.scrollback)
      newest == total - from
  IN IF from >= total \/ count = 0 THEN <<>>
     ELSE SubSeq(t.scrollback, Max2(newest - count, 1), newest)

ScrollbackLines(t, from, count) ==
  LET total == Len(t.scrollback)
      newest == total - from
  IN IF from >= total \/ count = 0 THEN <<>>
     ELSE SubSeq(t.scrollback, Max2(newest - (count - 1), 1), newest)

-----------------------------------------------------------------------------
(* The state machine.  A program prints glyphs of the screen it is on.     *)

Init ==
  /\ \E s \in Sizes : term = New(Min2(s[1], MaxDim), Min2(s[2], MaxDim))
  /\ resets = 0 /\ nested = FALSE /\ panics = {} /\ ops = 0

Step(t) ==
  /\ ops < MaxOps
  /\ term' = t
  /\ ops' = ops + 1

Quiet(t) == Step(t) /\ UNCHANGED <<resets, nested, panics>>

PrintGlyph == \E width \in {0, 1, 2} :
  Quiet(PrintChar(term, Glyph(IF term.alt THEN "alt" ELSE "primary", resets), width))

Control == \E byte \in {"CR", "LF", "BS", "BEL"} : Quiet(Execute(term, byte))

MoveCursor ==
  \/ \E dir \in {"A", "B", "C", "D"}, n \in Counts : Quiet(Motion(term, dir, n))
  \/ \E p \in Positions : Quiet(CursorPosition(term, p))

EraseCells == \E n \in 0..3 :
  \/ ~EraseDisplayPanics(term, n) /\ Quiet(EraseDisplay(term, n))
  \/ ~EraseLinePanics(term, n) /\ Quiet(EraseLine(term, n))

\* The index fails before a cell is written.  The rest of the read is lost, the panic ends
\* the task that fed it, and whoever locks the terminal next recovers it from the poisoned
\* mutex as it was left (push_output_and_parse, resize).
ErasePanics == \E n \in 0..3 :
  /\ EraseDisplayPanics(term, n) \/ EraseLinePanics(term, n)
  /\ Step(term)
  /\ panics' = panics \union {<<term.cols, term.rows>>}
  /\ UNCHANGED <<resets, nested>>

Sgr == \E ps \in SgrInputs : Quiet([term EXCEPT !.sgr = HandleSgr(@, ps)])

SetMode == \E mode \in {25, 1049}, enable \in BOOLEAN :
  /\ Step(PrivateMode(term, mode, enable))
  /\ nested' = (nested \/ (mode = 1049 /\ enable /\ term.alt))
  /\ UNCHANGED <<resets, panics>>

FullReset ==
  /\ resets < MaxResets
  /\ Step(Ris(term))
  /\ resets' = resets + 1
  /\ nested' = FALSE
  /\ UNCHANGED panics

\* SessionSlot::resize clamps what the client asked for.
ClientResize == \E s \in Sizes :
  Quiet(Resize(term, Min2(s[1], MaxDim), Min2(s[2], MaxDim)))

Done == ops = MaxOps /\ UNCHANGED vars

Next ==
  \/ PrintGlyph \/ Control \/ MoveCursor \/ EraseCells \/ ErasePanics \/ Sgr \/ SetMode
  \/ FullReset \/ ClientResize \/ Done

Spec == Init /\ [][Next]_vars

-----------------------------------------------------------------------------
(* Properties.                                                             *)

Fits(grid, cols, rows) ==
  Len(grid) = rows /\ \A r \in 1..rows : Len(grid[r]) = cols

Within(cursor, cols, rows) ==
  cursor.row \in 0..SatSub(rows, 1) /\ cursor.col \in 0..SatSub(cols, 1)

GlyphsOf(grid) ==
  UNION {{cell \in Range(grid[r]) : IsGlyph(cell)} : r \in DOMAIN grid}

(* The grid has the size the terminal says, the cursor is inside it (terminal.rs:    *)
(* "Always clamped to grid bounds"), and the same holds of the saved primary screen  *)
(* through every resize taken on the alternate screen.  CSI 1 J and CSI 1 K, the two *)
(* handlers that index the cursor's row without a check, leave the grid only when it *)
(* has rows of no columns.                                                           *)
TypeOK ==
  /\ term.cols \in 0..MaxDim /\ term.rows \in 0..MaxDim
  /\ Fits(term.grid, term.cols, term.rows)
  /\ Within(term.cursor, term.cols, term.rows)
  /\ Len(term.scrollback) <= LineCap
  /\ term.alt = term.saved.some
  /\ term.saved.some => /\ Fits(term.saved.grid, term.cols, term.rows)
                        /\ Within(term.saved.cursor, term.cols, term.rows)
  /\ {term.sgr.fg, term.sgr.bg} \subseteq {Default} \union 0..255
  /\ \A size \in panics : size[1] = 0 /\ size[2] > 0

(* Feeding the terminal never panics: push_output_and_parse calls a panic in advance *)
(* "impossible today".                                                               *)
AdvanceReturns == panics = {}

(* Unless a program entered the alternate screen twice, each screen keeps to itself:  *)
(* the grid shows only glyphs of the active screen, the history and the saved screen  *)
(* only those of the primary one, whatever scrolls, resizes and resets came between.  *)
ScreensApart ==
  ~nested =>
    /\ \A g \in GlyphsOf(term.grid) : g[2] = (IF term.alt THEN "alt" ELSE "primary")
    /\ \A g \in GlyphsOf(term.scrollback) : g[2] = "primary"
    /\ term.saved.some => \A g \in GlyphsOf(term.saved.grid) : g[2] = "primary"

(* Nothing printed before a full reset can come back, not through the history and not *)
(* through the saved screen a later ?1049l restores.                                  *)
ResetForgets ==
  \A g \in GlyphsOf(term.grid) \union GlyphsOf(term.scrollback)
           \union (IF term.saved.some THEN GlyphsOf(term.saved.grid) ELSE {}) : g[3] = resets

(* Reading the history in pages of any length, each starting where the lines already  *)
(* held end, gives every line once and in order.                                      *)
PagesTile ==
  \A count \in 1..LineCap :
    LET pages == (Len(term.scrollback) + count - 1) \div count
        page(i) == ScrollbackLines(term, (pages - i) * count, count)
    IN FlattenSeq([i \in 1..pages |-> page(i)]) = term.scrollback

\* The colour that starts at j is 24-bit and the first of ps; ps[i] is one of its values.
FirstRgb(ps, j) ==
  /\ j < Len(ps) /\ ps[j] \in {38, 48} /\ ps[j + 1] = 2
  /\ \A k \in 1..(j - 1) : ps[k] \notin {38, 48}
InFirstRgb(ps, i) == \E j \in 1..(i - 2) : i <= j + 4 /\ FirstRgb(ps, j)
\* Some input has the code a elsewhere.
Asked(a) == \E ps \in SgrInputs : \E i \in DOMAIN ps : ps[i] = a /\ ~InFirstRgb(ps, i)

(* The arguments of an extended colour never act as codes of their own: an attribute  *)
(* that the inputs have only as the red, green or blue of a 24-bit colour is not set. *)
ColourArgsAreNotCodes == term.sgr.style \subseteq {a \in {1, 3, 4, 7} : Asked(a)}
=============================================================================
