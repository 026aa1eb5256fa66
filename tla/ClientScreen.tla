---------------------------- MODULE ClientScreen ----------------------------
(***************************************************************************)
(* The client's display (screen.rs and the display arms of run_pump): the  *)
(* confirmed grid that the server's diffs build, the physical grid that    *)
(* records what was written to the terminal, the banner and the predicted  *)
(* cell laid over them, the scrollback frames painted past the compositor, *)
(* and the user's terminal itself, tty, which nothing reads back.          *)
(*                                                                         *)
(* A diff is computed by the server's compute_diff_runs against the grid   *)
(* the client last acknowledged, and applied on arrival: loss, bursts and  *)
(* epochs are the StateSync module's subject.  Cells are one letter: a, b  *)
(* (another style), w (two columns), p (predicted), # (banner), and on the *)
(* terminal ? (whatever it made of a change of its window).                *)
(***************************************************************************)
EXTENDS Integers, Sequences

CONSTANTS
  Sizes,      \* the <<cols, rows>> the window takes
  Glyphs,     \* what programs print, a subset of {"a", "b", "w"}
  Lines,      \* the history lines a page may bring
  MaxOps      \* bound: display events

(* What the constants of an instance satisfy.                               *)
ScreenAssumption ==
  /\ Sizes \subseteq (Nat \ {0}) \X (Nat \ {0}) /\ Sizes # {}
  /\ Glyphs \subseteq {"a", "b", "w"} /\ MaxOps \in Nat
  /\ Lines \subseteq Seq({" ", "a", "b", "w", ">"})

VARIABLES
  srv,        \* the server's grid
  base,       \* the grid the server believes the client has
  confirmed,  \* ClientScreen.confirmed
  physical,   \* ClientScreen.physical
  tty,        \* the user's terminal (external)
  view,       \* "Live", or the lines and offset of ScrollbackView::Active
  banner,     \* ConnectionLossOverlay.active
  pred,       \* the cells the predictor overlays, a set of <<row, col>>
  dirty,      \* history: why the terminal may show more than physical says
  moved,      \* history: the window changed since physical was last forgotten at its size
  wide,       \* history: the rows a wide glyph was ever on
  ops

vars == <<srv, base, confirmed, physical, tty, view, banner, pred, dirty, moved, wide, ops>>

Blank == " "
Cont == ">"                             \* Cell { wide: true }
Wide(g) == g = "w"
Style(g) == IF g = "b" THEN 1 ELSE 0
Min2(a, b) == IF a < b THEN a ELSE b
SatSub(a, b) == IF a > b THEN a - b ELSE 0

RowsOf(grid) == Len(grid)
ColsOf(grid) == Len(grid[1])
MakeGrid(cols, rows) == [r \in 1..rows |-> [c \in 1..cols |-> Blank]]
BlankLike(grid) == MakeGrid(ColsOf(grid), RowsOf(grid))
SameSize(g, h) == ColsOf(g) = ColsOf(h) /\ RowsOf(g) = RowsOf(h)
Unknown(cols, rows) == [r \in 1..rows |-> [c \in 1..cols |-> "?"]]

\* ClientScreen::resize of the confirmed grid: cut or padded at the right and the bottom.
FitGrid(grid, cols, rows) ==
  [r \in 1..rows |-> [c \in 1..cols |->
     IF r <= RowsOf(grid) /\ c <= ColsOf(grid) THEN grid[r][c] ELSE Blank]]

\* TerminalState::resize on the server: the rows too many leave at the top.
Excess(grid, rows) == SatSub(RowsOf(grid), rows)
FitServer(grid, cols, rows) ==
  FitGrid(SubSeq(grid, Excess(grid, rows) + 1, RowsOf(grid)), cols, rows)

-----------------------------------------------------------------------------
(* The diff: compute_diff_runs on the server, apply on the client.         *)

Changed(now, old, c) == c > Len(old) \/ old[c] # now[c]
RunFrom(r, c, g) == [row |-> r, start |-> c, chars |-> <<g>>]
Extend(runs, g) == [runs EXCEPT ![Len(runs)].chars = Append(@, g)]

\* Mutant: a run is not cut where a cell did not change, only its characters are left out.
DiffCellGappy(acc, r, now, old, c) ==
  IF now[c] = Cont \/ ~Changed(now, old, c) THEN acc
  ELSE IF acc.open THEN [acc EXCEPT !.runs = Extend(@, now[c])]
  ELSE [runs |-> Append(acc.runs, RunFrom(r, c, now[c])), open |-> TRUE]

\* One cell of a row: a run starts at a changed cell, takes in continuation cells without
\* sending them, and stops at another style or an unchanged cell.  acc has the runs so
\* far, and whether the last of them may go on.
DiffCell(acc, r, now, old, c) ==
  IF now[c] = Cont THEN acc
  ELSE IF ~Changed(now, old, c) THEN [acc EXCEPT !.open = FALSE]
  ELSE IF acc.open /\ Style(now[c]) = Style(acc.runs[Len(acc.runs)].chars[1])
  THEN [acc EXCEPT !.runs = Extend(@, now[c])]
  ELSE [runs |-> Append(acc.runs, RunFrom(r, c, now[c])), open |-> TRUE]

DiffRow(runs, r, now, old) ==
  LET acc[c \in 0 .. Len(now)] ==
        IF c = 0 THEN [runs |-> runs, open |-> FALSE] ELSE DiffCell(acc[c - 1], r, now, old, c)
  IN  acc[Len(now)].runs

ComputeDiffRuns(now, old) ==
  LET runs[r \in 0 .. Len(now)] ==
        IF r = 0 THEN <<>>
        ELSE DiffRow(runs[r - 1], r, now[r], IF r <= Len(old) THEN old[r] ELSE <<>>)
  IN  runs[Len(now)]

\* One character of a run: the i-th goes to the i-th column from the run's start, and
\* a wide one marks the cell after it.
PutChar(grid, run, i) ==
  LET c == run.start + i - 1
      g == run.chars[i]
      one == IF c > ColsOf(grid) THEN grid ELSE [grid EXCEPT ![run.row][c] = g]
  IN IF Wide(g) /\ c + 1 <= ColsOf(grid) THEN [one EXCEPT ![run.row][c + 1] = Cont] ELSE one

ApplyRun(grid, run) ==
  LET put[i \in 0 .. Len(run.chars)] == IF i = 0 THEN grid ELSE PutChar(put[i - 1], run, i)
  IN  IF run.row > RowsOf(grid) THEN grid ELSE put[Len(run.chars)]

Apply(grid, runs, cols, rows) ==
  LET sizedGrid == IF cols # ColsOf(grid) \/ rows # RowsOf(grid)
                   THEN FitGrid(grid, cols, rows) ELSE grid
      applied[i \in 0 .. Len(runs)] ==
        IF i = 0 THEN sizedGrid ELSE ApplyRun(applied[i - 1], runs[i])
  IN  applied[Len(runs)]

-----------------------------------------------------------------------------
(* Composition and the minimal ANSI diff.                                  *)

\* confirmed, then the banner on row 1, then the predicted cells.
Compose(grid, showBanner, cells) ==
  [r \in 1..RowsOf(grid) |-> [c \in 1..ColsOf(grid) |->
     IF <<r, c>> \in cells THEN "p"
     ELSE IF showBanner /\ r = 1 THEN "#" ELSE grid[r][c]]]

\* The terminal takes one character at its cursor: a wide one covers two columns, half
\* of a wide one that is overwritten leaves a blank.  (external)
TtyWrite(t, g) ==
  LET line == t.grid[t.row]
      put == [c \in DOMAIN line |->
                IF c = t.col THEN g
                ELSE IF Wide(g) /\ c = t.col + 1 THEN Cont
                ELSE IF c = t.col - 1 /\ Wide(line[c]) THEN Blank
                ELSE IF c > t.col /\ line[c] = Cont /\ line[c - 1] # Cont
                        /\ (c - 1 = t.col \/ (Wide(g) /\ c - 1 = t.col + 1)) THEN Blank
                ELSE line[c]]
  IN IF t.col > Len(line) THEN t
     ELSE [t EXCEPT !.grid[t.row] = put, !.col = t.col + IF Wide(g) THEN 2 ELSE 1]

\* Mutant: the cursor is moved on a new row only.
EmitCellNeverMoves(acc, cell, want, have) ==
  IF want = have \/ want = Cont THEN acc
  ELSE [t |-> TtyWrite(IF acc.last[1] = cell[1] THEN acc.t
                       ELSE [acc.t EXCEPT !.row = cell[1], !.col = cell[2]], want),
        last |-> <<cell[1], cell[2] + 1>>]

\* emit_diff, cell by cell in reading order: unchanged cells and continuation cells are
\* skipped, the cursor is moved unless the tracked position is already here, and the
\* tracked column advances by one.  acc carries the terminal and the tracked position.
EmitCell(acc, cell, want, have) ==
  IF want = have \/ want = Cont THEN acc
  ELSE LET at == IF acc.last = cell THEN acc.t
                 ELSE [acc.t EXCEPT !.row = cell[1], !.col = cell[2]]
       IN [t |-> TtyWrite(at, want), last |-> <<cell[1], cell[2] + 1>>]

EmitRow(start, want, have, r, cols) ==
  LET acc[c \in 0 .. cols] ==
        IF c = 0 THEN start ELSE EmitCell(acc[c - 1], <<r, c>>, want[r][c], have[r][c])
  IN  acc[cols]

EmitDiff(t, want, have) ==
  LET cols == Min2(ColsOf(want), ColsOf(have))
      rows == Min2(RowsOf(want), RowsOf(have))
      acc[r \in 0 .. rows] ==
        IF r = 0 THEN [t |-> [grid |-> t, row |-> 1, col |-> 1], last |-> <<0, 0>>]
        ELSE EmitRow(acc[r - 1], want, have, r, cols)
  IN  acc[rows].t.grid

\* The commit of emit_diff, cell by cell where both grids have one.
Commit(want, have) ==
  [r \in DOMAIN have |-> [c \in DOMAIN have[r] |->
     IF r <= RowsOf(want) /\ c <= ColsOf(want) THEN want[r][c] ELSE have[r][c]]]

\* A terminal of another size wraps, scrolls or clips what is drawn for this one.  (external)
Drawn(t, frame, done) == IF SameSize(t, frame) THEN done ELSE Unknown(ColsOf(t), RowsOf(t))

\* A render writes the difference and records it.  A failed write leaves any part of
\* it on the terminal (here: all or nothing) and forgets the physical grid.  Each
\* outcome: the terminal, the physical grid, and why that was forgotten if it was.
FailedWrite(t, want, have) ==
  {[tty |-> x, physical |-> BlankLike(have), dirty |-> {"write"}] :
     x \in {t, Drawn(t, want, EmitDiff(t, want, have))}}

Render(t, want, have) ==
  {[tty |-> Drawn(t, want, EmitDiff(t, want, have)), physical |-> Commit(want, have),
    dirty |-> {}]}
  \union FailedWrite(t, want, have)

Shows(o) ==
  /\ tty' = o.tty /\ physical' = o.physical
  /\ dirty' = dirty \union o.dirty
  /\ moved' = (~SameSize(o.tty, o.physical) \/ (moved /\ o.dirty = {}))

-----------------------------------------------------------------------------
(* The scrollback view, painted past the compositor.                       *)

Live == [active |-> FALSE, lines |-> <<>>, offset |-> 0]

\* render_scrollback_to_buf: clear, then the window of lines that ends offset lines
\* above the newest.
ScrollbackFrame(v) ==
  LET rows == RowsOf(confirmed)
      bottom == SatSub(Len(v.lines), v.offset)
      top == SatSub(bottom, rows)
  IN [r \in 1..rows |-> [c \in 1..ColsOf(confirmed) |->
        IF top + r <= Len(v.lines) /\ c <= Len(v.lines[top + r])
        THEN v.lines[top + r][c] ELSE Blank]]

\* The frame is written, or fails to be; the physical grid is forgotten before.
Paint(v) ==
  {[tty |-> Drawn(tty, confirmed, ScrollbackFrame(v)), physical |-> BlankLike(physical),
    dirty |-> {"history"}],
   [tty |-> tty, physical |-> BlankLike(physical), dirty |-> {"write"}]}

-----------------------------------------------------------------------------
(* The server's side.                                                      *)

Init ==
  /\ \E s \in Sizes : srv = MakeGrid(s[1], s[2])
  /\ base = srv /\ confirmed = srv
  /\ physical = srv /\ tty = srv          \* emit_connect_clear
  /\ view = Live /\ banner = FALSE /\ pred = {} /\ dirty = {} /\ moved = FALSE /\ wide = {}
  /\ ops = 0

Tick == ops < MaxOps /\ ops' = ops + 1

\* A program prints one glyph, or erases a cell (print_char, EL).
ServerWrites == \E r \in 1..RowsOf(srv), c \in 1..ColsOf(srv), g \in Glyphs \union {Blank} :
  /\ Tick
  /\ srv[r][c] # g
  /\ srv' = [srv EXCEPT ![r] = [k \in DOMAIN @ |->
               IF k = c THEN g ELSE IF Wide(g) /\ k = c + 1 THEN Cont ELSE @[k]]]
  /\ wide' = IF Wide(g) THEN wide \union {r} ELSE wide
  /\ UNCHANGED <<base, confirmed, physical, tty, view, banner, pred, dirty, moved>>

\* The window takes another size and its terminal crops, pads or reflows what it shows.
\* The client only arms the debounce timer.
WindowResized == \E s \in Sizes :
  /\ Tick
  /\ <<ColsOf(tty), RowsOf(tty)>> # s
  /\ tty' = Unknown(s[1], s[2])
  /\ dirty' = dirty \union {"resize"}
  /\ moved' = TRUE
  /\ UNCHANGED <<srv, base, confirmed, physical, view, banner, pred, wide>>

\* Once the window has been still, the server is told the size it then has.
ServerResized ==
  /\ Tick
  /\ ~SameSize(srv, tty)
  /\ srv' = FitServer(srv, ColsOf(tty), RowsOf(tty))
  /\ wide' = wide \union {r - Excess(srv, RowsOf(tty)) : r \in wide}
  /\ UNCHANGED <<base, confirmed, physical, tty, view, banner, pred, dirty, moved>>

-----------------------------------------------------------------------------
(* The display arms of run_pump.                                           *)

\* A fresh StateDiff: leaves the scrollback view, clears the banner, applies, lets the
\* predictor drop what was decided, renders everything.
Datagram == \E keep \in SUBSET pred :
  /\ Tick
  /\ srv # base
  /\ confirmed' = Apply(confirmed, ComputeDiffRuns(srv, base), ColsOf(srv), RowsOf(srv))
  /\ base' = srv
  /\ view' = Live
  /\ banner' = FALSE
  /\ LET resized == ~SameSize(srv, confirmed)
         have == IF resized THEN BlankLike(srv) ELSE physical
         want == Compose(confirmed', FALSE, pred')
     IN /\ pred' = IF resized THEN {} ELSE keep
        /\ \E o \in Render(tty, want, have) :
             Shows([o EXCEPT !.dirty = @ \union (IF resized THEN {"resize"} ELSE {})])
  /\ UNCHANGED <<srv, wide>>

\* A non-paging keystroke: back from the scrollback view with a repaint of the live
\* grid, and, unless the escape machine holds the byte back, the prediction and its render.
Keystroke == \E r \in 1..RowsOf(confirmed), c \in 1..ColsOf(confirmed), forwards \in BOOLEAN :
  /\ Tick
  /\ view' = Live
  /\ pred' \in (IF forwards THEN {{}, pred, {<<r, c>>}} ELSE {pred})
  /\ LET same == [tty |-> tty, physical |-> physical, dirty |-> {}]
         back == IF view.active THEN Render(tty, confirmed, physical) ELSE {same}
     IN \E first \in back :
        \E second \in (IF forwards
                       THEN Render(first.tty, Compose(confirmed, banner, pred'), first.physical)
                       ELSE {first}) :
          Shows([second EXCEPT !.dirty = @ \union first.dirty])
  /\ UNCHANGED <<srv, base, confirmed, banner, wide>>

\* The connection is closed and no diff came for five seconds; then once a second.
Silence ==
  /\ Tick
  /\ banner' = TRUE
  /\ \E o \in Render(tty, Compose(confirmed, TRUE, pred), physical) : Shows(o)
  /\ UNCHANGED <<srv, base, confirmed, view, pred, wide>>

PageUp ==
  /\ Tick
  /\ view' = IF view.active THEN [view EXCEPT !.offset = @ + RowsOf(confirmed)]
             ELSE [active |-> TRUE, lines |-> <<>>, offset |-> 0]
  /\ \E o \in Paint(view') : Shows(o)
  /\ UNCHANGED <<srv, base, confirmed, banner, pred, wide>>

\* Past the newest line: back to the live grid, without banner or predictions.
PageDown ==
  /\ Tick
  /\ view.active
  /\ LET exits == view.offset <= RowsOf(confirmed)
     IN /\ view' = IF exits THEN Live ELSE [view EXCEPT !.offset = @ - RowsOf(confirmed)]
        /\ \E o \in (IF exits THEN Render(tty, confirmed, physical) ELSE Paint(view')) :
             Shows(o)
  /\ UNCHANGED <<srv, base, confirmed, banner, pred, wide>>

RecvPage == \E line \in Lines :
  /\ Tick
  /\ view.active
  /\ view' = [view EXCEPT !.lines = <<line>> \o @]
  /\ \E o \in Paint(view') : Shows(o)
  /\ UNCHANGED <<srv, base, confirmed, banner, pred, wide>>

Done == ops = MaxOps /\ UNCHANGED vars

Next ==
  \/ ServerWrites \/ WindowResized \/ ServerResized \/ Datagram \/ Keystroke \/ Silence
  \/ PageUp \/ PageDown \/ RecvPage \/ Done

Spec == Init /\ [][Next]_vars

-----------------------------------------------------------------------------
(* Properties.                                                             *)

(* The two grids have one size, the view's offset counts whole pages, and predicted   *)
(* cells lie on the screen.                                                           *)
TypeOK ==
  /\ <<ColsOf(physical), RowsOf(physical)>> = <<ColsOf(confirmed), RowsOf(confirmed)>>
  /\ <<ColsOf(confirmed), RowsOf(confirmed)>> = <<ColsOf(base), RowsOf(base)>>
  /\ view.offset % RowsOf(confirmed) = 0
  /\ pred \subseteq (1..RowsOf(confirmed)) \X (1..ColsOf(confirmed))

(* On rows that never held a wide glyph, a diff against the grid the client last       *)
(* acknowledged makes its confirmed row equal to the server's, through changes of      *)
(* style, partial changes and resizes.                                                 *)
NarrowRowsAgree == \A r \in 1..RowsOf(base) : r \in wide \/ confirmed[r] = base[r]

(* What the physical grid claims was drawn is on the terminal, whatever failed writes  *)
(* and scrollback frames came between: the compositor never skips a cell it believes   *)
(* is drawn and is not.  A change of the window voids this until the physical grid is  *)
(* forgotten at the window's size, by the diff that brings it, a failed write or a     *)
(* scrollback frame; what is drawn after that is on the terminal again.                *)
PhysicalIsOnTty ==
  ~moved =>
    /\ SameSize(physical, tty)
    /\ \A r \in 1..RowsOf(physical), c \in 1..ColsOf(physical) :
         r \in wide \/ physical[r][c] = Blank \/ tty[r][c] = physical[r][c]

(* Until a write fails, the window changes or history is painted, the terminal shows   *)
(* exactly the physical grid: erased predictions and banners are blanked out.          *)
TtyIsPhysical ==
  dirty = {} => \A r \in 1..RowsOf(physical) : r \in wide \/ tty[r] = physical[r]

(* Back from the scrollback view the terminal shows the live grid (main.rs: "a diff    *)
(* against the blank physical model will repaint everything").                         *)
SnapBackRepaints ==
  dirty = {"history"} /\ ~view.active =>
    \A r \in 1..RowsOf(physical) : r \in wide \/ tty[r] = physical[r]

(* The client's grid is the one the server diffed against, wide glyphs included        *)
(* (screen.rs: cells are a "Field-for-field mirror" of the server's).                  *)
GridsAgree == confirmed = base
=============================================================================
