--------------------------- MODULE DisplayProofs ---------------------------
(***************************************************************************)
(* Proofs about what the user types and what is shown: the server's        *)
(* terminal, the predictor and the path of the input.  Each component is   *)
(* an instance of MCDisplay; its theorems are about the component's own    *)
(* specification, for every value of its constants.                        *)
(*                                                                         *)
(* The loops of the code are recursive functions here.  That such a        *)
(* function exists, and what holds of its last value, is an induction over *)
(* the natural numbers, which the first three lemmas provide in a form     *)
(* without operator parameters.                                            *)
(***************************************************************************)
EXTENDS MCDisplay, TLAPS, WellFoundedInduction, SequenceTheorems, FiniteSetTheorems

-----------------------------------------------------------------------------
(* Induction.                                                              *)

(* A non-empty set of natural numbers has a least element.                 *)
LEMMA LeastNat ==
  ASSUME NEW T \in SUBSET Nat, T # {}
  PROVE  \E n \in T : \A m \in T : n <= m
<1>1. PICK x \in T : \A y \in T : ~ (<<y, x>> \in OpToRel(<, Nat))
  BY WFMin, NatLessThanWellFounded
<1>2. \A y \in T : ~ (y < x)
  BY <1>1 DEF OpToRel
<1> QED
  BY <1>2

(* What holds at 0 and is carried from one number to the next holds up to n.*)
LEMMA UpTo ==
  ASSUME NEW n \in Nat, NEW S, 0 \in S, \A i \in 1 .. n : i - 1 \in S => i \in S
  PROVE  \A i \in 0 .. n : i \in S
<1> DEFINE T == {i \in Nat : i <= n /\ i \notin S}
<1> SUFFICES ASSUME T # {} PROVE FALSE
  OBVIOUS
<1>1. PICK m \in T : \A k \in T : m <= k
  BY LeastNat
<1>2. m # 0
  OBVIOUS
<1>3. m - 1 \in Nat /\ m - 1 \notin T /\ m \in 1 .. n
  BY <1>1, <1>2
<1> QED
  BY <1>3

IsStep(g, X, n) == g \in [X \X (1 .. n) -> X]
IsRun(f, n, X, b, g) ==
  f \in [0 .. n -> X] /\ f[0] = b /\ \A i \in 1 .. n : f[i] = g[<<f[i - 1], i>>]

(* A loop over 1 .. n whose step g stays in X has a run.                   *)
LEMMA LoopExists ==
  ASSUME NEW n \in Nat, NEW X, NEW b \in X, NEW g, IsStep(g, X, n)
  PROVE  \E f : IsRun(f, n, X, b, g)
<1> USE DEF IsStep
<1> DEFINE Is(k, f) == /\ f \in [0 .. k -> X] /\ f[0] = b
                       /\ \A i \in 1 .. k : f[i] = g[<<f[i - 1], i>>]
           S == {k \in 0 .. n : \E f : Is(k, f)}
<1>1. 0 \in S
  <2>1. Is(0, [i \in 0 .. 0 |-> b])
    OBVIOUS
  <2>2. \E f : Is(0, f)
    BY <2>1
  <2> HIDE DEF Is
  <2> QED
    BY <2>2
<1>2. ASSUME NEW k \in 1 .. n, k - 1 \in S
      PROVE  k \in S
  <2>1. PICK f : Is(k - 1, f)
    BY <1>2
  <2> DEFINE h == [i \in 0 .. k |-> IF i < k THEN f[i] ELSE g[<<f[k - 1], k>>]]
  <2> HIDE DEF Is
  <2>2. k - 1 \in Nat /\ k - 1 >= 0 /\ k - 1 < k
    OBVIOUS
  <2>3. f \in [0 .. (k - 1) -> X] /\ f[0] = b
    BY <2>1 DEF Is
  <2>4. g[<<f[k - 1], k>>] \in X
    BY <2>2, <2>3
  <2>5. h \in [0 .. k -> X]
    BY <2>2, <2>3, <2>4
  <2>6. h[0] = b
    BY <2>3
  <2>7. ASSUME NEW i \in 1 .. k
        PROVE  h[i] = g[<<h[i - 1], i>>]
    <3>1. h[i - 1] = f[i - 1]
      OBVIOUS
    <3>2. CASE i = k
      <4>1. h[k] = g[<<f[k - 1], k>>]
        OBVIOUS
      <4> HIDE DEF h
      <4> QED
        BY <3>1, <3>2, <4>1
    <3>3. CASE i < k
      <4>1. h[i] = f[i]
        BY <3>3
      <4>2. i \in 1 .. (k - 1)
        BY <3>3
      <4>3. f[i] = g[<<f[i - 1], i>>]
        BY <2>1, <4>2 DEF Is
      <4> HIDE DEF h
      <4> QED
        BY <3>1, <4>1, <4>3
    <3> QED
      BY <3>2, <3>3, SMTT(40)
  <2>8. Is(k, h)
    BY <2>5, <2>6, <2>7 DEF Is
  <2> QED
    BY <2>8
<1> HIDE DEF S
<1>3. \A i \in 0 .. n : i \in S
  BY UpTo, <1>1, <1>2
<1>4. PICK f : Is(n, f)
  BY <1>3, SMTT(40) DEF S
<1> QED
  BY <1>4 DEF IsRun

-----------------------------------------------------------------------------
(* The terminal.  Its inductive invariant is its type, when the type says  *)
(* which glyphs a cell may hold: those of the last reset and, unless the   *)
(* alternate screen was entered twice, of the screen they are kept for.    *)

TermNat == 0 .. MaxDim
Colours == {Term!Default} \cup 0 .. 255
Attributes == {a \in {1, 3, 4, 7} : Term!Asked(a)}
Pens == [style : SUBSET Attributes, fg : Colours, bg : Colours]
GlyphsFor(s, n, gen) ==
  {Term!Blank, Term!Cont} \cup
    (IF n THEN {Term!Glyph("primary", gen), Term!Glyph("alt", gen)} ELSE {Term!Glyph(s, gen)})
ScreenOf(alt) == IF alt THEN "alt" ELSE "primary"
GridsOf(C, cols, rows) == [1 .. rows -> [1 .. cols -> C]]
CursorsIn(cols, rows) == [row : 0 .. Term!SatSub(rows, 1), col : 0 .. Term!SatSub(cols, 1)]
HistoriesOf(C) == {h \in Seq(Seq(C)) : Len(h) <= LineCap}
SavedOf(alt, C, cols, rows) ==
  IF alt THEN [some : {TRUE}, grid : GridsOf(C, cols, rows), cursor : CursorsIn(cols, rows),
               sgr : Pens]
  ELSE {Term!None}

Terms(cols, rows, alt, n, gen) ==
  [cols : {cols}, rows : {rows}, grid : GridsOf(GlyphsFor(ScreenOf(alt), n, gen), cols, rows),
   scrollback : HistoriesOf(GlyphsFor("primary", n, gen)), cursor : CursorsIn(cols, rows),
   modes : SUBSET Nat, alt : {alt}, saved : SavedOf(alt, GlyphsFor("primary", n, gen), cols, rows),
   sgr : Pens]

(* The terminal's inductive invariant.                                     *)
TermInv ==
  /\ resets \in 0 .. MaxResets /\ nested \in BOOLEAN
  /\ term.cols \in TermNat /\ term.rows \in TermNat /\ term.alt \in BOOLEAN
  /\ term \in Terms(term.cols, term.rows, term.alt, nested, resets)

(* And what follows from it of the events that panicked.                   *)
PanicInv == \A size \in panics : size[1] = 0 /\ size[2] > 0

(* Blanks, continuations and the screen's own glyphs are allowed.           *)
LEMMA BlankFits ==
  ASSUME NEW s \in {"primary", "alt"}, NEW n, NEW gen
  PROVE  {Term!Blank, Term!Cont, Term!Glyph(s, gen)} \subseteq GlyphsFor(s, n, gen)
BY DEF GlyphsFor

(* What the small arithmetic operators of the terminal return.             *)
LEMMA Saturating ==
  ASSUME NEW a \in Nat, NEW b \in Nat
  PROVE  /\ Term!SatSub(a, b) \in Nat /\ Term!SatSub(a, b) <= a
         /\ Term!SatAdd(a, b) \in Nat
         /\ Term!Min2(a, b) \in Nat /\ Term!Min2(a, b) <= a /\ Term!Min2(a, b) <= b
         /\ Term!Max2(a, b) \in Nat /\ Term!Max2(a, b) >= b /\ Term!Max2(a, b) >= a
BY DEF Term!SatSub, Term!SatAdd, Term!Min2, Term!Max2, Term!U16

(* A blank grid fits.                                                      *)
LEMMA BlankGridFits ==
  ASSUME NEW C, Term!Blank \in C, NEW cols \in Nat, NEW rows \in Nat
  PROVE  Term!MakeGrid(cols, rows) \in GridsOf(C, cols, rows)
BY DEF Term!MakeGrid, GridsOf

(* A fresh terminal satisfies the invariant.                               *)
LEMMA NewTerm ==
  ASSUME NEW cols \in TermNat, NEW rows \in TermNat, NEW gen
  PROVE  Term!New(cols, rows) \in Terms(cols, rows, FALSE, FALSE, gen)
<1>0. cols \in Nat /\ rows \in Nat
  BY TermAssumption DEF TermNat, Term!TerminalAssumption
<1>1. Term!MakeGrid(cols, rows) \in GridsOf(GlyphsFor(ScreenOf(FALSE), FALSE, gen), cols, rows)
  BY <1>0, BlankFits, BlankGridFits DEF ScreenOf
<1>2. <<>> \in HistoriesOf(GlyphsFor("primary", FALSE, gen))
  BY TermAssumption DEF HistoriesOf, Term!TerminalAssumption
<1>3. [row |-> 0, col |-> 0] \in CursorsIn(cols, rows)
  BY <1>0 DEF CursorsIn, Term!SatSub
<1>4. Term!FreshPen \in Pens
  BY DEF Term!FreshPen, Pens, Colours
<1>5. Term!None \in SavedOf(FALSE, GlyphsFor("primary", FALSE, gen), cols, rows)
  BY DEF SavedOf
<1> QED
  BY <1>1, <1>2, <1>3, <1>4, <1>5 DEF Terms, Term!New

(* A history with lines added keeps at most LineCap of them.                *)
LEMMA NewestFits ==
  ASSUME NEW C, NEW h \in HistoriesOf(C), NEW added \in Seq(Seq(C))
  PROVE  Term!Newest(h \o added) \in HistoriesOf(C)
<1> DEFINE s == h \o added
<1>1. s \in Seq(Seq(C)) /\ Len(s) \in Nat
  BY DEF HistoriesOf
<1>2. LineCap \in Nat
  BY TermAssumption DEF Term!TerminalAssumption
<1> DEFINE m == Term!SatSub(Len(s), LineCap) + 1
<1>3. m \in 1 .. (Len(s) + 1) /\ Len(s) - m + 1 <= LineCap
  BY <1>1, <1>2 DEF Term!SatSub
<1> HIDE DEF m, s
<1>4. SubSeq(s, m, Len(s)) \in Seq(Seq(C)) /\ Len(SubSeq(s, m, Len(s))) <= LineCap
  BY <1>1, <1>2, <1>3
<1> QED
  BY <1>4 DEF s, m, Term!Newest, HistoriesOf

(* Lines that leave the top of the active grid.                            *)
LEMMA ShedFits ==
  ASSUME NEW cols, NEW rows, NEW alt \in BOOLEAN, NEW n \in BOOLEAN, NEW gen,
         NEW t \in Terms(cols, rows, alt, n, gen),
         NEW added \in Seq(Seq(GlyphsFor(ScreenOf(alt), n, gen)))
  PROVE  /\ Term!Shed(t, added) \in Terms(cols, rows, alt, n, gen)
         /\ Term!Shed(t, added).grid = t.grid
<1>1. CASE alt
  BY <1>1 DEF Term!Shed, Terms
<1>2. CASE ~alt
  <2> DEFINE C == GlyphsFor("primary", n, gen)
  <2>1. t.scrollback \in HistoriesOf(C) /\ added \in Seq(Seq(C)) /\ ~t.alt
    BY <1>2 DEF Terms, ScreenOf
  <2>2. Term!Newest(t.scrollback \o added) \in HistoriesOf(C)
    BY <2>1, NewestFits
  <2>3. Term!Shed(t, added) = [t EXCEPT !.scrollback = Term!Newest(t.scrollback \o added)]
    BY <2>1 DEF Term!Shed
  <2> HIDE DEF C
  <2>4. QED
    BY <2>2, <2>3 DEF Terms, C
<1> QED
  BY <1>1, <1>2

(* A new grid of the same size and kind.                                   *)
LEMMA RegridFits ==
  ASSUME NEW cols, NEW rows, NEW alt \in BOOLEAN, NEW n \in BOOLEAN, NEW gen,
         NEW t \in Terms(cols, rows, alt, n, gen),
         NEW g \in GridsOf(GlyphsFor(ScreenOf(alt), n, gen), cols, rows)
  PROVE  [t EXCEPT !.grid = g] \in Terms(cols, rows, alt, n, gen)
BY DEF Terms

(* A new cursor inside the grid.                                           *)
LEMMA RecursorFits ==
  ASSUME NEW cols, NEW rows, NEW alt \in BOOLEAN, NEW n \in BOOLEAN, NEW gen,
         NEW t \in Terms(cols, rows, alt, n, gen), NEW c \in CursorsIn(cols, rows)
  PROVE  [t EXCEPT !.cursor = c] \in Terms(cols, rows, alt, n, gen)
BY DEF Terms

(* The cursor moved to another column of the grid.                         *)
LEMMA ColFits ==
  ASSUME NEW cols \in Nat, NEW rows \in Nat, NEW alt \in BOOLEAN, NEW n \in BOOLEAN, NEW gen,
         NEW t \in Terms(cols, rows, alt, n, gen), NEW k \in 0 .. Term!SatSub(cols, 1)
  PROVE  [t EXCEPT !.cursor.col = k] \in Terms(cols, rows, alt, n, gen)
<1>1. t.cursor \in CursorsIn(cols, rows)
  BY DEF Terms
<1>2. [t.cursor EXCEPT !.col = k] \in CursorsIn(cols, rows)
  BY <1>1 DEF CursorsIn
<1>3. [t EXCEPT !.cursor.col = k] = [t EXCEPT !.cursor = [t.cursor EXCEPT !.col = k]]
  OBVIOUS
<1> QED
  BY <1>2, <1>3, RecursorFits

(* The cursor moved to another row of the grid.                            *)
LEMMA RowFits ==
  ASSUME NEW cols \in Nat, NEW rows \in Nat, NEW alt \in BOOLEAN, NEW n \in BOOLEAN, NEW gen,
         NEW t \in Terms(cols, rows, alt, n, gen), NEW k \in 0 .. Term!SatSub(rows, 1)
  PROVE  [t EXCEPT !.cursor.row = k] \in Terms(cols, rows, alt, n, gen)
<1>1. t.cursor \in CursorsIn(cols, rows)
  BY DEF Terms
<1>2. [t.cursor EXCEPT !.row = k] \in CursorsIn(cols, rows)
  BY <1>1 DEF CursorsIn
<1>3. [t EXCEPT !.cursor.row = k] = [t EXCEPT !.cursor = [t.cursor EXCEPT !.row = k]]
  OBVIOUS
<1> QED
  BY <1>2, <1>3, RecursorFits

(* scroll_up keeps the invariant.                                          *)
LEMMA ScrollUpFits ==
  ASSUME NEW cols \in Nat, NEW rows \in Nat, NEW alt \in BOOLEAN, NEW n \in BOOLEAN, NEW gen,
         NEW t \in Terms(cols, rows, alt, n, gen)
  PROVE  Term!ScrollUp(t) \in Terms(cols, rows, alt, n, gen)
<1> DEFINE C == GlyphsFor(ScreenOf(alt), n, gen)
<1>0. t.rows = rows /\ t.cols = cols /\ t.grid \in GridsOf(C, cols, rows)
  BY DEF Terms
<1>1. CASE rows = 0
  BY <1>0, <1>1 DEF Term!ScrollUp
<1>2. CASE rows > 0
  <2> DEFINE line == [c \in 1 .. t.cols |-> Term!Blank]
             s == Term!Shed(t, <<t.grid[1]>>)
             g == Append(Tail(t.grid), line)
  <2>0. Term!Blank \in C
    BY BlankFits DEF ScreenOf
  <2> HIDE DEF C
  <2>1. t.grid[1] \in [1 .. cols -> C]
    BY <1>0, <1>2 DEF GridsOf
  <2>2. t.grid[1] \in Seq(C)
    BY <2>1, IsASeq
  <2>3. <<t.grid[1]>> \in Seq(Seq(C))
    BY <2>2
  <2>4. s \in Terms(cols, rows, alt, n, gen)
    BY <2>3, ShedFits DEF C
  <2>5. line \in [1 .. cols -> C]
    BY <1>0, <2>0
  <2>6. g \in GridsOf(C, cols, rows)
    <3>1. t.grid \in Seq([1 .. cols -> C]) /\ Len(t.grid) = rows
      BY <1>0, IsASeq, SMTT(40) DEF GridsOf
    <3> HIDE DEF line
    <3>2. Tail(t.grid) \in Seq([1 .. cols -> C]) /\ Len(Tail(t.grid)) = rows - 1
      BY <3>1, <1>2
    <3>3. g \in Seq([1 .. cols -> C]) /\ Len(g) = rows
      BY <2>5, <3>2, <1>2
    <3> HIDE DEF g
    <3> QED
      BY <3>3 DEF GridsOf
  <2>7. Term!ScrollUp(t) = [s EXCEPT !.grid = g]
    BY <1>0, <1>2 DEF Term!ScrollUp
  <2> HIDE DEF s, g
  <2> QED
    BY <2>4, <2>6, <2>7, RegridFits DEF C
<1> QED
  BY <1>1, <1>2

(* lf keeps the invariant.                                                 *)
LEMMA LfFits ==
  ASSUME NEW cols \in Nat, NEW rows \in Nat, NEW alt \in BOOLEAN, NEW n \in BOOLEAN, NEW gen,
         NEW t \in Terms(cols, rows, alt, n, gen)
  PROVE  Term!Lf(t) \in Terms(cols, rows, alt, n, gen)
<1>1. t.rows = rows /\ t.cursor \in CursorsIn(cols, rows)
  BY DEF Terms
<1>2. t.cursor.row \in Nat /\ t.cursor.row <= Term!SatSub(rows, 1)
  BY <1>1 DEF CursorsIn, Term!SatSub
<1>3. CASE t.cursor.row + 1 >= rows
  BY <1>1, <1>3, ScrollUpFits DEF Term!Lf
<1>4. CASE ~(t.cursor.row + 1 >= rows)
  <2>1. t.cursor.row + 1 \in 0 .. Term!SatSub(rows, 1)
    BY <1>2, <1>4 DEF Term!SatSub
  <2>2. Term!Lf(t) = [t EXCEPT !.cursor.row = t.cursor.row + 1]
    BY <1>1, <1>4 DEF Term!Lf
  <2> QED
    BY <2>1, <2>2, RowFits, SMTT(40)
<1> QED
  BY <1>3, <1>4

(* print_char keeps the invariant when the glyph is of the active screen.  *)
LEMMA PrintCharFits ==
  ASSUME NEW cols \in Nat, NEW rows \in Nat, NEW alt \in BOOLEAN, NEW n \in BOOLEAN, NEW gen,
         NEW t \in Terms(cols, rows, alt, n, gen), NEW width \in {0, 1, 2}
  PROVE  Term!PrintChar(t, Term!Glyph(ScreenOf(alt), gen), width) \in Terms(cols, rows, alt, n, gen)
<1> DEFINE C == GlyphsFor(ScreenOf(alt), n, gen)
           g == Term!Glyph(ScreenOf(alt), gen)
           row == Term!Min2(t.cursor.row, Term!SatSub(t.rows, 1)) + 1
           col == Term!Min2(t.cursor.col, Term!SatSub(t.cols, 1)) + 1
           inGrid == row <= Len(t.grid) /\ col <= Len(t.grid[row])
           line == [c \in DOMAIN t.grid[row] |->
                      IF c = col THEN g
                      ELSE IF width = 2 /\ c = col + 1 THEN Term!Cont
                      ELSE t.grid[row][c]]
           written == IF inGrid THEN [t EXCEPT !.grid[row] = line] ELSE t
           next == Term!SatAdd(t.cursor.col, width)
<1>0. t.cols = cols /\ t.grid \in GridsOf(C, cols, rows) /\ t.cursor \in CursorsIn(cols, rows)
      /\ t.rows = rows
  BY DEF Terms
<1>1. Term!Cont \in C /\ g \in C
  BY BlankFits DEF ScreenOf
<1>2. t.cursor.col \in Nat /\ t.cursor.row \in Nat
  BY <1>0 DEF CursorsIn, Term!SatSub
<1>3. row \in Nat \ {0} /\ col \in Nat \ {0}
  BY <1>0, <1>2 DEF Term!Min2, Term!SatSub
<1>4. next \in Nat
  BY <1>2 DEF Term!SatAdd, Term!Min2, Term!U16
<1>5. Term!PrintChar(t, g, width) =
        IF width = 0 THEN t
        ELSE IF next >= t.cols THEN Term!Lf([written EXCEPT !.cursor.col = 0])
        ELSE [written EXCEPT !.cursor.col = next]
  BY DEF Term!PrintChar
<1> HIDE DEF C, g, row, col, next
<1>6. written \in Terms(cols, rows, alt, n, gen)
  <2>1. CASE ~inGrid
    BY <2>1
  <2>2. CASE inGrid
    <3>1. row \in 1 .. rows
      BY <1>0, <1>3, <2>2 DEF GridsOf
    <3>2. t.grid[row] \in [1 .. cols -> C]
      BY <1>0, <3>1 DEF GridsOf
    <3>3. line \in [1 .. cols -> C]
      BY <1>1, <3>2
    <3> HIDE DEF line
    <3>4. [t.grid EXCEPT ![row] = line] \in GridsOf(C, cols, rows)
      BY <1>0, <3>1, <3>3 DEF GridsOf
    <3>5. written = [t EXCEPT !.grid = [t.grid EXCEPT ![row] = line]]
      BY <2>2
    <3> QED
      BY <3>4, <3>5, RegridFits DEF C
  <2> QED
    BY <2>1, <2>2
<1> HIDE DEF written
<1>7. [written EXCEPT !.cursor.col = 0] \in Terms(cols, rows, alt, n, gen)
  <2>1. 0 \in 0 .. Term!SatSub(cols, 1)
    BY DEF Term!SatSub
  <2> QED
    BY <1>6, <2>1, ColFits
<1>8. Term!Lf([written EXCEPT !.cursor.col = 0]) \in Terms(cols, rows, alt, n, gen)
  BY <1>7, LfFits
<1>9. ASSUME ~(next >= t.cols)
      PROVE  [written EXCEPT !.cursor.col = next] \in Terms(cols, rows, alt, n, gen)
  <2>1. next \in 0 .. Term!SatSub(cols, 1)
    BY <1>0, <1>4, <1>9 DEF Term!SatSub
  <2> QED
    BY <1>6, <2>1, ColFits
<1> QED
  BY <1>5, <1>8, <1>9 DEF g

(* execute keeps the invariant.                                            *)
LEMMA ExecuteFits ==
  ASSUME NEW cols \in Nat, NEW rows \in Nat, NEW alt \in BOOLEAN, NEW n \in BOOLEAN, NEW gen,
         NEW t \in Terms(cols, rows, alt, n, gen), NEW byte \in {"CR", "LF", "BS", "BEL"}
  PROVE  Term!Execute(t, byte) \in Terms(cols, rows, alt, n, gen)
<1>0. t.cursor \in CursorsIn(cols, rows)
  BY DEF Terms
<1>1. 0 \in 0 .. Term!SatSub(cols, 1) /\ Term!SatSub(t.cursor.col, 1) \in 0 .. Term!SatSub(cols, 1)
  BY <1>0 DEF CursorsIn, Term!SatSub
<1>2. CASE byte = "CR"
  <2>1. Term!Execute(t, byte) = [t EXCEPT !.cursor.col = 0]
    BY <1>2 DEF Term!Execute
  <2> QED
    BY <1>1, <2>1, ColFits, SMTT(40)
<1>3. CASE byte = "LF"
  <2>1. Term!Execute(t, byte) = Term!Lf(t)
    BY <1>3 DEF Term!Execute
  <2> QED
    BY <2>1, LfFits
<1>4. CASE byte = "BS"
  <2>1. Term!Execute(t, byte) = [t EXCEPT !.cursor.col = Term!SatSub(t.cursor.col, 1)]
    BY <1>4 DEF Term!Execute
  <2> QED
    BY <1>1, <2>1, ColFits, SMTT(40)
<1>5. CASE byte = "BEL"
  BY <1>5 DEF Term!Execute
<1> QED
  BY <1>2, <1>3, <1>4, <1>5

(* Cursor motions keep the invariant.                                      *)
LEMMA MotionFits ==
  ASSUME NEW cols \in Nat, NEW rows \in Nat, NEW alt \in BOOLEAN, NEW n \in BOOLEAN, NEW gen,
         NEW t \in Terms(cols, rows, alt, n, gen), NEW dir \in {"A", "B", "C", "D"}, NEW k \in Nat
  PROVE  Term!Motion(t, dir, k) \in Terms(cols, rows, alt, n, gen)
<1>0. t.cursor \in CursorsIn(cols, rows) /\ t.cols = cols /\ t.rows = rows
  BY DEF Terms
<1> DEFINE m == Term!CursorCount(k)
<1>1. m \in Nat
  BY DEF Term!CursorCount, Term!Max2
<1> HIDE DEF m
<1>2. /\ Term!SatSub(t.cursor.row, m) \in 0 .. Term!SatSub(rows, 1)
      /\ Term!SatSub(t.cursor.col, m) \in 0 .. Term!SatSub(cols, 1)
  BY <1>0, <1>1 DEF CursorsIn, Term!SatSub
<1>3. /\ Term!Min2(Term!SatAdd(t.cursor.row, m), Term!SatSub(t.rows, 1)) \in 0 .. Term!SatSub(rows, 1)
      /\ Term!Min2(Term!SatAdd(t.cursor.col, m), Term!SatSub(t.cols, 1)) \in 0 .. Term!SatSub(cols, 1)
  BY <1>0, <1>1 DEF CursorsIn, Term!SatSub, Term!SatAdd, Term!Min2, Term!U16
<1>4. CASE dir = "A"
  <2>1. PICK x \in 0 .. Term!SatSub(rows, 1) : Term!Motion(t, dir, k) = [t EXCEPT !.cursor.row = x]
    BY <1>2, <1>4 DEF Term!Motion, m
  <2>2. [t EXCEPT !.cursor.row = x] \in Terms(cols, rows, alt, n, gen)
    BY RowFits
  <2> QED
    BY <2>1, <2>2
<1>5. CASE dir = "B"
  <2>1. PICK x \in 0 .. Term!SatSub(rows, 1) : Term!Motion(t, dir, k) = [t EXCEPT !.cursor.row = x]
    BY <1>3, <1>5 DEF Term!Motion, m
  <2>2. [t EXCEPT !.cursor.row = x] \in Terms(cols, rows, alt, n, gen)
    BY RowFits
  <2> QED
    BY <2>1, <2>2
<1>6. CASE dir = "C"
  <2>1. PICK x \in 0 .. Term!SatSub(cols, 1) : Term!Motion(t, dir, k) = [t EXCEPT !.cursor.col = x]
    BY <1>3, <1>6 DEF Term!Motion, m
  <2> QED
    BY <2>1, ColFits, SMTT(40)
<1>7. CASE dir = "D"
  <2>1. PICK x \in 0 .. Term!SatSub(cols, 1) : Term!Motion(t, dir, k) = [t EXCEPT !.cursor.col = x]
    BY <1>2, <1>7 DEF Term!Motion, m
  <2> QED
    BY <2>1, ColFits, SMTT(40)
<1> QED
  BY <1>4, <1>5, <1>6, <1>7

(* CSI H keeps the invariant.                                              *)
LEMMA CursorPositionFits ==
  ASSUME NEW cols \in Nat, NEW rows \in Nat, NEW alt \in BOOLEAN, NEW n \in BOOLEAN, NEW gen,
         NEW t \in Terms(cols, rows, alt, n, gen), NEW p \in Nat \X Nat
  PROVE  Term!CursorPosition(t, p) \in Terms(cols, rows, alt, n, gen)
<1>0. t.cols = cols /\ t.rows = rows
  BY DEF Terms
<1> DEFINE c == [row |-> Term!Min2(Term!Max2(p[1], 1) - 1, Term!SatSub(t.rows, 1)),
                 col |-> Term!Min2(Term!Max2(p[2], 1) - 1, Term!SatSub(t.cols, 1))]
<1>1. c \in CursorsIn(cols, rows)
  BY <1>0 DEF CursorsIn, Term!Min2, Term!Max2, Term!SatSub
<1>2. Term!CursorPosition(t, p) = [t EXCEPT !.cursor = c]
  BY DEF Term!CursorPosition
<1> HIDE DEF c
<1> QED
  BY <1>1, <1>2, RecursorFits

(* Erasing keeps the invariant, whatever is erased.                        *)
LEMMA EraseFits ==
  ASSUME NEW cols \in Nat, NEW rows \in Nat, NEW alt \in BOOLEAN, NEW n \in BOOLEAN, NEW gen,
         NEW t \in Terms(cols, rows, alt, n, gen), NEW E
  PROVE  Term!Erase(t, E) \in Terms(cols, rows, alt, n, gen)
<1> DEFINE C == GlyphsFor(ScreenOf(alt), n, gen)
           g == [r \in DOMAIN t.grid |-> [c \in DOMAIN t.grid[r] |->
                   IF <<r - 1, c - 1>> \in E THEN Term!Blank ELSE t.grid[r][c]]]
<1>1. t.grid \in GridsOf(C, cols, rows)
  BY DEF Terms
<1>2. Term!Blank \in C
  BY BlankFits DEF ScreenOf
<1> HIDE DEF C
<1>3. g \in GridsOf(C, cols, rows)
  <2>1. ASSUME NEW r \in 1 .. rows
        PROVE  [c \in DOMAIN t.grid[r] |->
                  IF <<r - 1, c - 1>> \in E THEN Term!Blank ELSE t.grid[r][c]] \in [1 .. cols -> C]
    BY <1>1, <1>2 DEF GridsOf
  <2>2. DOMAIN t.grid = 1 .. rows
    BY <1>1 DEF GridsOf
  <2> QED
    BY <2>1, <2>2 DEF GridsOf
<1>4. Term!Erase(t, E) = [t EXCEPT !.grid = g]
  BY DEF Term!Erase
<1> HIDE DEF g
<1> QED
  BY <1>3, <1>4, RegridFits DEF C

(* Both erasures erase a set of cells; one also drops the history.         *)
LEMMA EraseDisplayFits ==
  ASSUME NEW cols \in Nat, NEW rows \in Nat, NEW alt \in BOOLEAN, NEW n \in BOOLEAN, NEW gen,
         NEW t \in Terms(cols, rows, alt, n, gen), NEW k \in 0 .. 3
  PROVE  /\ Term!EraseDisplay(t, k) \in Terms(cols, rows, alt, n, gen)
         /\ Term!EraseLine(t, k) \in Terms(cols, rows, alt, n, gen)
<1>1. \A E : Term!Erase(t, E) \in Terms(cols, rows, alt, n, gen)
  BY EraseFits
<1>2. <<>> \in HistoriesOf(GlyphsFor("primary", n, gen))
  BY TermAssumption DEF HistoriesOf, Term!TerminalAssumption
<1>3. \A u \in Terms(cols, rows, alt, n, gen) :
        [u EXCEPT !.scrollback = <<>>] \in Terms(cols, rows, alt, n, gen)
  BY <1>2 DEF Terms
<1>4. Term!EraseDisplay(t, k) \in Terms(cols, rows, alt, n, gen)
  BY <1>1, <1>3 DEF Term!EraseDisplay
<1>5. Term!EraseLine(t, k) \in Terms(cols, rows, alt, n, gen)
  BY <1>1 DEF Term!EraseLine
<1> QED
  BY <1>4, <1>5

(* One code, and one extended colour, leave a pen.                          *)
LEMMA SgrCodeIsPen ==
  ASSUME NEW pen \in Pens, NEW code \in Nat, code \in {1, 3, 4, 7} => Term!Asked(code)
  PROVE  Term!SgrCode(pen, code) \in Pens
<1>1. Term!FreshPen \in Pens
  BY DEF Term!FreshPen, Pens, Colours
<1>2. ASSUME NEW S \in SUBSET Attributes PROVE [pen EXCEPT !.style = S] \in Pens
  BY DEF Pens
<1>3. ASSUME NEW c \in Colours
      PROVE [pen EXCEPT !.fg = c] \in Pens /\ [pen EXCEPT !.bg = c] \in Pens
  BY DEF Pens
<1>4. pen.style \in SUBSET Attributes
  BY DEF Pens
<1>a. code \in {1, 3, 4, 7} => code \in Attributes
  BY DEF Attributes
<1>5. /\ code \in {1, 3, 4, 7} => pen.style \cup {code} \in SUBSET Attributes
      /\ pen.style \ {1} \in SUBSET Attributes /\ pen.style \ {code - 20} \in SUBSET Attributes
  BY <1>4, <1>a
<1>6. /\ code \in 30 .. 37 => code - 30 \in Colours
      /\ code \in 40 .. 47 => code - 40 \in Colours
      /\ code \in 90 .. 97 => code - 90 + 8 \in Colours
      /\ code \in 100 .. 107 => code - 100 + 8 \in Colours
      /\ Term!Default \in Colours
  BY DEF Colours
<1> HIDE DEF Pens, Colours, Term!Default
<1> QED
  BY <1>1, <1>2, <1>3, <1>5, <1>6, ZenonT(40) DEF Term!SgrCode

(* See above.                                                               *)
LEMMA ExtendedIsPen ==
  ASSUME NEW pen \in Pens, NEW ps \in Seq(Nat), NEW i \in 1 .. Len(ps)
  PROVE  Term!ExtendedColour(pen, ps, i) \in Pens /\ Term!SgrArgs(ps, i) \in Nat
<1>1. CASE i + 2 <= Len(ps) /\ ps[i + 1] = 5 /\ ps[i + 2] <= 255
  <2>1. i + 2 \in 1 .. Len(ps)
    BY <1>1
  <2>2. ps[i + 2] \in Nat
    BY <2>1, ElementOfSeq
  <2>4. ps[i + 2] <= 255
    BY <1>1
  <2>5. ps[i + 2] \in Colours
    <3>1. \A c \in Nat : c <= 255 => c \in Colours
      BY DEF Colours
    <3> QED
      BY <2>2, <2>4, <3>1
  <2>3. [pen EXCEPT !.fg = ps[i + 2]] \in Pens /\ [pen EXCEPT !.bg = ps[i + 2]] \in Pens
    BY <2>5 DEF Pens
  <2> QED
    BY <1>1, <2>3 DEF Term!ExtendedColour, Term!SgrArgs
<1>2. CASE ~(i + 2 <= Len(ps) /\ ps[i + 1] = 5 /\ ps[i + 2] <= 255)
  BY <1>2 DEF Term!ExtendedColour, Term!SgrArgs
<1> QED
  BY <1>1, <1>2

\* The pen after the first i parameters of ps, and how many of the next are still to be
\* skipped: none before a colour, and what is left of the first if it is 24-bit.
SgrAccs == [pen : Pens, skip : Nat]
SgrOK(x, ps, i) ==
  /\ (\A k \in 1 .. i : ps[k] \notin {38, 48}) => x.skip = 0
  /\ \A j \in 1 .. i : Term!FirstRgb(ps, j) /\ i <= j + 4 => x.skip = (j + 4) - i

(* One parameter.                                                          *)
LEMMA SgrStepIs ==
  ASSUME NEW ps \in SgrInputs, NEW i \in 1 .. Len(ps), NEW x \in SgrAccs, SgrOK(x, ps, i - 1)
  PROVE  Term!SgrStep(x, ps, i) \in SgrAccs /\ SgrOK(Term!SgrStep(x, ps, i), ps, i)
<1> DEFINE y == Term!SgrStep(x, ps, i)
<1>1. ps \in Seq(Nat) /\ Len(ps) \in Nat
  BY TermAssumption DEF Term!TerminalAssumption
<1>2. ps[i] \in Nat /\ x.pen \in Pens /\ x.skip \in Nat /\ x = [pen |-> x.pen, skip |-> x.skip]
  BY <1>1, ElementOfSeq DEF SgrAccs
<1>3. ASSUME \A k \in 1 .. (i - 1) : ps[k] \notin {38, 48} PROVE x.skip = 0
  BY <1>3 DEF SgrOK
<1>4. ASSUME NEW j \in 1 .. (i - 1), Term!FirstRgb(ps, j), i <= j + 4
      PROVE  x.skip = (j + 5) - i
  <2>1. i - 1 <= j + 4 /\ (j + 4) - (i - 1) = (j + 5) - i
    BY <1>1, <1>4
  <2> QED
    BY <1>4, <2>1 DEF SgrOK
<1>5. ASSUME Term!FirstRgb(ps, i) PROVE x.skip = 0 /\ ps[i] \in {38, 48} /\ Term!SgrArgs(ps, i) = 4
  <2>1. \A k \in 1 .. (i - 1) : ps[k] \notin {38, 48}
    BY <1>5 DEF Term!FirstRgb
  <2>2. i # Len(ps) /\ ps[i + 1] = 2
    BY <1>1, <1>5 DEF Term!FirstRgb
  <2>3. Term!SgrArgs(ps, i) = 4
    BY <2>2 DEF Term!SgrArgs
  <2> QED
    BY <1>3, <1>5, <2>1, <2>3 DEF Term!FirstRgb
<1>6. (\A k \in 1 .. i : ps[k] \notin {38, 48}) => x.skip = 0 /\ ps[i] \notin {38, 48}
  <2>1. i \in 1 .. i /\ \A k \in 1 .. (i - 1) : k \in 1 .. i
    BY <1>1
  <2> QED
    BY <1>3, <2>1
<1>7. ASSUME NEW z \in Nat,
             (\A k \in 1 .. i : ps[k] \notin {38, 48}) => z = 0,
             Term!FirstRgb(ps, i) => z = 4,
             \A j \in 1 .. (i - 1) : Term!FirstRgb(ps, j) /\ i <= j + 4 => z = (j + 4) - i,
             y.skip = z
      PROVE  SgrOK(y, ps, i)
  <2>1. ASSUME NEW j \in 1 .. i, Term!FirstRgb(ps, j), i <= j + 4 PROVE z = (j + 4) - i
    <3>1. CASE j = i
      <4>1. (j + 4) - i = 4
        BY <1>1, <3>1
      <4> QED
        BY <1>7, <2>1, <3>1, <4>1
    <3>2. CASE j # i
      <4>1. j \in 1 .. (i - 1)
        BY <1>1, <3>2
      <4> QED
        BY <1>7, <2>1, <4>1
    <3> QED
      BY <3>1, <3>2
  <2> HIDE DEF y
  <2> QED
    BY <1>7, <2>1 DEF SgrOK
<1>8. CASE x.skip > 0
  <2>1. y = [pen |-> x.pen, skip |-> x.skip - 1] /\ x.skip - 1 \in Nat
    BY <1>2, <1>8 DEF Term!SgrStep
  <2> HIDE DEF y
  <2>2. y \in SgrAccs /\ y.skip = x.skip - 1
    BY <1>2, <2>1 DEF SgrAccs
  <2>3. \A j \in 1 .. (i - 1) :
          Term!FirstRgb(ps, j) /\ i <= j + 4 => x.skip - 1 = (j + 4) - i
    <3> SUFFICES ASSUME NEW j \in 1 .. (i - 1), Term!FirstRgb(ps, j), i <= j + 4
                 PROVE  x.skip - 1 = (j + 4) - i
      OBVIOUS
    <3>1. x.skip = (j + 5) - i
      BY <1>4
    <3> QED
      BY <1>1, <1>2, <3>1
  <2> QED
    BY <1>5, <1>6, <1>7, <1>8, <2>1, <2>2, <2>3 DEF y
<1>9. CASE x.skip = 0 /\ ps[i] \in {38, 48}
  <2> DEFINE p == Term!ExtendedColour(x.pen, ps, i)
             z == Term!SgrArgs(ps, i)
  <2>1. p \in Pens /\ z \in Nat
    BY <1>1, <1>2, ExtendedIsPen
  <2>2. y = [pen |-> p, skip |-> z]
    BY <1>9 DEF Term!SgrStep
  <2> HIDE DEF p, z, y
  <2>3. y \in SgrAccs /\ y.skip = z
    BY <2>1, <2>2 DEF SgrAccs
  <2>4. Term!FirstRgb(ps, i) => z = 4
    BY <1>5 DEF z
  <2>5. \A j \in 1 .. (i - 1) : ~ (Term!FirstRgb(ps, j) /\ i <= j + 4)
    <3> SUFFICES ASSUME NEW j \in 1 .. (i - 1), Term!FirstRgb(ps, j), i <= j + 4 PROVE FALSE
      OBVIOUS
    <3>1. 0 = (j + 5) - i
      BY <1>4, <1>9
    <3> QED
      BY <1>1, <3>1
  <2> QED
    BY <1>6, <1>7, <1>9, <2>1, <2>3, <2>4, <2>5 DEF y
<1>10. CASE x.skip = 0 /\ ps[i] \notin {38, 48}
  <2>1. \A j \in 1 .. (i - 1) : ~ (Term!FirstRgb(ps, j) /\ i <= j + 4)
    <3> SUFFICES ASSUME NEW j \in 1 .. (i - 1), Term!FirstRgb(ps, j), i <= j + 4 PROVE FALSE
      OBVIOUS
    <3>1. 0 = (j + 5) - i
      BY <1>4, <1>10
    <3> QED
      BY <1>1, <3>1
  <2>2. ~ Term!InFirstRgb(ps, i)
    <3> SUFFICES ASSUME NEW j \in 1 .. (i - 2), i <= j + 4, Term!FirstRgb(ps, j) PROVE FALSE
      BY DEF Term!InFirstRgb
    <3>1. j \in 1 .. (i - 1)
      BY <1>1
    <3> QED
      BY <2>1, <3>1
  <2>3. Term!Asked(ps[i])
    <3>1. i \in DOMAIN ps
      BY <1>1
    <3> QED
      BY <2>2, <3>1 DEF Term!Asked
  <2> DEFINE p == Term!SgrCode(x.pen, ps[i])
  <2>4. p \in Pens
    BY <1>2, <2>3, SgrCodeIsPen
  <2>5. y = [pen |-> p, skip |-> 0]
    <3> HIDE DEF p
    <3>1. y = [x EXCEPT !.pen = p]
      BY <1>10 DEF Term!SgrStep, p
    <3> HIDE DEF y
    <3> QED
      BY <1>2, <1>10, <3>1
  <2> HIDE DEF p, y
  <2>6. y \in SgrAccs /\ y.skip = 0
    BY <2>4, <2>5 DEF SgrAccs
  <2>7. 0 \in Nat /\ ~ Term!FirstRgb(ps, i)
    BY <1>5, <1>10
  <2> QED
    BY <1>7, <2>1, <2>6, <2>7 DEF y
<1> QED
  BY <1>2, <1>8, <1>9, <1>10

(* handle_sgr leaves a pen, whatever its parameters.                       *)
LEMMA HandleSgrIsPen ==
  ASSUME NEW pen \in Pens, NEW ps \in SgrInputs
  PROVE  Term!HandleSgr(pen, ps) \in Pens
<1> DEFINE X == SgrAccs
           b == [pen |-> pen, skip |-> 0]
           n == Len(ps)
           after[i \in 0 .. n] == IF i = 0 THEN b ELSE Term!SgrStep(after[i - 1], ps, i)
           Y == {x \in X \X (1 .. n) : SgrOK(x[1], ps, x[2] - 1)}
           g == [x \in X \X (1 .. n) |-> IF x \in Y THEN Term!SgrStep(x[1], ps, x[2]) ELSE b]
<1>0. n \in Nat /\ n = Len(ps)
  BY TermAssumption DEF Term!TerminalAssumption
<1> HIDE DEF n
<1>1. n \in Nat /\ b \in X
  BY <1>0 DEF SgrAccs
<1>2. ASSUME NEW x \in X, NEW i \in 1 .. n, SgrOK(x, ps, i - 1)
      PROVE  Term!SgrStep(x, ps, i) \in X /\ SgrOK(Term!SgrStep(x, ps, i), ps, i)
  BY <1>0, <1>2, SgrStepIs
<1>5. SgrOK(b, ps, 0)
  <2>1. b.skip = 0 /\ 1 .. 0 = {}
    OBVIOUS
  <2> HIDE DEF b
  <2> QED
    BY <2>1 DEF SgrOK
<1> HIDE DEF X, b
<1>3. IsStep(g, X, n)
  BY <1>1, <1>2 DEF IsStep
<1>4. PICK f : IsRun(f, n, X, b, g)
  <2> HIDE DEF g
  <2> QED
    BY <1>1, <1>3, LoopExists
<1>6. \A i \in 0 .. n : f[i] \in X /\ SgrOK(f[i], ps, i)
      /\ (i # 0 => f[i] = Term!SgrStep(f[i - 1], ps, i))
  <2> DEFINE D == {i \in 0 .. n : f[i] \in X /\ SgrOK(f[i], ps, i)
                                  /\ (i # 0 => f[i] = Term!SgrStep(f[i - 1], ps, i))}
  <2>1. 0 \in D
    BY <1>1, <1>4, <1>5 DEF IsRun
  <2>2. ASSUME NEW i \in 1 .. n, i - 1 \in D PROVE i \in D
    <3>1. f[i - 1] \in X /\ SgrOK(f[i - 1], ps, i - 1) /\ i \in 0 .. n /\ i # 0
      BY <1>1, <2>2
    <3>2. f[i] = g[<<f[i - 1], i>>]
      BY <1>4 DEF IsRun
    <3>3. f[i] = Term!SgrStep(f[i - 1], ps, i)
      BY <3>1, <3>2
    <3> QED
      BY <1>2, <3>1, <3>3
  <2> HIDE DEF D
  <2>3. \A i \in 0 .. n : i \in D
    BY <1>1, <2>1, <2>2, UpTo
  <2> QED
    BY <2>3 DEF D
<1>7. f = [i \in 0 .. n |-> IF i = 0 THEN b ELSE Term!SgrStep(f[i - 1], ps, i)]
  <2>1. \A i \in 0 .. n : f[i] = IF i = 0 THEN b ELSE Term!SgrStep(f[i - 1], ps, i)
    BY <1>4, <1>6 DEF IsRun
  <2>2. f = [i \in 0 .. n |-> f[i]]
    BY <1>4 DEF IsRun
  <2> HIDE DEF g, Y
  <2> QED
    BY <2>1, <2>2
<1>8. after = [i \in 0 .. n |-> IF i = 0 THEN b ELSE Term!SgrStep(after[i - 1], ps, i)]
  BY <1>7, Zenon
<1>9. after[n] \in X
  <2> HIDE DEF after
  <2> DEFINE D == {i \in 0 .. n : after[i] \in X /\ SgrOK(after[i], ps, i)}
  <2>1. 0 \in D
    <3>1. after[0] = b /\ 0 \in 0 .. n
      BY <1>1, <1>8
    <3> QED
      BY <1>1, <1>5, <3>1
  <2>2. ASSUME NEW i \in 1 .. n, i - 1 \in D PROVE i \in D
    <3>1. after[i - 1] \in X /\ SgrOK(after[i - 1], ps, i - 1) /\ i \in 0 .. n /\ i # 0
      BY <1>1, <2>2
    <3>2. after[i] = Term!SgrStep(after[i - 1], ps, i)
      BY <1>8, <3>1
    <3> QED
      BY <1>2, <3>1, <3>2
  <2> HIDE DEF D
  <2>3. \A i \in 0 .. n : i \in D
    BY <1>1, <2>1, <2>2, UpTo
  <2>4. n \in D
    BY <1>1, <2>3
  <2> QED
    BY <2>4 DEF D
<1>10. Term!FreshPen \in Pens
  BY DEF Term!FreshPen, Pens, Colours
<1>11. Term!HandleSgr(pen, ps) = IF ps = <<>> THEN Term!FreshPen ELSE after[n].pen
  BY DEF Term!HandleSgr, n, b
<1> HIDE DEF after
<1> QED
  BY <1>9, <1>10, <1>11 DEF X, SgrAccs

(* A glyph allowed before entering it twice is allowed after.               *)
LEMMA NestedFits ==
  ASSUME NEW cols \in Nat, NEW rows \in Nat, NEW alt \in BOOLEAN, NEW n \in BOOLEAN, NEW gen,
         NEW t \in Terms(cols, rows, alt, n, gen), NEW m \in BOOLEAN, n => m
  PROVE  t \in Terms(cols, rows, alt, m, gen)
<1> DEFINE C == GlyphsFor("primary", n, gen)
           D == GlyphsFor("primary", m, gen)
           A == GlyphsFor(ScreenOf(alt), n, gen)
           B == GlyphsFor(ScreenOf(alt), m, gen)
<1>1. C \subseteq D /\ A \subseteq B
  BY DEF GlyphsFor, ScreenOf
<1> HIDE DEF A, B, C, D
<1>2. GridsOf(A, cols, rows) \subseteq GridsOf(B, cols, rows)
      /\ GridsOf(C, cols, rows) \subseteq GridsOf(D, cols, rows)
  BY <1>1 DEF GridsOf
<1>3. HistoriesOf(C) \subseteq HistoriesOf(D)
  <2>1. Seq(Seq(C)) \subseteq Seq(Seq(D))
    BY <1>1, SeqMonotonic
  <2> QED
    BY <2>1 DEF HistoriesOf
<1>4. SavedOf(alt, C, cols, rows) \subseteq SavedOf(alt, D, cols, rows)
  BY <1>2 DEF SavedOf
<1> QED
  BY <1>2, <1>3, <1>4 DEF Terms, A, B, C, D

\* Entering the alternate screen from itself is remembered.
EnteredFrom(alt, n) == alt => n
\* Terminals on the alternate screen.
AltTerms(cols, rows, n, gen) == Terms(cols, rows, TRUE, n, gen)

(* Entering the alternate screen.  Entering it twice makes the saved       *)
(* screen the alternate one, which `nested` remembers.                     *)
LEMMA EnterFits ==
  ASSUME NEW cols \in Nat, NEW rows \in Nat, NEW alt \in BOOLEAN, NEW n \in BOOLEAN, NEW gen,
         NEW t \in Terms(cols, rows, alt, n, gen), EnteredFrom(alt, n)
  PROVE  Term!EnterAltScreen(t) \in AltTerms(cols, rows, n, gen)
<1> DEFINE C == GlyphsFor("primary", n, gen)
           D == GlyphsFor("primary", n, gen)
<1>1. /\ t.cols = cols /\ t.rows = rows /\ t.alt = alt /\ t.sgr \in Pens
      /\ t.grid \in GridsOf(GlyphsFor(ScreenOf(alt), n, gen), cols, rows)
      /\ t.cursor \in CursorsIn(cols, rows) /\ t.scrollback \in HistoriesOf(C)
      /\ t.saved \in SavedOf(alt, C, cols, rows)
  BY DEF Terms
<1>2. C \subseteq D /\ GlyphsFor(ScreenOf(alt), n, gen) \subseteq D
  BY DEF GlyphsFor, ScreenOf, EnteredFrom
<1>3. Term!EnterAltScreen(t) \in Terms(cols, rows, TRUE, n, gen)
  <2> DEFINE A == GlyphsFor(ScreenOf(TRUE), n, gen)
             s == [some |-> TRUE, grid |-> t.grid, cursor |-> t.cursor, sgr |-> t.sgr]
             m == Term!MakeGrid(t.cols, t.rows)
             c == [row |-> 0, col |-> 0]
  <2>1. m \in GridsOf(A, cols, rows)
    BY <1>1, BlankFits, BlankGridFits DEF ScreenOf
  <2>2. c \in CursorsIn(cols, rows)
    BY DEF CursorsIn, Term!SatSub
  <2>3. Term!FreshPen \in Pens
    BY DEF Term!FreshPen, Pens, Colours
  <2>4. t.grid \in GridsOf(D, cols, rows)
    BY <1>1, <1>2 DEF GridsOf
  <2>5. s \in SavedOf(TRUE, D, cols, rows)
    BY <1>1, <2>4 DEF SavedOf
  <2>6. t.scrollback \in HistoriesOf(D)
    <3> HIDE DEF C, D
    <3>1. t.scrollback \in Seq(Seq(D))
      BY <1>1, <1>2, SeqMonotonic DEF HistoriesOf
    <3> QED
      BY <1>1, <3>1 DEF HistoriesOf
  <2>7. Term!EnterAltScreen(t) = [t EXCEPT !.saved = s, !.grid = m, !.cursor = c,
                                           !.sgr = Term!FreshPen, !.alt = TRUE]
    BY DEF Term!EnterAltScreen
  <2> HIDE DEF s, m, c, A, C, D
  <2> QED
    BY <2>1, <2>2, <2>3, <2>5, <2>6, <2>7 DEF Terms, A, D
<1> QED
  BY <1>3 DEF AltTerms

(* Leaving the alternate screen, and a ?1049l on the primary one.          *)
LEMMA ExitFits ==
  ASSUME NEW cols \in Nat, NEW rows \in Nat, NEW alt \in BOOLEAN, NEW n \in BOOLEAN, NEW gen,
         NEW t \in Terms(cols, rows, alt, n, gen),
         NEW off \in BOOLEAN, ~off
  PROVE  Term!ExitAltScreen(t) \in Terms(cols, rows, off, n, gen)
<1> DEFINE C == GlyphsFor("primary", n, gen)
<1>1. /\ t.cols = cols /\ t.rows = rows /\ t.alt = alt /\ t.sgr \in Pens
      /\ t.grid \in GridsOf(GlyphsFor(ScreenOf(alt), n, gen), cols, rows)
      /\ t.cursor \in CursorsIn(cols, rows) /\ t.scrollback \in HistoriesOf(C)
      /\ t.saved \in SavedOf(alt, C, cols, rows)
  BY DEF Terms
<1>2. Term!ExitAltScreen(t) \in Terms(cols, rows, FALSE, n, gen)
  <2>1. CASE alt
    <3>1. /\ t.saved.some = TRUE /\ t.saved.grid \in GridsOf(C, cols, rows)
          /\ t.saved.cursor \in CursorsIn(cols, rows) /\ t.saved.sgr \in Pens
      BY <1>1, <2>1 DEF SavedOf
    <3>2. Term!ExitAltScreen(t) = [t EXCEPT !.grid = t.saved.grid, !.cursor = t.saved.cursor,
                                            !.sgr = t.saved.sgr, !.saved = Term!None, !.alt = FALSE]
      BY <3>1 DEF Term!ExitAltScreen
    <3>3. Term!None \in SavedOf(FALSE, C, cols, rows)
      BY DEF SavedOf
    <3>4. C = GlyphsFor(ScreenOf(FALSE), n, gen)
      BY DEF ScreenOf
    <3> HIDE DEF C
    <3> QED
      BY <3>1, <3>2, <3>3, <3>4 DEF Terms, C
  <2>2. CASE ~alt
    <3>1. t.saved.some = FALSE
      BY <1>1, <2>2 DEF SavedOf, Term!None
    <3>2. Term!ExitAltScreen(t) = [t EXCEPT !.alt = FALSE]
      BY <3>1 DEF Term!ExitAltScreen
    <3>3. [t EXCEPT !.alt = FALSE] = t
      BY <1>1, <2>2 DEF Terms
    <3> QED
      BY <2>2, <3>2, <3>3
  <2> QED
    BY <2>1, <2>2
<1> QED
  <2> off = FALSE
    OBVIOUS
  <2> QED
    BY <1>2, Zenon

(* Cutting or padding a row or a grid.                                     *)
LEMMA FitGridFits ==
  ASSUME NEW C, Term!Blank \in C, NEW cols \in Nat, NEW rows \in Nat,
         NEW cols2 \in Nat, NEW rows2 \in Nat, NEW g \in GridsOf(C, cols, rows)
  PROVE  /\ Term!FitGrid(g, cols2, rows2) \in GridsOf(C, cols2, rows2)
         /\ \A i \in 1 .. rows : Term!FitRow(g[i], cols2) \in [1 .. cols2 -> C]
<1>1. \A line \in Seq(C) : Term!FitRow(line, cols2) \in [1 .. cols2 -> C]
  <2> TAKE line \in Seq(C)
  <2>1. \A c \in 1 .. cols2 : c <= Len(line) => line[c] \in C
    OBVIOUS
  <2> QED
    BY <2>1 DEF Term!FitRow
<1>2. \A i \in 1 .. rows : g[i] \in Seq(C)
  BY IsASeq DEF GridsOf
<1>3. \A i \in 1 .. rows : Term!FitRow(g[i], cols2) \in [1 .. cols2 -> C]
  BY <1>1, <1>2
<1>4. <<>> \in Seq(C)
  OBVIOUS
<1>5. Term!FitRow(<<>>, cols2) \in [1 .. cols2 -> C]
  BY <1>1, <1>4
<1>6. Len(g) = rows
  BY DEF GridsOf
<1> DEFINE x == Term!SatSub(Len(g), rows2)
<1>7. x \in Nat
  BY <1>6 DEF Term!SatSub
<1> HIDE DEF x
<1>8. \A r \in 1 .. rows2 :
        (IF r + x <= Len(g) THEN Term!FitRow(g[r + x], cols2) ELSE Term!FitRow(<<>>, cols2))
          \in [1 .. cols2 -> C]
  BY <1>3, <1>5, <1>6, <1>7
<1>9. Term!FitGrid(g, cols2, rows2) \in GridsOf(C, cols2, rows2)
  BY <1>8 DEF Term!FitGrid, GridsOf, x
<1> QED
  BY <1>3, <1>9

(* TerminalState::resize brings the terminal to the new size, the saved    *)
(* screen with it.                                                         *)
LEMMA ResizeFits ==
  ASSUME NEW cols \in Nat, NEW rows \in Nat, NEW alt \in BOOLEAN, NEW n \in BOOLEAN, NEW gen,
         NEW t \in Terms(cols, rows, alt, n, gen), NEW cols2 \in Nat, NEW rows2 \in Nat
  PROVE  Term!Resize(t, cols2, rows2) \in Terms(cols2, rows2, alt, n, gen)
<1> DEFINE A == GlyphsFor(ScreenOf(alt), n, gen)
           C == GlyphsFor("primary", n, gen)
           excess == Term!SatSub(Len(t.grid), rows2)
           top == [i \in 1 .. excess |-> Term!FitRow(t.grid[i], cols2)]
           s == Term!Shed(t, top)
           S == IF s.saved.some
                THEN [s.saved EXCEPT !.grid = Term!FitGrid(s.saved.grid, cols2, rows2),
                                     !.cursor = Term!Clamp(s.saved.cursor, cols2, rows2)]
                ELSE s.saved
<1>1. Term!Blank \in A /\ Term!Blank \in C
  BY BlankFits DEF ScreenOf
<1>2. t.grid \in GridsOf(A, cols, rows)
  BY DEF Terms
<1>3. top \in Seq(Seq(A))
  <2> HIDE DEF A
  <2>1. Len(t.grid) = rows
    BY <1>2 DEF GridsOf
  <2>2. excess \in Nat /\ excess <= rows
    BY <2>1 DEF Term!SatSub
  <2> HIDE DEF excess
  <2>3. \A i \in 1 .. excess : Term!FitRow(t.grid[i], cols2) \in [1 .. cols2 -> A]
    <3>1. \A i \in 1 .. rows : Term!FitRow(t.grid[i], cols2) \in [1 .. cols2 -> A]
      BY <1>1, <1>2, FitGridFits
    <3> QED
      BY <2>2, <3>1
  <2>4. [1 .. cols2 -> A] \subseteq Seq(A)
    BY IsASeq
  <2>5. \A i \in 1 .. excess : Term!FitRow(t.grid[i], cols2) \in Seq(A)
    BY <2>3, <2>4
  <2> QED
    BY <2>2, <2>5, IsASeq, SMTT(40)
<1> HIDE DEF top
<1>4. s \in Terms(cols, rows, alt, n, gen) /\ s.grid = t.grid
  BY <1>3, ShedFits
<1> HIDE DEF s
<1>5. s.cursor \in CursorsIn(cols, rows) /\ s.saved \in SavedOf(alt, C, cols, rows)
  BY <1>4 DEF Terms
<1>6. \A c \in CursorsIn(cols, rows) : Term!Clamp(c, cols2, rows2) \in CursorsIn(cols2, rows2)
  BY DEF CursorsIn, Term!Clamp, Term!Min2, Term!SatSub
<1>7. Term!FitGrid(t.grid, cols2, rows2) \in GridsOf(A, cols2, rows2)
  <2> HIDE DEF A
  <2> QED
    BY <1>1, <1>2, FitGridFits
<1>8. S \in SavedOf(alt, C, cols2, rows2)
  <2> HIDE DEF C
  <2>1. CASE alt
    <3>1. /\ s.saved \in [some : {TRUE}, grid : GridsOf(C, cols, rows),
                          cursor : CursorsIn(cols, rows), sgr : Pens]
      BY <1>5, <2>1 DEF SavedOf
    <3>2. Term!FitGrid(s.saved.grid, cols2, rows2) \in GridsOf(C, cols2, rows2)
      BY <1>1, <3>1, FitGridFits
    <3>3. Term!Clamp(s.saved.cursor, cols2, rows2) \in CursorsIn(cols2, rows2)
      BY <1>6, <3>1
    <3> QED
      BY <2>1, <3>1, <3>2, <3>3 DEF SavedOf
  <2>2. CASE ~alt
    BY <1>5, <2>2 DEF SavedOf, Term!None
  <2> QED
    BY <2>1, <2>2
<1>9. Term!Resize(t, cols2, rows2) =
        [s EXCEPT !.grid = Term!FitGrid(t.grid, cols2, rows2), !.cols = cols2, !.rows = rows2,
                  !.cursor = Term!Clamp(s.cursor, cols2, rows2), !.saved = S]
  <2>1. s = Term!ShedTop(t, cols2, rows2)
    BY DEF Term!ShedTop, s, top
  <2> QED
    BY <2>1 DEF Term!Resize
<1>10. Term!Clamp(s.cursor, cols2, rows2) \in CursorsIn(cols2, rows2)
  BY <1>5, <1>6
<1> HIDE DEF S, A, C
<1> QED
  BY <1>4, <1>7, <1>8, <1>9, <1>10 DEF Terms, A, C

(* Every step of the terminal keeps its invariant.                         *)
LEMMA TermStep ==
  ASSUME TermInv, Term!Next
  PROVE  TermInv'
<1> DEFINE cols == term.cols
           rows == term.rows
           T(a, n) == Terms(cols, rows, a, n, resets)
<1>0. /\ cols \in TermNat /\ rows \in TermNat /\ term.alt \in BOOLEAN /\ nested \in BOOLEAN
      /\ cols \in Nat /\ rows \in Nat
      /\ resets \in 0 .. MaxResets /\ term \in Terms(cols, rows, term.alt, nested, resets)
  BY TermAssumption DEF TermInv, TermNat, Term!TerminalAssumption
<1>1. ASSUME NEW c \in TermNat, NEW r \in TermNat, NEW a \in BOOLEAN, nested' \in BOOLEAN,
             resets' \in 0 .. MaxResets, term' \in Terms(c, r, a, nested', resets')
      PROVE  TermInv'
  <2>1. term'.cols = c /\ term'.rows = r /\ term'.alt = a
    BY <1>1 DEF Terms
  <2> QED
    BY <1>1, <2>1 DEF TermInv
<1>2. ASSUME NEW t \in Terms(cols, rows, term.alt, nested, resets), Term!Quiet(t)
      PROVE  TermInv'
  <2>1. term' = t /\ resets' = resets /\ nested' = nested
    BY <1>2 DEF Term!Quiet, Term!Step
  <2> QED
    BY <1>0, <1>1, <2>1
<1> HIDE DEF cols, rows, TermInv
<1>3. CASE Term!PrintGlyph
  <2>1. PICK width \in {0, 1, 2} :
          Term!Quiet(Term!PrintChar(term, Term!Glyph(ScreenOf(term.alt), resets), width))
    BY <1>3 DEF Term!PrintGlyph, ScreenOf
  <2>2. Term!PrintChar(term, Term!Glyph(ScreenOf(term.alt), resets), width)
          \in Terms(cols, rows, term.alt, nested, resets)
    BY <1>0, PrintCharFits
  <2> QED
    BY <1>2, <2>1, <2>2
<1>4. CASE Term!Control
  <2>1. PICK byte \in {"CR", "LF", "BS", "BEL"} : Term!Quiet(Term!Execute(term, byte))
    BY <1>4 DEF Term!Control
  <2> QED
    BY <1>0, <1>2, <2>1, ExecuteFits
<1>5. CASE Term!MoveCursor
  <2>1. CASE \E dir \in {"A", "B", "C", "D"}, k \in Counts : Term!Quiet(Term!Motion(term, dir, k))
    <3>1. PICK dir \in {"A", "B", "C", "D"}, k \in Counts : Term!Quiet(Term!Motion(term, dir, k))
      BY <2>1
    <3>2. k \in Nat
      BY TermAssumption DEF Term!TerminalAssumption
    <3> QED
      BY <1>0, <1>2, <3>1, <3>2, MotionFits
  <2>2. CASE \E p \in Positions : Term!Quiet(Term!CursorPosition(term, p))
    <3>1. PICK p \in Positions : Term!Quiet(Term!CursorPosition(term, p))
      BY <2>2
    <3>2. p \in Nat \X Nat
      BY TermAssumption DEF Term!TerminalAssumption
    <3> QED
      BY <1>0, <1>2, <3>1, <3>2, CursorPositionFits
  <2> QED
    BY <1>5, <2>1, <2>2 DEF Term!MoveCursor
<1>6. CASE Term!EraseCells
  <2>1. PICK k \in 0 .. 3 :
          Term!Quiet(Term!EraseDisplay(term, k)) \/ Term!Quiet(Term!EraseLine(term, k))
    BY <1>6 DEF Term!EraseCells
  <2> QED
    BY <1>0, <1>2, <2>1, EraseDisplayFits
<1>12. CASE Term!ErasePanics
  <2>1. term' = term /\ resets' = resets /\ nested' = nested
    BY <1>12 DEF Term!ErasePanics, Term!Step
  <2> QED
    BY <1>0, <1>1, <2>1
<1>7. CASE Term!Sgr
  <2>1. PICK ps \in SgrInputs : Term!Quiet([term EXCEPT !.sgr = Term!HandleSgr(term.sgr, ps)])
    BY <1>7 DEF Term!Sgr
  <2>3. term.sgr \in Pens
    BY <1>0 DEF Terms
  <2>4. Term!HandleSgr(term.sgr, ps) \in Pens
    BY <2>3, HandleSgrIsPen
  <2>5. [term EXCEPT !.sgr = Term!HandleSgr(term.sgr, ps)]
          \in Terms(cols, rows, term.alt, nested, resets)
    BY <1>0, <2>4 DEF Terms
  <2> QED
    BY <1>2, <2>1, <2>5
<1>8. CASE Term!SetMode
  <2>1. PICK mode \in {25, 1049}, enable \in BOOLEAN :
          /\ term' = Term!PrivateMode(term, mode, enable)
          /\ nested' = (nested \/ (mode = 1049 /\ enable /\ term.alt))
          /\ resets' = resets
    BY <1>8 DEF Term!SetMode, Term!Step
  <2>2. CASE mode = 1049 /\ enable
    <3>1. PICK n \in BOOLEAN : n = (nested \/ term.alt)
      BY <1>0
    <3>2. term' = Term!EnterAltScreen(term) /\ nested' = n
      BY <2>1, <2>2, <3>1 DEF Term!PrivateMode
    <3>3. Term!EnterAltScreen(term) \in AltTerms(cols, rows, n, resets)
      <4>1. nested => n
        BY <1>0, <3>1, ZenonT(40)
      <4>2. term \in Terms(cols, rows, term.alt, n, resets)
        BY <1>0, <4>1, NestedFits
      <4>3. EnteredFrom(term.alt, n)
        BY <1>0, <3>1 DEF EnteredFrom
      <4> QED
        BY <1>0, <4>2, <4>3, EnterFits
    <3>4. term' \in AltTerms(cols, rows, nested', resets')
      BY <2>1, <3>2, <3>3
    <3>5. term'.cols = cols /\ term'.rows = rows /\ term'.alt = TRUE
      BY <3>4, ZenonT(40) DEF AltTerms, Terms
    <3>6. term' \in Terms(term'.cols, term'.rows, term'.alt, nested', resets')
      BY <3>4, <3>5, ZenonT(40) DEF AltTerms
    <3> QED
      BY <1>0, <2>1, <3>1, <3>2, <3>5, <3>6, ZenonT(40) DEF TermInv
  <2>3. CASE mode = 1049 /\ ~enable
    <3>1. term' = Term!ExitAltScreen(term) /\ nested' = nested
      BY <1>0, <2>1, <2>3 DEF Term!PrivateMode
    <3>2. PICK off \in BOOLEAN : ~off
      BY ZenonT(40)
    <3>3. Term!ExitAltScreen(term) \in Terms(cols, rows, off, nested, resets)
      BY <1>0, <3>2, ExitFits
    <3>4. off \in BOOLEAN
      BY <3>2
    <3> QED
      BY <1>0, <1>1, <2>1, <3>1, <3>3, <3>4
  <2>4. CASE mode = 25
    <3> DEFINE m == IF enable THEN term.modes \cup {mode} ELSE term.modes \ {mode}
    <3>1. m \in SUBSET Nat
      <4>1. term.modes \in SUBSET Nat
        BY <1>0 DEF Terms
      <4> QED
        BY <2>4, <4>1
    <3>2. term' = [term EXCEPT !.modes = m] /\ nested' = nested
      BY <1>0, <2>1, <2>4 DEF Term!PrivateMode
    <3> HIDE DEF m
    <3>3. [term EXCEPT !.modes = m] \in Terms(cols, rows, term.alt, nested, resets)
      BY <1>0, <3>1 DEF Terms
    <3> QED
      BY <1>0, <1>1, <2>1, <3>2, <3>3
  <2> QED
    BY <2>2, <2>3, <2>4
<1>9. CASE Term!FullReset
  <2>1. /\ term' = Term!New(cols, rows) /\ nested' = FALSE /\ resets' = resets + 1
        /\ resets < MaxResets
    BY <1>9 DEF Term!FullReset, Term!Step, Term!Ris, cols, rows
  <2>2. Term!New(cols, rows) \in Terms(cols, rows, FALSE, FALSE, resets + 1)
    BY <1>0, NewTerm
  <2>3. resets' \in 0 .. MaxResets
    BY <1>0, <2>1, TermAssumption DEF Term!TerminalAssumption
  <2> QED
    BY <1>0, <1>1, <2>1, <2>2, <2>3
<1>10. CASE Term!ClientResize
  <2>1. PICK s \in TermSizes :
          Term!Quiet(Term!Resize(term, Term!Min2(s[1], MaxDim), Term!Min2(s[2], MaxDim)))
    BY <1>10 DEF Term!ClientResize
  <2> DEFINE c == Term!Min2(s[1], MaxDim)
             r == Term!Min2(s[2], MaxDim)
  <2>2. c \in TermNat /\ r \in TermNat /\ c \in Nat /\ r \in Nat
    BY TermAssumption DEF Term!TerminalAssumption, TermNat, Term!Min2
  <2> HIDE DEF c, r
  <2>3. Term!Resize(term, c, r) \in Terms(c, r, term.alt, nested, resets)
    BY <1>0, <2>2, ResizeFits
  <2>4. term' = Term!Resize(term, c, r) /\ resets' = resets /\ nested' = nested
    BY <2>1 DEF Term!Quiet, Term!Step, c, r
  <2> QED
    BY <1>0, <1>1, <2>2, <2>3, <2>4
<1>11. CASE Term!Done
  <2>1. term' = term /\ resets' = resets /\ nested' = nested
    BY <1>11 DEF Term!Done, Term!vars
  <2> QED
    BY <1>0, <1>1, <2>1
<1> QED
  BY <1>3, <1>4, <1>5, <1>6, <1>7, <1>8, <1>9, <1>10, <1>11, <1>12 DEF Term!Next

(* CSI 1 J and CSI 1 K index a cell that is not there only when the grid   *)
(* has rows and no columns.                                                *)
LEMMA PanicsAreNarrow ==
  ASSUME TermInv, NEW n,
         Term!EraseDisplayPanics(term, n) \/ Term!EraseLinePanics(term, n)
  PROVE  term.cols = 0 /\ term.rows > 0
<1> DEFINE cols == term.cols
           rows == term.rows
           row == term.cursor.row
<1>1. /\ cols \in Nat /\ rows \in Nat
      /\ term \in Terms(cols, rows, term.alt, nested, resets)
  BY TermAssumption DEF TermInv, TermNat, Term!TerminalAssumption
<1>2. PICK C : term.grid \in GridsOf(C, cols, rows)
  BY <1>1 DEF Terms
<1>3. /\ Len(term.grid) = rows /\ \A r \in 1 .. rows : Len(term.grid[r]) = cols
      /\ row \in 0 .. Term!SatSub(rows, 1) /\ term.cursor.col \in Nat
  BY <1>1, <1>2 DEF GridsOf, Terms, CursorsIn, Term!SatSub
<1> HIDE DEF cols, rows, row
<1>4. ~(row > Len(term.grid))
  BY <1>1, <1>3 DEF Term!SatSub
<1>5. Term!EraseLinePanics(term, n)
  BY <1>4 DEF Term!EraseDisplayPanics, row
<1>6. PICK c \in Term!LeftOfCursor(term) : c >= Len(term.grid[row + 1])
  BY <1>5 DEF Term!EraseLinePanics, row
<1>7. /\ ~(row + 1 > Len(term.grid))
      /\ c \in 0 .. Term!Min2(term.cursor.col, Term!SatSub(Len(term.grid[row + 1]), 1))
  BY <1>6 DEF Term!LeftOfCursor, row
<1>8. row + 1 \in 1 .. rows
  BY <1>1, <1>3, <1>7 DEF Term!SatSub
<1>9. Len(term.grid[row + 1]) = cols
  BY <1>3, <1>8
<1> QED
  BY <1>1, <1>3, <1>6, <1>7, <1>8, <1>9 DEF Term!SatSub, Term!Min2, cols, rows

(* So every panic there ever was came at such a size.                      *)
LEMMA PanicStep ==
  ASSUME TermInv, PanicInv, Term!Next
  PROVE  PanicInv'
<1>1. CASE Term!ErasePanics
  <2>1. PICK n \in 0 .. 3 :
          /\ Term!EraseDisplayPanics(term, n) \/ Term!EraseLinePanics(term, n)
          /\ panics' = panics \cup {<<term.cols, term.rows>>}
    BY <1>1 DEF Term!ErasePanics
  <2>2. term.cols = 0 /\ term.rows > 0
    BY <2>1, PanicsAreNarrow
  <2> QED
    BY <2>1, <2>2 DEF PanicInv
<1>2. CASE ~Term!ErasePanics
  <2>1. panics' = panics
    BY <1>2 DEF Term!Next, Term!PrintGlyph, Term!Control, Term!MoveCursor, Term!EraseCells,
       Term!Sgr, Term!SetMode, Term!FullReset, Term!ClientResize, Term!Done, Term!Quiet,
       Term!vars
  <2> QED
    BY <2>1 DEF PanicInv
<1> QED
  BY <1>1, <1>2

(* The terminal starts in its invariant.                                    *)
LEMMA TermInit == Term!Init => TermInv
<1> SUFFICES ASSUME Term!Init PROVE TermInv
  OBVIOUS
<1>1. PICK s \in TermSizes :
        term = Term!New(Term!Min2(s[1], MaxDim), Term!Min2(s[2], MaxDim))
  BY DEF Term!Init
<1> DEFINE c == Term!Min2(s[1], MaxDim)
           r == Term!Min2(s[2], MaxDim)
<1>2. c \in TermNat /\ r \in TermNat
  BY TermAssumption DEF Term!TerminalAssumption, TermNat, Term!Min2
<1>3. resets = 0 /\ nested = FALSE /\ 0 \in 0 .. MaxResets
  BY TermAssumption DEF Term!Init, Term!TerminalAssumption
<1> HIDE DEF c, r
<1>4. term \in Terms(c, r, FALSE, FALSE, resets)
  BY <1>1, <1>2, NewTerm DEF c, r
<1>5. term.cols = c /\ term.rows = r /\ term.alt = FALSE
  BY <1>4 DEF Terms
<1> QED
  BY <1>2, <1>3, <1>4, <1>5 DEF TermInv

(* The terminal's invariant, for every program and every sequence of       *)
(* resizes.                                                                *)
THEOREM TermInvariance == Term!Spec => [](TermInv /\ PanicInv)
<1>1. Term!Init => PanicInv
  BY DEF Term!Init, PanicInv
<1>2. TermInv /\ PanicInv /\ UNCHANGED Term!vars => TermInv' /\ PanicInv'
  BY DEF TermInv, PanicInv, Term!vars
<1>3. TermInv /\ PanicInv /\ [Term!Next]_Term!vars => TermInv' /\ PanicInv'
  BY <1>2, TermStep, PanicStep
<1> QED
  BY <1>1, <1>3, TermInit, PTL DEF Term!Spec

(* What the invariant says of the grid, the cursor, the saved screen, the  *)
(* pen and the panics.                                                     *)
LEMMA TermSound == TermInv /\ PanicInv => TerminalIsSound
<1> SUFFICES ASSUME TermInv, PanicInv PROVE TerminalIsSound
  OBVIOUS
<1> DEFINE cols == term.cols
           rows == term.rows
           C == GlyphsFor("primary", nested, resets)
<1>1. /\ cols \in 0 .. MaxDim /\ rows \in 0 .. MaxDim /\ cols \in Nat /\ rows \in Nat
      /\ term.alt \in BOOLEAN /\ term \in Terms(cols, rows, term.alt, nested, resets)
  BY TermAssumption DEF TermInv, TermNat, Term!TerminalAssumption
<1>2. \A D, g : g \in GridsOf(D, cols, rows) => Term!Fits(g, cols, rows)
  BY <1>1 DEF GridsOf, Term!Fits
<1>3. \A c \in CursorsIn(cols, rows) : Term!Within(c, cols, rows)
  BY DEF CursorsIn, Term!Within
<1> HIDE DEF cols, rows
<1>4. Term!Fits(term.grid, cols, rows) /\ Term!Within(term.cursor, cols, rows)
  BY <1>1, <1>2, <1>3 DEF Terms
<1>5. Len(term.scrollback) <= LineCap
  BY <1>1 DEF Terms, HistoriesOf
<1>6. term.saved \in SavedOf(term.alt, C, cols, rows)
  BY <1>1 DEF Terms
<1> HIDE DEF C
<1>7. term.alt = term.saved.some
  <2>1. CASE term.alt
    BY <1>6, <2>1 DEF SavedOf
  <2>2. CASE ~term.alt
    <3>1. term.saved = [some |-> FALSE]
      BY <1>6, <2>2 DEF SavedOf, Term!None
    <3>2. term.saved.some = FALSE
      BY <3>1
    <3> QED
      BY <1>1, <2>2, <3>2
  <2> QED
    BY <1>1, <2>1, <2>2
<1>8. term.saved.some => Term!Fits(term.saved.grid, cols, rows)
                         /\ Term!Within(term.saved.cursor, cols, rows)
  BY <1>2, <1>3, <1>6, <1>7 DEF SavedOf
<1>9. {term.sgr.fg, term.sgr.bg} \subseteq {Term!Default} \cup 0 .. 255
  BY <1>1 DEF Terms, Pens, Colours
<1>10. Term!TypeOK
  BY <1>1, <1>4, <1>5, <1>7, <1>8, <1>9 DEF Term!TypeOK, cols, rows, PanicInv
<1>11. Term!ColourArgsAreNotCodes
  BY <1>1 DEF Terms, Pens, Attributes, Term!ColourArgsAreNotCodes
<1> QED
  BY <1>10, <1>11 DEF TerminalIsSound

(* What it says of the glyphs.                                              *)
LEMMA TermApart == TermInv => ScreensApart
<1> SUFFICES ASSUME TermInv PROVE ScreensApart
  OBVIOUS
<1> DEFINE C == GlyphsFor("primary", nested, resets)
           A == GlyphsFor(ScreenOf(term.alt), nested, resets)
           cols == term.cols
           rows == term.rows
<1>1. /\ cols \in Nat /\ rows \in Nat /\ nested \in BOOLEAN
      /\ term.alt \in BOOLEAN /\ term \in Terms(cols, rows, term.alt, nested, resets)
  BY TermAssumption DEF TermInv, TermNat, Term!TerminalAssumption
<1>2. ASSUME NEW s \in {"primary", "alt"}, NEW g,
             \A r \in DOMAIN g : Term!Range(g[r]) \subseteq GlyphsFor(s, nested, resets)
      PROVE  \A x \in Term!GlyphsOf(g) : x[3] = resets /\ (~nested => x[2] = s)
  <2> SUFFICES ASSUME NEW x \in Term!GlyphsOf(g) PROVE x[3] = resets /\ (~nested => x[2] = s)
    OBVIOUS
  <2>1. PICK r \in DOMAIN g : x \in Term!Range(g[r]) /\ Term!IsGlyph(x)
    BY DEF Term!GlyphsOf
  <2>2. x \in GlyphsFor(s, nested, resets)
    BY <1>2, <2>1
  <2>3. x # Term!Blank /\ x # Term!Cont
    BY <2>1 DEF Term!IsGlyph, Term!Blank, Term!Cont
  <2>4. CASE nested
    <3>1. x = Term!Glyph("primary", resets) \/ x = Term!Glyph("alt", resets)
      BY <2>2, <2>3, <2>4 DEF GlyphsFor
    <3> QED
      BY <2>4, <3>1 DEF Term!Glyph
  <2>5. CASE ~nested
    <3>1. x = Term!Glyph(s, resets)
      BY <2>2, <2>3, <2>5 DEF GlyphsFor
    <3> QED
      BY <3>1 DEF Term!Glyph
  <2> QED
    BY <2>4, <2>5
<1>3. \A D, g : g \in GridsOf(D, cols, rows) => \A r \in DOMAIN g : Term!Range(g[r]) \subseteq D
  BY ZenonT(40) DEF GridsOf, Term!Range
<1>4. \A D, h : h \in HistoriesOf(D) => \A r \in DOMAIN h : Term!Range(h[r]) \subseteq D
  BY DEF HistoriesOf, Term!Range
<1>5. /\ term.grid \in GridsOf(A, cols, rows) /\ term.scrollback \in HistoriesOf(C)
      /\ term.saved \in SavedOf(term.alt, C, cols, rows)
  BY <1>1 DEF Terms
<1>6. ScreenOf(term.alt) \in {"primary", "alt"}
  BY DEF ScreenOf
<1>7. \A x \in Term!GlyphsOf(term.grid) : x[3] = resets /\ (~nested => x[2] = ScreenOf(term.alt))
  BY <1>2, <1>3, <1>5, <1>6
<1>8. \A x \in Term!GlyphsOf(term.scrollback) : x[3] = resets /\ (~nested => x[2] = "primary")
  BY <1>2, <1>4, <1>5
<1>9. ASSUME term.saved.some
      PROVE  \A x \in Term!GlyphsOf(term.saved.grid) : x[3] = resets /\ (~nested => x[2] = "primary")
  <2> HIDE DEF C
  <2>1. term.saved.grid \in GridsOf(C, cols, rows)
    <3>1. CASE term.alt
      BY <1>5, <3>1 DEF SavedOf
    <3>2. CASE ~term.alt
      BY <1>5, <1>9, <3>2 DEF SavedOf, Term!None
    <3> QED
      BY <3>1, <3>2
  <2> QED
    BY <1>2, <1>3, <2>1 DEF C
<1>10. Term!ScreensApart
  BY <1>7, <1>8, <1>9 DEF Term!ScreensApart, ScreenOf
<1>11. Term!ResetForgets
  BY <1>7, <1>8, <1>9 DEF Term!ResetForgets
<1> QED
  BY <1>10, <1>11 DEF ScreensApart

(* Through every sequence of events, resizes and resets the cursor, the    *)
(* grid and the saved screen fit each other, and the handlers of           *)
(* terminal.rs that index the cursor's row unchecked (CSI 1 J, CSI 1 K)    *)
(* leave the grid only at sizes with rows and no columns.  And no argument *)
(* of a first 24-bit colour is taken for a code by handle_sgr, for every   *)
(* set of parameter lists.                                                 *)
THEOREM TerminalSound == Term!Spec => []TerminalIsSound
BY TermInvariance, TermSound, PTL

(* Whatever scrolls, resizes and switches came between, the alternate      *)
(* screen never gets into the primary one or the history, and nothing      *)
(* printed before a full reset comes back.                                 *)
THEOREM TermScreensApart == Term!Spec => []ScreensApart
BY TermInvariance, TermApart, PTL

-----------------------------------------------------------------------------
(* The scrollback pages.                                                   *)

(* The pages of c lines each are as many as L lines need.                  *)
LEMMA PagesCover ==
  ASSUME NEW L \in Nat, NEW c \in Nat \ {0}
  PROVE  LET p == (L + c - 1) \div c
         IN  p \in Nat /\ p * c >= L /\ p * c < L + c
<1> DEFINE m == L + c - 1
           p == m \div c
<1>1. m \in Nat
  OBVIOUS
<1> HIDE DEF m
<1>2. p \in Int /\ c * p <= m /\ m < c * p + c /\ c * p = p * c
  BY <1>1
<1>4. p * c > m - c /\ p * c <= m
  BY <1>1, <1>2
<1>5. p >= 0
  BY <1>1
<1> HIDE DEF p
<1>6. p \in Nat
  BY <1>2, <1>5
<1> QED
  BY <1>4, <1>6 DEF m, p

(* Where the i-th of p pages of L lines ends, and where it begins.         *)
LEMMA PageBounds ==
  ASSUME NEW L \in Nat, NEW c \in Nat \ {0}, NEW p \in Nat, p * c >= L, p * c < L + c,
         NEW i \in 1 .. p
  PROVE  LET e == L - (p - i) * c
         IN  /\ (p - i) * c \in Nat /\ (p - i) * c < L /\ e \in 1 .. L
             /\ i = p => e = L
             /\ i = 1 => e <= c
             /\ i > 1 => e - c = L - (p - (i - 1)) * c /\ e - c \in 1 .. L
<1>1. p - i \in Nat /\ c \in Nat /\ i \in Nat /\ p * c \in Nat /\ i * c \in Nat /\ i * c >= c
  OBVIOUS
<1>2. (p - i) * c = p * c - i * c /\ (p - i) * c \in Nat
  BY <1>1
<1>3. (p - (i - 1)) * c = p * c - i * c + c
  BY <1>1
<1>4. i > 1 => i * c >= 2 * c
  BY <1>1
<1>5. i = p => i * c = p * c
  OBVIOUS
<1>6. i = 1 => i * c = c
  OBVIOUS
<1> DEFINE x == i * c
           y == p * c
<1>7. x \in Nat /\ y \in Nat /\ x >= c /\ (i > 1 => x >= 2 * c) /\ (i = p => x = y)
      /\ (i = 1 => x = c) /\ y >= L /\ y < L + c
  BY <1>1, <1>4, <1>5, <1>6
<1> HIDE DEF x, y
<1>8. /\ y - x < L /\ L - (y - x) \in Int /\ L - (y - x) >= 1
      /\ (i = p => L - (y - x) = L)
      /\ (i = 1 => L - (y - x) <= c)
      /\ (i > 1 => L - (y - x) - c = L - (y - x + c) /\ L - (y - x) - c >= 1)
  BY <1>7
<1> QED
  BY <1>2, <1>3, <1>8 DEF x, y

(* Joining sequences each of which is the next piece of h gives h.         *)
LEMMA JoinPieces ==
  ASSUME NEW V, NEW h \in Seq(V), NEW n \in Nat \ {0}, NEW s, s = [i \in 1 .. n |-> s[i]],
         NEW e \in [1 .. n -> 1 .. Len(h)], e[n] = Len(h),
         s[1] = SubSeq(h, 1, e[1]),
         \A i \in 2 .. n : e[i - 1] < e[i] /\ s[i] = SubSeq(h, e[i - 1] + 1, e[i])
  PROVE  Term!FlattenSeq(s) = h
<1> DEFINE f == [i \in 1 .. n |-> SubSeq(h, 1, e[i])]
           flatten[i \in 1 .. n] == IF i = 1 THEN s[i] ELSE flatten[i - 1] \o s[i]
<1>1. ASSUME NEW i \in 2 .. n
      PROVE  SubSeq(h, 1, e[i]) = SubSeq(h, 1, e[i - 1]) \o s[i]
  <2>0. i - 1 \in 1 .. n /\ i \in 1 .. n
    OBVIOUS
  <2>1. /\ e[i - 1] \in 1 .. Len(h) /\ e[i] \in 1 .. Len(h) /\ e[i - 1] < e[i]
        /\ s[i] = SubSeq(h, e[i - 1] + 1, e[i])
    BY <2>0
  <2> DEFINE a == e[i - 1]
             z == e[i]
  <2> HIDE DEF a, z
  <2>2. 1 \in 1 .. (Len(h) + 1) /\ a \in (1 - 1) .. Len(h) /\ z \in a .. Len(h)
    BY <2>1 DEF a, z
  <2>3. SubSeq(h, 1, a) \o SubSeq(h, a + 1, z) = SubSeq(h, 1, z)
    BY <2>2, ConcatAdjacentSubSeq
  <2> QED
    BY <2>1, <2>3 DEF a, z
<1>2. f = [i \in 1 .. n |-> IF i = 1 THEN s[i] ELSE f[i - 1] \o s[i]]
  <2>1. ASSUME NEW i \in 1 .. n
        PROVE  f[i] = IF i = 1 THEN s[i] ELSE f[i - 1] \o s[i]
    <3>1. CASE i = 1
      BY <3>1
    <3>2. CASE i # 1
      <4>1. i \in 2 .. n /\ i - 1 \in 1 .. n
        BY <3>2
      <4>2. f[i] = SubSeq(h, 1, e[i]) /\ f[i - 1] = SubSeq(h, 1, e[i - 1])
        BY <4>1
      <4> HIDE DEF f
      <4> QED
        BY <1>1, <3>2, <4>1, <4>2
    <3> QED
      BY <3>1, <3>2
  <2> QED
    BY <2>1
<1>3. flatten = [i \in 1 .. n |-> IF i = 1 THEN s[i] ELSE flatten[i - 1] \o s[i]]
  <2> HIDE DEF f
  <2> QED
    BY <1>2, Zenon
<1>4. flatten[n] = f[n]
  <2> HIDE DEF flatten
  <2> DEFINE S == {i \in 0 .. n : i > 0 => flatten[i] = f[i]}
  <2>1. 0 \in S
    OBVIOUS
  <2>2. ASSUME NEW i \in 1 .. n, i - 1 \in S PROVE i \in S
    <3>1. flatten[i] = IF i = 1 THEN s[i] ELSE flatten[i - 1] \o s[i]
      BY <1>3
    <3>2. f[i] = IF i = 1 THEN s[i] ELSE f[i - 1] \o s[i]
      <4> HIDE DEF f
      <4> QED
        BY <1>2
    <3>3. i - 1 > 0 => flatten[i - 1] = f[i - 1]
      BY <2>2
    <3> HIDE DEF f
    <3> QED
      BY <3>1, <3>2, <3>3
  <2> HIDE DEF S
  <2>3. \A i \in 0 .. n : i \in S
    BY <2>1, <2>2, UpTo
  <2>4. n \in 0 .. n /\ n > 0
    OBVIOUS
  <2> HIDE DEF f
  <2> QED
    BY <2>3, <2>4 DEF S
<1>5. f[n] = h
  <2>1. f[n] = SubSeq(h, 1, Len(h))
    OBVIOUS
  <2> QED
    BY <2>1
<1>6. Len(s) = n
  OBVIOUS
<1>7. Term!FlattenSeq(s) = flatten[n]
  BY <1>6 DEF Term!FlattenSeq
<1> QED
  BY <1>4, <1>5, <1>7

(* Reading the history in pages of c lines, each starting where the lines  *)
(* already held end, gives every line once and in order.                   *)
LEMMA HistoryTiles ==
  ASSUME TermInv, NEW c \in 1 .. LineCap
  PROVE  LET pages == (Len(term.scrollback) + c - 1) \div c
             page(i) == Term!ScrollbackLines(term, (pages - i) * c, c)
         IN  Term!FlattenSeq([i \in 1 .. pages |-> page(i)]) = term.scrollback
<1> DEFINE h == term.scrollback
           L == Len(h)
           n == (L + c - 1) \div c
           page(i) == Term!ScrollbackLines(term, (n - i) * c, c)
           s == [i \in 1 .. n |-> page(i)]
           e == [i \in 1 .. n |-> L - (n - i) * c]
           V == Seq(GlyphsFor("primary", nested, resets))
<1>0. LineCap \in Nat
  BY TermAssumption DEF Term!TerminalAssumption
<1>1. h \in Seq(V) /\ L \in Nat /\ c \in Nat \ {0}
  BY <1>0 DEF TermInv, Terms, HistoriesOf
<1>2. n \in Nat /\ n * c >= L /\ n * c < L + c
  BY <1>1, PagesCover
<1> HIDE DEF n, h, V
<1>3. ASSUME NEW i \in 1 .. n
      PROVE  /\ e[i] \in 1 .. L /\ (i = n => e[i] = L)
             /\ i = 1 => page(i) = SubSeq(h, 1, e[i])
             /\ i > 1 => e[i - 1] = e[i] - c /\ page(i) = SubSeq(h, e[i - 1] + 1, e[i])
  <2> DEFINE from == (n - i) * c
             x == L - from
  <2>1. /\ from \in Nat /\ from < L /\ x \in 1 .. L /\ (i = n => x = L) /\ (i = 1 => x <= c)
        /\ (i > 1 => x - c = L - (n - (i - 1)) * c /\ x - c \in 1 .. L)
    BY <1>1, <1>2, PageBounds
  <2>2. e[i] = x /\ (i > 1 => e[i - 1] = L - (n - (i - 1)) * c)
    <3>1. i > 1 => i - 1 \in 1 .. n
      BY <1>2
    <3> QED
      BY <3>1
  <2> HIDE DEF e
  <2>3. page(i) = SubSeq(h, Term!Max2(x - (c - 1), 1), x)
    <3>1. ~ (from >= Len(term.scrollback) \/ c = 0)
      BY <1>1, <2>1 DEF h
    <3>2. page(i) = Term!ScrollbackLines(term, from, c)
      OBVIOUS
    <3> HIDE DEF from, page
    <3> QED
      BY <3>1, <3>2 DEF Term!ScrollbackLines, h
  <2> HIDE DEF from, x, page
  <2>4. CASE i = 1
    <3>1. Term!Max2(x - (c - 1), 1) = 1
      BY <1>1, <2>1, <2>4 DEF Term!Max2
    <3> QED
      BY <2>1, <2>2, <2>3, <2>4, <3>1
  <2>5. CASE i > 1
    <3>1. Term!Max2(x - (c - 1), 1) = x - c + 1
      BY <1>1, <2>1, <2>5 DEF Term!Max2
    <3> QED
      BY <2>1, <2>2, <2>3, <2>5, <3>1, SMTT(40)
  <2> QED
    BY <2>4, <2>5
<1>4. CASE n = 0
  <2>1. L = 0
    BY <1>1, <1>2, <1>4
  <2>2. h = <<>> /\ s = <<>>
    BY <1>1, <1>4, <2>1
  <2>3. Term!FlattenSeq(s) = s
    BY <2>2 DEF Term!FlattenSeq
  <2> QED
    BY <2>2, <2>3 DEF h, n
<1>5. CASE n # 0
  <2> HIDE DEF L
  <2>1. e \in [1 .. n -> 1 .. Len(h)]
    BY <1>3 DEF L
  <2>2. e[n] = Len(h)
    BY <1>2, <1>3, <1>5 DEF L
  <2> HIDE DEF e
  <2>3. s[1] = SubSeq(h, 1, e[1])
    BY <1>2, <1>3, <1>5
  <2>4. \A i \in 2 .. n : e[i - 1] < e[i] /\ s[i] = SubSeq(h, e[i - 1] + 1, e[i])
    <3> TAKE i \in 2 .. n
    <3>1. i \in 1 .. n /\ i > 1 /\ i - 1 \in 1 .. n
      BY <1>2
    <3>2. e[i - 1] = e[i] - c /\ page(i) = SubSeq(h, e[i - 1] + 1, e[i]) /\ e[i] \in 1 .. L
      BY <1>3, <3>1
    <3>3. s[i] = page(i)
      BY <3>1
    <3> HIDE DEF s
    <3> QED
      BY <1>1, <3>2, <3>3
  <2>5. s = [i \in 1 .. n |-> s[i]]
    OBVIOUS
  <2> HIDE DEF s
  <2>6. n \in Nat \ {0}
    BY <1>2, <1>5
  <2>7. Term!FlattenSeq(s) = h
    BY <1>1, <2>1, <2>2, <2>3, <2>4, <2>5, <2>6, JoinPieces
  <2> QED
    BY <2>7 DEF s, n, h, L
<1> QED
  BY <1>4, <1>5

(* Every history the terminal ever has is tiled by the pages a client asks *)
(* for, whatever their length.                                             *)
THEOREM TermPagesTile == Term!Spec => []PagesTile
<1>1. TermInv => PagesTile
  BY HistoryTiles DEF PagesTile, Term!PagesTile
<1> QED
  BY <1>1, TermInvariance, PTL
-----------------------------------------------------------------------------
(* The predictor.  Its inductive invariant places every prediction and the *)
(* caret in the window on screen, dates it after the frame on screen, ties *)
(* it to the line being typed, and says which line the epochs that were    *)
(* credited belong to.                                                     *)

Preds == [row : Nat, col : Nat, ch : Predict!Printable, required : Nat, until : Nat, line : Nat]
Overlays ==
  [confirmed : Nat, epoch : Nat, pending : Seq(Preds), trigger : BOOLEAN, flagging : BOOLEAN,
   paste : BOOLEAN, cursor : Nat \X Nat, motion : BOOLEAN, size : PredictSizes, startCol : Nat,
   needsSync : BOOLEAN]

\* The caret, and the cells of the predictions, in a window.
Placed(o, size) ==
  /\ o.size = size
  /\ o.cursor[1] < size[2] /\ o.cursor[2] <= size[1] /\ o.startCol <= size[1]
  /\ \A p \in Predict!Range(o.pending) : p.row < size[2] /\ p.col + Predict!Width(p.ch) <= size[1]
\* The predictions wait for a frame after frame.
Fresh(o, frame) == \A p \in Predict!Range(o.pending) : p.required > frame
\* They are of the line typed, and of an epoch begun on it.
OfLine(o, keyed) ==
  /\ keyed <= o.epoch /\ o.confirmed <= o.epoch
  /\ \A p \in Predict!Range(o.pending) : p.line = keyed /\ keyed <= p.until /\ p.until <= o.epoch
\* The epoch confirmed was credited by a match, and no match of another line is of an epoch
\* as late as a prediction's.
Credited(o, keyed, m) ==
  /\ m \subseteq Nat \X Nat
  /\ o.confirmed = 0 \/ \E x \in m : x[2] = o.confirmed
  /\ \A x \in m : x[2] <= o.epoch /\ (x[2] = o.epoch => x[1] = keyed)
  /\ \A p \in Predict!Range(o.pending), x \in m : x[2] >= p.until => x[1] = keyed
PredictOK(o, size, frame, keyed, m) ==
  /\ o \in Overlays /\ Placed(o, size) /\ Fresh(o, frame) /\ OfLine(o, keyed)
  /\ Credited(o, keyed, m)

Cells(size) == (0 .. (size[2] - 1)) \X (0 .. (size[1] - 1))
Drawn == Predict!Printable \cup {Predict!Blank}
Screens(size) ==
  [size : {size}, grid : [Cells(size) -> Drawn], cursor : Cells(size), epoch : Nat]
Shells(size) ==
  [size : {size}, grid : [Cells(size) -> Drawn], cursor : Cells(size), echo : BOOLEAN,
   alt : BOOLEAN]

(* The predictor's inductive invariant.                                    *)
PredictInv ==
  /\ screen.size \in PredictSizes /\ screen \in Screens(screen.size)
  /\ shell.size \in PredictSizes /\ shell \in Shells(shell.size)
  /\ wasAlt \in BOOLEAN /\ inbox \in Seq(Batches)
  /\ lines \in [typed : Nat, read : Nat]
  /\ PredictOK(overlay, screen.size, screen.epoch, lines.typed, matched)

(* The elements of the empty sequence.                                     *)
LEMMA RangeEmpty == Predict!Range(<<>>) = {}
BY DEF Predict!Range

(* The elements of a sequence are in its set.                              *)
LEMMA RangeIn ==
  ASSUME NEW S, NEW s \in Seq(S)
  PROVE  Predict!Range(s) \subseteq S /\ \A i \in 1 .. Len(s) : s[i] \in Predict!Range(s)
BY DEF Predict!Range

(* The elements after an Append.                                           *)
LEMMA RangeAppend ==
  ASSUME NEW S, NEW s \in Seq(S), NEW x \in S
  PROVE  Predict!Range(Append(s, x)) = Predict!Range(s) \cup {x}
<1>1. /\ DOMAIN Append(s, x) = 1 .. (Len(s) + 1) /\ Append(s, x)[Len(s) + 1] = x
      /\ \A i \in 1 .. Len(s) : Append(s, x)[i] = s[i]
  OBVIOUS
<1>2. DOMAIN s = 1 .. Len(s) /\ Len(s) \in Nat
  OBVIOUS
<1>3. \A y \in Predict!Range(Append(s, x)) : y \in Predict!Range(s) \cup {x}
  BY <1>1, <1>2 DEF Predict!Range
<1>4. \A y \in Predict!Range(s) : y \in Predict!Range(Append(s, x))
  BY <1>1, <1>2 DEF Predict!Range
<1>5. x \in Predict!Range(Append(s, x))
  BY <1>1, <1>2 DEF Predict!Range
<1> QED
  BY <1>3, <1>4, <1>5

(* Vec::retain leaves elements it was given, and none that are gone.       *)
LEMMA WithoutKeeps ==
  ASSUME NEW S, NEW s \in Seq(S), NEW gone
  PROVE  /\ Predict!Without(s, gone) \in Seq(S)
         /\ Predict!Range(Predict!Without(s, gone)) \subseteq Predict!Range(s) \ gone
<1> DEFINE X == {t \in Seq(S) : Predict!Range(t) \subseteq Predict!Range(s) \ gone}
           b == <<>>
           n == Len(s)
           after[i \in 0 .. n] ==
             IF i = 0 THEN b ELSE Predict!Retain(after[i - 1], s[i], gone)
           g == [p \in X \X (1 .. n) |-> Predict!Retain(p[1], s[p[2]], gone)]
<1>1. n \in Nat /\ b \in X
  BY RangeEmpty
<1>2. ASSUME NEW x \in X, NEW i \in 1 .. n
      PROVE  Predict!Retain(x, s[i], gone) \in X
  <2>1. s[i] \in S /\ s[i] \in Predict!Range(s)
    BY RangeIn
  <2>2. CASE s[i] \notin gone
    <3>1. Append(x, s[i]) \in Seq(S)
      BY <2>1
    <3>2. Predict!Range(Append(x, s[i])) = Predict!Range(x) \cup {s[i]}
      BY <2>1, RangeAppend
    <3> QED
      BY <2>1, <2>2, <3>1, <3>2 DEF Predict!Retain
  <2> QED
    BY <2>2 DEF Predict!Retain
<1> HIDE DEF X, b, n
<1>3. IsStep(g, X, n)
  BY <1>2 DEF IsStep
<1>4. PICK f : IsRun(f, n, X, b, g)
  <2> HIDE DEF g
  <2> QED
    BY <1>1, <1>3, LoopExists
<1>5. f = [i \in 0 .. n |-> IF i = 0 THEN b ELSE Predict!Retain(f[i - 1], s[i], gone)]
  <2>1. ASSUME NEW i \in 1 .. n
        PROVE  f[i] = Predict!Retain(f[i - 1], s[i], gone)
    <3>1. f[i - 1] \in X /\ f[i] = g[<<f[i - 1], i>>]
      <4> HIDE DEF g
      <4>1. i - 1 \in 0 .. n
        BY <1>1
      <4> QED
        BY <1>4, <4>1 DEF IsRun
    <3> QED
      BY <3>1
  <2> HIDE DEF g
  <2> QED
    BY <1>1, <1>4, <2>1 DEF IsRun
<1>6. after = [i \in 0 .. n |-> IF i = 0 THEN b ELSE Predict!Retain(after[i - 1], s[i], gone)]
  BY <1>5, Zenon
<1>7. after[n] \in X
  <2> HIDE DEF after
  <2> DEFINE J == {i \in 0 .. n : after[i] \in X}
  <2>1. 0 \in J
    BY <1>1, <1>6
  <2>2. ASSUME NEW i \in 1 .. n, i - 1 \in J PROVE i \in J
    <3>1. after[i - 1] \in X /\ i \in 0 .. n
      BY <1>1, <2>2
    <3>2. after[i] = Predict!Retain(after[i - 1], s[i], gone)
      BY <1>1, <1>6, <3>1
    <3> QED
      BY <1>2, <3>1, <3>2
  <2> HIDE DEF J
  <2>3. \A i \in 0 .. n : i \in J
    BY <1>1, <2>1, <2>2, UpTo
  <2> QED
    BY <1>1, <2>3 DEF J
<1>8. Predict!Without(s, gone) = after[n]
  BY DEF Predict!Without, n, b
<1> HIDE DEF after
<1> QED
  BY <1>7, <1>8 DEF X

(* What does not credit an epoch: an overlay with no prediction but those  *)
(* of a sound one, of the same line and of no earlier epoch, is sound; and *)
(* so it is after an Enter, which begins an epoch and drops them all.      *)
LEMMA Rebuilt ==
  ASSUME NEW size, NEW frame, NEW keyed \in Nat, NEW m, NEW o, PredictOK(o, size, frame, keyed, m),
         NEW o2 \in Overlays, o2.size = size, o2.cursor[1] < size[2], o2.cursor[2] <= size[1],
         o2.startCol <= size[1], o2.confirmed = o.confirmed, o2.epoch >= o.epoch,
         Predict!Range(o2.pending) \subseteq Predict!Range(o.pending),
         NEW typed2 \in Nat, typed2 <= o2.epoch,
         typed2 = keyed \/ (Predict!Range(o2.pending) = {} /\ o2.epoch > o.epoch)
  PROVE  PredictOK(o2, size, frame, typed2, m)
<1> USE DEF PredictOK
<1>0. o.epoch \in Nat /\ o2.epoch \in Nat /\ o.confirmed \in Nat
  BY DEF Overlays
<1>1. Placed(o2, size) /\ Fresh(o2, frame)
  BY DEF Placed, Fresh
<1>2. OfLine(o2, typed2)
  <2>1. \A p \in Predict!Range(o.pending) : p.until \in Nat
    <3>1. o.pending \in Seq(Preds)
      BY DEF Overlays
    <3>2. Predict!Range(o.pending) \subseteq Preds
      BY <3>1, RangeIn
    <3> QED
      BY <3>2 DEF Preds
  <2> QED
    BY <1>0, <2>1 DEF OfLine
<1>3. Credited(o2, typed2, m)
  <2>1. m \subseteq Nat \X Nat /\ (o2.confirmed = 0 \/ \E x \in m : x[2] = o2.confirmed)
    BY DEF Credited
  <2>2. ASSUME NEW x \in m PROVE x[2] <= o2.epoch /\ (x[2] = o2.epoch => x[1] = typed2)
    <3>1. x[2] \in Nat /\ x[2] <= o.epoch /\ (x[2] = o.epoch => x[1] = keyed)
      BY DEF Credited
    <3> QED
      BY <1>0, <3>1
  <2>3. \A p \in Predict!Range(o2.pending), x \in m : x[2] >= p.until => x[1] = typed2
    BY DEF Credited
  <2> QED
    BY <2>1, <2>2, <2>3 DEF Credited
<1> QED
  BY <1>1, <1>2, <1>3

(* The width of a glyph.                                                   *)
LEMMA WidthIs == \A k \in Predict!Printable : Predict!Width(k) \in {1, 2}
BY DEF Predict!Width, Predict!Printable, Predict!Narrow, Predict!Wide

(* The sizes of a window.                                                  *)
LEMMA PredictSize ==
  ASSUME NEW size \in PredictSizes
  PROVE  /\ size \in Nat \X Nat /\ size[1] \in Nat /\ size[2] \in Nat
         /\ size[1] > 0 /\ size[2] > 0
<1>1. size \in (Nat \ {0}) \X (Nat \ {0})
  BY PredictAssumption DEF Predict!PredictorAssumption
<1> QED
  BY <1>1

(* What the fields of an overlay are.                                      *)
LEMMA OverlayFields ==
  ASSUME NEW o \in Overlays
  PROVE  /\ o.confirmed \in Nat /\ o.epoch \in Nat /\ o.pending \in Seq(Preds)
         /\ o.cursor \in Nat \X Nat /\ o.cursor[1] \in Nat /\ o.cursor[2] \in Nat
         /\ o.size \in PredictSizes /\ o.startCol \in Nat
         /\ Predict!Range(o.pending) \subseteq Preds
<1>1. o.pending \in Seq(Preds)
  BY DEF Overlays
<1>2. Predict!Range(o.pending) \subseteq Preds
  BY <1>1, RangeIn
<1>3. o.cursor \in Nat \X Nat
  BY DEF Overlays
<1> QED
  BY <1>1, <1>2, <1>3 DEF Overlays

(* become_tentative begins an epoch.                                       *)
LEMMA TentativeOK ==
  ASSUME NEW size, NEW frame, NEW keyed \in Nat, NEW m, NEW o, PredictOK(o, size, frame, keyed, m)
  PROVE  PredictOK(Predict!become_tentative(o), size, frame, keyed, m)
<1> DEFINE o2 == Predict!become_tentative(o)
<1>0. o \in Overlays /\ Placed(o, size) /\ OfLine(o, keyed)
  BY DEF PredictOK
<1>1. o2 \in Overlays
  BY <1>0, SMTT(40) DEF Overlays, Predict!become_tentative
<1>2. /\ o2.epoch = o.epoch + 1 /\ o2.confirmed = o.confirmed /\ o2.pending = o.pending
      /\ o2.size = o.size /\ o2.cursor = o.cursor /\ o2.startCol = o.startCol
  BY <1>0 DEF Overlays, Predict!become_tentative
<1>3. o.epoch \in Nat /\ o2.epoch >= o.epoch /\ keyed <= o2.epoch
  BY <1>0, <1>2, OverlayFields DEF OfLine
<1> HIDE DEF o2
<1>4. o2.cursor[1] < size[2] /\ o2.cursor[2] <= size[1] /\ o2.startCol <= size[1] /\ o2.size = size
  BY <1>0, <1>2 DEF Placed
<1>5. Predict!Range(o2.pending) \subseteq Predict!Range(o.pending)
  BY <1>2
<1> QED
  BY <1>1, <1>2, <1>3, <1>4, <1>5, Rebuilt DEF o2

(* reset begins an epoch and drops every prediction.                       *)
LEMMA ResetOK ==
  ASSUME NEW size, NEW frame, NEW keyed \in Nat, NEW m, NEW o, PredictOK(o, size, frame, keyed, m)
  PROVE  /\ PredictOK(Predict!reset(o), size, frame, keyed, m)
         /\ Predict!reset(o).pending = <<>> /\ Predict!reset(o).motion = FALSE
         /\ Predict!reset(o).needsSync = TRUE
<1> DEFINE o2 == Predict!reset(o)
<1>0. o \in Overlays /\ Placed(o, size) /\ OfLine(o, keyed)
  BY DEF PredictOK
<1>1. o2 \in Overlays
  <2>1. <<>> \in Seq(Preds) /\ o.epoch + 1 \in Nat
    BY <1>0, OverlayFields
  <2>2. o2 = [o EXCEPT !.epoch = o.epoch + 1, !.pending = <<>>, !.motion = FALSE, !.needsSync = TRUE]
    BY <1>0 DEF Overlays, Predict!become_tentative, Predict!reset
  <2> QED
    BY <1>0, <2>1, <2>2 DEF Overlays
<1>2. /\ o2.epoch = o.epoch + 1 /\ o2.confirmed = o.confirmed /\ o2.pending = <<>>
      /\ o2.size = o.size /\ o2.cursor = o.cursor /\ o2.startCol = o.startCol
      /\ o2.motion = FALSE /\ o2.needsSync = TRUE
  BY <1>0 DEF Overlays, Predict!become_tentative, Predict!reset
<1>3. o.epoch \in Nat /\ o2.epoch >= o.epoch /\ keyed <= o2.epoch
  BY <1>0, <1>2, OverlayFields DEF OfLine
<1> HIDE DEF o2
<1>4. o2.cursor[1] < size[2] /\ o2.cursor[2] <= size[1] /\ o2.startCol <= size[1] /\ o2.size = size
  BY <1>0, <1>2 DEF Placed
<1>5. Predict!Range(o2.pending) \subseteq Predict!Range(o.pending)
  BY <1>2, RangeEmpty
<1>6. PredictOK(o2, size, frame, keyed, m)
  BY <1>1, <1>2, <1>3, <1>4, <1>5, Rebuilt
<1> QED
  BY <1>2, <1>6 DEF o2

(* One more prediction, at the caret.                                      *)
LEMMA PredictCharOK ==
  ASSUME NEW size, NEW frame \in Nat, NEW keyed \in Nat, NEW m, NEW o,
         PredictOK(o, size, frame, keyed, m), NEW k \in Predict!Printable
  PROVE  PredictOK(Predict!PredictChar(o, k, frame, keyed), size, frame, keyed, m)
<1>0. /\ o \in Overlays /\ Placed(o, size) /\ Fresh(o, frame) /\ OfLine(o, keyed)
      /\ Credited(o, keyed, m)
  BY DEF PredictOK
<1>1. CASE o.cursor[2] + Predict!Width(k) > o.size[1]
  <2>1. Predict!PredictChar(o, k, frame, keyed) = Predict!become_tentative(o)
    BY <1>1 DEF Predict!PredictChar
  <2> QED
    BY <2>1, TentativeOK
<1>2. CASE ~ (o.cursor[2] + Predict!Width(k) > o.size[1])
  <2> DEFINE p == [row |-> o.cursor[1], col |-> o.cursor[2], ch |-> k, required |-> frame + 1,
                   until |-> o.epoch, line |-> keyed]
             c == <<o.cursor[1], o.cursor[2] + Predict!Width(k)>>
             o2 == Predict!PredictChar(o, k, frame, keyed)
  <2>1. o2 = [o EXCEPT !.pending = Append(o.pending, p), !.cursor = c, !.motion = FALSE]
    BY <1>2 DEF Predict!PredictChar
  <2>2. /\ o.confirmed \in Nat /\ o.epoch \in Nat /\ o.pending \in Seq(Preds)
        /\ o.cursor[1] \in Nat /\ o.cursor[2] \in Nat /\ Predict!Width(k) \in {1, 2}
        /\ size[1] \in Nat /\ size[2] \in Nat /\ o.size = size
    BY <1>0, OverlayFields, PredictSize, WidthIs DEF Placed
  <2>3. p \in Preds
    BY <2>2 DEF Preds
  <2>4. c \in Nat \X Nat /\ c[1] = o.cursor[1] /\ c[2] = o.cursor[2] + Predict!Width(k)
    BY <2>2, SMTT(40)
  <2>5. /\ p.row = o.cursor[1] /\ p.col = o.cursor[2] /\ p.ch = k /\ p.required = frame + 1
        /\ p.until = o.epoch /\ p.line = keyed
    OBVIOUS
  <2> HIDE DEF p, c, o2
  <2>6. o2 \in Overlays
    <3>1. Append(o.pending, p) \in Seq(Preds)
      BY <2>2, <2>3
    <3> QED
      BY <1>0, <2>1, <2>4, <3>1 DEF Overlays
  <2>7. /\ o2.pending = Append(o.pending, p) /\ o2.cursor = c /\ o2.size = o.size
        /\ o2.startCol = o.startCol /\ o2.epoch = o.epoch /\ o2.confirmed = o.confirmed
    BY <1>0, <2>1 DEF Overlays
  <2>8. Predict!Range(o2.pending) = Predict!Range(o.pending) \cup {p}
    BY <2>2, <2>3, <2>7, RangeAppend
  <2>9. Placed(o2, size)
    BY <1>0, <1>2, <2>2, <2>4, <2>5, <2>7, <2>8, SMTT(40) DEF Placed
  <2>10. Fresh(o2, frame)
    BY <1>0, <2>5, <2>8 DEF Fresh
  <2>11. OfLine(o2, keyed)
    BY <1>0, <2>2, <2>5, <2>7, <2>8, SMTT(40) DEF OfLine
  <2>12. Credited(o2, keyed, m)
    <3>1. ASSUME NEW x \in m, x[2] >= p.until PROVE x[1] = keyed
      <4>1. x[2] \in Nat /\ x[2] <= o.epoch /\ (x[2] = o.epoch => x[1] = keyed)
        BY <1>0 DEF Credited
      <4> QED
        BY <2>2, <2>5, <3>1, <4>1
    <3>2. \A q \in Predict!Range(o2.pending), x \in m : x[2] >= q.until => x[1] = keyed
      BY <1>0, <2>8, <3>1 DEF Credited
    <3> QED
      BY <1>0, <2>7, <3>2 DEF Credited
  <2> QED
    BY <2>6, <2>9, <2>10, <2>11, <2>12 DEF PredictOK, o2
<1> QED
  BY <1>1, <1>2

(* The glyphs of a batch.                                                   *)
LEMMA PredictCharsOK ==
  ASSUME NEW size, NEW frame \in Nat, NEW keyed \in Nat, NEW m, NEW o,
         PredictOK(o, size, frame, keyed, m), NEW s \in Seq(Predict!Printable)
  PROVE  PredictOK(Predict!PredictChars(o, s, frame, keyed), size, frame, keyed, m)
<1> DEFINE X == {q \in [o : Overlays, edge : BOOLEAN] : PredictOK(q.o, size, frame, keyed, m)}
           b == [o |-> o, edge |-> FALSE]
           n == Len(s)
           after[i \in 0 .. n] ==
             IF i = 0 THEN b ELSE Predict!PredictNext(after[i - 1], s[i], frame, keyed)
           g == [p \in X \X (1 .. n) |-> Predict!PredictNext(p[1], s[p[2]], frame, keyed)]
<1>1. n \in Nat /\ b \in X
  <2>1. o \in Overlays
    BY DEF PredictOK
  <2> QED
    BY <2>1
<1>2. ASSUME NEW x \in X, NEW i \in 1 .. n
      PROVE  Predict!PredictNext(x, s[i], frame, keyed) \in X
  <2>1. s[i] \in Predict!Printable
    BY ElementOfSeq
  <2>2. CASE x.edge
    BY <2>2 DEF Predict!PredictNext
  <2>3. CASE ~x.edge
    <3> DEFINE w == Predict!PredictChar(x.o, s[i], frame, keyed)
               e == x.o.cursor[2] + Predict!Width(s[i]) > x.o.size[1]
    <3>1. PredictOK(w, size, frame, keyed, m)
      BY <2>1, PredictCharOK
    <3>2. w \in Overlays
      BY <3>1 DEF PredictOK
    <3>3. e \in BOOLEAN
      OBVIOUS
    <3>4. Predict!PredictNext(x, s[i], frame, keyed) = [o |-> w, edge |-> e]
      BY <2>3 DEF Predict!PredictNext
    <3> HIDE DEF w, e
    <3> QED
      BY <3>1, <3>2, <3>3, <3>4
  <2> QED
    BY <2>2, <2>3
<1> HIDE DEF X, b, n
<1>3. IsStep(g, X, n)
  BY <1>2 DEF IsStep
<1>4. PICK f : IsRun(f, n, X, b, g)
  <2> HIDE DEF g
  <2> QED
    BY <1>1, <1>3, LoopExists
<1>5. f = [i \in 0 .. n |-> IF i = 0 THEN b ELSE Predict!PredictNext(f[i - 1], s[i], frame, keyed)]
  <2>1. ASSUME NEW i \in 1 .. n
        PROVE  f[i] = Predict!PredictNext(f[i - 1], s[i], frame, keyed)
    <3>1. f[i - 1] \in X /\ f[i] = g[<<f[i - 1], i>>]
      <4> HIDE DEF g
      <4>1. i - 1 \in 0 .. n
        BY <1>1
      <4> QED
        BY <1>4, <4>1 DEF IsRun
    <3> QED
      BY <3>1
  <2> HIDE DEF g
  <2> QED
    BY <1>1, <1>4, <2>1 DEF IsRun
<1>6. after = [i \in 0 .. n |-> IF i = 0 THEN b ELSE Predict!PredictNext(after[i - 1], s[i], frame, keyed)]
  BY <1>5, Zenon
<1>7. after[n] \in X
  <2> HIDE DEF after
  <2> DEFINE S == {i \in 0 .. n : after[i] \in X}
  <2>1. 0 \in S
    BY <1>1, <1>6
  <2>2. ASSUME NEW i \in 1 .. n, i - 1 \in S PROVE i \in S
    <3>1. after[i - 1] \in X /\ i \in 0 .. n
      BY <1>1, <2>2
    <3>2. after[i] = Predict!PredictNext(after[i - 1], s[i], frame, keyed)
      BY <1>1, <1>6, <3>1
    <3> QED
      BY <1>2, <3>1, <3>2
  <2> HIDE DEF S
  <2>3. \A i \in 0 .. n : i \in S
    BY <1>1, <2>1, <2>2, UpTo
  <2> QED
    BY <1>1, <2>3 DEF S
<1>8. Predict!PredictChars(o, s, frame, keyed) = after[n].o
  BY DEF Predict!PredictChars, n, b
<1> HIDE DEF after
<1> QED
  BY <1>7, <1>8 DEF X

(* A non-empty set of numbers below n has a greatest element.              *)
LEMMA GreatestBelow ==
  ASSUME NEW n \in Nat, NEW T \in SUBSET (0 .. n), T # {}
  PROVE  \E x \in T : \A y \in T : y <= x
<1> DEFINE U == {i \in 0 .. n : n - i \in T}
<1>1. U \in SUBSET Nat /\ U # {}
  <2>1. PICK x \in T : TRUE
    OBVIOUS
  <2>2. n - x \in 0 .. n /\ n - (n - x) = x
    OBVIOUS
  <2>3. n - x \in U
    BY <2>2
  <2>4. U \in SUBSET Nat
    OBVIOUS
  <2> HIDE DEF U
  <2> QED
    BY <2>3, <2>4
<1>2. PICK u \in U : \A v \in U : u <= v
  BY <1>1, LeastNat
<1>3. ASSUME NEW y \in T PROVE y <= n - u
  <2>1. n - y \in U
    OBVIOUS
  <2> QED
    BY <1>2, <2>1
<1> QED
  BY <1>3

(* The column End moves to is one of the row, or just after it.            *)
LEMMA LineEndFits ==
  ASSUME NEW o \in Overlays, NEW row, NEW s
  PROVE  Predict!find_line_end(o, row, s) \in Nat /\ Predict!find_line_end(o, row, s) <= o.size[1]
<1> DEFINE used == {c \in 0 .. (o.size[1] - 1) : Predict!confirmed_cell(s, row, c) # Predict!Blank}
<1>1. o.size[1] \in Nat /\ o.size[1] > 0
  BY OverlayFields, PredictSize
<1>2. CASE used = {}
  BY <1>1, <1>2 DEF Predict!find_line_end
<1>3. CASE used # {}
  <2> DEFINE c == CHOOSE c \in used : \A d \in used : d <= c
  <2>1. o.size[1] - 1 \in Nat /\ used \in SUBSET (0 .. (o.size[1] - 1))
    BY <1>1
  <2> HIDE DEF used
  <2>2. \E x \in used : \A d \in used : d <= x
    BY <1>3, <2>1, GreatestBelow
  <2>3. c \in used
    BY <2>2
  <2>4. Predict!find_line_end(o, row, s) = 1 + c
    BY <1>3 DEF Predict!find_line_end, used
  <2> HIDE DEF c
  <2> QED
    BY <1>1, <2>1, <2>3, <2>4
<1> QED
  BY <1>2, <1>3

(* What classify_input may answer.                                         *)
LEMMA ClassifyIs ==
  ASSUME NEW b \in Batches
  PROVE  LET a == Predict!classify_input(b)
         IN  \/ a.kind \in {"Char", "Batch"} /\ a.chars \in Seq(Predict!Printable)
             \/ a.kind \in {"Backspace", "Left", "Right", "Home", "End", "Enter", "EpochReset", "Bulk",
                            "PasteStart", "PasteEnd"}
<1> DEFINE a == Predict!classify_input(b)
           long == Predict!BatchBytes(b) > Predict!BULK_SUPPRESS_THRESHOLD
           paste == b \in {<<"PasteStart">>, <<"PasteEnd">>}
<1>1. b \in Seq(STRING)
  BY PredictAssumption DEF Predict!PredictorAssumption
<1>2. CASE paste
  <2>1. a = Predict!Action(b[1], <<>>)
    BY <1>2 DEF Predict!classify_input
  <2> QED
    BY <1>2, <2>1 DEF Predict!Action
<1>3. CASE ~paste /\ long
  <2>1. a = IF \A i \in DOMAIN b : b[i] \in Predict!Narrow
            THEN Predict!Action("Batch", b) ELSE Predict!Action("Bulk", <<>>)
    BY <1>3 DEF Predict!classify_input
  <2>2. CASE \A i \in DOMAIN b : b[i] \in Predict!Narrow
    <3>1. b \in Seq(Predict!Printable)
      BY <1>1, <2>2 DEF Predict!Printable
    <3> QED
      BY <2>1, <2>2, <3>1 DEF Predict!Action
  <2>3. CASE ~ \A i \in DOMAIN b : b[i] \in Predict!Narrow
    BY <2>1, <2>3 DEF Predict!Action
  <2> QED
    BY <2>2, <2>3
<1>4. CASE ~paste /\ ~long
  <2>1. a = IF Len(b) = 1 /\ b[1] \in Predict!Motions
            THEN Predict!Action(b[1], <<>>) ELSE Predict!classify_printable(b)
    BY <1>4 DEF Predict!classify_input
  <2>2. CASE Len(b) = 1 /\ b[1] \in Predict!Motions
    BY <2>1, <2>2 DEF Predict!Action, Predict!Motions
  <2>3. CASE ~ (Len(b) = 1 /\ b[1] \in Predict!Motions)
    <3>1. a = Predict!classify_printable(b)
      BY <2>1, <2>3
    <3>2. CASE Len(b) = 1 /\ b[1] \in Predict!Printable
      <4>1. b \in Seq(Predict!Printable)
        <5>1. DOMAIN b = 1 .. Len(b) /\ \A i \in 1 .. Len(b) : i = 1
          BY <1>1, <3>2
        <5>2. \A i \in DOMAIN b : b[i] \in Predict!Printable
          BY <3>2, <5>1
        <5> QED
          BY <1>1, <5>2
      <4> QED
        BY <3>1, <3>2, <4>1 DEF Predict!Action, Predict!classify_printable
    <3>3. CASE ~ (Len(b) = 1 /\ b[1] \in Predict!Printable)
      BY <3>1, <3>3 DEF Predict!Action, Predict!classify_printable
    <3> QED
      BY <3>2, <3>3
  <2> QED
    BY <2>2, <2>3
<1> QED
  BY <1>2, <1>3, <1>4

(* A key that only moves the caret.                                        *)
LEMMA MovedOK ==
  ASSUME NEW size, NEW frame, NEW keyed \in Nat, NEW m, NEW o, PredictOK(o, size, frame, keyed, m),
         NEW c \in Nat \X Nat, c[1] < size[2], c[2] <= size[1]
  PROVE  /\ PredictOK([o EXCEPT !.cursor = c, !.motion = TRUE], size, frame, keyed, m)
         /\ PredictOK([o EXCEPT !.cursor = c], size, frame, keyed, m)
<1>0. o \in Overlays /\ Placed(o, size) /\ OfLine(o, keyed)
  BY DEF PredictOK
<1>1. o.epoch \in Nat /\ keyed <= o.epoch /\ o.startCol <= size[1] /\ o.size = size
  BY <1>0, OverlayFields DEF OfLine, Placed
<1>2. ASSUME NEW mo \in BOOLEAN
      PROVE  PredictOK([o EXCEPT !.cursor = c, !.motion = mo], size, frame, keyed, m)
  <2> DEFINE o2 == [o EXCEPT !.cursor = c, !.motion = mo]
  <2>1. o2 \in Overlays
    BY <1>0 DEF Overlays
  <2>2. /\ o2.epoch = o.epoch /\ o2.confirmed = o.confirmed /\ o2.pending = o.pending
        /\ o2.size = o.size /\ o2.cursor = c /\ o2.startCol = o.startCol
    BY <1>0 DEF Overlays
  <2> HIDE DEF o2
  <2>3. o2.epoch >= o.epoch /\ keyed <= o2.epoch
    BY <1>1, <2>2
  <2>4. Predict!Range(o2.pending) \subseteq Predict!Range(o.pending)
    BY <2>2
  <2>5. PredictOK(o2, size, frame, keyed, m)
    BY <1>1, <2>1, <2>2, <2>3, <2>4, Rebuilt
  <2> QED
    BY <2>5 DEF o2
<1>3. [o EXCEPT !.cursor = c] = [o EXCEPT !.cursor = c, !.motion = o.motion] /\ o.motion \in BOOLEAN
  BY <1>0 DEF Overlays
<1>4. PredictOK([o EXCEPT !.cursor = c, !.motion = TRUE], size, frame, keyed, m)
  BY <1>2
<1>5. PredictOK([o EXCEPT !.cursor = c, !.motion = o.motion], size, frame, keyed, m)
  BY <1>2, <1>3
<1> QED
  BY <1>3, <1>4, <1>5

(* Bracketed paste.                                                        *)
LEMMA PasteOK ==
  ASSUME NEW size, NEW frame, NEW keyed \in Nat, NEW m, NEW o, PredictOK(o, size, frame, keyed, m),
         NEW v \in BOOLEAN
  PROVE  PredictOK([o EXCEPT !.paste = v], size, frame, keyed, m)
<1>0. o \in Overlays /\ Placed(o, size) /\ OfLine(o, keyed)
  BY DEF PredictOK
<1> DEFINE o2 == [o EXCEPT !.paste = v]
<1>1. o2 \in Overlays
  BY <1>0 DEF Overlays
<1>2. /\ o2.epoch = o.epoch /\ o2.confirmed = o.confirmed /\ o2.pending = o.pending
      /\ o2.size = o.size /\ o2.cursor = o.cursor /\ o2.startCol = o.startCol
  BY <1>0 DEF Overlays
<1> HIDE DEF o2
<1>3. o2.epoch >= o.epoch /\ keyed <= o2.epoch
  BY <1>0, <1>2, OverlayFields DEF OfLine
<1>4. o2.cursor[1] < size[2] /\ o2.cursor[2] <= size[1] /\ o2.startCol <= size[1] /\ o2.size = size
  BY <1>0, <1>2 DEF Placed
<1>5. Predict!Range(o2.pending) \subseteq Predict!Range(o.pending)
  BY <1>2
<1>6. PredictOK(o2, size, frame, keyed, m)
  BY <1>1, <1>2, <1>3, <1>4, <1>5, Rebuilt
<1> QED
  BY <1>6 DEF o2

(* Backspace takes back the prediction it erases.                          *)
LEMMA BackspaceOK ==
  ASSUME NEW size, NEW frame, NEW keyed \in Nat, NEW m, NEW o, PredictOK(o, size, frame, keyed, m)
  PROVE  PredictOK(Predict!Backspace(o), size, frame, keyed, m)
<1>0. o \in Overlays /\ Placed(o, size) /\ OfLine(o, keyed)
  BY DEF PredictOK
<1>1. CASE o.cursor[2] <= o.startCol
  BY <1>1 DEF Predict!Backspace
<1>2. CASE ~ (o.cursor[2] <= o.startCol)
  <2> DEFINE gone == {p \in Predict!Range(o.pending) :
                        <<p.row, p.col>> = <<o.cursor[1], o.cursor[2] - 1>>}
             ps == Predict!Without(o.pending, gone)
             c == <<o.cursor[1], o.cursor[2] - 1>>
             o2 == Predict!Backspace(o)
  <2>0. o2 = [o EXCEPT !.pending = ps, !.cursor = c, !.motion = TRUE]
    BY <1>2 DEF Predict!Backspace
  <2>1. /\ o.startCol \in Nat /\ o.cursor[1] \in Nat /\ o.cursor[2] \in Nat
        /\ o.pending \in Seq(Preds) /\ o.epoch \in Nat
    BY <1>0, OverlayFields
  <2>2. c \in Nat \X Nat /\ c[1] = o.cursor[1] /\ c[2] = o.cursor[2] - 1
    BY <1>2, <2>1
  <2> HIDE DEF gone
  <2>3. ps \in Seq(Preds) /\ Predict!Range(ps) \subseteq Predict!Range(o.pending)
    BY <2>1, WithoutKeeps
  <2> HIDE DEF ps, c, o2
  <2>4. o2 \in Overlays
    BY <1>0, <2>0, <2>2, <2>3 DEF Overlays
  <2>5. /\ o2.epoch = o.epoch /\ o2.confirmed = o.confirmed /\ o2.pending = ps
        /\ o2.size = o.size /\ o2.cursor = c /\ o2.startCol = o.startCol
    BY <1>0, <2>0 DEF Overlays
  <2>6. o2.epoch >= o.epoch /\ keyed <= o2.epoch
    BY <1>0, <2>1, <2>5 DEF OfLine
  <2>7. o2.cursor[1] < size[2] /\ o2.cursor[2] <= size[1] /\ o2.startCol <= size[1] /\ o2.size = size
    <3>1. o.size \in PredictSizes
      BY <1>0, OverlayFields
    <3>2. size[1] \in Nat
      BY <1>0, <3>1, PredictSize DEF Placed
    <3> QED
      BY <1>0, <2>1, <2>2, <2>5, <3>2 DEF Placed
  <2> QED
    BY <2>3, <2>4, <2>5, <2>6, <2>7, Rebuilt DEF o2
<1> QED
  BY <1>1, <1>2

(* Enter ends the line: no prediction outlives it and the next ones are of *)
(* a later epoch.                                                          *)
LEMMA EnterOK ==
  ASSUME NEW size, NEW frame, NEW keyed \in Nat, NEW m, NEW o, PredictOK(o, size, frame, keyed, m)
  PROVE  PredictOK(Predict!Enter(o), size, frame, keyed + 1, m)
<1>0. o \in Overlays /\ Placed(o, size) /\ OfLine(o, keyed)
  BY DEF PredictOK
<1> DEFINE row == IF o.cursor[1] < o.size[2] - 1 THEN o.cursor[1] + 1 ELSE o.cursor[1]
           c == <<row, 0>>
           o2 == Predict!Enter(o)
<1>1. /\ o.cursor[1] \in Nat /\ o.epoch \in Nat /\ o.size[1] \in Nat /\ o.size[2] \in Nat
      /\ o.size = size
  BY <1>0, OverlayFields, PredictSize DEF Placed
<1>2. row \in Nat /\ row < size[2]
  BY <1>0, <1>1 DEF Placed
<1>3. o2 = [o EXCEPT !.epoch = o.epoch + 1, !.pending = <<>>, !.needsSync = TRUE, !.startCol = 0,
                     !.motion = TRUE, !.cursor = c]
  BY <1>0 DEF Overlays, Predict!Enter, Predict!become_tentative
<1>4. c \in Nat \X Nat /\ c[1] = row /\ c[2] = 0
  BY <1>2
<1>5. <<>> \in Seq(Preds) /\ o.epoch + 1 \in Nat
  BY <1>1
<1> HIDE DEF o2, c
<1>6. o2 \in Overlays
  BY <1>0, <1>3, <1>4, <1>5 DEF Overlays
<1>7. /\ o2.epoch = o.epoch + 1 /\ o2.confirmed = o.confirmed /\ o2.pending = <<>>
      /\ o2.size = o.size /\ o2.cursor = c /\ o2.startCol = 0
  BY <1>0, <1>3 DEF Overlays
<1>8. o2.epoch > o.epoch /\ o2.epoch >= o.epoch /\ keyed + 1 <= o2.epoch /\ keyed + 1 \in Nat
  BY <1>0, <1>1, <1>7 DEF OfLine
<1>9. o2.cursor[1] < size[2] /\ o2.cursor[2] <= size[1] /\ o2.startCol <= size[1] /\ o2.size = size
  BY <1>1, <1>2, <1>4, <1>7
<1>10. Predict!Range(o2.pending) = {} /\ Predict!Range(o2.pending) \subseteq Predict!Range(o.pending)
  BY <1>7, RangeEmpty
<1> QED
  BY <1>6, <1>7, <1>8, <1>9, <1>10, Rebuilt DEF o2

\* The line a batch belongs to: Enter begins the next one.
LineAfter(keyed, a) == keyed + (IF a.kind = "Enter" THEN 1 ELSE 0)

(* The stdin arm: whatever is typed, the predictor stays sound.            *)
LEMMA InputOK ==
  ASSUME NEW size \in PredictSizes, NEW s \in Screens(size), NEW keyed \in Nat, NEW m, NEW o,
         PredictOK(o, size, s.epoch, keyed, m), NEW b \in Batches, NEW a, NEW line,
         a = Predict!classify_input(b), line = LineAfter(keyed, a)
  PROVE  line \in Nat /\ PredictOK(Predict!on_input(o, a, s, line), size, s.epoch, line, m)
<1> DEFINE o2 == Predict!on_input(o, a, s, line)
<1>0. s.epoch \in Nat /\ s.cursor \in Cells(size)
  BY DEF Screens
<1>1. /\ o \in Overlays /\ Placed(o, size) /\ o.startCol \in Nat /\ o.cursor[1] \in Nat
      /\ o.cursor[2] \in Nat /\ size[1] \in Nat /\ size[2] \in Nat /\ o.size = size
      /\ o.cursor[1] < size[2] /\ o.cursor[2] <= size[1] /\ o.startCol <= size[1]
  BY OverlayFields, PredictSize DEF PredictOK, Placed
<1> USE DEF LineAfter
<1>2. \/ a.kind \in {"Char", "Batch"} /\ a.chars \in Seq(Predict!Printable)
      \/ a.kind \in {"Backspace", "Left", "Right", "Home", "End", "Enter", "EpochReset", "Bulk",
                     "PasteStart", "PasteEnd"}
  BY ClassifyIs
<1>3. ASSUME NEW c \in Nat, c <= size[1]
      PROVE  /\ <<o.cursor[1], c>> \in Nat \X Nat
             /\ PredictOK([o EXCEPT !.cursor = <<o.cursor[1], c>>, !.motion = TRUE], size, s.epoch,
                          keyed, m)
  <2> DEFINE d == <<o.cursor[1], c>>
  <2>1. d \in Nat \X Nat /\ d[1] < size[2] /\ d[2] <= size[1]
    BY <1>1, <1>3
  <2> HIDE DEF d
  <2>2. PredictOK([o EXCEPT !.cursor = d, !.motion = TRUE], size, s.epoch, keyed, m)
    BY <2>1, MovedOK
  <2> QED
    BY <2>1, <2>2 DEF d
<1>4. CASE a.kind \in {"Char", "Batch"} /\ a.chars \in Seq(Predict!Printable)
  <2>1. line = keyed
    BY <1>4
  <2>2. o2 = IF o.paste THEN o ELSE Predict!PredictChars(o, a.chars, s.epoch, line)
    BY <1>4 DEF Predict!on_input
  <2> HIDE DEF o2
  <2>3. PredictOK(Predict!PredictChars(o, a.chars, s.epoch, keyed), size, s.epoch, keyed, m)
    BY <1>0, <1>4, PredictCharsOK
  <2> QED
    BY <2>1, <2>2, <2>3 DEF o2
<1>5. CASE a.kind = "Backspace"
  <2>1. line = keyed /\ o2 = Predict!Backspace(o)
    BY <1>5 DEF Predict!on_input
  <2> QED
    BY <2>1, BackspaceOK
<1>6. CASE a.kind = "Left"
  <2> DEFINE c == IF o.cursor[2] > o.startCol THEN o.cursor[2] - 1 ELSE o.cursor[2]
  <2>1. line = keyed /\ o2 = [o EXCEPT !.cursor = <<o.cursor[1], c>>, !.motion = TRUE]
    BY <1>6 DEF Predict!on_input
  <2>2. c \in Nat /\ c <= size[1]
    BY <1>1
  <2> HIDE DEF c
  <2> QED
    BY <1>3, <2>1, <2>2
<1>7. CASE a.kind = "Right"
  <2> DEFINE c == IF o.cursor[2] + 1 < o.size[1] THEN o.cursor[2] + 1 ELSE o.cursor[2]
  <2>1. line = keyed /\ o2 = [o EXCEPT !.cursor = <<o.cursor[1], c>>, !.motion = TRUE]
    BY <1>7 DEF Predict!on_input
  <2>2. c \in Nat /\ c <= size[1]
    BY <1>1
  <2> HIDE DEF c
  <2> QED
    BY <1>3, <2>1, <2>2
<1>8. CASE a.kind = "Home"
  <2>1. line = keyed /\ o2 = [o EXCEPT !.cursor = <<o.cursor[1], o.startCol>>, !.motion = TRUE]
    BY <1>8 DEF Predict!on_input
  <2> QED
    BY <1>1, <1>3, <2>1
<1>9. CASE a.kind = "End"
  <2> DEFINE c == Predict!find_line_end(o, o.cursor[1], s)
  <2>1. line = keyed /\ o2 = [o EXCEPT !.cursor = <<o.cursor[1], c>>, !.motion = TRUE]
    BY <1>9 DEF Predict!on_input
  <2>2. c \in Nat /\ c <= size[1]
    BY <1>1, LineEndFits
  <2> HIDE DEF c
  <2> QED
    BY <1>3, <2>1, <2>2
<1>10. CASE a.kind = "Enter"
  <2>1. line = keyed + 1 /\ o2 = Predict!Enter(o)
    BY <1>10 DEF Predict!on_input
  <2> QED
    BY <2>1, EnterOK
<1>11. CASE a.kind = "EpochReset"
  <2>1. line = keyed /\ o2 = [Predict!reset(o) EXCEPT !.cursor = s.cursor]
    BY <1>11 DEF Predict!on_input, Predict!reset_with_cursor
  <2>2. s.cursor \in Nat \X Nat /\ s.cursor[1] < size[2] /\ s.cursor[2] <= size[1]
    BY <1>0, <1>1 DEF Cells
  <2>3. PredictOK(Predict!reset(o), size, s.epoch, keyed, m)
    BY ResetOK
  <2>4. PredictOK([Predict!reset(o) EXCEPT !.cursor = s.cursor], size, s.epoch, keyed, m)
    BY <2>2, <2>3, MovedOK
  <2> QED
    BY <2>1, <2>4
<1>12. CASE a.kind = "Bulk"
  <2>1. line = keyed /\ (o2 = Predict!reset(o) \/ o2 = Predict!become_tentative(o))
    BY <1>12 DEF Predict!on_input
  <2> QED
    BY <2>1, ResetOK, TentativeOK
<1>13. CASE a.kind = "PasteStart"
  <2> DEFINE u == [o EXCEPT !.paste = TRUE]
  <2>1. line = keyed /\ o2 = Predict!reset(u)
    BY <1>13 DEF Predict!on_input
  <2>2. PredictOK(u, size, s.epoch, keyed, m)
    BY PasteOK
  <2> HIDE DEF u, o2
  <2>3. PredictOK(Predict!reset(u), size, s.epoch, keyed, m)
    BY <2>2, ResetOK
  <2> QED
    BY <2>1, <2>3 DEF o2
<1>14. CASE a.kind = "PasteEnd"
  <2> DEFINE u == [o EXCEPT !.paste = FALSE]
  <2>1. line = keyed /\ o2 = u
    BY <1>14 DEF Predict!on_input
  <2>2. PredictOK(u, size, s.epoch, keyed, m)
    <3>1. FALSE \in BOOLEAN
      OBVIOUS
    <3> QED
      BY <3>1, PasteOK, Zenon
  <2> HIDE DEF u, o2
  <2> QED
    BY <2>1, <2>2 DEF o2
<1> QED
  BY <1>2, <1>4, <1>5, <1>6, <1>7, <1>8, <1>9, <1>10, <1>11, <1>12, <1>13, <1>14

\* What the loop of cull keeps, and what became of a prediction of the frame's epoch.
Keys == Nat \X Nat \X Nat
Culls(o, s) ==
  {q \in [confirmed : Nat, gone : SUBSET Keys, killed : SUBSET Nat, wrong : BOOLEAN] :
     \/ q.confirmed = o.confirmed
     \/ \E p \in Predict!Range(o.pending) :
          Predict!confirmed_cell(s, p.row, p.col) = p.ch /\ q.confirmed = p.until}
Handled(q, p, epoch) ==
  Predict!Due(p, epoch) => p.until \in q.killed \/ <<p.row, p.col, p.required>> \in q.gone
Advances(q, q2, p, epoch) ==
  \/ q2.wrong
  \/ /\ ~q.wrong /\ Handled(q2, p, epoch)
     /\ q.gone \subseteq q2.gone /\ q.killed \subseteq q2.killed

(* One prediction: it is handled or the overlay is wrong, and an epoch is  *)
(* credited only by a prediction the frame shows in its place.             *)
LEMMA CullStepIs ==
  ASSUME NEW o \in Overlays, NEW s, NEW q \in Culls(o, s), NEW p \in Predict!Range(o.pending)
  PROVE  /\ Predict!CullStep(q, p, s) \in Culls(o, s)
         /\ Advances(q, Predict!CullStep(q, p, s), p, s.epoch)
<1> DEFINE v == Predict!check_validity(Predict!confirmed_cell(s, p.row, p.col), p.ch)
           ripe == Predict!Due(p, s.epoch)
           x == <<p.row, p.col, p.required>>
           q2 == Predict!CullStep(q, p, s)
<1>1. p \in Preds
  BY OverlayFields
<1>2. x \in Keys /\ p.until \in Nat /\ p.ch # Predict!Blank
  BY <1>1 DEF Preds, Keys, Predict!Printable, Predict!Narrow, Predict!Wide, Predict!Blank
<1>3. /\ q.confirmed \in Nat /\ q.gone \in SUBSET Keys /\ q.killed \in SUBSET Nat
      /\ q.wrong \in BOOLEAN
      /\ q = [confirmed |-> q.confirmed, gone |-> q.gone, killed |-> q.killed, wrong |-> q.wrong]
      /\ \/ q.confirmed = o.confirmed
         \/ \E r \in Predict!Range(o.pending) :
              Predict!confirmed_cell(s, r.row, r.col) = r.ch /\ q.confirmed = r.until
  BY DEF Culls
<1>4. (v = "Correct" /\ Predict!confirmed_cell(s, p.row, p.col) = p.ch) \/ v = "Incorrect"
  BY <1>2 DEF Predict!check_validity
<1> HIDE DEF v, x, ripe
<1>5. CASE q.wrong
  <2>1. q2 = q
    BY <1>5 DEF Predict!CullStep, ripe, v
  <2> QED
    BY <1>5, <2>1 DEF Advances
<1>6. CASE ~q.wrong /\ ~ripe
  <2>1. q2 = q
    BY <1>6 DEF Predict!CullStep, ripe, v
  <2> QED
    BY <1>6, <2>1 DEF Advances, Handled, ripe
<1>7. CASE ~q.wrong /\ ripe /\ v = "Correct"
  <2> DEFINE c == IF p.until > q.confirmed THEN p.until ELSE q.confirmed
  <2>1. q2 = [q EXCEPT !.confirmed = c, !.gone = q.gone \cup {x}]
    BY <1>7 DEF Predict!CullStep, ripe, v, x
  <2>2. c \in Nat /\ (c = p.until \/ c = q.confirmed)
    BY <1>2, <1>3
  <2> HIDE DEF q2, c
  <2>3. /\ q2.confirmed = c /\ q2.gone = q.gone \cup {x} /\ q2.killed = q.killed
        /\ q2.wrong = q.wrong
        /\ q2 \in [confirmed : Nat, gone : SUBSET Keys, killed : SUBSET Nat, wrong : BOOLEAN]
    BY <1>2, <1>3, <2>1, <2>2
  <2>4. q2 \in Culls(o, s)
    BY <1>3, <1>4, <1>7, <2>2, <2>3 DEF Culls
  <2>5. Advances(q, q2, p, s.epoch)
    BY <1>7, <2>3 DEF Advances, Handled, x
  <2> QED
    BY <2>4, <2>5 DEF q2
<1>8. CASE ~q.wrong /\ ripe /\ v = "Incorrect" /\ p.until > q.confirmed
  <2>1. q2 = [q EXCEPT !.killed = q.killed \cup {p.until}, !.gone = q.gone \cup {x}]
    BY <1>8 DEF Predict!CullStep, ripe, v, x
  <2> HIDE DEF q2
  <2>3. /\ q2.confirmed = q.confirmed /\ q2.gone = q.gone \cup {x}
        /\ q2.killed = q.killed \cup {p.until} /\ q2.wrong = q.wrong
        /\ q2 \in [confirmed : Nat, gone : SUBSET Keys, killed : SUBSET Nat, wrong : BOOLEAN]
    BY <1>2, <1>3, <2>1
  <2>4. q2 \in Culls(o, s)
    BY <1>3, <2>3 DEF Culls
  <2>5. Advances(q, q2, p, s.epoch)
    BY <1>8, <2>3 DEF Advances, Handled, x
  <2> QED
    BY <2>4, <2>5 DEF q2
<1>9. CASE ~q.wrong /\ ripe /\ v = "Incorrect" /\ ~ (p.until > q.confirmed)
  <2>1. q2 = [q EXCEPT !.wrong = TRUE]
    BY <1>9 DEF Predict!CullStep, ripe, v, x
  <2> HIDE DEF q2
  <2>3. /\ q2.confirmed = q.confirmed /\ q2.wrong = TRUE
        /\ q2 \in [confirmed : Nat, gone : SUBSET Keys, killed : SUBSET Nat, wrong : BOOLEAN]
    BY <1>3, <2>1
  <2>4. q2 \in Culls(o, s)
    BY <1>3, <2>3 DEF Culls
  <2> QED
    BY <2>3, <2>4 DEF q2, Advances
<1> QED
  BY <1>4, <1>5, <1>6, <1>7, <1>8, <1>9

(* The loop of cull: unless the overlay is wrong, every prediction the     *)
(* frame decides is handled.                                               *)
LEMMA CullLoopIs ==
  ASSUME NEW o \in Overlays, NEW s
  PROVE  LET q == Predict!CullLoop(o, s)
         IN  /\ q \in Culls(o, s)
             /\ q.wrong \/ \A p \in Predict!Range(o.pending) : Handled(q, p, s.epoch)
<1> DEFINE X == Culls(o, s)
           b == [confirmed |-> o.confirmed, gone |-> {}, killed |-> {}, wrong |-> FALSE]
           n == Len(o.pending)
           after[i \in 0 .. n] ==
             IF i = 0 THEN b ELSE Predict!CullStep(after[i - 1], o.pending[i], s)
           g == [p \in X \X (1 .. n) |-> Predict!CullStep(p[1], o.pending[p[2]], s)]
<1>0. o.pending \in Seq(Preds) /\ o.confirmed \in Nat
  BY OverlayFields
<1>1. n \in Nat /\ b \in X
  BY <1>0 DEF Culls
<1>2. ASSUME NEW x \in X, NEW i \in 1 .. n
      PROVE  /\ Predict!CullStep(x, o.pending[i], s) \in X
             /\ Advances(x, Predict!CullStep(x, o.pending[i], s), o.pending[i], s.epoch)
  <2>1. o.pending[i] \in Predict!Range(o.pending)
    BY <1>0, RangeIn
  <2> QED
    BY <2>1, CullStepIs
<1> HIDE DEF X, b, n
<1>3. IsStep(g, X, n)
  BY <1>2 DEF IsStep
<1>4. PICK f : IsRun(f, n, X, b, g)
  <2> HIDE DEF g
  <2> QED
    BY <1>1, <1>3, LoopExists
<1>5. f = [i \in 0 .. n |-> IF i = 0 THEN b ELSE Predict!CullStep(f[i - 1], o.pending[i], s)]
  <2>1. ASSUME NEW i \in 1 .. n
        PROVE  f[i] = Predict!CullStep(f[i - 1], o.pending[i], s)
    <3>1. f[i - 1] \in X /\ f[i] = g[<<f[i - 1], i>>]
      <4> HIDE DEF g
      <4>1. i - 1 \in 0 .. n
        BY <1>1
      <4> QED
        BY <1>4, <4>1 DEF IsRun
    <3> QED
      BY <3>1
  <2> HIDE DEF g
  <2> QED
    BY <1>1, <1>4, <2>1 DEF IsRun
<1>6. after = [i \in 0 .. n |-> IF i = 0 THEN b ELSE Predict!CullStep(after[i - 1], o.pending[i], s)]
  BY <1>5, Zenon
<1>7. after[n] \in X /\ (after[n].wrong \/ \A j \in 1 .. n : Handled(after[n], o.pending[j], s.epoch))
  <2> HIDE DEF after
  <2> DEFINE All(q, i) == q.wrong \/ \A j \in 1 .. i : Handled(q, o.pending[j], s.epoch)
             S == {i \in 0 .. n : after[i] \in X /\ All(after[i], i)}
  <2>1. 0 \in S
    BY <1>1, <1>6
  <2>2. ASSUME NEW i \in 1 .. n, i - 1 \in S PROVE i \in S
    <3>1. after[i - 1] \in X /\ All(after[i - 1], i - 1) /\ i \in 0 .. n
      BY <1>1, <2>2
    <3>2. after[i] = Predict!CullStep(after[i - 1], o.pending[i], s)
      BY <1>1, <1>6, <3>1
    <3>3. after[i] \in X /\ Advances(after[i - 1], after[i], o.pending[i], s.epoch)
      BY <1>2, <3>1, <3>2
    <3>4. All(after[i], i)
      <4>1. CASE after[i].wrong
        BY <4>1
      <4>2. CASE ~after[i].wrong
        <5>1. ~after[i - 1].wrong /\ Handled(after[i], o.pending[i], s.epoch)
              /\ after[i - 1].gone \subseteq after[i].gone
              /\ after[i - 1].killed \subseteq after[i].killed
          BY <3>3, <4>2 DEF Advances
        <5>2. \A j \in 1 .. (i - 1) : Handled(after[i], o.pending[j], s.epoch)
          BY <3>1, <5>1 DEF Handled
        <5>3. \A j \in 1 .. i : j = i \/ j \in 1 .. (i - 1)
          OBVIOUS
        <5> QED
          BY <5>1, <5>2, <5>3
      <4> QED
        BY <4>1, <4>2
    <3> HIDE DEF All
    <3> QED
      BY <3>1, <3>3, <3>4
  <2>3. \A i \in 0 .. n : i \in S
    <3> HIDE DEF S
    <3> QED
      BY <1>1, <2>1, <2>2, UpTo
  <2> QED
    BY <1>1, <2>3
<1>8. Predict!CullLoop(o, s) = after[n]
  BY DEF Predict!CullLoop, n, b
<1> HIDE DEF after
<1>9. ASSUME NEW p \in Predict!Range(o.pending)
      PROVE  \E j \in 1 .. n : p = o.pending[j]
  BY <1>0 DEF n, Predict!Range
<1> QED
  BY <1>7, <1>8, <1>9 DEF X

(* A match of the line being typed leaves a sound overlay sound.           *)
LEMMA MoreMatched ==
  ASSUME NEW size, NEW frame, NEW keyed \in Nat, NEW m, NEW o, PredictOK(o, size, frame, keyed, m),
         NEW m2 \in SUBSET (Nat \X Nat), m \subseteq m2,
         \A x \in m2 : x \in m \/ (x[1] = keyed /\ x[2] <= o.epoch)
  PROVE  PredictOK(o, size, frame, keyed, m2)
<1>1. Credited(o, keyed, m)
  BY DEF PredictOK
<1>2. Credited(o, keyed, m2)
  BY <1>1 DEF Credited
<1> QED
  BY <1>2 DEF PredictOK

(* cull against a frame: what is left waits for a later one, and the epoch *)
(* it confirms was credited by a match of this line.                       *)
LEMMA CullOK ==
  ASSUME NEW size, NEW frame, NEW keyed \in Nat, NEW m, NEW o, PredictOK(o, size, frame, keyed, m),
         NEW s, s.epoch \in Nat, NEW rtt,
         \A p \in Predict!Range(o.pending) :
           Predict!confirmed_cell(s, p.row, p.col) = p.ch => <<p.line, p.until>> \in m
  PROVE  PredictOK(Predict!cull(o, s, rtt), size, s.epoch, keyed, m)
<1> DEFINE o1 == Predict!update_rtt_thresholds(o, rtt)
           q == Predict!CullLoop(o1, s)
           o2 == [o1 EXCEPT !.confirmed = q.confirmed]
           gone == {p \in Predict!Range(o2.pending) :
                      \/ p.until \in q.killed
                      \/ <<p.row, p.col, p.required>> \in q.gone}
           ps == Predict!Without(o2.pending, gone)
<1>0. o \in Overlays /\ Placed(o, size) /\ Fresh(o, frame) /\ OfLine(o, keyed) /\ Credited(o, keyed, m)
  BY DEF PredictOK
<1>1. /\ o1 \in Overlays
      /\ o1.epoch = o.epoch /\ o1.confirmed = o.confirmed /\ o1.pending = o.pending
      /\ o1.size = o.size /\ o1.cursor = o.cursor /\ o1.startCol = o.startCol
  <2> DEFINE t == rtt > 30 \/ (o.trigger /\ ~(rtt <= 20 /\ o.pending = <<>>))
             f == rtt > 80 \/ (o.flagging /\ rtt > 50)
  <2>1. t \in BOOLEAN /\ f \in BOOLEAN
    OBVIOUS
  <2>2. o1 = [o EXCEPT !.trigger = t, !.flagging = f]
    BY DEF Predict!update_rtt_thresholds
  <2> HIDE DEF t, f, o1
  <2> QED
    BY <1>0, <2>1, <2>2 DEF Overlays
<1> HIDE DEF o1
<1>2. q \in Culls(o1, s) /\ (q.wrong \/ \A p \in Predict!Range(o1.pending) : Handled(q, p, s.epoch))
  BY <1>1, CullLoopIs
<1>3. q.confirmed \in Nat /\ q.wrong \in BOOLEAN
  BY <1>2 DEF Culls
<1>4. \/ q.confirmed = o.confirmed
      \/ \E p \in Predict!Range(o.pending) :
           Predict!confirmed_cell(s, p.row, p.col) = p.ch /\ q.confirmed = p.until
  BY <1>1, <1>2 DEF Culls
<1> HIDE DEF q
<1>5. /\ o2 \in Overlays
      /\ o2.epoch = o.epoch /\ o2.confirmed = q.confirmed /\ o2.pending = o.pending
      /\ o2.size = o.size /\ o2.cursor = o.cursor /\ o2.startCol = o.startCol
  BY <1>1, <1>3 DEF Overlays
<1> HIDE DEF o2
<1>6. PredictOK(o2, size, frame, keyed, m)
  <2>1. Placed(o2, size) /\ Fresh(o2, frame)
    BY <1>0, <1>5 DEF Placed, Fresh
  <2>2. OfLine(o2, keyed)
    BY <1>0, <1>4, <1>5 DEF OfLine
  <2>3. o2.confirmed = 0 \/ \E x \in m : x[2] = o2.confirmed
    <3>1. CASE q.confirmed = o.confirmed
      BY <1>0, <1>5, <3>1 DEF Credited
    <3>2. CASE \E p \in Predict!Range(o.pending) :
                 Predict!confirmed_cell(s, p.row, p.col) = p.ch /\ q.confirmed = p.until
      <4>1. PICK p \in Predict!Range(o.pending) :
              Predict!confirmed_cell(s, p.row, p.col) = p.ch /\ q.confirmed = p.until
        BY <3>2
      <4>2. <<p.line, p.until>> \in m /\ <<p.line, p.until>>[2] = p.until
        BY <4>1
      <4> QED
        BY <1>5, <4>1, <4>2
    <3> QED
      BY <1>4, <3>1, <3>2
  <2>4. Credited(o2, keyed, m)
    BY <1>0, <1>5, <2>3 DEF Credited
  <2> QED
    BY <1>5, <2>1, <2>2, <2>4 DEF PredictOK
<1>7. ASSUME NEW w, PredictOK(w, size, frame, keyed, m), Fresh(w, s.epoch)
      PROVE  PredictOK(w, size, s.epoch, keyed, m)
  BY <1>7 DEF PredictOK
<1>8. CASE q.wrong
  <2>1. Predict!cull(o, s, rtt) = Predict!reset(o2)
    BY <1>8 DEF Predict!cull, o1, q, o2
  <2>2. PredictOK(Predict!reset(o2), size, frame, keyed, m) /\ Predict!reset(o2).pending = <<>>
    BY <1>6, ResetOK, ZenonT(40)
  <2>3. Fresh(Predict!reset(o2), s.epoch)
    BY <2>2, RangeEmpty DEF Fresh
  <2> QED
    BY <1>7, <2>1, <2>2, <2>3
<1>9. CASE ~q.wrong
  <2> DEFINE w == [o2 EXCEPT !.pending = ps]
  <2>1. Predict!cull(o, s, rtt) = w
    BY <1>9 DEF Predict!cull, o1, q, o2
  <2>2. o2.pending \in Seq(Preds) /\ o2.epoch \in Nat
    BY <1>5, OverlayFields
  <2>3. ps \in Seq(Preds) /\ Predict!Range(ps) \subseteq Predict!Range(o2.pending) \ gone
    <3> HIDE DEF gone
    <3> QED
      BY <2>2, WithoutKeeps
  <2>4. \A p \in Predict!Range(o2.pending) \ gone : p.required > s.epoch
    <3> TAKE p \in Predict!Range(o2.pending) \ gone
    <3>1. ~Predict!Due(p, s.epoch)
      BY <1>1, <1>2, <1>5, <1>9 DEF Handled
    <3>2. p.required \in Nat
      BY <1>5, OverlayFields DEF Preds
    <3> QED
      BY <3>1, <3>2 DEF Predict!Due
  <2> HIDE DEF gone, ps
  <2>5. /\ w \in Overlays /\ w.pending = ps
        /\ w.epoch = o2.epoch /\ w.confirmed = o2.confirmed
        /\ w.size = o2.size /\ w.cursor = o2.cursor /\ w.startCol = o2.startCol
    BY <1>5, <2>3 DEF Overlays
  <2> HIDE DEF w
  <2>6. w.epoch >= o2.epoch /\ keyed <= w.epoch
    BY <1>6, <2>2, <2>5 DEF PredictOK, OfLine
  <2>7. w.cursor[1] < size[2] /\ w.cursor[2] <= size[1] /\ w.startCol <= size[1] /\ w.size = size
    BY <1>6, <2>5 DEF PredictOK, Placed
  <2>8. Predict!Range(w.pending) \subseteq Predict!Range(o2.pending)
    BY <2>3, <2>5
  <2>9. PredictOK(w, size, frame, keyed, m)
    BY <1>6, <2>5, <2>6, <2>7, <2>8, Rebuilt
  <2>10. Fresh(w, s.epoch)
    BY <2>3, <2>4, <2>5 DEF Fresh
  <2> QED
    BY <1>7, <2>1, <2>9, <2>10
<1> QED
  BY <1>3, <1>8, <1>9

(* After the cull the overlay follows the frame: its size, and the caret.  *)
LEMMA FollowOK ==
  ASSUME NEW size, NEW frame, NEW keyed \in Nat, NEW m, NEW o, PredictOK(o, size, frame, keyed, m),
         NEW size2 \in PredictSizes, NEW s \in Screens(size2)
  PROVE  /\ size2 = size => PredictOK(Predict!AfterApply(o, s, FALSE), size2, frame, keyed, m)
         /\ PredictOK(Predict!AfterApply(o, s, TRUE), size2, frame, keyed, m)
<1>0. /\ s.size = size2 /\ s.cursor \in Nat \X Nat /\ s.cursor[1] \in Nat /\ s.cursor[2] \in Nat
      /\ s.cursor[1] < size2[2] /\ s.cursor[2] <= size2[1]
  BY PredictSize DEF Screens, Cells
<1>1. o \in Overlays /\ Placed(o, size) /\ Fresh(o, frame) /\ OfLine(o, keyed) /\ Credited(o, keyed, m)
  BY DEF PredictOK
<1>2. ASSUME size2 = size
      PROVE  PredictOK(Predict!AfterApply(o, s, FALSE), size2, frame, keyed, m)
  <2> DEFINE w == Predict!sync_cursor_from_confirmed(o, s.cursor)
             c == IF o.needsSync THEN s.cursor[2] ELSE o.startCol
  <2>1. Predict!AfterApply(o, s, FALSE) = w
    BY DEF Predict!AfterApply
  <2>2. CASE o.pending # <<>> \/ o.motion
    <3>1. w = o
      BY <2>2 DEF Predict!sync_cursor_from_confirmed
    <3> QED
      BY <1>2, <2>1, <3>1
  <2>3. CASE ~ (o.pending # <<>> \/ o.motion)
    <3>1. w = [o EXCEPT !.cursor = s.cursor, !.startCol = c, !.needsSync = FALSE]
      BY <2>3 DEF Predict!sync_cursor_from_confirmed
    <3>2. c \in Nat /\ c <= size[1]
      BY <1>0, <1>1, <1>2, OverlayFields DEF Placed
    <3> HIDE DEF w, c
    <3>3. /\ w \in Overlays /\ w.pending = o.pending
          /\ w.epoch = o.epoch /\ w.confirmed = o.confirmed
          /\ w.size = o.size /\ w.cursor = s.cursor /\ w.startCol = c
      BY <1>0, <1>1, <3>1, <3>2 DEF Overlays
    <3>4. w.epoch >= o.epoch /\ keyed <= w.epoch
      BY <1>1, <3>3, OverlayFields DEF OfLine
    <3>5. w.cursor[1] < size[2] /\ w.cursor[2] <= size[1] /\ w.startCol <= size[1] /\ w.size = size
      BY <1>0, <1>1, <1>2, <3>2, <3>3 DEF Placed
    <3>6. Predict!Range(w.pending) \subseteq Predict!Range(o.pending)
      BY <3>3
    <3>7. PredictOK(w, size, frame, keyed, m)
      BY <3>3, <3>4, <3>5, <3>6, Rebuilt
    <3> QED
      BY <1>2, <2>1, <3>7
  <2> QED
    BY <2>2, <2>3
<1>3. PredictOK(Predict!AfterApply(o, s, TRUE), size2, frame, keyed, m)
  <2> DEFINE u == Predict!reset(Predict!set_size(o, s.size))
             w == Predict!AfterApply(o, s, TRUE)
  <2>1. /\ u \in Overlays /\ u.pending = <<>> /\ u.motion = FALSE /\ u.needsSync = TRUE
        /\ u.epoch = o.epoch + 1 /\ u.confirmed = o.confirmed /\ u.size = size2
    <3>1. o.epoch + 1 \in Nat /\ <<>> \in Seq(Preds)
      BY <1>1, OverlayFields
    <3>2. u = [o EXCEPT !.size = size2, !.epoch = o.epoch + 1, !.pending = <<>>, !.motion = FALSE,
                        !.needsSync = TRUE]
      BY <1>0, <1>1 DEF Overlays, Predict!reset, Predict!set_size, Predict!become_tentative
    <3> HIDE DEF u
    <3> QED
      BY <1>1, <3>1, <3>2 DEF Overlays
  <2>2. w = Predict!sync_cursor_from_confirmed(u, s.cursor)
    BY DEF Predict!AfterApply
  <2> HIDE DEF u, w
  <2>3. w = [u EXCEPT !.cursor = s.cursor, !.startCol = s.cursor[2], !.needsSync = FALSE]
    BY <2>1, <2>2 DEF Predict!sync_cursor_from_confirmed
  <2>4. /\ w \in Overlays /\ w.pending = <<>> /\ w.epoch = o.epoch + 1
        /\ w.confirmed = o.confirmed /\ w.size = size2 /\ w.cursor = s.cursor
        /\ w.startCol = s.cursor[2]
    BY <1>0, <2>1, <2>3 DEF Overlays
  <2>5. Predict!Range(w.pending) = {} /\ o.epoch \in Nat /\ o.confirmed \in Nat
    BY <1>1, <2>4, RangeEmpty, OverlayFields
  <2>6. Placed(w, size2) /\ Fresh(w, frame)
    BY <1>0, <2>4, <2>5 DEF Placed, Fresh
  <2>7. OfLine(w, keyed)
    BY <1>1, <2>4, <2>5 DEF OfLine
  <2>8. Credited(w, keyed, m)
    <3>1. ASSUME NEW x \in m PROVE x[2] <= w.epoch /\ x[2] # w.epoch
      <4>1. x[2] \in Nat /\ x[2] <= o.epoch
        BY <1>1 DEF Credited
      <4> QED
        BY <2>4, <2>5, <4>1
    <3> QED
      BY <1>1, <2>4, <2>5, <3>1 DEF Credited
  <2> QED
    BY <2>4, <2>6, <2>7, <2>8 DEF PredictOK, w
<1> QED
  BY <1>2, <1>3

(* The external shell keeps its cursor in its window.                      *)
LEMMA PutFits ==
  ASSUME NEW size \in PredictSizes, NEW sh \in Shells(size), NEW ch \in Predict!Printable
  PROVE  Predict!Put(sh, ch) \in Shells(size)
<1> DEFINE w == Predict!Width(ch)
           c == <<sh.cursor[1], IF sh.cursor[2] + w < sh.size[1] THEN sh.cursor[2] + w
                                ELSE sh.size[1] - 1>>
           g == [sh.grid EXCEPT ![sh.cursor] = ch]
<1>1. w \in Nat /\ size[1] \in Nat /\ size[2] \in Nat /\ size[1] > 0
  BY WidthIs, PredictSize
<1>2. /\ sh.size = size /\ sh.cursor \in Cells(size) /\ sh.grid \in [Cells(size) -> Drawn]
  BY DEF Shells
<1> HIDE DEF w
<1>3. c \in Cells(size)
  BY <1>1, <1>2 DEF Cells
<1>4. g \in [Cells(size) -> Drawn]
  BY <1>2 DEF Drawn
<1>5. Predict!Put(sh, ch) = [sh EXCEPT !.grid = g, !.cursor = c]
  BY DEF Predict!Put, w
<1> HIDE DEF c, g
<1> QED
  BY <1>3, <1>4, <1>5 DEF Shells

(* Any key but Enter.                                                      *)
LEMMA ReadKeyFits ==
  ASSUME NEW size \in PredictSizes, NEW sh \in Shells(size), NEW k
  PROVE  Predict!ReadKey(sh, k) \in Shells(size)
<1> DEFINE x == sh.cursor[1]
           y == sh.cursor[2]
<1>1. size[1] \in Nat /\ size[2] \in Nat /\ size[1] > 0
  BY PredictSize
<1>2. /\ sh.size = size /\ sh.cursor \in Cells(size) /\ sh.grid \in [Cells(size) -> Drawn]
  BY DEF Shells
<1>3. x \in 0 .. (size[2] - 1) /\ y \in 0 .. (size[1] - 1)
  BY <1>2 DEF Cells
<1> HIDE DEF x, y
<1>4. ASSUME NEW d \in 0 .. (size[1] - 1), NEW g \in [Cells(size) -> Drawn]
      PROVE  /\ [sh EXCEPT !.cursor = <<x, d>>, !.grid = g] \in Shells(size)
             /\ [sh EXCEPT !.cursor = <<x, d>>] \in Shells(size)
  <2> DEFINE c == <<x, d>>
  <2>1. c \in Cells(size)
    BY <1>1, <1>3 DEF Cells
  <2> HIDE DEF c
  <2>2. [sh EXCEPT !.cursor = c, !.grid = g] \in Shells(size)
    BY <2>1 DEF Shells
  <2>3. [sh EXCEPT !.cursor = c] \in Shells(size)
    BY <2>1 DEF Shells
  <2> QED
    BY <2>2, <2>3 DEF c
<1>5. CASE k \in Predict!Printable
  <2>1. Predict!ReadKey(sh, k) = IF sh.echo THEN Predict!Put(sh, k) ELSE sh
    BY <1>5 DEF Predict!ReadKey, Predict!Printable, Predict!Narrow, Predict!Wide
  <2> QED
    BY <1>5, <2>1, PutFits
<1>6. CASE k = "Backspace"
  <2> DEFINE g == [sh.grid EXCEPT ![<<x, y - 1>>] = Predict!Blank]
  <2>1. Predict!ReadKey(sh, k) =
          IF sh.echo /\ y > 0 THEN [sh EXCEPT !.cursor = <<x, y - 1>>, !.grid = g] ELSE sh
    BY <1>6 DEF Predict!ReadKey, Predict!Printable, Predict!Narrow, Predict!Wide, x, y
  <2>2. g \in [Cells(size) -> Drawn]
    BY <1>2 DEF Drawn
  <2> HIDE DEF g
  <2>3. y > 0 => y - 1 \in 0 .. (size[1] - 1)
    BY <1>1, <1>3
  <2>4. CASE sh.echo /\ y > 0
    BY <1>4, <2>1, <2>2, <2>3, <2>4
  <2> QED
    BY <2>1, <2>4
<1>7. CASE k = "Left"
  <2> DEFINE d == IF y > 0 THEN y - 1 ELSE 0
  <2>1. Predict!ReadKey(sh, k) = [sh EXCEPT !.cursor = <<x, d>>]
    BY <1>7 DEF Predict!ReadKey, Predict!Printable, Predict!Narrow, Predict!Wide, x, y
  <2>2. d \in 0 .. (size[1] - 1)
    BY <1>1, <1>3
  <2> HIDE DEF d
  <2> QED
    BY <1>2, <1>4, <2>1, <2>2
<1>8. CASE k = "Right"
  <2> DEFINE d == IF y + 1 < sh.size[1] THEN y + 1 ELSE y
  <2>1. Predict!ReadKey(sh, k) = [sh EXCEPT !.cursor = <<x, d>>]
    BY <1>8 DEF Predict!ReadKey, Predict!Printable, Predict!Narrow, Predict!Wide, x, y
  <2>2. d \in 0 .. (size[1] - 1)
    BY <1>1, <1>2, <1>3
  <2> HIDE DEF d
  <2> QED
    BY <1>2, <1>4, <2>1, <2>2
<1>9. CASE k \notin Predict!Printable /\ k \notin {"Backspace", "Left", "Right"}
  <2>1. Predict!ReadKey(sh, k) = sh
    BY <1>9 DEF Predict!ReadKey
  <2> QED
    BY <2>1
<1> QED
  BY <1>5, <1>6, <1>7, <1>8, <1>9

(* A batch of keys.                                                         *)
LEMMA ReadKeysFits ==
  ASSUME NEW size \in PredictSizes, NEW sh \in Shells(size), NEW s \in Seq(STRING)
  PROVE  Predict!ReadKeys(sh, s) \in Shells(size)
<1> DEFINE X == Shells(size)
           b == sh
           n == Len(s)
           after[i \in 0 .. n] == IF i = 0 THEN b ELSE Predict!ReadKey(after[i - 1], s[i])
           g == [p \in X \X (1 .. n) |-> Predict!ReadKey(p[1], s[p[2]])]
<1>1. n \in Nat /\ b \in X
  OBVIOUS
<1>2. ASSUME NEW x \in X, NEW i \in 1 .. n
      PROVE  Predict!ReadKey(x, s[i]) \in X
  BY ReadKeyFits
<1> HIDE DEF X, b, n
<1>3. IsStep(g, X, n)
  BY <1>2 DEF IsStep
<1>4. PICK f : IsRun(f, n, X, b, g)
  <2> HIDE DEF g
  <2> QED
    BY <1>1, <1>3, LoopExists
<1>5. f = [i \in 0 .. n |-> IF i = 0 THEN b ELSE Predict!ReadKey(f[i - 1], s[i])]
  <2>1. ASSUME NEW i \in 1 .. n
        PROVE  f[i] = Predict!ReadKey(f[i - 1], s[i])
    <3>1. f[i - 1] \in X /\ f[i] = g[<<f[i - 1], i>>]
      <4> HIDE DEF g
      <4>1. i - 1 \in 0 .. n
        BY <1>1
      <4> QED
        BY <1>4, <4>1 DEF IsRun
    <3> QED
      BY <3>1
  <2> HIDE DEF g
  <2> QED
    BY <1>1, <1>4, <2>1 DEF IsRun
<1>6. after = [i \in 0 .. n |-> IF i = 0 THEN b ELSE Predict!ReadKey(after[i - 1], s[i])]
  BY <1>5, Zenon
<1>7. after[n] \in X
  <2> HIDE DEF after
  <2> DEFINE S == {i \in 0 .. n : after[i] \in X}
  <2>1. 0 \in S
    BY <1>1, <1>6
  <2>2. ASSUME NEW i \in 1 .. n, i - 1 \in S PROVE i \in S
    <3>1. after[i - 1] \in X /\ i \in 0 .. n
      BY <1>1, <2>2
    <3>2. after[i] = Predict!ReadKey(after[i - 1], s[i])
      BY <1>1, <1>6, <3>1
    <3> QED
      BY <1>2, <3>1, <3>2
  <2> HIDE DEF S
  <2>3. \A i \in 0 .. n : i \in S
    BY <1>1, <2>1, <2>2, UpTo
  <2> QED
    BY <1>1, <2>3 DEF S
<1>8. Predict!ReadKeys(sh, s) = after[n]
  BY DEF Predict!ReadKeys, n, b
<1> HIDE DEF after
<1> QED
  BY <1>7, <1>8 DEF X

(* Enter, and what the program it starts may do.                           *)
LEMMA ReadEnterFits ==
  ASSUME NEW size \in PredictSizes, NEW sh \in Shells(size)
  PROVE  Predict!ReadEnter(sh) \subseteq Shells(size)
<1> DEFINE c == <<IF sh.cursor[1] < sh.size[2] - 1 THEN sh.cursor[1] + 1 ELSE sh.cursor[1], 0>>
           nl == [sh EXCEPT !.cursor = c]
           T == {nl} \cup {Predict!Put(nl, g) : g \in Prompts}
<1>1. size[1] \in Nat /\ size[2] \in Nat /\ size[1] > 0
  BY PredictSize
<1>2. sh.size = size /\ sh.cursor \in Cells(size)
  BY DEF Shells
<1>3. c \in Cells(size)
  BY <1>1, <1>2 DEF Cells
<1> HIDE DEF c
<1>4. nl \in Shells(size)
  BY <1>3 DEF Shells
<1>5. Prompts \subseteq Predict!Printable
  BY PredictAssumption DEF Predict!PredictorAssumption, Predict!Printable
<1>6. Predict!ReadEnter(sh) =
        {[x[1] EXCEPT !.echo = x[2], !.alt = FALSE] : x \in T \X BOOLEAN}
          \cup {[nl EXCEPT !.echo = FALSE, !.alt = TRUE]}
  BY DEF Predict!ReadEnter, c
<1> HIDE DEF nl
<1>7. T \subseteq Shells(size)
  BY <1>4, <1>5, PutFits
<1> HIDE DEF T
<1>8. \A x \in T \X BOOLEAN : [x[1] EXCEPT !.echo = x[2], !.alt = FALSE] \in Shells(size)
  BY <1>7 DEF Shells
<1>9. [nl EXCEPT !.echo = FALSE, !.alt = TRUE] \in Shells(size)
  BY <1>4 DEF Shells
<1>10. ASSUME NEW r \in Predict!ReadEnter(sh) PROVE r \in Shells(size)
  <2>1. CASE r \in {[x[1] EXCEPT !.echo = x[2], !.alt = FALSE] : x \in T \X BOOLEAN}
    BY <1>8, <2>1
  <2>2. CASE r = [nl EXCEPT !.echo = FALSE, !.alt = TRUE]
    BY <1>9, <2>2
  <2> QED
    BY <1>6, <1>10, <2>1, <2>2
<1> QED
  BY <1>10

(* Every step of the predictor keeps its invariant.                        *)
LEMMA PredictStep ==
  ASSUME PredictInv, Predict!Next
  PROVE  PredictInv'
<1>0. /\ screen.size \in PredictSizes /\ screen \in Screens(screen.size)
      /\ shell.size \in PredictSizes /\ shell \in Shells(shell.size)
      /\ wasAlt \in BOOLEAN /\ inbox \in Seq(Batches)
      /\ lines \in [typed : Nat, read : Nat] /\ lines.typed \in Nat
      /\ PredictOK(overlay, screen.size, screen.epoch, lines.typed, matched)
  BY DEF PredictInv
<1>1. CASE Predict!Stdin
  <2>1. PICK b \in Batches :
          LET a == Predict!classify_input(b)
              line == lines.typed + (IF a.kind = "Enter" THEN 1 ELSE 0)
          IN  /\ overlay' = Predict!on_input(overlay, a, screen, line)
              /\ inbox' = Append(inbox, b)
              /\ lines' = [lines EXCEPT !.typed = line]
    BY <1>1 DEF Predict!Stdin
  <2> DEFINE a == Predict!classify_input(b)
             line == lines.typed + (IF a.kind = "Enter" THEN 1 ELSE 0)
  <2>2. /\ overlay' = Predict!on_input(overlay, a, screen, line) /\ inbox' = Append(inbox, b)
        /\ lines' = [lines EXCEPT !.typed = line]
    BY <2>1
  <2>3. screen' = screen /\ wasAlt' = wasAlt /\ shell' = shell /\ matched' = matched
    BY <1>1 DEF Predict!Stdin
  <2>4. line \in Nat /\ PredictOK(Predict!on_input(overlay, a, screen, line), screen.size,
                                  screen.epoch, line, matched)
    <3>1. a = Predict!classify_input(b) /\ line = LineAfter(lines.typed, a)
      BY DEF LineAfter
    <3> HIDE DEF a, line
    <3>2. screen.size \in PredictSizes /\ screen \in Screens(screen.size) /\ lines.typed \in Nat
      BY <1>0
    <3>3. PredictOK(overlay, screen.size, screen.epoch, lines.typed, matched)
      BY <1>0
    <3> QED
      BY <3>1, <3>2, <3>3, InputOK, ZenonT(40)
  <2> HIDE DEF a, line
  <2>5. inbox' \in Seq(Batches)
    BY <1>0, <2>2
  <2>6. lines' \in [typed : Nat, read : Nat] /\ lines'.typed = line
    BY <1>0, <2>2, <2>4
  <2>7. PredictOK(overlay', screen'.size, screen'.epoch, lines'.typed, matched')
    BY <2>2, <2>3, <2>4, <2>6
  <2> QED
    BY <1>0, <2>3, <2>5, <2>6, <2>7 DEF PredictInv
<1>2. CASE Predict!ShellReads
  <2>1. /\ inbox # <<>> /\ inbox' = Tail(inbox) /\ overlay' = overlay /\ screen' = screen
        /\ wasAlt' = wasAlt /\ matched' = matched
    BY <1>2 DEF Predict!ShellReads
  <2>2. Head(inbox) \in Batches /\ inbox' \in Seq(Batches)
    BY <1>0, <2>1
  <2>3. Head(inbox) \in Seq(STRING)
    BY <2>2, PredictAssumption DEF Predict!PredictorAssumption
  <2>4. shell' \in Shells(shell.size) /\ lines' \in [typed : Nat, read : Nat]
        /\ lines'.typed = lines.typed
    <3>1. CASE Head(inbox) = <<"Enter">>
      <4>1. shell' \in Predict!ReadEnter(shell) /\ lines' = [lines EXCEPT !.read = lines.read + 1]
        BY <1>2, <3>1 DEF Predict!ShellReads
      <4>2. shell' \in Shells(shell.size)
        BY <1>0, <4>1, ReadEnterFits
      <4> QED
        BY <1>0, <4>1, <4>2
    <3>2. CASE Head(inbox) # <<"Enter">>
      <4>1. shell' = Predict!ReadKeys(shell, Head(inbox)) /\ lines' = lines
        BY <1>2, <3>2 DEF Predict!ShellReads
      <4> QED
        BY <1>0, <2>3, <4>1, ReadKeysFits
    <3> QED
      BY <3>1, <3>2
  <2>5. shell'.size = shell.size
    BY <2>4 DEF Shells
  <2> QED
    BY <1>0, <2>1, <2>2, <2>4, <2>5 DEF PredictInv
<1>3. CASE Predict!WindowChange
  <2>1. PICK size \in PredictSizes :
          shell' = [shell EXCEPT !.size = size, !.grid = Predict!FitScreen(shell.grid, size),
                                 !.cursor = Predict!ClampTo(shell.cursor, size)]
    BY <1>3 DEF Predict!WindowChange
  <2>2. /\ overlay' = overlay /\ screen' = screen /\ wasAlt' = wasAlt /\ inbox' = inbox
        /\ matched' = matched /\ lines' = lines
    BY <1>3 DEF Predict!WindowChange
  <2>3. /\ size[1] \in Nat /\ size[2] \in Nat /\ size[1] > 0 /\ size[2] > 0
        /\ shell.size[1] \in Nat /\ shell.size[2] \in Nat
    BY <1>0, PredictSize
  <2>4. shell.cursor \in Cells(shell.size) /\ shell.grid \in [Cells(shell.size) -> Drawn]
    BY <1>0 DEF Shells
  <2>5. Predict!ClampTo(shell.cursor, size) \in Cells(size)
    BY <2>3, <2>4 DEF Cells, Predict!ClampTo
  <2>6. Predict!FitScreen(shell.grid, size) \in [Cells(size) -> Drawn]
    <3>1. DOMAIN Predict!BlankGrid(size) = Cells(size)
      BY DEF Predict!BlankGrid, Cells
    <3>2. \A rc \in Cells(size) :
            (IF rc \in DOMAIN shell.grid THEN shell.grid[rc] ELSE Predict!Blank) \in Drawn
      BY <2>4 DEF Drawn
    <3> QED
      BY <3>1, <3>2 DEF Predict!FitScreen
  <2>7. shell' \in Shells(size)
    BY <1>0, <2>1, <2>5, <2>6 DEF Shells
  <2>8. shell'.size = size
    BY <2>7 DEF Shells
  <2> QED
    BY <1>0, <2>2, <2>7, <2>8 DEF PredictInv
<1>4. CASE Predict!Datagram
  <2> DEFINE s == [size |-> shell.size, grid |-> shell.grid, cursor |-> shell.cursor,
                   epoch |-> screen.epoch + 1]
             o1 == IF shell.alt /\ ~wasAlt THEN Predict!reset(overlay) ELSE overlay
             hits == {q \in Predict!Range(overlay.pending) :
                        Predict!confirmed_cell(s, q.row, q.col) = q.ch}
             m2 == matched \cup {<<p.line, p.until>> : p \in hits}
             keyed == lines.typed
             size == screen.size
             frame == screen.epoch
  <2>1. PICK rtt \in Rtts :
          /\ screen' = s /\ wasAlt' = shell.alt
          /\ overlay' = Predict!AfterApply(Predict!cull(o1, s, rtt), s, s.size # screen.size)
          /\ matched' = m2
    BY <1>4 DEF Predict!Datagram
  <2>2. inbox' = inbox /\ shell' = shell /\ lines' = lines
    BY <1>4 DEF Predict!Datagram
  <2>3. /\ s.size = shell.size /\ s.epoch = screen.epoch + 1 /\ s.epoch \in Nat
        /\ s \in Screens(shell.size) /\ shell.alt \in BOOLEAN
    <3>1. /\ screen.epoch \in Nat /\ shell.cursor \in Cells(shell.size)
          /\ shell.grid \in [Cells(shell.size) -> Drawn] /\ shell.alt \in BOOLEAN
      BY <1>0 DEF Screens, Shells
    <3> QED
      BY <3>1 DEF Screens
  <2>4. PredictOK(overlay, size, frame, keyed, matched)
    BY <1>0
  <2> HIDE DEF s
  <2>5. /\ overlay \in Overlays /\ OfLine(overlay, keyed) /\ overlay.epoch \in Nat
        /\ matched \subseteq Nat \X Nat /\ Predict!Range(overlay.pending) \subseteq Preds
    BY <2>4, OverlayFields DEF PredictOK, Credited
  <2>6. /\ m2 \in SUBSET (Nat \X Nat) /\ matched \subseteq m2
        /\ \A x \in m2 : x \in matched \/ (x[1] = keyed /\ x[2] <= overlay.epoch)
    <3>1. \A p \in hits : /\ <<p.line, p.until>> \in Nat \X Nat /\ p.line = keyed
                          /\ p.until <= overlay.epoch
      BY <2>5 DEF OfLine, Preds
    <3> HIDE DEF hits
    <3> QED
      BY <2>5, <3>1
  <2>7. \A p \in Predict!Range(overlay.pending) :
          Predict!confirmed_cell(s, p.row, p.col) = p.ch => <<p.line, p.until>> \in m2
    OBVIOUS
  <2> HIDE DEF hits, m2, keyed, size, frame
  <2>8. PredictOK(overlay, size, frame, keyed, m2)
    BY <1>0, <2>4, <2>6, MoreMatched DEF keyed
  <2>9. /\ PredictOK(o1, size, frame, keyed, m2)
        /\ \A p \in Predict!Range(o1.pending) :
             Predict!confirmed_cell(s, p.row, p.col) = p.ch => <<p.line, p.until>> \in m2
    <3>1. CASE shell.alt /\ ~wasAlt
      <4>1. o1 = Predict!reset(overlay)
        BY <3>1
      <4>2. PredictOK(Predict!reset(overlay), size, frame, keyed, m2)
            /\ Predict!reset(overlay).pending = <<>>
        <5>1. keyed \in Nat
          BY <1>0 DEF keyed
        <5> QED
          BY <2>8, <5>1, ResetOK
      <4> QED
        BY <4>1, <4>2, RangeEmpty
    <3>2. CASE ~ (shell.alt /\ ~wasAlt)
      <4>1. o1 = overlay
        BY <3>2
      <4> QED
        BY <2>7, <2>8, <4>1
    <3> QED
      BY <3>1, <3>2
  <2> HIDE DEF o1
  <2> DEFINE o2 == Predict!cull(o1, s, rtt)
  <2>10. PredictOK(o2, size, s.epoch, keyed, m2)
    BY <1>0, <2>3, <2>9, CullOK DEF keyed
  <2> HIDE DEF o2
  <2>11. PredictOK(overlay', shell.size, s.epoch, keyed, m2)
    <3>1. CASE s.size = size
      <4>1. overlay' = Predict!AfterApply(o2, s, FALSE)
        BY <2>1, <3>1 DEF o2, size
      <4> QED
        BY <1>0, <2>3, <2>10, <3>1, <4>1, FollowOK DEF keyed
    <3>2. CASE s.size # size
      <4>1. overlay' = Predict!AfterApply(o2, s, TRUE)
        BY <2>1, <3>2 DEF o2, size
      <4> QED
        BY <1>0, <2>3, <2>10, <4>1, FollowOK DEF keyed
    <3> QED
      BY <3>1, <3>2
  <2>12. screen'.size = shell.size /\ screen'.epoch = s.epoch /\ lines'.typed = keyed
         /\ matched' = m2
    BY <2>1, <2>2, <2>3 DEF keyed
  <2> QED
    BY <1>0, <2>1, <2>2, <2>3, <2>11, <2>12 DEF PredictInv
<1>5. CASE Predict!Done
  BY <1>5 DEF Predict!Done, Predict!vars, PredictInv
<1> QED
  BY <1>1, <1>2, <1>3, <1>4, <1>5 DEF Predict!Next

(* A session starts with an empty overlay of the window's size.            *)
LEMMA PredictInit == Predict!Init => PredictInv
<1> SUFFICES ASSUME Predict!Init PROVE PredictInv
  OBVIOUS
<1>1. PICK size \in PredictSizes :
        /\ overlay = Predict!NewOverlay(size)
        /\ screen = [size |-> size, grid |-> Predict!BlankGrid(size), cursor |-> <<0, 0>>, epoch |-> 0]
        /\ shell = [size |-> size, grid |-> Predict!BlankGrid(size), cursor |-> <<0, 0>>,
                    echo |-> TRUE, alt |-> FALSE]
  BY DEF Predict!Init
<1>2. /\ wasAlt = FALSE /\ inbox = <<>> /\ matched = {} /\ lines = [typed |-> 0, read |-> 0]
  BY DEF Predict!Init
<1>3. size[1] \in Nat /\ size[2] \in Nat /\ size[1] > 0 /\ size[2] > 0
  BY PredictSize
<1> DEFINE g == Predict!BlankGrid(size)
           c == <<0, 0>>
<1>4. g \in [Cells(size) -> Drawn]
  BY DEF Predict!BlankGrid, Cells, Drawn
<1>5. c \in Cells(size) /\ c \in Nat \X Nat /\ c[1] = 0 /\ c[2] = 0
  BY <1>3 DEF Cells
<1>6. <<>> \in Seq(Preds)
  OBVIOUS
<1> HIDE DEF g, c
<1>7. screen \in Screens(size) /\ shell \in Shells(size) /\ screen.size = size /\ shell.size = size
      /\ screen.epoch = 0
  BY <1>1, <1>4, <1>5 DEF Screens, Shells, g, c
<1>8. /\ overlay \in Overlays /\ overlay.pending = <<>> /\ overlay.cursor = c
      /\ overlay.startCol = 0 /\ overlay.size = size /\ overlay.epoch = 0 /\ overlay.confirmed = 0
  BY <1>1, <1>5, <1>6 DEF Overlays, Predict!NewOverlay, c
<1>9. Predict!Range(overlay.pending) = {}
  BY <1>8, RangeEmpty
<1>10. PredictOK(overlay, size, 0, 0, matched)
  BY <1>2, <1>3, <1>5, <1>8, <1>9 DEF PredictOK, Placed, Fresh, OfLine, Credited
<1>11. inbox \in Seq(Batches) /\ lines \in [typed : Nat, read : Nat] /\ lines.typed = 0
  BY <1>2
<1>12. wasAlt \in BOOLEAN
  BY <1>2
<1> QED
  BY <1>7, <1>10, <1>11, <1>12 DEF PredictInv

(* The predictor's invariant, whatever is typed, shown and resized.        *)
THEOREM PredictInvariance == Predict!Spec => []PredictInv
<1>1. PredictInv /\ UNCHANGED Predict!vars => PredictInv'
  BY DEF PredictInv, Predict!vars
<1>2. PredictInv /\ [Predict!Next]_Predict!vars => PredictInv'
  BY <1>1, PredictStep
<1> QED
  BY <1>2, PredictInit, PTL DEF Predict!Spec

(* Of a prediction shown, the epoch was credited on its own line.          *)
LEMMA PredictShown == PredictInv => ShownWasMatched
<1> SUFFICES ASSUME PredictInv, NEW p \in Predict!Shown(overlay), p.line > 0 \/ p.until > 0
             PROVE  \E x \in matched : x[1] = p.line /\ x[2] >= p.until
  BY DEF ShownWasMatched, Predict!ShownWasMatched
<1>1. PredictOK(overlay, screen.size, screen.epoch, lines.typed, matched) /\ lines.typed \in Nat
  BY DEF PredictInv
<1>2. p \in Predict!Range(overlay.pending) /\ ~ (p.until > overlay.confirmed)
  BY DEF Predict!Shown, Predict!is_tentative
<1>3. /\ overlay.confirmed \in Nat /\ p \in Preds
  BY <1>1, <1>2, OverlayFields DEF PredictOK
<1>4. p.until \in Nat /\ p.line = lines.typed /\ lines.typed <= p.until
  BY <1>1, <1>2, <1>3 DEF PredictOK, OfLine, Preds
<1>5. overlay.confirmed # 0
  BY <1>1, <1>2, <1>3, <1>4
<1>6. PICK x \in matched : x[2] = overlay.confirmed
  BY <1>1, <1>5 DEF PredictOK, Credited
<1>7. x[2] >= p.until
  BY <1>2, <1>3, <1>4, <1>6
<1>8. x[1] = lines.typed
  BY <1>1, <1>2, <1>7 DEF PredictOK, Credited
<1> QED
  BY <1>4, <1>7, <1>8

(* Every prediction waits for a later frame and lies in the window.        *)
LEMMA PredictPlaced == PredictInv => PredictionsFit
<1> SUFFICES ASSUME PredictInv PROVE PredictionsFit
  OBVIOUS
<1>1. PredictOK(overlay, screen.size, screen.epoch, lines.typed, matched)
  BY DEF PredictInv
<1>2. screen.size[1] \in Nat /\ screen.size[2] \in Nat
  BY PredictSize DEF PredictInv
<1>3. DOMAIN screen.grid = Cells(screen.size)
  BY DEF PredictInv, Screens
<1>4. Predict!PendingIsFresh
  BY <1>1 DEF PredictOK, Fresh, Predict!PendingIsFresh
<1>5. ASSUME NEW p \in Predict!Shown(overlay)
      PROVE  <<p.row, p.col + Predict!Width(p.ch) - 1>> \in DOMAIN screen.grid
  <2>1. p \in Predict!Range(overlay.pending)
    BY DEF Predict!Shown
  <2>2. p \in Preds
    BY <1>1, <2>1, OverlayFields DEF PredictOK
  <2>3. p.row \in Nat /\ p.col \in Nat /\ Predict!Width(p.ch) \in {1, 2}
    BY <2>2, WidthIs DEF Preds
  <2>4. p.row < screen.size[2] /\ p.col + Predict!Width(p.ch) <= screen.size[1]
    BY <1>1, <2>1 DEF PredictOK, Placed
  <2> DEFINE e == p.col + Predict!Width(p.ch) - 1
  <2>5. p.row \in 0 .. (screen.size[2] - 1) /\ e \in 0 .. (screen.size[1] - 1)
    BY <1>2, <2>3, <2>4
  <2> HIDE DEF e
  <2> QED
    BY <1>3, <2>5 DEF Cells, e
<1>6. Predict!OverlayFitsScreen
  BY <1>1, <1>5 DEF PredictOK, Placed, Predict!OverlayFitsScreen
<1> QED
  BY <1>4, <1>6 DEF PredictionsFit

(* A glyph typed after an Enter, or after any epoch reset, is shown before *)
(* its echo only when a glyph of the same line was already seen where it   *)
(* was predicted, for every window, typing, echo and order of frames.      *)
THEOREM PredictShownWasMatched == Predict!Spec => []ShownWasMatched
BY PredictInvariance, PredictShown, PTL

(* No prediction outlives a frame that may contradict it, and caret and    *)
(* glyphs shown lie in the window on screen.                               *)
THEOREM PredictFits == Predict!Spec => []PredictionsFit
BY PredictInvariance, PredictPlaced, PTL

-----------------------------------------------------------------------------
(* The input path.  Where a paging sequence, or a part of one that may     *)
(* still become one, starts in a stream is stated byte by byte.            *)

Stride == Len(CSI_SHIFT_PAGEUP)
Whole(b, i, q) ==
  i + Stride - 1 <= Len(b) /\ \A k \in 1 .. Stride : b[i + k - 1] = q[k]
PartOf(b, i, q) ==
  Len(b) - i + 1 < Stride /\ \A k \in 1 .. (Len(b) - i + 1) : b[i + k - 1] = q[k]
Part(b, i) == \E q \in Input!Sequences2 : PartOf(b, i, q)

(* The two sequences are equally long and start with what they do not      *)
(* contain otherwise.                                                      *)
LEMMA PagingSequences ==
  /\ Stride \in Nat \ {0}
  /\ \A q \in Input!Sequences2 : q \in Seq(Bytes) /\ Len(q) = Stride
  /\ \A q, r \in Input!Sequences2 : \A i \in 2 .. Stride : q[i] # r[1]
<1>1. /\ Input!Sequences2 \subseteq Seq(Bytes) \ {<<>>}
      /\ Len(CSI_SHIFT_PAGEUP) = Len(CSI_SHIFT_PAGEDOWN)
      /\ \A q, r \in Input!Sequences2 : \A i \in 2 .. Len(q) : q[i] # r[1]
  BY TypedAssumption DEF Input!InputAssumption
<1>2. \A q \in Input!Sequences2 : q \in Seq(Bytes) /\ q # <<>> /\ Len(q) = Stride
  BY <1>1 DEF Input!Sequences2, Stride
<1>3. CSI_SHIFT_PAGEUP \in Input!Sequences2
  BY DEF Input!Sequences2
<1>4. Stride \in Nat \ {0}
  BY <1>2, <1>3
<1> QED
  BY <1>1, <1>2, <1>4

(* A sequence starts at i if its bytes are there.                          *)
LEMMA StartsAtIs ==
  ASSUME NEW b \in Seq(Bytes), NEW i \in 1 .. Len(b), NEW q \in Input!Sequences2
  PROVE  Input!StartsAt(b, i, q) <=> Whole(b, i, q)
<1>1. q \in Seq(Bytes) /\ Len(q) = Stride /\ Stride \in Nat \ {0}
  BY PagingSequences
<1> DEFINE s == SubSeq(b, i, i + Stride - 1)
<1>2. CASE i + Stride - 1 <= Len(b)
  <2>1. /\ Len(s) = Stride /\ s \in Seq(Bytes)
        /\ \A k \in 1 .. Stride : s[k] = b[i + k - 1]
    BY <1>1, <1>2
  <2>2. s = q <=> \A k \in 1 .. Stride : s[k] = q[k]
    <3> HIDE DEF s
    <3> QED
      BY <1>1, <2>1, SeqEqual
  <2> QED
    BY <1>1, <1>2, <2>1, <2>2 DEF Input!StartsAt, Whole
<1>3. CASE ~ (i + Stride - 1 <= Len(b))
  BY <1>1, <1>3 DEF Input!StartsAt, Whole
<1> QED
  BY <1>2, <1>3

(* What is left from i on is a part of a sequence if its bytes are there.  *)
LEMMA PrefixIs ==
  ASSUME NEW b \in Seq(Bytes), NEW i \in 1 .. Len(b)
  PROVE  Input!is_paging_prefix(SubSeq(b, i, Len(b))) <=> Part(b, i)
<1> DEFINE s == SubSeq(b, i, Len(b))
           n == Len(b) - i + 1
<1>1. /\ n \in Nat \ {0} /\ Len(s) = n /\ s \in Seq(Bytes) /\ s # <<>>
      /\ \A k \in 1 .. n : s[k] = b[i + k - 1]
  <2>1. n \in Nat \ {0} /\ i \in Int /\ Len(b) \in Nat /\ n = Len(b) - i + 1
    OBVIOUS
  <2>2. Len(s) = n /\ s \in Seq(Bytes) /\ \A k \in 1 .. n : s[k] = b[i + k - 1]
    OBVIOUS
  <2> HIDE DEF s, n
  <2> QED
    BY <2>1, <2>2
<1> HIDE DEF s
<1>2. ASSUME NEW q \in Input!Sequences2
      PROVE  (Len(s) < Len(q) /\ SubSeq(q, 1, Len(s)) = s) <=> PartOf(b, i, q)
  <2>1. q \in Seq(Bytes) /\ Len(q) = Stride /\ Stride \in Nat
    BY PagingSequences
  <2>2. CASE n < Stride
    <3> DEFINE t == SubSeq(q, 1, n)
    <3>1. t \in Seq(Bytes) /\ Len(t) = n /\ \A k \in 1 .. n : t[k] = q[k]
      BY <1>1, <2>1, <2>2
    <3> HIDE DEF t
    <3>2. t = s <=> \A k \in 1 .. n : t[k] = s[k]
      BY <1>1, <3>1, SeqEqual
    <3> QED
      BY <1>1, <2>1, <2>2, <3>1, <3>2 DEF PartOf, t
  <2>3. CASE ~ (n < Stride)
    BY <1>1, <2>1, <2>3 DEF PartOf
  <2> QED
    BY <2>2, <2>3
<1> QED
  BY <1>1, <1>2 DEF Input!is_paging_prefix, Part, s

(* A byte is kept if no sequence, and no part of one, covers it.           *)
LEMMA KeptIs ==
  ASSUME NEW b \in Seq(Bytes), NEW j \in 1 .. Len(b)
  PROVE  j \in Input!Kept(b) <=>
           \A i \in 1 .. j : /\ ~ Part(b, i)
                             /\ \A q \in Input!Sequences2 : Whole(b, i, q) => i + Stride <= j
<1>1. Stride \in Nat /\ DOMAIN b = 1 .. Len(b) /\ Len(b) \in Nat
      /\ \A q \in Input!Sequences2 : Len(q) = Stride
  BY PagingSequences
<1>2. \A i \in 1 .. j : i \in 1 .. Len(b)
  OBVIOUS
<1>3. j \in Input!Paging(b) <=>
        \E i \in 1 .. j, q \in Input!Sequences2 : Whole(b, i, q) /\ j < i + Stride
  BY <1>1, <1>2, StartsAtIs DEF Input!Paging
<1>4. j \in Input!Held(b) <=> (\E i \in 1 .. j : Part(b, i)) /\ j \notin Input!Paging(b)
  BY <1>1, <1>2, PrefixIs DEF Input!Held
<1>5. j \in Input!Kept(b) <=> ~ (j \in Input!Paging(b) \/ j \in Input!Held(b))
  BY <1>1 DEF Input!Kept
<1>6. \A i \in 1 .. j : ~ (j < i + Stride) <=> i + Stride <= j
  BY <1>1
<1> QED
  BY <1>3, <1>4, <1>5, <1>6

(* What is picked of a stream up to each of its positions.                 *)
LEMMA PickedIs ==
  ASSUME NEW b \in Seq(Bytes), NEW S
  PROVE  LET p == Input!Picked(b, S) IN
         /\ p \in [0 .. Len(b) -> Seq(Bytes)] /\ p[0] = <<>>
         /\ \A i \in 1 .. Len(b) : p[i] = Input!PickAt(b, S, p[i - 1], i)
<1> DEFINE n == Len(b)
           X == Seq(Bytes)
           e == <<>>
           picked[i \in 0 .. n] == IF i = 0 THEN e ELSE Input!PickAt(b, S, picked[i - 1], i)
           g == [x \in X \X (1 .. n) |-> Input!PickAt(b, S, x[1], x[2])]
<1>1. n \in Nat /\ e \in X
  OBVIOUS
<1>2. IsStep(g, X, n)
  BY DEF IsStep, Input!PickAt
<1> HIDE DEF X, n, e
<1>3. PICK f : IsRun(f, n, X, e, g)
  <2> HIDE DEF g
  <2> QED
    BY <1>1, <1>2, LoopExists
<1>4. f = [i \in 0 .. n |-> IF i = 0 THEN e ELSE Input!PickAt(b, S, f[i - 1], i)]
  <2>1. ASSUME NEW i \in 1 .. n
        PROVE  f[i] = Input!PickAt(b, S, f[i - 1], i)
    <3>1. f[i - 1] \in X /\ f[i] = g[<<f[i - 1], i>>]
      <4> HIDE DEF g
      <4>1. i - 1 \in 0 .. n
        BY <1>1
      <4> QED
        BY <1>3, <4>1 DEF IsRun
    <3> QED
      BY <3>1
  <2> HIDE DEF g
  <2> QED
    BY <1>1, <1>3, <2>1 DEF IsRun
<1>5. picked = [i \in 0 .. n |-> IF i = 0 THEN e ELSE Input!PickAt(b, S, picked[i - 1], i)]
  BY <1>4, Zenon
<1> HIDE DEF g, picked
<1>6. picked[0] = <<>>
      /\ \A i \in 1 .. n : picked[i] = Input!PickAt(b, S, picked[i - 1], i)
  <2>1. 0 \in 0 .. n /\ \A i \in 1 .. n : i \in 0 .. n /\ i # 0
    BY <1>1
  <2> QED
    BY <1>5, <2>1 DEF e
<1>7. \A i \in 0 .. n : picked[i] \in X
  <2> DEFINE D == {i \in 0 .. n : picked[i] \in X}
  <2>1. 0 \in D
    BY <1>1, <1>6 DEF e
  <2>2. ASSUME NEW i \in 1 .. n, i - 1 \in D PROVE i \in D
    <3>1. picked[i - 1] \in X /\ b[i] \in Bytes /\ i \in 0 .. n
      BY <1>1, <2>2 DEF n
    <3>2. picked[i] = Input!PickAt(b, S, picked[i - 1], i)
      BY <1>6
    <3>3. picked[i] \in X
      BY <3>1, <3>2 DEF X, Input!PickAt
    <3> QED
      BY <3>1, <3>3
  <2> HIDE DEF D
  <2>3. \A i \in 0 .. n : i \in D
    BY <1>1, <2>1, <2>2, UpTo
  <2> QED
    BY <2>3 DEF D
<1>8. picked \in [0 .. n -> X]
  BY <1>5, <1>7
<1>9. Input!Picked(b, S) = picked
  BY DEF Input!Picked, picked, n, e
<1> QED
  BY <1>6, <1>8, <1>9 DEF n, X

Alike(b, S, c, T, m) ==
  /\ m <= Len(b) /\ m <= Len(c)
  /\ \A i \in 1 .. m : b[i] = c[i] /\ (i \in S <=> i \in T)
IsJoin(z, x, y) == z = x \o y
Joins(b, S, w, T, n) ==
  /\ Len(b) = n + Len(w)
  /\ \A j \in 1 .. Len(w) : b[n + j] = w[j] /\ (n + j \in S <=> j \in T)

(* It depends on what comes before only.                                   *)
LEMMA PickedSame ==
  ASSUME NEW b \in Seq(Bytes), NEW c \in Seq(Bytes), NEW S, NEW T, NEW m \in Nat,
         Alike(b, S, c, T, m)
  PROVE  Input!Picked(b, S)[m] = Input!Picked(c, T)[m]
<1> USE DEF Alike
<1> DEFINE p == Input!Picked(b, S)
           r == Input!Picked(c, T)
           D == {i \in 0 .. m : p[i] = r[i]}
<1>1. /\ p[0] = <<>>
      /\ \A i \in 1 .. Len(b) : p[i] = Input!PickAt(b, S, p[i - 1], i)
  BY PickedIs
<1>2. /\ r[0] = <<>>
      /\ \A i \in 1 .. Len(c) : r[i] = Input!PickAt(c, T, r[i - 1], i)
  BY PickedIs
<1> HIDE DEF p, r
<1>3. 0 \in D
  BY <1>1, <1>2
<1>4. ASSUME NEW i \in 1 .. m, i - 1 \in D PROVE i \in D
  <2>1. i \in 1 .. Len(b) /\ i \in 1 .. Len(c) /\ p[i - 1] = r[i - 1] /\ i \in 0 .. m
    BY <1>4
  <2> QED
    BY <1>1, <1>2, <2>1 DEF Input!PickAt
<1> HIDE DEF D
<1>5. \A i \in 0 .. m : i \in D
  BY <1>3, <1>4, UpTo
<1>6. m \in D
  BY <1>5
<1> QED
  BY <1>6 DEF D, p, r

(* Nothing is added where nothing is picked.                               *)
LEMMA PickedNone ==
  ASSUME NEW b \in Seq(Bytes), NEW S, NEW m \in Nat, NEW n \in Nat, m <= n, n <= Len(b),
         \A i \in (m + 1) .. n : i \notin S
  PROVE  Input!Picked(b, S)[n] = Input!Picked(b, S)[m]
<1> DEFINE p == Input!Picked(b, S)
           D == {k \in 0 .. (n - m) : p[m + k] = p[m]}
<1>1. \A i \in 1 .. Len(b) : p[i] = Input!PickAt(b, S, p[i - 1], i)
  BY PickedIs
<1> HIDE DEF p
<1>2. 0 \in D /\ n - m \in Nat
  OBVIOUS
<1>3. ASSUME NEW k \in 1 .. (n - m), k - 1 \in D PROVE k \in D
  <2>1. /\ m + k \in 1 .. Len(b) /\ m + k \in (m + 1) .. n /\ (m + k) - 1 = m + (k - 1)
        /\ p[m + (k - 1)] = p[m] /\ k \in 0 .. (n - m)
    BY <1>3
  <2>2. p[m + k] = p[(m + k) - 1]
    BY <1>1, <2>1 DEF Input!PickAt
  <2> QED
    BY <2>1, <2>2
<1> HIDE DEF D
<1>4. n - m \in D
  BY <1>2, <1>3, UpTo, SMTT(40)
<1>5. p[m + (n - m)] = p[m] /\ m + (n - m) = n
  BY <1>4 DEF D
<1> QED
  BY <1>5 DEF p

(* A stream whose first n bytes decide nothing about the others is picked  *)
(* from in two parts.                                                      *)
LEMMA PickedJoin ==
  ASSUME NEW b \in Seq(Bytes), NEW w \in Seq(Bytes), NEW S, NEW T, NEW n \in Nat,
         Joins(b, S, w, T, n)
  PROVE  IsJoin(Input!Picked(b, S)[Len(b)], Input!Picked(b, S)[n], Input!Picked(w, T)[Len(w)])
<1> USE DEF Joins, IsJoin
<1> DEFINE p == Input!Picked(b, S)
           r == Input!Picked(w, T)
           D == {j \in 0 .. Len(w) : p[n + j] = p[n] \o r[j]}
<1>0. ASSUME NEW u \in Seq(Bytes), NEW v \in Seq(Bytes), NEW x \in Bytes
      PROVE  Append(u \o v, x) = u \o Append(v, x)
  <2>1. u \o v \in Seq(Bytes) /\ Append(u \o v, x) = (u \o v) \o <<x>>
    BY AppendIsConcat, ConcatProperties
  <2>2. Append(v, x) = v \o <<x>>
    BY AppendIsConcat
  <2>3. <<x>> \in Seq(Bytes)
    OBVIOUS
  <2>4. (u \o v) \o <<x>> = u \o (v \o <<x>>)
    BY <2>3, ConcatAssociative, SMTT(40)
  <2> QED
    BY <2>1, <2>2, <2>4
<1>1. /\ p \in [0 .. Len(b) -> Seq(Bytes)]
      /\ \A i \in 1 .. Len(b) : p[i] = Input!PickAt(b, S, p[i - 1], i)
  BY PickedIs
<1>2. /\ r \in [0 .. Len(w) -> Seq(Bytes)] /\ r[0] = <<>>
      /\ \A i \in 1 .. Len(w) : r[i] = Input!PickAt(w, T, r[i - 1], i)
  BY PickedIs
<1> HIDE DEF p, r
<1>3. Len(w) \in Nat /\ p[n] \in Seq(Bytes)
  <2>1. Len(w) \in Nat /\ n \in 0 .. Len(b)
    OBVIOUS
  <2> QED
    BY <1>1, <2>1
<1>4. 0 \in D
  <2>1. p[n + 0] = p[n] /\ 0 \in 0 .. Len(w)
    BY <1>3
  <2>2. p[n] \o r[0] = p[n]
    BY <1>2, <1>3
  <2> QED
    BY <2>1, <2>2
<1>5. ASSUME NEW j \in 1 .. Len(w), j - 1 \in D PROVE j \in D
  <2>1. /\ n + j \in 1 .. Len(b) /\ (n + j) - 1 = n + (j - 1)
        /\ j \in 0 .. Len(w) /\ j - 1 \in 0 .. Len(w)
    BY <1>3
  <2>7. p[n + (j - 1)] = p[n] \o r[j - 1]
    BY <1>5
  <2>2. b[n + j] = w[j] /\ (n + j \in S <=> j \in T) /\ w[j] \in Bytes
    OBVIOUS
  <2>3. r[j - 1] \in Seq(Bytes)
    BY <1>2, <2>1
  <2>4. PICK u \in Seq(Bytes), v \in Seq(Bytes), x \in Bytes : u = p[n] /\ v = r[j - 1] /\ x = w[j]
    BY <1>3, <2>2, <2>3
  <2>5. Append(u \o v, x) = u \o Append(v, x)
    BY <1>0
  <2>6. p[n + j] = IF n + j \in S THEN Append(u \o v, x) ELSE u \o v
    BY <1>1, <2>1, <2>2, <2>4, <2>7 DEF Input!PickAt
  <2>8. r[j] = IF j \in T THEN Append(v, x) ELSE v
    BY <1>2, <2>4 DEF Input!PickAt
  <2>9. p[n + j] = u \o r[j]
    BY <2>2, <2>5, <2>6, <2>8
  <2> QED
    BY <2>1, <2>4, <2>9
<1> HIDE DEF D
<1>6. \A j \in 0 .. Len(w) : j \in D
  BY <1>3, <1>4, <1>5, UpTo
<1>7. Len(w) \in D
  BY <1>3, <1>6
<1> QED
  BY <1>7 DEF D, p, r

-----------------------------------------------------------------------------
(* What CsiAccumulator::process does with the bytes it holds.              *)

\* Nothing that starts in the first m bytes of b covers a byte after them.
CutAt(b, m) ==
  \A i \in 1 .. m : /\ ~ Part(b, i)
                    /\ \A q \in Input!Sequences2 : Whole(b, i, q) => i + Stride - 1 <= m

(* After a sequence the stream may be cut, and its bytes are not kept.     *)
LEMMA CutAfterWhole ==
  ASSUME NEW w \in Seq(Bytes), NEW i \in 1 .. Len(w), CutAt(w, i - 1),
         NEW q \in Input!Sequences2, Whole(w, i, q)
  PROVE  /\ i + Stride - 1 \in 1 .. Len(w) /\ CutAt(w, i + Stride - 1)
         /\ \A j \in i .. (i + Stride - 1) : j \notin Input!Kept(w)
<1>1. /\ Stride \in Nat \ {0} /\ Len(w) \in Nat /\ i \in Nat /\ i >= 1
      /\ i + Stride - 1 <= Len(w) /\ \A k \in 1 .. Stride : w[i + k - 1] = q[k]
      /\ \A p, r \in Input!Sequences2 : \A k \in 2 .. Stride : p[k] # r[1]
  BY PagingSequences DEF Whole
<1>2. i + Stride - 1 \in 1 .. Len(w)
  BY <1>1
<1>3. ASSUME NEW k \in 1 .. (i + Stride - 1)
      PROVE  /\ ~ Part(w, k)
             /\ \A p \in Input!Sequences2 : Whole(w, k, p) => k + Stride - 1 <= i + Stride - 1
  <2>1. CASE k < i
    <3>1. k \in 1 .. (i - 1)
      BY <1>1, <2>1
    <3> QED
      BY <1>1, <2>1, <3>1 DEF CutAt
  <2>2. CASE k = i
    <3>1. ~ (Len(w) - k + 1 < Stride) /\ k + Stride - 1 <= i + Stride - 1
      BY <1>1, <2>2
    <3> QED
      BY <3>1 DEF Part, PartOf
  <2>3. CASE k > i
    <3> DEFINE d == k - i + 1
    <3>1. d \in 2 .. Stride /\ d \in 1 .. Stride /\ i + d - 1 = k /\ 1 \in 1 .. Stride
          /\ 1 \in 1 .. (Len(w) - k + 1) /\ k + 1 - 1 = k
      BY <1>1, <2>3
    <3> HIDE DEF d
    <3>2. w[k] = q[d]
      BY <1>1, <3>1
    <3>3. \A p \in Input!Sequences2 : w[k] # p[1]
      BY <1>1, <3>1, <3>2
    <3>4. \A p \in Input!Sequences2 : ~ Whole(w, k, p) /\ ~ PartOf(w, k, p)
      BY <3>1, <3>3 DEF Whole, PartOf
    <3> QED
      BY <3>4 DEF Part
  <2> QED
    BY <1>1, <2>1, <2>2, <2>3
<1>4. ASSUME NEW j \in i .. (i + Stride - 1)
      PROVE  j \notin Input!Kept(w)
  <2>1. j \in 1 .. Len(w) /\ i \in 1 .. j /\ ~ (i + Stride <= j)
    BY <1>1
  <2> QED
    BY <2>1, KeptIs
<1>5. CutAt(w, i + Stride - 1)
  BY <1>3 DEF CutAt
<1> QED
  BY <1>2, <1>4, <1>5

(* What may still become a sequence is not kept.                           *)
LEMMA PartNotKept ==
  ASSUME NEW w \in Seq(Bytes), NEW i \in 1 .. Len(w), Part(w, i)
  PROVE  \A j \in i .. Len(w) : j \notin Input!Kept(w)
<1> SUFFICES ASSUME NEW j \in i .. Len(w) PROVE j \notin Input!Kept(w)
  OBVIOUS
<1>1. j \in 1 .. Len(w) /\ i \in 1 .. j
  OBVIOUS
<1> QED
  BY <1>1, KeptIs

(* A byte at which nothing starts is kept, and the stream may be cut after *)
(* it.                                                                     *)
LEMMA CutAfterPlain ==
  ASSUME NEW w \in Seq(Bytes), NEW i \in 1 .. Len(w), CutAt(w, i - 1), ~ Part(w, i),
         \A q \in Input!Sequences2 : ~ Whole(w, i, q)
  PROVE  CutAt(w, i) /\ i \in Input!Kept(w)
<1>1. Stride \in Nat
  BY PagingSequences
<1>2. ASSUME NEW k \in 1 .. i
      PROVE  /\ ~ Part(w, k)
             /\ \A q \in Input!Sequences2 : Whole(w, k, q) => k + Stride <= i
  <2>1. CASE k = i
    BY <2>1
  <2>2. CASE k # i
    <3>1. k \in 1 .. (i - 1)
      BY <2>2
    <3>2. k + Stride - 1 <= i - 1 => k + Stride <= i
      BY <1>1
    <3> QED
      BY <3>1, <3>2 DEF CutAt
  <2> QED
    BY <2>1, <2>2
<1>3. \A k \in 1 .. i : k + Stride <= i => k + Stride - 1 <= i
  BY <1>1
<1>4. CutAt(w, i)
  BY <1>2, <1>3 DEF CutAt
<1>5. i \in Input!Kept(w)
  BY <1>2, KeptIs
<1> QED
  BY <1>4, <1>5

Accs == [out : Seq(Bytes), hold : Seq(Bytes), skip : Nat]

\* After i bytes of w: what is out is what is kept up to a place where w may be cut, which
\* is that of the bytes held, or, when nothing is held, the end of the last sequence.
CsiOK(a, w, i) ==
  IF a.hold = <<>>
  THEN /\ i + a.skip <= Len(w) /\ CutAt(w, i + a.skip)
       /\ a.out = Input!Picked(w, Input!Kept(w))[i + a.skip]
  ELSE \E k \in 1 .. Len(w) :
         /\ a.hold = SubSeq(w, k, Len(w)) /\ Part(w, k) /\ CutAt(w, k - 1)
         /\ a.out = Input!Picked(w, Input!Kept(w))[k - 1]

(* One field of the accumulator changes.                                   *)
LEMMA AccChanged ==
  ASSUME NEW a \in Accs
  PROVE  /\ \A n \in Nat : /\ [a EXCEPT !.skip = n] \in Accs
                           /\ [a EXCEPT !.skip = n].out = a.out
                           /\ [a EXCEPT !.skip = n].hold = a.hold
                           /\ [a EXCEPT !.skip = n].skip = n
         /\ \A x \in Seq(Bytes) : /\ [a EXCEPT !.out = x] \in Accs
                                  /\ [a EXCEPT !.out = x].out = x
                                  /\ [a EXCEPT !.out = x].hold = a.hold
                                  /\ [a EXCEPT !.out = x].skip = a.skip
BY DEF Accs

(* One byte.                                                               *)
LEMMA CsiStepIs ==
  ASSUME NEW w \in Seq(Bytes), NEW i \in 1 .. Len(w), NEW a \in Accs, CsiOK(a, w, i - 1)
  PROVE  Input!CsiStep(a, w, i) \in Accs /\ CsiOK(Input!CsiStep(a, w, i), w, i)
<1> DEFINE rest == SubSeq(w, i, Len(w))
           z == Input!CsiStep(a, w, i)
           pk == Input!Picked(w, Input!Kept(w))
<1>1. /\ a.out \in Seq(Bytes) /\ a.hold \in Seq(Bytes) /\ a.skip \in Nat
      /\ w[i] \in Bytes /\ Len(w) \in Nat
      /\ rest \in Seq(Bytes) /\ rest # <<>> /\ Stride \in Nat \ {0}
  <2>1. Len(rest) = Len(w) - i + 1 /\ rest \in Seq(Bytes)
    OBVIOUS
  <2>2. Len(rest) # 0
    BY <2>1
  <2> HIDE DEF rest
  <2> QED
    BY <2>1, <2>2, PagingSequences DEF Accs
<1>2. \A j \in 1 .. Len(w) : pk[j] = Input!PickAt(w, Input!Kept(w), pk[j - 1], j)
  BY PickedIs
<1>3. CASE a.hold # <<>>
  <2>1. z = a
    BY <1>3 DEF Input!CsiStep
  <2> QED
    BY <1>3, <2>1 DEF CsiOK
<1>4. CASE a.hold = <<>> /\ a.skip > 0
  <2>1. z = [a EXCEPT !.skip = a.skip - 1]
    BY <1>4 DEF Input!CsiStep
  <2>2. z \in Accs /\ z.out = a.out /\ z.hold = <<>> /\ z.skip = a.skip - 1
    <3>1. a.skip - 1 \in Nat
      BY <1>1, <1>4
    <3> HIDE DEF z
    <3> QED
      BY <1>4, <2>1, <3>1, AccChanged
  <2>3. i + z.skip = (i - 1) + a.skip
    BY <1>1, <1>4, <2>2
  <2> QED
    BY <1>4, <2>2, <2>3 DEF CsiOK
<1>5. CASE a.hold = <<>> /\ a.skip = 0
  <2>0. CutAt(w, i - 1) /\ a.out = pk[i - 1]
    <3>1. (i - 1) + a.skip = i - 1
      BY <1>5
    <3> QED
      BY <1>5, <3>1 DEF CsiOK
  <2>1. \A q \in Input!Sequences2 : Input!StartsAt(w, i, q) <=> Whole(w, i, q)
    BY StartsAtIs
  <2>2. Input!is_paging_prefix(rest) <=> Part(w, i)
    BY PrefixIs
  <2>3. CASE \E q \in Input!Sequences2 : Whole(w, i, q)
    <3>0. PICK q \in Input!Sequences2 : Whole(w, i, q)
      BY <2>3
    <3>1. Len(CSI_SHIFT_PAGEUP) = Stride /\ Len(CSI_SHIFT_PAGEDOWN) = Stride
      BY PagingSequences DEF Input!Sequences2
    <3>2. z = [a EXCEPT !.skip = Stride - 1]
      <4>1. Input!StartsAt(w, i, CSI_SHIFT_PAGEUP) \/ Input!StartsAt(w, i, CSI_SHIFT_PAGEDOWN)
        BY <2>1, <3>0 DEF Input!Sequences2
      <4> QED
        BY <1>5, <3>1, <4>1 DEF Input!CsiStep
    <3>3. z \in Accs /\ z.out = a.out /\ z.hold = <<>> /\ z.skip = Stride - 1
      <4>1. Stride - 1 \in Nat
        BY <1>1
      <4> HIDE DEF z
      <4> QED
        BY <1>5, <3>2, <4>1, AccChanged
    <3> DEFINE m == i + Stride - 1
    <3>4. /\ m \in 1 .. Len(w) /\ CutAt(w, m)
          /\ \A j \in i .. m : j \notin Input!Kept(w)
      BY <2>0, <3>0, CutAfterWhole
    <3>5. i + z.skip = m /\ m \in Nat /\ i - 1 \in Nat /\ i - 1 <= m /\ (i - 1) + 1 = i /\ m <= Len(w)
      BY <1>1, <3>3, <3>4
    <3>6. pk[m] = pk[i - 1]
      <4> HIDE DEF m
      <4> QED
        BY <3>4, <3>5, PickedNone
    <3> HIDE DEF m, z
    <3> QED
      BY <2>0, <3>3, <3>4, <3>5, <3>6 DEF CsiOK, z
  <2>4. CASE ~ (\E q \in Input!Sequences2 : Whole(w, i, q)) /\ Part(w, i)
    <3>1. z = [a EXCEPT !.hold = rest]
      BY <1>5, <2>1, <2>2, <2>4 DEF Input!CsiStep, Input!Sequences2
    <3>2. z \in Accs /\ z.out = a.out /\ z.hold = rest
      BY <1>1, <3>1 DEF Accs
    <3> HIDE DEF z
    <3>3. z.hold # <<>> /\ z.hold = SubSeq(w, i, Len(w))
      BY <1>1, <3>2
    <3> QED
      BY <2>0, <2>4, <3>2, <3>3 DEF CsiOK, z
  <2>5. CASE ~ (\E q \in Input!Sequences2 : Whole(w, i, q)) /\ ~ Part(w, i)
    <3>1. z = [a EXCEPT !.out = Append(a.out, w[i])]
      BY <1>5, <2>1, <2>2, <2>5 DEF Input!CsiStep, Input!Sequences2
    <3>2. z \in Accs /\ z.out = Append(a.out, w[i]) /\ z.hold = <<>> /\ z.skip = 0
      <4>1. Append(a.out, w[i]) \in Seq(Bytes)
        BY <1>1
      <4> HIDE DEF z
      <4> QED
        BY <1>5, <3>1, <4>1, AccChanged
    <3>3. CutAt(w, i) /\ i \in Input!Kept(w)
      BY <2>0, <2>5, CutAfterPlain
    <3>4. pk[i] = Append(pk[i - 1], w[i])
      BY <1>2, <3>3 DEF Input!PickAt
    <3>5. i + z.skip = i /\ i <= Len(w)
      BY <3>2
    <3> HIDE DEF z
    <3> QED
      BY <2>0, <3>2, <3>3, <3>4, <3>5 DEF CsiOK, z
  <2> QED
    BY <2>3, <2>4, <2>5
<1> QED
  BY <1>1, <1>3, <1>4, <1>5

\* The bytes h at the end of t are what is held of it.
Holds(t, h) ==
  /\ h \in Seq(Bytes) /\ Len(h) <= Len(t) /\ CutAt(t, Len(t) - Len(h))
  /\ \A k \in 1 .. Len(h) : h[k] = t[(Len(t) - Len(h)) + k]
  /\ \A j \in ((Len(t) - Len(h)) + 1) .. Len(t) : j \notin Input!Kept(t)

(* The loop forwards what is kept of the bytes and holds the rest.         *)
LEMMA CsiProcessIs ==
  ASSUME NEW w \in Seq(Bytes)
  PROVE  /\ Input!CsiProcess(w).out = Input!Plain(w)
         /\ Holds(w, Input!CsiProcess(w).hold)
<1> DEFINE n == Len(w)
           X == Accs
           b == [out |-> <<>>, hold |-> <<>>, skip |-> 0]
           after[i \in 0 .. n] == IF i = 0 THEN b ELSE Input!CsiStep(after[i - 1], w, i)
           Y == {x \in X \X (1 .. n) : CsiOK(x[1], w, x[2] - 1)}
           g == [x \in X \X (1 .. n) |-> IF x \in Y THEN Input!CsiStep(x[1], w, x[2]) ELSE b]
<1>0. n \in Nat /\ n = Len(w)
  OBVIOUS
<1> HIDE DEF n
<1>1. n \in Nat /\ b \in X
  BY <1>0 DEF Accs
<1>2. ASSUME NEW x \in X, NEW i \in 1 .. n, CsiOK(x, w, i - 1)
      PROVE  Input!CsiStep(x, w, i) \in X /\ CsiOK(Input!CsiStep(x, w, i), w, i)
  BY <1>0, <1>2, CsiStepIs
<1> HIDE DEF X, b
<1>3. IsStep(g, X, n)
  BY <1>1, <1>2 DEF IsStep
<1>4. PICK f : IsRun(f, n, X, b, g)
  <2> HIDE DEF g
  <2> QED
    BY <1>1, <1>3, LoopExists
<1>5. CsiOK(b, w, 0)
  <2>1. b.hold = <<>> /\ b.skip = 0 /\ b.out = <<>> /\ 0 + b.skip = 0
    BY DEF b
  <2>2. Input!Picked(w, Input!Kept(w))[0] = <<>>
    BY PickedIs
  <2>3. CutAt(w, 0)
    BY DEF CutAt
  <2> QED
    BY <2>1, <2>2, <2>3 DEF CsiOK
<1>6. \A i \in 0 .. n : f[i] \in X /\ CsiOK(f[i], w, i)
      /\ (i # 0 => f[i] = Input!CsiStep(f[i - 1], w, i))
  <2> DEFINE D == {i \in 0 .. n : f[i] \in X /\ CsiOK(f[i], w, i)
                                  /\ (i # 0 => f[i] = Input!CsiStep(f[i - 1], w, i))}
  <2>1. 0 \in D
    BY <1>1, <1>4, <1>5 DEF IsRun
  <2>2. ASSUME NEW i \in 1 .. n, i - 1 \in D PROVE i \in D
    <3>1. f[i - 1] \in X /\ CsiOK(f[i - 1], w, i - 1) /\ i \in 0 .. n /\ i # 0
      BY <1>1, <2>2
    <3>2. f[i] = g[<<f[i - 1], i>>]
      BY <1>4 DEF IsRun
    <3>3. f[i] = Input!CsiStep(f[i - 1], w, i)
      BY <3>1, <3>2
    <3> QED
      BY <1>2, <3>1, <3>3
  <2> HIDE DEF D
  <2>3. \A i \in 0 .. n : i \in D
    BY <1>1, <2>1, <2>2, UpTo
  <2> QED
    BY <2>3 DEF D
<1>7. f = [i \in 0 .. n |-> IF i = 0 THEN b ELSE Input!CsiStep(f[i - 1], w, i)]
  <2>1. \A i \in 0 .. n : f[i] = IF i = 0 THEN b ELSE Input!CsiStep(f[i - 1], w, i)
    BY <1>4, <1>6 DEF IsRun
  <2>2. f = [i \in 0 .. n |-> f[i]]
    BY <1>4 DEF IsRun
  <2> HIDE DEF g, Y
  <2> QED
    BY <2>1, <2>2
<1>8. after = [i \in 0 .. n |-> IF i = 0 THEN b ELSE Input!CsiStep(after[i - 1], w, i)]
  BY <1>7, Zenon
<1>9. after[n] \in X /\ CsiOK(after[n], w, n)
  <2> HIDE DEF after
  <2> DEFINE D == {i \in 0 .. n : after[i] \in X /\ CsiOK(after[i], w, i)}
  <2>1. 0 \in D
    <3>1. after[0] = b /\ 0 \in 0 .. n
      BY <1>1, <1>8
    <3> QED
      BY <1>1, <1>5, <3>1
  <2>2. ASSUME NEW i \in 1 .. n, i - 1 \in D PROVE i \in D
    <3>1. after[i - 1] \in X /\ CsiOK(after[i - 1], w, i - 1) /\ i \in 0 .. n /\ i # 0
      BY <1>1, <2>2
    <3>2. after[i] = Input!CsiStep(after[i - 1], w, i)
      BY <1>8, <3>1
    <3> QED
      BY <1>2, <3>1, <3>2
  <2> HIDE DEF D
  <2>3. \A i \in 0 .. n : i \in D
    BY <1>1, <2>1, <2>2, UpTo
  <2>4. n \in D
    BY <1>1, <2>3
  <2> QED
    BY <2>4 DEF D
<1>10. Input!CsiProcess(w) = after[n]
  BY DEF Input!CsiProcess, n, b
<1> DEFINE c == after[n]
           h == c.hold
           pk == Input!Picked(w, Input!Kept(w))
<1> HIDE DEF after
<1>11. h \in Seq(Bytes) /\ c.skip \in Nat
  BY <1>9 DEF X, Accs
<1>12. Input!Plain(w) = pk[n]
  BY DEF Input!Plain, Input!Pick, n
<1>13. CASE h = <<>>
  <2>1. n + c.skip <= n /\ CutAt(w, n + c.skip) /\ c.out = pk[n + c.skip]
    BY <1>0, <1>9, <1>13 DEF CsiOK
  <2>2. n + c.skip = n /\ Len(h) = 0 /\ n - Len(h) = n
    BY <1>0, <1>11, <1>13, <2>1
  <2>3. 1 .. Len(h) = {} /\ ((n - Len(h)) + 1) .. n = {} /\ Len(h) <= n
    BY <1>0, <2>2
  <2>4. CutAt(w, n - Len(h))
    BY <2>1, <2>2
  <2>5. Holds(w, h)
    <3> HIDE DEF h
    <3> QED
      BY <1>0, <1>11, <2>3, <2>4 DEF Holds
  <2> QED
    BY <1>10, <1>12, <2>1, <2>2, <2>5
<1>14. CASE h # <<>>
  <2>1. PICK k \in 1 .. n : /\ h = SubSeq(w, k, n) /\ Part(w, k) /\ CutAt(w, k - 1)
                            /\ c.out = pk[k - 1]
    BY <1>0, <1>9, <1>14 DEF CsiOK
  <2>2. /\ Len(h) = n - k + 1 /\ n - Len(h) = k - 1 /\ Len(h) <= n
        /\ \A j \in 1 .. Len(h) : h[j] = w[(k - 1) + j]
    <3>1. Len(SubSeq(w, k, n)) = n - k + 1
          /\ \A j \in 1 .. (n - k + 1) : SubSeq(w, k, n)[j] = w[k + j - 1]
      BY <1>0
    <3>2. \A j \in 1 .. (n - k + 1) : k + j - 1 = (k - 1) + j
      BY <1>0
    <3>3. Len(h) = n - k + 1 /\ \A j \in 1 .. (n - k + 1) : h[j] = w[(k - 1) + j]
      BY <2>1, <3>1, <3>2
    <3> HIDE DEF h
    <3> QED
      BY <1>0, <3>3
  <2>3. \A j \in k .. n : j \notin Input!Kept(w)
    BY <1>0, <2>1, PartNotKept
  <2>4. pk[n] = pk[k - 1]
    <3>1. k - 1 \in Nat /\ k - 1 <= n /\ (k - 1) + 1 = k
      BY <1>0
    <3> QED
      BY <1>0, <2>3, <3>1, PickedNone
  <2>5. Holds(w, h)
    <3>1. (n - Len(h)) + 1 = k /\ Len(h) <= Len(w)
      BY <1>0, <2>2
    <3> HIDE DEF h, c
    <3> QED
      BY <1>0, <1>11, <2>1, <2>2, <2>3, <3>1 DEF Holds
  <2> QED
    BY <1>10, <1>12, <2>1, <2>4, <2>5
<1> QED
  BY <1>13, <1>14

(* What is held decides with the next read, as if both had come at once.   *)
LEMMA NextRead ==
  ASSUME NEW t \in Seq(Bytes), NEW h, Holds(t, h), NEW b \in Seq(Bytes)
  PROVE  /\ Input!Plain(t \o b) = Input!Plain(t) \o Input!Plain(h \o b)
         /\ \A h2 : Holds(h \o b, h2) => Holds(t \o b, h2)
<1> DEFINE w == h \o b
           t2 == t \o b
           n == Len(t) - Len(h)
<1>1. /\ h \in Seq(Bytes) /\ Len(h) <= Len(t) /\ CutAt(t, n)
      /\ \A k \in 1 .. Len(h) : h[k] = t[n + k]
      /\ \A j \in (n + 1) .. Len(t) : j \notin Input!Kept(t)
  BY DEF Holds
<1>2. /\ n \in Nat /\ Len(t) \in Nat /\ Len(w) \in Nat /\ Len(t2) \in Nat /\ n <= Len(t)
      /\ w \in Seq(Bytes) /\ t2 \in Seq(Bytes)
      /\ Len(t2) = n + Len(w) /\ Len(t) <= Len(t2) /\ Stride \in Nat \ {0}
  BY <1>1, PagingSequences
<1>3. \A i \in 1 .. Len(t) : t2[i] = t[i]
  OBVIOUS
<1>4. ASSUME NEW j \in 1 .. Len(w) PROVE t2[n + j] = w[j]
  <2>1. CASE j <= Len(h)
    <3>1. j \in 1 .. Len(h) /\ n + j \in 1 .. Len(t)
      BY <1>1, <1>2, <2>1
    <3>2. w[j] = h[j]
      BY <1>1, <3>1
    <3> QED
      BY <1>1, <1>3, <3>1, <3>2
  <2>2. CASE j > Len(h)
    <3> DEFINE k == j - Len(h)
    <3>1. /\ k \in 1 .. Len(b) /\ n + j = Len(t) + k /\ j = Len(h) + k
      BY <1>1, <2>2
    <3> HIDE DEF k, n, w, t2
    <3>2. t2[Len(t) + k] = b[k] /\ w[Len(h) + k] = b[k]
      BY <1>1, <3>1 DEF w, t2
    <3> QED
      BY <3>1, <3>2
  <2> QED
    BY <1>1, <2>1, <2>2
<1> HIDE DEF w, t2, n
<1>5. ASSUME NEW j \in 1 .. Len(w), NEW q \in Input!Sequences2
      PROVE  (Whole(t2, n + j, q) <=> Whole(w, j, q)) /\ (PartOf(t2, n + j, q) <=> PartOf(w, j, q))
  <2>1. ASSUME NEW k \in Nat, k >= 1, j + k - 1 <= Len(w) PROVE t2[(n + j) + k - 1] = w[j + k - 1]
    <3>1. j + k - 1 \in 1 .. Len(w) /\ n + (j + k - 1) = (n + j) + k - 1
      BY <1>2, <2>1
    <3> QED
      BY <1>4, <3>1
  <2>2. Whole(t2, n + j, q) <=> Whole(w, j, q)
    <3>1. (n + j) + Stride - 1 <= Len(t2) <=> j + Stride - 1 <= Len(w)
      BY <1>2
    <3>2. ASSUME j + Stride - 1 <= Len(w), NEW k \in 1 .. Stride
          PROVE  t2[(n + j) + k - 1] = w[j + k - 1]
      <4>1. k \in Nat /\ k >= 1 /\ j + k - 1 <= Len(w)
        BY <1>2, <3>2
      <4> QED
        BY <2>1, <4>1
    <3> QED
      BY <3>1, <3>2 DEF Whole
  <2>3. PartOf(t2, n + j, q) <=> PartOf(w, j, q)
    <3>1. Len(t2) - (n + j) + 1 = Len(w) - j + 1
      BY <1>2
    <3>2. ASSUME NEW k \in 1 .. (Len(w) - j + 1)
          PROVE  t2[(n + j) + k - 1] = w[j + k - 1]
      <4>1. k \in Nat /\ k >= 1 /\ j + k - 1 <= Len(w)
        BY <1>2
      <4> QED
        BY <2>1, <4>1
    <3> QED
      BY <3>1, <3>2 DEF PartOf
  <2> QED
    BY <2>2, <2>3
<1>6. ASSUME NEW i \in 1 .. n, NEW q \in Input!Sequences2
      PROVE  /\ ~ PartOf(t2, i, q) /\ ~ PartOf(t, i, q)
             /\ Whole(t2, i, q) <=> Whole(t, i, q)
             /\ Whole(t2, i, q) => i + Stride - 1 <= n
  <2>1. i \in Nat /\ i >= 1 /\ i <= Len(t) /\ i <= n
    BY <1>2
  <2>2. ~ PartOf(t, i, q) /\ (Whole(t, i, q) => i + Stride - 1 <= n)
    BY <1>1 DEF CutAt, Part
  <2>3. ASSUME NEW k \in Nat, k >= 1, i + k - 1 <= Len(t) PROVE t2[i + k - 1] = t[i + k - 1]
    <3>1. i + k - 1 \in 1 .. Len(t)
      BY <1>2, <2>1, <2>3
    <3> QED
      BY <1>3, <3>1
  <2>4. ASSUME PartOf(t2, i, q) PROVE FALSE
    <3>1. Len(t2) - i + 1 < Stride /\ \A k \in 1 .. (Len(t2) - i + 1) : t2[i + k - 1] = q[k]
      BY <2>4 DEF PartOf
    <3>2. Len(t) - i + 1 < Stride
      BY <1>2, <2>1, <3>1
    <3>3. ASSUME NEW k \in 1 .. (Len(t) - i + 1) PROVE t[i + k - 1] = q[k]
      <4>1. k \in Nat /\ k >= 1 /\ i + k - 1 <= Len(t) /\ k \in 1 .. (Len(t2) - i + 1)
        BY <1>2, <2>1
      <4> QED
        BY <2>3, <3>1, <4>1
    <3> QED
      BY <2>2, <3>2, <3>3 DEF PartOf
  <2>5. ASSUME Whole(t2, i, q) PROVE Whole(t, i, q)
    <3>1. \A k \in 1 .. Stride : t2[i + k - 1] = q[k]
      BY <2>5 DEF Whole
    <3>2. CASE i + Stride - 1 <= Len(t)
      <4>1. ASSUME NEW k \in 1 .. Stride PROVE t[i + k - 1] = q[k]
        <5>1. k \in Nat /\ k >= 1 /\ i + k - 1 <= Len(t)
          BY <1>2, <2>1, <3>2
        <5> QED
          BY <2>3, <3>1, <5>1
      <4> QED
        BY <3>2, <4>1 DEF Whole
    <3>3. CASE ~ (i + Stride - 1 <= Len(t))
      <4>1. Len(t) - i + 1 < Stride
        BY <1>2, <2>1, <3>3
      <4>2. ASSUME NEW k \in 1 .. (Len(t) - i + 1) PROVE t[i + k - 1] = q[k]
        <5>1. k \in Nat /\ k >= 1 /\ i + k - 1 <= Len(t) /\ k \in 1 .. Stride
          BY <1>2, <2>1, <4>1
        <5> QED
          BY <2>3, <3>1, <5>1
      <4> QED
        BY <2>2, <4>1, <4>2 DEF PartOf
    <3> QED
      BY <3>2, <3>3
  <2>6. ASSUME Whole(t, i, q) PROVE Whole(t2, i, q)
    <3>1. i + Stride - 1 <= Len(t) /\ \A k \in 1 .. Stride : t[i + k - 1] = q[k]
      BY <2>6 DEF Whole
    <3>2. ASSUME NEW k \in 1 .. Stride PROVE t2[i + k - 1] = q[k]
      <4>1. k \in Nat /\ k >= 1 /\ i + k - 1 <= Len(t)
        BY <1>2, <2>1, <3>1
      <4> QED
        BY <2>3, <3>1, <4>1
    <3>3. i + Stride - 1 <= Len(t2)
      BY <1>2, <2>1, <3>1
    <3> QED
      BY <3>2, <3>3 DEF Whole
  <2> QED
    BY <2>2, <2>4, <2>5, <2>6
<1>7. ASSUME NEW m \in 0 .. Len(w), CutAt(w, m) PROVE CutAt(t2, n + m)
  <2> SUFFICES ASSUME NEW i \in 1 .. (n + m), NEW q \in Input!Sequences2
               PROVE  ~ PartOf(t2, i, q) /\ (Whole(t2, i, q) => i + Stride - 1 <= n + m)
    BY DEF CutAt, Part
  <2>1. CASE i <= n
    <3>1. i \in 1 .. n /\ n <= n + m
      BY <1>2, <2>1
    <3> QED
      BY <1>2, <1>6, <3>1
  <2>2. CASE i > n
    <3> DEFINE j == i - n
    <3>1. j \in 1 .. m /\ j \in 1 .. Len(w) /\ i = n + j
      BY <1>2, <2>2
    <3> HIDE DEF j
    <3>2. ~ PartOf(w, j, q) /\ (Whole(w, j, q) => j + Stride - 1 <= m)
      BY <1>7, <3>1 DEF CutAt, Part
    <3>3. j + Stride - 1 <= m => i + Stride - 1 <= n + m
      BY <1>2, <3>1
    <3> QED
      BY <1>5, <3>1, <3>2, <3>3
  <2> QED
    BY <1>2, <2>1, <2>2
<1>8. ASSUME NEW i \in 1 .. n PROVE i \in Input!Kept(t2) <=> i \in Input!Kept(t)
  <2>1. i \in 1 .. Len(t) /\ i \in 1 .. Len(t2) /\ \A k \in 1 .. i : k \in 1 .. n
    BY <1>2
  <2>2. \A k \in 1 .. i : ~ Part(t2, k) /\ ~ Part(t, k)
        /\ \A q \in Input!Sequences2 : Whole(t2, k, q) <=> Whole(t, k, q)
    BY <1>6, <2>1 DEF Part
  <2> QED
    BY <1>2, <2>1, <2>2, KeptIs
<1>9. ASSUME NEW j \in 1 .. Len(w) PROVE n + j \in Input!Kept(t2) <=> j \in Input!Kept(w)
  <2>1. n + j \in 1 .. Len(t2)
    BY <1>2
  <2>2. \A i \in 1 .. n : /\ ~ Part(t2, i)
                          /\ \A q \in Input!Sequences2 : Whole(t2, i, q) => i + Stride <= n + j
    <3> SUFFICES ASSUME NEW i \in 1 .. n, NEW q \in Input!Sequences2
                 PROVE  ~ PartOf(t2, i, q) /\ (Whole(t2, i, q) => i + Stride <= n + j)
      BY DEF Part
    <3>1. i + Stride - 1 <= n => i + Stride <= n + j
      BY <1>2
    <3> QED
      BY <1>6, <3>1
  <2>3. \A k \in 1 .. j : /\ Part(t2, n + k) <=> Part(w, k)
                          /\ \A q \in Input!Sequences2 : Whole(t2, n + k, q) <=> Whole(w, k, q)
    <3>1. \A k \in 1 .. j : k \in 1 .. Len(w)
      BY <1>2
    <3> QED
      BY <1>5, <3>1 DEF Part
  <2>4. \A k \in 1 .. j : (n + k) + Stride <= n + j <=> k + Stride <= j
    BY <1>2
  <2>5. ASSUME n + j \in Input!Kept(t2) PROVE j \in Input!Kept(w)
    <3>1. ASSUME NEW k \in 1 .. j
          PROVE  /\ ~ Part(w, k)
                 /\ \A q \in Input!Sequences2 : Whole(w, k, q) => k + Stride <= j
      <4>1. n + k \in 1 .. (n + j)
        BY <1>2
      <4>2. /\ ~ Part(t2, n + k)
            /\ \A q \in Input!Sequences2 : Whole(t2, n + k, q) => (n + k) + Stride <= n + j
        BY <1>2, <2>1, <2>5, <4>1, KeptIs
      <4> QED
        BY <2>3, <2>4, <4>2
    <3> QED
      BY <1>2, <3>1, KeptIs
  <2>6. ASSUME j \in Input!Kept(w) PROVE n + j \in Input!Kept(t2)
    <3>1. ASSUME NEW i \in 1 .. (n + j)
          PROVE  /\ ~ Part(t2, i)
                 /\ \A q \in Input!Sequences2 : Whole(t2, i, q) => i + Stride <= n + j
      <4>1. CASE i <= n
        <5>1. i \in 1 .. n
          BY <1>2, <4>1
        <5> QED
          BY <2>2, <5>1
      <4>2. CASE i > n
        <5> DEFINE k == i - n
        <5>1. k \in 1 .. j /\ i = n + k
          BY <1>2, <4>2
        <5> HIDE DEF k
        <5>2. ~ Part(w, k) /\ \A q \in Input!Sequences2 : Whole(w, k, q) => k + Stride <= j
          BY <1>2, <2>6, <5>1, KeptIs
        <5> QED
          BY <2>3, <2>4, <5>1, <5>2
      <4> QED
        BY <1>2, <4>1, <4>2
    <3> QED
      BY <1>2, <2>1, <3>1, KeptIs
  <2> QED
    BY <2>5, <2>6
<1>10. Input!Plain(t2) = Input!Plain(t) \o Input!Plain(w)
  <2> DEFINE S == Input!Kept(t)
             S2 == Input!Kept(t2)
             T == Input!Kept(w)
  <2>a. Joins(t2, S2, w, T, n)
    BY <1>2, <1>4, <1>9 DEF Joins
  <2>b. Alike(t2, S2, t, S, n)
    <3>1. n <= Len(t2) /\ \A i \in 1 .. n : i \in 1 .. Len(t)
      BY <1>2
    <3> QED
      BY <1>2, <1>3, <1>8, <3>1 DEF Alike
  <2>c. \A j \in (n + 1) .. Len(t) : j \notin S
    BY <1>1
  <2>1. /\ Input!Plain(t) = Input!Picked(t, S)[Len(t)]
        /\ Input!Plain(t2) = Input!Picked(t2, S2)[Len(t2)]
        /\ Input!Plain(w) = Input!Picked(w, T)[Len(w)]
    BY DEF Input!Plain, Input!Pick
  <2> HIDE DEF S, S2, T
  <2>2. IsJoin(Input!Picked(t2, S2)[Len(t2)], Input!Picked(t2, S2)[n], Input!Picked(w, T)[Len(w)])
    BY <1>2, <2>a, PickedJoin
  <2>3. Input!Picked(t2, S2)[n] = Input!Picked(t, S)[n]
    BY <1>2, <2>b, PickedSame
  <2>4. Input!Picked(t, S)[Len(t)] = Input!Picked(t, S)[n]
    BY <1>2, <2>c, PickedNone
  <2> QED
    BY <2>1, <2>2, <2>3, <2>4 DEF IsJoin
<1>11. ASSUME NEW h2, Holds(w, h2) PROVE Holds(t2, h2)
  <2> DEFINE m == Len(w) - Len(h2)
  <2>1. /\ h2 \in Seq(Bytes) /\ Len(h2) <= Len(w) /\ CutAt(w, m)
        /\ \A k \in 1 .. Len(h2) : h2[k] = w[m + k]
        /\ \A j \in (m + 1) .. Len(w) : j \notin Input!Kept(w)
    BY <1>11 DEF Holds
  <2>2. m \in 0 .. Len(w) /\ Len(h2) \in Nat /\ Len(h2) <= Len(t2) /\ Len(t2) - Len(h2) = n + m
        /\ m + Len(h2) = Len(w)
    BY <1>2, <2>1
  <2> HIDE DEF m
  <2>3. CutAt(t2, n + m)
    BY <1>7, <2>1, <2>2
  <2>4. ASSUME NEW k \in 1 .. Len(h2) PROVE h2[k] = t2[(n + m) + k]
    <3>1. m + k \in 1 .. Len(w) /\ n + (m + k) = (n + m) + k
      BY <1>2, <2>2
    <3> QED
      BY <1>4, <2>1, <3>1
  <2>5. ASSUME NEW i \in ((n + m) + 1) .. Len(t2) PROVE i \notin Input!Kept(t2)
    <3> DEFINE j == i - n
    <3>1. j \in (m + 1) .. Len(w) /\ j \in 1 .. Len(w) /\ i = n + j
      BY <1>2, <2>2
    <3> HIDE DEF j
    <3> QED
      BY <1>9, <2>1, <3>1
  <2> QED
    BY <2>1, <2>2, <2>3, <2>4, <2>5 DEF Holds
<1> QED
  BY <1>10, <1>11 DEF w, t2

-----------------------------------------------------------------------------
(* The escape machine, against a reading of all it was given.              *)

Outs == Bytes \cup {"~"}
LineState(p) ==
  IF p = <<>> \/ p[Len(p)] \in Input!EOL THEN "LineStart"
  ELSE IF Input!Introduces(p, Len(p)) THEN "SeenTilde" ELSE "MidLine"
\* What the next byte adds to what is forwarded.
Gained(p, c) ==
  IF LineState(p) = "SeenTilde" THEN IF c = "~" THEN <<c>> ELSE <<"~", c>>
  ELSE IF LineState(p) = "LineStart" /\ c = "~" THEN <<>> ELSE <<c>>
\* The positions that are forwarded.
Passed(p) == {i \in DOMAIN p : ~ (Input!Introduces(p, i) /\ (i = Len(p) \/ p[i + 1] = "~"))}

(* One more byte: where the tildes are that introduce an escape.           *)
LEMMA IntroducesNext ==
  ASSUME NEW p \in Seq(Bytes), NEW c \in Bytes
  PROVE  LET p2 == Append(p, c) n == Len(p) IN
         /\ n \in Nat /\ p2 \in Seq(Bytes) /\ Len(p2) = n + 1 /\ p2[n + 1] = c
         /\ \A i \in 1 .. n : p2[i] = p[i] /\ (Input!Introduces(p2, i) <=> Input!Introduces(p, i))
         /\ Input!Introduces(p2, n + 1) <=> c = "~" /\ LineState(p) = "LineStart"
         /\ LineState(p) = "SeenTilde" <=> n > 0 /\ Input!Introduces(p, n)
<1> DEFINE p2 == Append(p, c)
           n == Len(p)
<1>1. n \in Nat /\ p2 \in Seq(Bytes) /\ Len(p2) = n + 1 /\ p2[n + 1] = c
      /\ \A i \in 1 .. n : p2[i] = p[i]
  OBVIOUS
<1>2. p = <<>> <=> n = 0
  OBVIOUS
<1> HIDE DEF p2, n
<1>3. ASSUME NEW i \in 1 .. n
      PROVE  Input!Introduces(p2, i) <=> Input!Introduces(p, i)
  <2>1. p2[i] = p[i] /\ (i # 1 => i - 1 \in 1 .. n)
    BY <1>1
  <2> QED
    BY <1>1, <2>1 DEF Input!Introduces
<1>4. LineState(p) = "LineStart" <=> n = 0 \/ p[n] \in Input!EOL
  BY <1>2 DEF LineState, n
<1>5. Input!Introduces(p2, n + 1) <=> c = "~" /\ LineState(p) = "LineStart"
  <2>1. CASE n = 0
    BY <1>1, <1>4, <2>1 DEF Input!Introduces
  <2>2. CASE n # 0
    <3>1. (n + 1) - 1 = n /\ n + 1 # 1 /\ n \in 1 .. n
      BY <1>1, <2>2
    <3>2. p2[n] = p[n]
      BY <1>1, <3>1
    <3> QED
      BY <1>1, <1>4, <2>2, <3>1, <3>2 DEF Input!Introduces
  <2> QED
    BY <2>1, <2>2
<1>6. LineState(p) = "SeenTilde" <=> n > 0 /\ Input!Introduces(p, n)
  <2>1. "~" \notin Input!EOL
    BY DEF Input!EOL
  <2> QED
    BY <1>1, <1>2, <2>1 DEF LineState, Input!Introduces, n
<1> QED
  BY <1>1, <1>3, <1>5, <1>6 DEF p2, n

(* Whether the stream has escaped, and where on its line it is.            *)
LEMMA StateNext ==
  ASSUME NEW p \in Seq(Bytes), NEW c \in Bytes
  PROVE  /\ Input!Escapes(Append(p, c)) <=>
              Input!Escapes(p) \/ (LineState(p) = "SeenTilde" /\ c = ".")
         /\ LineState(Append(p, c)) =
              IF LineState(p) = "LineStart" /\ c = "~" THEN "SeenTilde" ELSE Input!After(c)
<1> DEFINE p2 == Append(p, c)
           n == Len(p)
<1>1. /\ n \in Nat /\ p2 \in Seq(Bytes) /\ Len(p2) = n + 1 /\ p2[n + 1] = c
      /\ \A i \in 1 .. n : p2[i] = p[i] /\ (Input!Introduces(p2, i) <=> Input!Introduces(p, i))
      /\ Input!Introduces(p2, n + 1) <=> c = "~" /\ LineState(p) = "LineStart"
      /\ LineState(p) = "SeenTilde" <=> n > 0 /\ Input!Introduces(p, n)
  BY IntroducesNext
<1> HIDE DEF p2
<1>2. Input!Escapes(p2) <=> Input!Escapes(p) \/ (LineState(p) = "SeenTilde" /\ c = ".")
  <2>1. Input!Escapes(p2) <=> \E i \in 1 .. n : Input!Introduces(p2, i) /\ p2[i + 1] = "."
    <3>1. Len(p2) - 1 = n
      BY <1>1
    <3> QED
      BY <3>1 DEF Input!Escapes
  <2>2. ASSUME NEW i \in 1 .. n, Input!Introduces(p2, i), p2[i + 1] = "."
        PROVE  Input!Escapes(p) \/ (LineState(p) = "SeenTilde" /\ c = ".")
    <3>1. CASE i = n
      <4>1. n > 0 /\ p2[i + 1] = c /\ Input!Introduces(p, n)
        BY <1>1, <2>2, <3>1
      <4> QED
        BY <1>1, <2>2, <4>1
    <3>2. CASE i # n
      <4>1. i \in 1 .. (n - 1) /\ i + 1 \in 1 .. n
        BY <1>1, <3>2
      <4>2. Input!Introduces(p, i) /\ p[i + 1] = "."
        BY <1>1, <2>2, <4>1
      <4> QED
        BY <4>1, <4>2 DEF Input!Escapes
    <3> QED
      BY <3>1, <3>2
  <2>3. ASSUME Input!Escapes(p) \/ (LineState(p) = "SeenTilde" /\ c = ".")
        PROVE  \E i \in 1 .. n : Input!Introduces(p2, i) /\ p2[i + 1] = "."
    <3>1. CASE Input!Escapes(p)
      <4>1. PICK i \in 1 .. (n - 1) : Input!Introduces(p, i) /\ p[i + 1] = "."
        BY <3>1 DEF Input!Escapes
      <4>2. i \in 1 .. n /\ i + 1 \in 1 .. n
        BY <1>1
      <4> QED
        BY <1>1, <4>1, <4>2
    <3>2. CASE LineState(p) = "SeenTilde" /\ c = "."
      <4>1. n \in 1 .. n /\ Input!Introduces(p2, n) /\ p2[n + 1] = "."
        BY <1>1, <3>2
      <4> QED
        BY <4>1
    <3> QED
      BY <2>3, <3>1, <3>2
  <2> QED
    BY <2>1, <2>2, <2>3
<1>3. LineState(p2) = IF LineState(p) = "LineStart" /\ c = "~" THEN "SeenTilde" ELSE Input!After(c)
  <2>1. p2 # <<>> /\ p2[Len(p2)] = c /\ (Input!Introduces(p2, Len(p2)) <=> Input!Introduces(p2, n + 1))
    BY <1>1
  <2>2. "~" \notin Input!EOL
    BY DEF Input!EOL
  <2> QED
    BY <1>1, <2>1, <2>2 DEF LineState, Input!After
<1> QED
  BY <1>2, <1>3 DEF p2

(* What is forwarded grows by what the byte adds.                          *)
LEMMA ForwardedNext ==
  ASSUME NEW p \in Seq(Bytes), NEW c \in Bytes
  PROVE  Input!Forwarded(Append(p, c)) = Input!Forwarded(p) \o Gained(p, c)
<1> DEFINE p2 == Append(p, c)
           n == Len(p)
           F == Passed(p)
           F2 == Passed(p2)
           P == Input!Picked(p, F)
           P2 == Input!Picked(p2, F2)
<1>1. /\ n \in Nat /\ p2 \in Seq(Bytes) /\ Len(p2) = n + 1 /\ p2[n + 1] = c
      /\ \A i \in 1 .. n : p2[i] = p[i] /\ (Input!Introduces(p2, i) <=> Input!Introduces(p, i))
      /\ Input!Introduces(p2, n + 1) <=> c = "~" /\ LineState(p) = "LineStart"
      /\ LineState(p) = "SeenTilde" <=> n > 0 /\ Input!Introduces(p, n)
  BY IntroducesNext
<1>2. Input!Forwarded(p) = P[n] /\ Input!Forwarded(p2) = P2[n + 1]
  <2>1. Input!Forwarded(p) = Input!Pick(p, F) /\ Input!Forwarded(p2) = Input!Pick(p2, F2)
    BY DEF Input!Forwarded, Passed
  <2> QED
    BY <1>1, <2>1 DEF Input!Pick
<1> HIDE DEF p2
<1>3. /\ P \in [0 .. n -> Seq(Bytes)]
      /\ \A i \in 1 .. n : P[i] = Input!PickAt(p, F, P[i - 1], i)
  BY PickedIs
<1>4. \A i \in 1 .. (n + 1) : P2[i] = Input!PickAt(p2, F2, P2[i - 1], i)
  BY <1>1, PickedIs
<1>5. DOMAIN p = 1 .. n /\ DOMAIN p2 = 1 .. (n + 1)
  BY <1>1
<1> HIDE DEF n, P, P2
<1>6. n + 1 \in F2 <=> ~ (c = "~" /\ LineState(p) = "LineStart")
  BY <1>1, <1>5 DEF Passed
<1>7. ASSUME n > 0 PROVE (n \in F2 <=> ~ (Input!Introduces(p, n) /\ c = "~"))
                         /\ (n \in F <=> ~ Input!Introduces(p, n))
  <2>1. n \in 1 .. n /\ n # n + 1 /\ n \in 1 .. (n + 1)
    BY <1>1, <1>7
  <2>2. n \in F <=> ~ Input!Introduces(p, n)
    BY <1>5, <2>1 DEF Passed, n
  <2>3. n \in F2 <=> ~ (Input!Introduces(p2, n) /\ (n = Len(p2) \/ p2[n + 1] = "~"))
    BY <1>5, <2>1 DEF Passed
  <2> QED
    BY <1>1, <2>1, <2>2, <2>3
<1>8. ASSUME NEW i \in 1 .. (n - 1) PROVE i \in F2 <=> i \in F
  <2>1. i \in 1 .. n /\ i \in 1 .. (n + 1) /\ i + 1 \in 1 .. n /\ i # n /\ i # n + 1
    BY <1>1
  <2>2. i \in F <=> ~ (Input!Introduces(p, i) /\ p[i + 1] = "~")
    BY <1>5, <2>1 DEF Passed, n
  <2>3. i \in F2 <=> ~ (Input!Introduces(p2, i) /\ p2[i + 1] = "~")
    BY <1>1, <1>5, <2>1 DEF Passed
  <2> QED
    BY <1>1, <2>1, <2>2, <2>3
<1>9. P2[n + 1] = IF n + 1 \in F2 THEN Append(P2[n], c) ELSE P2[n]
  <2>1. n + 1 \in 1 .. (n + 1) /\ (n + 1) - 1 = n
    BY <1>1
  <2> QED
    BY <1>1, <1>4, <2>1 DEF Input!PickAt
<1>10. CASE LineState(p) = "SeenTilde"
  <2>0. n > 0 /\ Input!Introduces(p, n) /\ p[n] = "~"
    BY <1>1, <1>10 DEF Input!Introduces
  <2>1. n \in 1 .. n /\ n \in 1 .. (n + 1) /\ n - 1 \in Nat /\ n - 1 \in 0 .. n
    BY <1>1, <2>0
  <2>2. P[n] = P[n - 1]
    BY <1>3, <1>7, <2>0, <2>1 DEF Input!PickAt
  <2>3. P2[n - 1] = P[n - 1]
    <3>1. n - 1 <= Len(p2) /\ n - 1 <= Len(p) /\ \A i \in 1 .. (n - 1) : i \in 1 .. n
      BY <1>1, <2>0 DEF n
    <3>2. Alike(p2, F2, p, F, n - 1)
      BY <1>1, <1>8, <3>1 DEF Alike
    <3> QED
      BY <1>1, <2>1, <3>2, PickedSame DEF P, P2
  <2> DEFINE x == P[n - 1]
  <2>4. x \in Seq(Bytes)
    BY <1>3, <2>1
  <2> HIDE DEF x
  <2>5. n + 1 \in F2
    BY <1>6, <1>10
  <2>6. CASE c = "~"
    <3>1. P2[n] = x
      BY <1>4, <1>7, <2>0, <2>1, <2>3, <2>6 DEF Input!PickAt, x
    <3>2. P2[n + 1] = Append(x, c) /\ Gained(p, c) = <<c>>
      BY <1>9, <1>10, <2>5, <2>6, <3>1 DEF Gained
    <3>3. Append(x, c) = x \o <<c>>
      BY <2>4
    <3> QED
      BY <1>2, <2>2, <3>2, <3>3 DEF p2, x
  <2>7. CASE c # "~"
    <3>1. P2[n] = Append(x, "~")
      <4>1. n \in F2 /\ p2[n] = "~"
        BY <1>1, <1>7, <2>0, <2>1, <2>7
      <4> QED
        BY <1>4, <2>1, <2>3, <4>1 DEF Input!PickAt, x
    <3>2. P2[n + 1] = Append(Append(x, "~"), c) /\ Gained(p, c) = <<"~", c>>
      BY <1>9, <1>10, <2>5, <2>7, <3>1 DEF Gained
    <3>3. Append(Append(x, "~"), c) = x \o <<"~", c>>
      BY <2>4, SMTT(40)
    <3> QED
      BY <1>2, <2>2, <3>2, <3>3 DEF p2, x
  <2> QED
    BY <2>6, <2>7
<1>11. CASE LineState(p) # "SeenTilde"
  <2>1. \A i \in 1 .. n : i \in F2 <=> i \in F
    <3> SUFFICES ASSUME NEW i \in 1 .. n PROVE i \in F2 <=> i \in F
      OBVIOUS
    <3>1. CASE i = n
      BY <1>1, <1>7, <1>11, <3>1
    <3>2. CASE i # n
      <4>1. i \in 1 .. (n - 1)
        BY <1>1, <3>2
      <4> QED
        BY <1>8, <4>1
    <3> QED
      BY <3>1, <3>2
  <2>2. P2[n] = P[n]
    <3>1. Alike(p2, F2, p, F, n)
      <4>1. n <= Len(p2) /\ n <= Len(p)
        BY <1>1 DEF n
      <4> QED
        BY <1>1, <2>1, <4>1 DEF Alike
    <3> QED
      BY <1>1, <3>1, PickedSame DEF P, P2
  <2> DEFINE x == P[n]
  <2>3. x \in Seq(Bytes)
    <3>1. n \in 0 .. n
      BY <1>1
    <3> QED
      BY <1>3, <3>1
  <2> HIDE DEF x
  <2>4. CASE LineState(p) = "LineStart" /\ c = "~"
    <3>1. P2[n + 1] = x /\ Gained(p, c) = <<>>
      BY <1>6, <1>9, <2>2, <2>4 DEF Gained, x
    <3>2. x \o <<>> = x
      BY <2>3
    <3> QED
      BY <1>2, <3>1, <3>2 DEF p2, x
  <2>5. CASE ~ (LineState(p) = "LineStart" /\ c = "~")
    <3>1. P2[n + 1] = Append(x, c) /\ Gained(p, c) = <<c>>
      BY <1>6, <1>9, <1>11, <2>2, <2>5 DEF Gained, x
    <3>2. x \o <<c>> = Append(x, c)
      BY <2>3
    <3> QED
      BY <1>2, <3>1, <3>2 DEF p2, x
  <2> QED
    BY <2>4, <2>5
<1> QED
  BY <1>10, <1>11

\* The states of the machine, and what it has made of the bytes p when s was sent before.
Ess == [at : {"LineStart", "SeenTilde", "MidLine"}, out : Seq(Outs), quit : BOOLEAN]
EscIs(e, p, s) ==
  IF e.quit THEN Input!Escapes(p)
  ELSE /\ ~ Input!Escapes(p) /\ e.at = LineState(p)
       /\ s \o e.out = Input!Forwarded(p)

(* One byte through the machine.                                           *)
LEMMA EscapeStepIs ==
  ASSUME NEW p \in Seq(Bytes), NEW c \in Bytes, NEW s \in Seq(Outs), NEW e \in Ess,
         EscIs(e, p, s)
  PROVE  /\ Input!EscapeStep(e, c) \in Ess
         /\ EscIs(Input!EscapeStep(e, c), Append(p, c), s)
<1> DEFINE e2 == Input!EscapeStep(e, c)
           p2 == Append(p, c)
<1>1. /\ e = [at |-> e.at, out |-> e.out, quit |-> e.quit]
      /\ e.at \in {"LineStart", "SeenTilde", "MidLine"} /\ e.out \in Seq(Outs)
      /\ e.quit \in BOOLEAN /\ c \in Outs /\ "~" \in Outs
  BY DEF Ess, Outs
<1>2. "~" \notin Input!EOL /\ "." # "~"
  BY DEF Input!EOL
<1>3. /\ Input!Escapes(p2) <=> Input!Escapes(p) \/ (LineState(p) = "SeenTilde" /\ c = ".")
      /\ LineState(p2) = IF LineState(p) = "LineStart" /\ c = "~" THEN "SeenTilde" ELSE Input!After(c)
      /\ Input!Forwarded(p2) = Input!Forwarded(p) \o Gained(p, c)
  BY StateNext, ForwardedNext
<1>4. /\ Append(e.out, c) = e.out \o <<c>> /\ e.out \o <<>> = e.out
      /\ e.out \o <<c>> \in Seq(Outs) /\ e.out \o <<"~", c>> \in Seq(Outs)
  BY <1>1
<1>5. Gained(p, c) \in Seq(Outs)
  BY <1>1 DEF Gained
<1> HIDE DEF p2
<1>6. CASE e.quit
  <2>1. e2 = e
    BY <1>6 DEF Input!EscapeStep
  <2> QED
    BY <1>3, <1>6, <2>1 DEF EscIs, p2
<1>7. CASE ~ e.quit /\ e.at = "SeenTilde" /\ c = "."
  <2>1. e2 = [e EXCEPT !.quit = TRUE]
    BY <1>7 DEF Input!EscapeStep
  <2>2. e2 \in Ess /\ e2.quit
    BY <2>1 DEF Ess
  <2>3. Input!Escapes(p2)
    BY <1>3, <1>7 DEF EscIs
  <2> QED
    BY <2>2, <2>3 DEF EscIs, p2
<1>8. CASE ~ e.quit /\ ~ (e.at = "SeenTilde" /\ c = ".")
  <2>1. ~ Input!Escapes(p) /\ e.at = LineState(p) /\ s \o e.out = Input!Forwarded(p)
    BY <1>8 DEF EscIs
  <2>2. e2 = [at |-> LineState(p2), out |-> e.out \o Gained(p, c), quit |-> FALSE]
    <3>1. CASE e.at = "LineStart"
      <4>1. e2 = IF c = "~" THEN [e EXCEPT !.at = "SeenTilde"]
                 ELSE [e EXCEPT !.out = Append(e.out, c), !.at = Input!After(c)]
        BY <1>8, <3>1 DEF Input!EscapeStep
      <4>2. CASE c = "~"
        <5>1. Gained(p, c) = <<>> /\ LineState(p2) = "SeenTilde"
          BY <1>3, <2>1, <3>1, <4>2 DEF Gained
        <5> HIDE DEF e2
        <5> QED
          BY <1>1, <1>4, <1>8, <4>1, <4>2, <5>1
      <4>3. CASE c # "~"
        <5>1. Gained(p, c) = <<c>> /\ LineState(p2) = Input!After(c)
          BY <1>3, <2>1, <3>1, <4>3 DEF Gained
        <5> HIDE DEF e2
        <5> QED
          BY <1>1, <1>4, <1>8, <4>1, <4>3, <5>1
      <4> QED
        BY <4>2, <4>3
    <3>2. CASE e.at = "SeenTilde"
      <4>1. e2 = IF c = "~" THEN [e EXCEPT !.out = Append(e.out, c), !.at = "MidLine"]
                 ELSE [e EXCEPT !.out = e.out \o <<"~", c>>, !.at = Input!After(c)]
        BY <1>8, <3>2 DEF Input!EscapeStep
      <4>2. LineState(p2) = Input!After(c)
        BY <1>3, <2>1, <3>2
      <4>3. CASE c = "~"
        <5>1. Gained(p, c) = <<c>> /\ Input!After(c) = "MidLine"
          BY <1>2, <2>1, <3>2, <4>3 DEF Gained, Input!After
        <5> HIDE DEF e2
        <5> QED
          BY <1>1, <1>4, <1>8, <4>1, <4>2, <4>3, <5>1
      <4>4. CASE c # "~"
        <5>1. Gained(p, c) = <<"~", c>>
          BY <2>1, <3>2, <4>4 DEF Gained
        <5> HIDE DEF e2
        <5> QED
          BY <1>1, <1>4, <1>8, <4>1, <4>2, <4>4, <5>1
      <4> QED
        BY <4>3, <4>4
    <3>3. CASE e.at = "MidLine"
      <4>1. e2 = [e EXCEPT !.out = Append(e.out, c), !.at = Input!After(c)]
        BY <1>8, <3>3 DEF Input!EscapeStep
      <4>2. Gained(p, c) = <<c>> /\ LineState(p2) = Input!After(c)
        BY <1>3, <2>1, <3>3 DEF Gained
      <4> HIDE DEF e2
      <4> QED
        BY <1>1, <1>4, <1>8, <4>1, <4>2
    <3> QED
      BY <1>1, <3>1, <3>2, <3>3
  <2>3. e.out \o Gained(p, c) \in Seq(Outs) /\ LineState(p2) \in {"LineStart", "SeenTilde", "MidLine"}
    <3>1. LineState(p2) \in {"LineStart", "SeenTilde", "MidLine"}
      BY DEF LineState
    <3> QED
      BY <1>1, <1>5, <3>1
  <2> HIDE DEF e2
  <2>4. e2 \in Ess /\ ~ e2.quit /\ e2.at = LineState(p2) /\ e2.out = e.out \o Gained(p, c)
    BY <2>2, <2>3 DEF Ess
  <2>5. s \o (e.out \o Gained(p, c)) = (s \o e.out) \o Gained(p, c)
    BY <1>1, <1>5, ConcatAssociative
  <2>6. ~ Input!Escapes(p2)
    BY <1>3, <1>8, <2>1
  <2>7. s \o e2.out = Input!Forwarded(p2)
    BY <1>3, <2>1, <2>4, <2>5
  <2>8. EscIs(e2, p2, s)
    BY <2>4, <2>6, <2>7 DEF EscIs
  <2> QED
    BY <2>4, <2>8 DEF e2, p2
<1> QED
  BY <1>1, <1>6, <1>7, <1>8

(* A read through the machine.                                             *)
LEMMA EscapeProcessIs ==
  ASSUME NEW p \in Seq(Bytes), NEW w \in Seq(Bytes), NEW s \in Seq(Outs),
         s = Input!Forwarded(p), ~ Input!Escapes(p)
  PROVE  /\ Input!EscapeProcess(LineState(p), w) \in Ess
         /\ EscIs(Input!EscapeProcess(LineState(p), w), p \o w, s)
<1> DEFINE n == Len(w)
           X == Ess
           a == LineState(p)
           b == [at |-> a, out |-> <<>>, quit |-> FALSE]
           pre == [i \in 0 .. n |-> p \o SubSeq(w, 1, i)]
           after[i \in 0 .. n] == IF i = 0 THEN b ELSE Input!EscapeStep(after[i - 1], w[i])
           Y == {x \in X \X (1 .. n) : EscIs(x[1], pre[x[2] - 1], s)}
           g == [x \in X \X (1 .. n) |-> IF x \in Y THEN Input!EscapeStep(x[1], w[x[2]]) ELSE b]
<1>0. n \in Nat /\ n = Len(w) /\ \A i \in 1 .. n : w[i] \in Bytes
  OBVIOUS
<1>a. pre[0] = p /\ pre[n] = p \o w
  <2>1. SubSeq(w, 1, 0) = <<>> /\ SubSeq(w, 1, n) = w /\ p \o <<>> = p /\ 0 \in 0 .. n /\ n \in 0 .. n
    OBVIOUS
  <2> HIDE DEF n
  <2> QED
    BY <2>1
<1>b. ASSUME NEW i \in 1 .. n
      PROVE  pre[i - 1] \in Seq(Bytes) /\ pre[i] = Append(pre[i - 1], w[i])
  <2> DEFINE u == SubSeq(w, 1, i - 1)
  <2>1. u \in Seq(Bytes) /\ SubSeq(w, 1, i) = Append(u, w[i]) /\ i - 1 \in 0 .. n /\ i \in 0 .. n
    OBVIOUS
  <2>2. w[i] \in Bytes
    BY <1>0
  <2>3. pre[i - 1] = p \o u /\ pre[i] = p \o SubSeq(w, 1, i)
    BY <2>1
  <2> HIDE DEF u, pre, n
  <2>4. p \o Append(u, w[i]) = Append(p \o u, w[i]) /\ p \o u \in Seq(Bytes)
    BY <2>1, <2>2
  <2> QED
    BY <2>1, <2>3, <2>4
<1> HIDE DEF n, pre
<1>1. n \in Nat /\ b \in X
  <2>1. a \in {"LineStart", "SeenTilde", "MidLine"}
    BY DEF LineState
  <2> HIDE DEF a
  <2> QED
    BY <1>0, <2>1 DEF Ess
<1>2. ASSUME NEW x \in X, NEW i \in 1 .. n, EscIs(x, pre[i - 1], s)
      PROVE  /\ Input!EscapeStep(x, w[i]) \in X
             /\ EscIs(Input!EscapeStep(x, w[i]), pre[i], s)
  <2>1. w[i] \in Bytes /\ pre[i - 1] \in Seq(Bytes) /\ pre[i] = Append(pre[i - 1], w[i])
    BY <1>0, <1>b
  <2> QED
    BY <1>2, <2>1, EscapeStepIs
<1>5. EscIs(b, pre[0], s)
  <2>1. ~ b.quit /\ b.at = a /\ b.out = <<>> /\ s \o <<>> = s
    OBVIOUS
  <2> HIDE DEF b
  <2> QED
    BY <1>a, <2>1 DEF EscIs
<1> HIDE DEF X, b
<1>3. IsStep(g, X, n)
  BY <1>1, <1>2 DEF IsStep
<1>4. PICK f : IsRun(f, n, X, b, g)
  <2> HIDE DEF g
  <2> QED
    BY <1>1, <1>3, LoopExists
<1>6. \A i \in 0 .. n : f[i] \in X /\ EscIs(f[i], pre[i], s)
      /\ (i # 0 => f[i] = Input!EscapeStep(f[i - 1], w[i]))
  <2> DEFINE D == {i \in 0 .. n : f[i] \in X /\ EscIs(f[i], pre[i], s)
                                  /\ (i # 0 => f[i] = Input!EscapeStep(f[i - 1], w[i]))}
  <2>1. 0 \in D
    BY <1>1, <1>4, <1>5 DEF IsRun
  <2>2. ASSUME NEW i \in 1 .. n, i - 1 \in D PROVE i \in D
    <3>1. f[i - 1] \in X /\ EscIs(f[i - 1], pre[i - 1], s) /\ i \in 0 .. n /\ i # 0
      BY <1>1, <2>2
    <3>2. f[i] = g[<<f[i - 1], i>>]
      BY <1>4 DEF IsRun
    <3>3. f[i] = Input!EscapeStep(f[i - 1], w[i])
      BY <3>1, <3>2
    <3> QED
      BY <1>2, <3>1, <3>3
  <2> HIDE DEF D
  <2>3. \A i \in 0 .. n : i \in D
    BY <1>1, <2>1, <2>2, UpTo
  <2> QED
    BY <2>3 DEF D
<1>7. f = [i \in 0 .. n |-> IF i = 0 THEN b ELSE Input!EscapeStep(f[i - 1], w[i])]
  <2>1. \A i \in 0 .. n : f[i] = IF i = 0 THEN b ELSE Input!EscapeStep(f[i - 1], w[i])
    BY <1>4, <1>6 DEF IsRun
  <2>2. f = [i \in 0 .. n |-> f[i]]
    BY <1>4 DEF IsRun
  <2> HIDE DEF g, Y
  <2> QED
    BY <2>1, <2>2
<1>8. after = [i \in 0 .. n |-> IF i = 0 THEN b ELSE Input!EscapeStep(after[i - 1], w[i])]
  BY <1>7, Zenon
<1>9. after[n] \in X /\ EscIs(after[n], pre[n], s)
  <2> HIDE DEF after
  <2> DEFINE D == {i \in 0 .. n : after[i] \in X /\ EscIs(after[i], pre[i], s)}
  <2>1. 0 \in D
    <3>1. after[0] = b /\ 0 \in 0 .. n
      BY <1>1, <1>8
    <3> QED
      BY <1>1, <1>5, <3>1
  <2>2. ASSUME NEW i \in 1 .. n, i - 1 \in D PROVE i \in D
    <3>1. after[i - 1] \in X /\ EscIs(after[i - 1], pre[i - 1], s) /\ i \in 0 .. n /\ i # 0
      BY <1>1, <2>2
    <3>2. after[i] = Input!EscapeStep(after[i - 1], w[i])
      BY <1>8, <3>1
    <3> QED
      BY <1>2, <3>1, <3>2
  <2> HIDE DEF D
  <2>3. \A i \in 0 .. n : i \in D
    BY <1>1, <2>1, <2>2, UpTo
  <2>4. n \in D
    BY <1>1, <2>3
  <2> QED
    BY <2>4 DEF D
<1>10. Input!EscapeProcess(a, w) = after[n]
  BY DEF Input!EscapeProcess, n, b
<1> HIDE DEF after
<1> QED
  BY <1>9, <1>10, <1>a DEF X

-----------------------------------------------------------------------------
(* The pump: what was sent, what is held and the state of the escape       *)
(* machine are those of the whole stream, however it was cut into reads.   *)

InputInv ==
  /\ typed \in Seq(Bytes) /\ Holds(typed, pending) /\ sent \in Seq(Outs)
  /\ phase = "pump" => /\ sent = Input!Forwarded(Input!Plain(typed))
                       /\ escape = LineState(Input!Plain(typed))
                       /\ ~ Input!Escapes(Input!Plain(typed))
  /\ phase = "quit" => Input!Escapes(Input!Plain(typed))

(* Nothing was read yet.                                                   *)
LEMMA EmptyStream ==
  /\ Holds(<<>>, <<>>) /\ Input!Plain(<<>>) = <<>> /\ Input!Forwarded(<<>>) = <<>>
  /\ LineState(<<>>) = "LineStart" /\ ~ Input!Escapes(<<>>)
<1> DEFINE e == <<>>
<1>1. e \in Seq(Bytes) /\ Len(e) = 0
  OBVIOUS
<1>2. \A S : Input!Pick(e, S) = e
  BY <1>1, PickedIs DEF Input!Pick
<1>3. Input!Plain(e) = e /\ Input!Forwarded(e) = e
  BY <1>2 DEF Input!Plain, Input!Forwarded
<1>4. LineState(e) = "LineStart"
  BY DEF LineState
<1>5. ~ Input!Escapes(e)
  BY <1>1 DEF Input!Escapes
<1>6. CutAt(e, 0)
  BY DEF CutAt
<1>7. Holds(e, e)
  <2>1. Len(e) - Len(e) = 0 /\ 1 .. Len(e) = {} /\ ((Len(e) - Len(e)) + 1) .. Len(e) = {}
    BY <1>1
  <2> HIDE DEF e
  <2> QED
    BY <1>1, <1>6, <2>1 DEF Holds
<1> QED
  BY <1>3, <1>4, <1>5, <1>7

(* What is kept of a stream is a stream.                                   *)
LEMMA PlainIs ==
  ASSUME NEW b \in Seq(Bytes)
  PROVE  Input!Plain(b) \in Seq(Bytes)
<1>1. Len(b) \in 0 .. Len(b)
  OBVIOUS
<1> QED
  BY <1>1, PickedIs DEF Input!Plain, Input!Pick

(* Every step of the client preserves the invariant.                       *)
LEMMA InputNext == InputInv /\ [Input!Next]_(Input!vars) => InputInv'
<1> SUFFICES ASSUME InputInv, [Input!Next]_(Input!vars) PROVE InputInv'
  OBVIOUS
<1>1. ASSUME Input!StdinRead PROVE InputInv'
  <2>1. PICK b \in Input!Reads(MaxTyped - Len(typed)) :
          LET csi == Input!CsiProcess(pending \o b)
              esc == Input!EscapeProcess(escape, csi.out)
          IN  /\ typed' = typed \o b
              /\ pending' = csi.hold
              /\ escape' = esc.at
              /\ phase' = IF esc.quit THEN "quit" ELSE "pump"
              /\ sent' = IF esc.quit THEN sent ELSE sent \o esc.out
    BY <1>1 DEF Input!StdinRead
  <2>2. b \in Seq(Bytes)
    <3>1. PICK k \in 1 .. (MaxTyped - Len(typed)) : b \in [1 .. k -> Bytes]
      BY DEF Input!Reads
    <3> QED
      BY <3>1
  <2> DEFINE w == pending \o b
             csi == Input!CsiProcess(w)
             p == Input!Plain(typed)
             q == Input!Plain(w)
             esc == Input!EscapeProcess(escape, csi.out)
  <2>3. /\ typed \in Seq(Bytes) /\ Holds(typed, pending) /\ sent \in Seq(Outs) /\ phase = "pump"
        /\ sent = Input!Forwarded(p) /\ escape = LineState(p) /\ ~ Input!Escapes(p)
    BY <1>1 DEF InputInv, Input!StdinRead
  <2>4. pending \in Seq(Bytes)
    BY <2>3 DEF Holds
  <2>5. w \in Seq(Bytes) /\ typed \o b \in Seq(Bytes)
    BY <2>2, <2>3, <2>4
  <2>6. /\ typed' = typed \o b /\ pending' = csi.hold /\ escape' = esc.at
        /\ phase' = IF esc.quit THEN "quit" ELSE "pump"
        /\ sent' = IF esc.quit THEN sent ELSE sent \o esc.out
    BY <2>1
  <2> HIDE DEF w
  <2>7. csi.out = q /\ Holds(w, csi.hold)
    BY <2>5, CsiProcessIs
  <2>8. Input!Plain(typed \o b) = p \o q /\ Holds(typed \o b, csi.hold)
    <3>1. /\ Input!Plain(typed \o b) = p \o q
          /\ \A h2 : Holds(w, h2) => Holds(typed \o b, h2)
      BY <2>2, <2>3, NextRead DEF w
    <3> QED
      BY <2>7, <3>1
  <2>9. p \in Seq(Bytes) /\ q \in Seq(Bytes)
    BY <2>3, <2>5, PlainIs
  <2> HIDE DEF csi, p, q
  <2>10. esc \in Ess /\ EscIs(esc, p \o q, sent)
    BY <2>3, <2>7, <2>9, EscapeProcessIs
  <2> HIDE DEF esc
  <2>11. esc.out \in Seq(Outs) /\ esc.quit \in BOOLEAN
    BY <2>10 DEF Ess
  <2>12. sent' \in Seq(Outs)
    BY <2>3, <2>6, <2>11
  <2>13. typed' \in Seq(Bytes) /\ Holds(typed', pending') /\ Input!Plain(typed') = p \o q
    BY <2>5, <2>6, <2>8
  <2>14. CASE esc.quit
    <3>1. phase' = "quit" /\ Input!Escapes(Input!Plain(typed'))
      BY <2>6, <2>10, <2>13, <2>14 DEF EscIs
    <3> QED
      BY <2>12, <2>13, <3>1 DEF InputInv
  <2>15. CASE ~ esc.quit
    <3>1. /\ phase' = "pump" /\ sent' = Input!Forwarded(Input!Plain(typed'))
          /\ escape' = LineState(Input!Plain(typed')) /\ ~ Input!Escapes(Input!Plain(typed'))
      BY <2>6, <2>10, <2>13, <2>15 DEF EscIs
    <3> QED
      BY <2>12, <2>13, <3>1 DEF InputInv
  <2> QED
    BY <2>14, <2>15
<1>2. ASSUME Input!TransportDrop PROVE InputInv'
  BY <1>2 DEF Input!TransportDrop, InputInv
<1>3. ASSUME Input!BackoffRead PROVE InputInv'
  <2>1. phase' # "pump" /\ phase' # "quit" /\ UNCHANGED <<pending, escape, sent, typed>>
    BY <1>3 DEF Input!BackoffRead
  <2> QED
    BY <2>1 DEF InputInv
<1>4. ASSUME Input!Reconnect PROVE InputInv'
  <2>1. phase' = "pump" /\ pending' = <<>> /\ escape' = "LineStart" /\ sent' = <<>> /\ typed' = <<>>
    BY <1>4 DEF Input!Reconnect
  <2> QED
    BY <2>1, EmptyStream DEF InputInv
<1>5. ASSUME Input!Exited PROVE InputInv'
  BY <1>5 DEF Input!Exited, Input!vars, InputInv
<1>6. ASSUME UNCHANGED Input!vars PROVE InputInv'
  BY <1>6 DEF Input!vars, InputInv
<1> QED
  BY <1>1, <1>2, <1>3, <1>4, <1>5, <1>6 DEF Input!Next

(* The invariant holds in every state of the client.                       *)
THEOREM InputInvariance == Input!Spec => []InputInv
<1>1. Input!Init => InputInv
  BY EmptyStream DEF Input!Init, InputInv
<1> QED
  BY <1>1, InputNext, PTL DEF Input!Spec

(* However the bytes typed are cut into reads, the shell is sent all of    *)
(* them in order but the paging sequences and the escapes, and the client  *)
(* quits exactly for `~.` at the start of a line, for every stream.        *)
THEOREM InputReachesShell == Input!Spec => []InputArrives
<1>1. InputInv => InputArrives
  BY DEF InputInv, InputArrives, Input!SentIsTyped, Input!QuitIsEscape
<1> QED
  BY <1>1, InputInvariance, PTL
=============================================================================
