----------------------------- MODULE Predictor -----------------------------
(***************************************************************************)
(* Predictive local echo: nosh-client's PredictionOverlay (predictor.rs)   *)
(* as run_pump drives it: the stdin arm hands it every batch of input      *)
(* before the batch is sent, the datagram arm culls it against each newly  *)
(* applied frame.  The shell at the other end is external: it reads the    *)
(* keys in order, echoes them while its terminal echoes, and on Enter may  *)
(* print a one-glyph prompt and turn the echo on or off (`read -s`).       *)
(*                                                                         *)
(* A frame carries the server's whole screen here; which cells a StateDiff *)
(* names, and lost or stale frames, are the subject of StateSync.  Skipped *)
(* epochs make no difference: a prediction waits for the first frame after *)
(* the one on screen, whatever its number.                                 *)
(***************************************************************************)
EXTENDS Integers, Sequences, FiniteSets, SequencesExt

CONSTANTS
    Sizes,      \* window sizes <<cols, rows>>; the session starts with any
    Batches,    \* what one read of stdin may return: sequences of keys
    Prompts,    \* glyphs a program may print after Enter
    Rtts,       \* smoothed round-trip times in ms
    Mode,       \* --predict: "Always", "Adaptive" or "Never"
    MaxKeys,    \* bound on the batches typed
    MaxFrames,  \* bound on the frames applied
    MaxResizes  \* bound on window changes

Blank == " "
Narrow == {"a", "b"}
Wide == {"W"}
Printable == Narrow \cup Wide

\* What the constants of an instance satisfy.
PredictorAssumption ==
    /\ Sizes \subseteq (Nat \ {0}) \X (Nat \ {0})
    /\ Batches \subseteq Seq(STRING)
    /\ Prompts \subseteq Narrow
    /\ Mode \in {"Always", "Adaptive", "Never"}

VARIABLES
    overlay,    \* PredictionOverlay
    screen,     \* ClientScreen: size, grid, cursor, last_applied_epoch
    wasAlt,     \* was_alt_screen of run_pump
    inbox,      \* batches sent and not yet read by the shell
    shell,      \* the server's terminal: size, grid, cursor, echo, alt
    keys, resizes,
    matched,    \* history: <<line, epoch>> of predictions a frame showed in their place
    answered,   \* history: lines (Enters typed so far) on which the shell echoed a key
    lines       \* history: Enters typed, Enters read by the shell

vars == <<overlay, screen, wasAlt, inbox, shell, keys, resizes, matched, answered, lines>>

---------------------------------------------------------------------------
(* Batches and their classification. *)

Width(k) == IF k \in Wide THEN 2 ELSE IF k \in Narrow THEN 1 ELSE 0
\* Length of a key in bytes: an arrow is three, Home and End four ("\e[1~"), a wide glyph three.
KeyBytes(k) ==
    CASE k \in {"Left", "Right", "W"} -> 3
      [] k \in {"Home", "End"} -> 4
      [] k \in {"PasteStart", "PasteEnd"} -> 6
      [] OTHER -> 1
BULK_SUPPRESS_THRESHOLD == 4
BatchBytes(b) == FoldSeq(LAMBDA k, n : n + KeyBytes(k), 0, b)

Action(kind, chars) == [kind |-> kind, chars |-> chars]

classify_printable(b) ==
    IF Len(b) = 1 /\ b[1] \in Printable THEN Action("Char", b) ELSE Action("EpochReset", <<>>)

\* Everything that is one key and not a glyph: named keys classify as themselves,
\* Tab and any other control or escape sequence resets the epoch.
Motions == {"Backspace", "Left", "Right", "Home", "End", "Enter"}
classify_input(b) ==
    CASE b \in {<<"PasteStart">>, <<"PasteEnd">>} -> Action(b[1], <<>>)
      [] BatchBytes(b) > BULK_SUPPRESS_THRESHOLD /\ b \notin {<<"PasteStart">>, <<"PasteEnd">>} ->
            IF \A i \in DOMAIN b : b[i] \in Narrow THEN Action("Batch", b)
                                                   ELSE Action("Bulk", <<>>)
      [] OTHER ->
            IF Len(b) = 1 /\ b[1] \in Motions THEN Action(b[1], <<>>) ELSE classify_printable(b)

---------------------------------------------------------------------------
(* PredictionOverlay. *)

NewOverlay(size) ==
    [confirmed |-> 0, epoch |-> 0, pending |-> <<>>, trigger |-> FALSE, flagging |-> FALSE,
     paste |-> FALSE, cursor |-> <<0, 0>>, motion |-> FALSE, size |-> size,
     startCol |-> 0, needsSync |-> FALSE]

\* ClientScreen::confirmed_cell: blank outside the grid.
confirmed_cell(s, row, col) == IF <<row, col>> \in DOMAIN s.grid THEN s.grid[<<row, col>>] ELSE Blank

should_display(o) == Mode = "Always" \/ (Mode = "Adaptive" /\ o.trigger)
is_tentative(o, p) == p.until > o.confirmed
Shown(o) == {p \in Range(o.pending) : should_display(o) /\ ~is_tentative(o, p)}
CaretShown(o) == should_display(o) /\ (o.motion \/ Shown(o) # {})

become_tentative(o) == [o EXCEPT !.epoch = @ + 1]
reset(o) == [become_tentative(o) EXCEPT !.pending = <<>>, !.motion = FALSE, !.needsSync = TRUE]
reset_with_cursor(o, c) == [reset(o) EXCEPT !.cursor = c]
set_size(o, size) == [o EXCEPT !.size = size]

\* Snap to the server's cursor, unless predictions or a local caret motion are outstanding.
sync_cursor_from_confirmed(o, c) ==
    IF o.pending # <<>> \/ o.motion THEN o
    ELSE [o EXCEPT !.cursor = c,
                   !.startCol = IF o.needsSync THEN c[2] ELSE @,
                   !.needsSync = FALSE]

\* One glyph: predicted where the caret is, or nothing at the right edge.
PredictChar(o, k, lastEpoch, line) ==
    IF o.cursor[2] + Width(k) > o.size[1] THEN become_tentative(o)
    ELSE [o EXCEPT !.pending = Append(@, [row |-> o.cursor[1], col |-> o.cursor[2], ch |-> k,
                                          required |-> lastEpoch + 1, until |-> o.epoch,
                                          line |-> line]),
                   !.cursor = <<@[1], @[2] + Width(k)>>,
                   !.motion = FALSE]

\* The glyphs of a batch in turn, up to the first that does not fit.
PredictNext(q, k, lastEpoch, line) ==
    IF q.edge THEN q
    ELSE [o |-> PredictChar(q.o, k, lastEpoch, line),
          edge |-> q.o.cursor[2] + Width(k) > q.o.size[1]]
PredictChars(o, b, lastEpoch, line) ==
    LET after[i \in 0..Len(b)] ==
            IF i = 0 THEN [o |-> o, edge |-> FALSE]
            ELSE PredictNext(after[i - 1], b[i], lastEpoch, line)
    IN  after[Len(b)].o

\* Vec::retain: what is left without the predictions that are gone.
Retain(kept, p, gone) == IF p \in gone THEN kept ELSE Append(kept, p)
Without(pending, gone) ==
    LET kept[i \in 0..Len(pending)] ==
            IF i = 0 THEN <<>> ELSE Retain(kept[i - 1], pending[i], gone)
    IN  kept[Len(pending)]

\* The column after the last non-blank cell of a row of the confirmed grid.
find_line_end(o, row, s) ==
    LET used == {c \in 0..(o.size[1] - 1) : confirmed_cell(s, row, c) # Blank}
    IN  IF used = {} THEN 0 ELSE 1 + CHOOSE c \in used : \A d \in used : d <= c

Backspace(o) ==
    IF o.cursor[2] <= o.startCol THEN o
    ELSE [o EXCEPT !.pending = Without(@, {p \in Range(@) : <<p.row, p.col>> = <<o.cursor[1], o.cursor[2] - 1>>}),
                   !.cursor = <<@[1], @[2] - 1>>,
                   !.motion = TRUE]

EnterKeepsEpoch(o) ==
    [o EXCEPT !.pending = <<>>, !.needsSync = TRUE, !.startCol = 0, !.motion = TRUE,
              !.cursor = <<IF @[1] < o.size[2] - 1 THEN @[1] + 1 ELSE @[1], 0>>]
Enter(o) ==
    [become_tentative(o) EXCEPT
        !.pending = <<>>, !.needsSync = TRUE, !.startCol = 0, !.motion = TRUE,
        !.cursor = <<IF @[1] < o.size[2] - 1 THEN @[1] + 1 ELSE @[1], 0>>]

on_input(o, a, s, line) ==
    CASE a.kind \in {"Char", "Batch"} ->
            IF o.paste THEN o ELSE PredictChars(o, a.chars, s.epoch, line)
      [] a.kind = "Backspace" -> Backspace(o)
      [] a.kind = "Left" -> [o EXCEPT !.cursor = <<@[1], IF @[2] > o.startCol THEN @[2] - 1 ELSE @[2]>>, !.motion = TRUE]
      [] a.kind = "Right" -> [o EXCEPT !.cursor = <<@[1], IF @[2] + 1 < o.size[1] THEN @[2] + 1 ELSE @[2]>>, !.motion = TRUE]
      [] a.kind = "Home" -> [o EXCEPT !.cursor = <<@[1], o.startCol>>, !.motion = TRUE]
      [] a.kind = "End" -> [o EXCEPT !.cursor = <<@[1], find_line_end(o, @[1], s)>>, !.motion = TRUE]
      [] a.kind = "Enter" -> Enter(o)
      [] a.kind = "EpochReset" -> reset_with_cursor(o, s.cursor)
      [] a.kind = "Bulk" -> IF o.pending = <<>> THEN reset(o) ELSE become_tentative(o)
      [] a.kind = "PasteStart" -> reset([o EXCEPT !.paste = TRUE])
      [] a.kind = "PasteEnd" -> [o EXCEPT !.paste = FALSE]

\* Display and underline follow the RTT with hysteresis; display is not switched off
\* under predictions that are pending.
update_rtt_thresholds(o, rtt) ==
    [o EXCEPT !.trigger = rtt > 30 \/ (@ /\ ~(rtt <= 20 /\ o.pending = <<>>)),
              !.flagging = rtt > 80 \/ (@ /\ rtt > 50)]

DueLater(p, epoch) == p.required < epoch
Due(p, epoch) == p.required <= epoch
check_validity(confirmed, predicted) ==
    CASE confirmed # predicted -> "Incorrect"
      [] confirmed = predicted /\ predicted = Blank -> "CorrectNoCredit"
      [] confirmed = predicted /\ predicted # Blank -> "Correct"

\* One due prediction of the loop in cull: credit moves confirmed_epoch, a tentative
\* mismatch condemns its epoch, a visible one is a misprediction.
CullStep(q, p, s) ==
    LET v == check_validity(confirmed_cell(s, p.row, p.col), p.ch)
    IN  CASE q.wrong \/ ~Due(p, s.epoch) -> q
          [] ~q.wrong /\ Due(p, s.epoch) /\ v = "Correct" ->
                [q EXCEPT !.confirmed = IF p.until > @ THEN p.until ELSE @,
                          !.gone = @ \cup {<<p.row, p.col, p.required>>}]
          [] ~q.wrong /\ Due(p, s.epoch) /\ v = "CorrectNoCredit" ->
                [q EXCEPT !.gone = @ \cup {<<p.row, p.col, p.required>>}]
          [] ~q.wrong /\ Due(p, s.epoch) /\ v = "Incorrect" ->
                IF p.until > q.confirmed
                THEN [q EXCEPT !.killed = @ \cup {p.until}, !.gone = @ \cup {<<p.row, p.col, p.required>>}]
                ELSE [q EXCEPT !.wrong = TRUE]

\* The loop.
CullLoop(o, s) ==
    LET after[i \in 0..Len(o.pending)] ==
            IF i = 0 THEN [confirmed |-> o.confirmed, gone |-> {}, killed |-> {}, wrong |-> FALSE]
            ELSE CullStep(after[i - 1], o.pending[i], s)
    IN  after[Len(o.pending)]

cull(o, s, rtt) ==
    LET o1 == update_rtt_thresholds(o, rtt)
        q == CullLoop(o1, s)
        o2 == [o1 EXCEPT !.confirmed = q.confirmed]
    IN  IF q.wrong THEN reset(o2)
        ELSE [o2 EXCEPT !.pending = Without(@, {p \in Range(@) : \/ p.until \in q.killed
                                                                \/ <<p.row, p.col, p.required>> \in q.gone})]

---------------------------------------------------------------------------
(* The shell's terminal (external). *)

BlankGrid(size) == [rc \in (0..(size[2] - 1)) \X (0..(size[1] - 1)) |-> Blank]
FitScreen(g, size) == [rc \in DOMAIN BlankGrid(size) |-> IF rc \in DOMAIN g THEN g[rc] ELSE Blank]
ClampTo(c, size) == <<IF c[1] < size[2] THEN c[1] ELSE size[2] - 1,
                      IF c[2] < size[1] THEN c[2] ELSE size[1] - 1>>

\* A glyph at the cursor, which waits on the last column rather than leave the row.
Put(sh, ch) ==
    [sh EXCEPT !.grid[sh.cursor] = ch,
               !.cursor = <<@[1], IF @[2] + Width(ch) < sh.size[1] THEN @[2] + Width(ch) ELSE sh.size[1] - 1>>]

\* One key other than Enter.
ReadKey(sh, k) ==
    CASE k \in Printable -> IF sh.echo THEN Put(sh, k) ELSE sh
      [] k = "Backspace" ->
            IF sh.echo /\ sh.cursor[2] > 0
            THEN [sh EXCEPT !.cursor = <<@[1], @[2] - 1>>, !.grid[<<sh.cursor[1], sh.cursor[2] - 1>>] = Blank]
            ELSE sh
      [] k = "Left" -> [sh EXCEPT !.cursor = <<@[1], IF @[2] > 0 THEN @[2] - 1 ELSE 0>>]
      [] k = "Right" -> [sh EXCEPT !.cursor = <<@[1], IF @[2] + 1 < sh.size[1] THEN @[2] + 1 ELSE @[2]>>]
      [] OTHER -> sh

ReadKeys(sh, b) ==
    LET after[i \in 0..Len(b)] == IF i = 0 THEN sh ELSE ReadKey(after[i - 1], b[i])
    IN  after[Len(b)]

\* Enter ends the line: the program that runs may print a prompt and set the echo, or
\* take the alternate screen over.
ReadEnter(sh) ==
    LET nl == [sh EXCEPT !.cursor = <<IF @[1] < sh.size[2] - 1 THEN @[1] + 1 ELSE @[1], 0>>]
        prompted == {nl} \cup {Put(nl, g) : g \in Prompts}
    IN  {[x[1] EXCEPT !.echo = x[2], !.alt = FALSE] : x \in prompted \X BOOLEAN}
           \cup {[nl EXCEPT !.echo = FALSE, !.alt = TRUE]}

---------------------------------------------------------------------------
TypeOK ==
    /\ overlay.confirmed \in 0..overlay.epoch
    /\ \A p \in Range(overlay.pending) : p.ch \in Printable /\ p.until \in 0..overlay.epoch
    /\ overlay.cursor \in Nat \X Nat /\ overlay.size \in Sizes /\ overlay.startCol \in Nat
    /\ {overlay.trigger, overlay.flagging, overlay.paste, overlay.motion, overlay.needsSync, wasAlt}
          \subseteq BOOLEAN
    /\ screen.size \in Sizes /\ DOMAIN screen.grid = DOMAIN BlankGrid(screen.size)
    /\ screen.epoch \in 0..MaxFrames /\ screen.cursor \in DOMAIN screen.grid
    /\ shell.size \in Sizes /\ shell.cursor \in DOMAIN shell.grid
    /\ keys \in 0..MaxKeys /\ resizes \in 0..MaxResizes

Init ==
    /\ \E size \in Sizes :
        /\ overlay = NewOverlay(size)
        /\ screen = [size |-> size, grid |-> BlankGrid(size), cursor |-> <<0, 0>>, epoch |-> 0]
        /\ shell = [size |-> size, grid |-> BlankGrid(size), cursor |-> <<0, 0>>, echo |-> TRUE, alt |-> FALSE]
    /\ wasAlt = FALSE /\ inbox = <<>> /\ keys = 0 /\ resizes = 0
    /\ matched = {} /\ answered = {} /\ lines = [typed |-> 0, read |-> 0]

\* stdin arm of run_pump: predict, then send.
Stdin ==
    /\ keys < MaxKeys
    /\ \E b \in Batches :
        LET a == classify_input(b)
            line == lines.typed + (IF a.kind = "Enter" THEN 1 ELSE 0)
        IN  /\ overlay' = on_input(overlay, a, screen, line)
            /\ inbox' = Append(inbox, b)
            /\ lines' = [lines EXCEPT !.typed = line]
    /\ keys' = keys + 1
    /\ UNCHANGED <<screen, wasAlt, shell, resizes, matched, answered>>

\* The shell reads what one Input message wrote to its terminal.
ShellReads ==
    /\ inbox # <<>>
    /\ inbox' = Tail(inbox)
    /\ IF Head(inbox) = <<"Enter">>
       THEN /\ shell' \in ReadEnter(shell)
            /\ lines' = [lines EXCEPT !.read = @ + 1]
            /\ UNCHANGED answered
       ELSE /\ shell' = ReadKeys(shell, Head(inbox))
            /\ answered' = IF shell.echo /\ Range(Head(inbox)) \cap Printable # {}
                           THEN answered \cup {lines.read} ELSE answered
            /\ UNCHANGED lines
    /\ UNCHANGED <<overlay, screen, wasAlt, keys, resizes, matched>>

\* The user changes the window: the server's terminal follows and says so in its next frame.
WindowChange ==
    /\ resizes < MaxResizes
    /\ \E size \in Sizes \ {shell.size} :
        shell' = [shell EXCEPT !.size = size, !.grid = FitScreen(@, size), !.cursor = ClampTo(@, size)]
    /\ resizes' = resizes + 1
    /\ UNCHANGED <<overlay, screen, wasAlt, inbox, keys, matched, answered, lines>>

\* After cull: a frame of a new size resizes the overlay and resets it; then the caret is synced.
AfterApply(o, s, resized) ==
    sync_cursor_from_confirmed(IF resized THEN reset(set_size(o, s.size)) ELSE o, s.cursor)

\* Datagram arm of run_pump: apply a fresh frame, reset on entry to the alternate screen,
\* cull, follow a resize, sync the caret.
Datagram ==
    /\ screen.epoch < MaxFrames
    /\ \E rtt \in Rtts :
        LET s == [size |-> shell.size, grid |-> shell.grid, cursor |-> shell.cursor,
                  epoch |-> screen.epoch + 1]
            o1 == IF shell.alt /\ ~wasAlt THEN reset(overlay) ELSE overlay
            o2 == cull(o1, s, rtt)
        IN  /\ screen' = s
            /\ wasAlt' = shell.alt
            /\ overlay' = AfterApply(o2, s, s.size # screen.size)
            /\ matched' = matched \cup {<<p.line, p.until>> : p \in {q \in Range(overlay.pending) :
                                            confirmed_cell(s, q.row, q.col) = q.ch}}
    /\ UNCHANGED <<inbox, shell, keys, resizes, answered, lines>>

\* Everything typed, read and shown.
Done ==
    /\ keys = MaxKeys /\ inbox = <<>> /\ screen.epoch = MaxFrames
    /\ UNCHANGED vars

Next == Stdin \/ ShellReads \/ WindowChange \/ Datagram \/ Done

Spec == Init /\ [][Next]_vars

---------------------------------------------------------------------------
(***************************************************************************)
(* A glyph typed after Enter, or after any other epoch reset, is shown     *)
(* only when the server's screen has already shown a glyph of that line    *)
(* and of that or a later epoch where it was predicted: the tentative      *)
(* epochs of cull and is_tentative, the guard predictor.rs relies on for   *)
(* passwords.  Only a connection's first line is shown at once.            *)
(***************************************************************************)
ShownWasMatched ==
    \A p \in Shown(overlay) :
        p.line > 0 \/ p.until > 0 => \E m \in matched : m[1] = p.line /\ m[2] >= p.until

(***************************************************************************)
(* No prediction survives a frame that may contradict it: each one left    *)
(* was typed after the frame on screen was applied (cull; "Pitfall 4", the *)
(* comparison that tolerates dropped datagrams).                           *)
(***************************************************************************)
PendingIsFresh ==
    \A p \in Range(overlay.pending) : p.required > screen.epoch

(***************************************************************************)
(* A caret or a glyph the overlay shows lies in the window that is on      *)
(* screen, through any sequence of motions, wide glyphs, Enters and window *)
(* changes (WR-01, Pitfall 6): the column one past the last is where the   *)
(* caret waits after filling a row.                                        *)
(***************************************************************************)
OverlayFitsScreen ==
    /\ CaretShown(overlay) => /\ overlay.cursor[1] < screen.size[2]
                              /\ overlay.cursor[2] <= screen.size[1]
    /\ \A p \in Shown(overlay) : <<p.row, p.col + Width(p.ch) - 1>> \in DOMAIN screen.grid

(***************************************************************************)
(* What cell_at's documentation says of noecho prompts: a prediction made  *)
(* after an Enter stays hidden "until the server confirms an echoed        *)
(* character".  It does not hold: Enter leaves the caret at column 0 with  *)
(* motion outstanding, so the caret is not synced past the prompt, and a   *)
(* key equal to the prompt's own glyph there counts as its echo.           *)
(***************************************************************************)
NoEchoHidden ==
    \A p \in Shown(overlay) : p.line > 0 => p.line \in answered

=============================================================================
